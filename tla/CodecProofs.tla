---------------------------- MODULE CodecProofs -----------------------------
(***************************************************************************)
(* Proofs about Lz16Codec: for any tokens, any number of them and any last *)
(* block, the decoder reads the tokens that the encoder of its level       *)
(* wrote, and the sections but pchar keep to their share of the input.     *)
(*                                                                         *)
(* The decoder finds the next token from four positions that it keeps on   *)
(* its own.  The invariant names them: a path is the reader before each    *)
(* token, so that the codes of the tokens stand along the path.            *)
(***************************************************************************)
EXTENDS Lz16Codec, TokenProofs

-----------------------------------------------------------------------------
(* What has been read.                                                     *)

Prefix(g, ts) == /\ g \in Seq(TokenSet)
                 /\ Len(g) <= Len(ts)
                 /\ \A k \in 1 .. Len(g) : g[k] = ts[k]

LEMMA PrefixIsSubSeq ==
  ASSUME NEW ts \in Seq(TokenSet), NEW g, Prefix(g, ts)
  PROVE  g = SubSeq(ts, 1, Len(g))
<1>1. g \in Seq(TokenSet) /\ Len(g) \in 0 .. Len(ts) /\ \A k \in 1 .. Len(g) : g[k] = ts[k]
  BY DEF Prefix
<1> DEFINE u == SubSeq(ts, 1, Len(g))
<1>2. u \in Seq(TokenSet) /\ Len(u) = Len(g) /\ \A k \in 1 .. Len(g) : u[k] = ts[k]
  BY <1>1
<1> HIDE DEF u
<1>3. g = u
  BY <1>1, <1>2, SeqEqual
<1> QED BY <1>3 DEF u

LEMMA PrefixGrows ==
  ASSUME NEW ts \in Seq(TokenSet), NEW g, Prefix(g, ts), Len(g) < Len(ts)
  PROVE  Prefix(Append(g, ts[Len(g) + 1]), ts) /\ Len(Append(g, ts[Len(g) + 1])) = Len(g) + 1
<1>1. g \in Seq(TokenSet) /\ Len(g) \in Nat /\ \A k \in 1 .. Len(g) : g[k] = ts[k]
  BY DEF Prefix
<1>2. Len(g) + 1 \in 1 .. Len(ts)
  BY <1>1
<1> DEFINE t == ts[Len(g) + 1]
           u == Append(g, t)
<1>3. t \in TokenSet
  BY <1>2
<1>4. /\ u \in Seq(TokenSet) /\ Len(u) = Len(g) + 1 /\ u[Len(g) + 1] = t
      /\ \A k \in 1 .. Len(g) : u[k] = g[k]
  <2> HIDE DEF t
  <2> QED BY <1>1, <1>3
<1> HIDE DEF u
<1>5. \A k \in 1 .. Len(u) : u[k] = ts[k]
  BY <1>1, <1>4
<1>6. Prefix(u, ts)
  BY <1>2, <1>4, <1>5 DEF Prefix
<1> QED BY <1>4, <1>6 DEF u

LEMMA PrefixIsAll ==
  ASSUME NEW ts \in Seq(TokenSet), NEW g, Prefix(g, ts), ~ (Len(g) < Len(ts))
  PROVE  g = ts
<1>1. g \in Seq(TokenSet) /\ Len(g) = Len(ts) /\ \A k \in 1 .. Len(g) : g[k] = ts[k]
  BY DEF Prefix
<1> QED BY <1>1, SeqEqual

LEMMA PrefixEmpty ==
  ASSUME NEW ts \in Seq(TokenSet)
  PROVE  Prefix(<<>>, ts)
BY DEF Prefix

-----------------------------------------------------------------------------
(* The invariant.                                                          *)

TypeInv == /\ mc \in BOOLEAN
           /\ tokens \in Seq(TokenSet)
           /\ pi \in Nat
           /\ lastlen \in Nat
           /\ sec \in SectionSet
           /\ pc \in {"write", "read", "done"}
           /\ pc = "write" => lastlen = 0
           /\ pc # "write" => lastlen >= 4

\* SectionsKeepShare without the divisions.
ShareInv == /\ 2 * Len(sec.pdistanceflag) <= pi + lastlen
            /\ 2 * Len(sec.pflag) <= pi + lastlen
            /\ Len(sec.pdistance) <= pi + lastlen
            /\ Len(sec.pflagExx) <= pi + lastlen

Writing == /\ got = <<>> /\ reader = Unread
           /\ \E Q : Path(Q, mc, tokens, sec) /\ Q[Len(tokens)] = EndOf(sec)

Reading == /\ Prefix(got, tokens)
           /\ \E Q : /\ Path(Q, mc, tokens, sec)
                     /\ Ends(Q[Len(tokens)], sec, lastlen)
                     /\ reader = Q[Len(got)]

AllRead == /\ got = Append(tokens, [charlen |-> lastlen])
           /\ reader.pdistance = Len(sec.pdistance)
           /\ reader.pflag = Len(sec.pflag)
           /\ 2 * (reader.pflagExx \div 2 + 1) = Len(sec.pflagExx)

CodecInv == /\ TypeInv
            /\ ShareInv
            /\ pc = "write" => Writing
            /\ pc = "read" => Reading
            /\ pc = "done" => AllRead

\* A section that takes k more units for w more words.
LEMMA HalfShare ==
  ASSUME NEW n \in Nat, NEW x \in Nat, NEW k \in Nat, NEW p \in Nat, NEW w \in Nat,
         x <= n + k, 2 * k <= w, 2 * n <= p
  PROVE  2 * x <= p + w
OBVIOUS

LEMMA FullShare ==
  ASSUME NEW n \in Nat, NEW x \in Nat, NEW k \in Nat, NEW p \in Nat, NEW w \in Nat,
         x <= n + k, k <= w, n <= p
  PROVE  x <= p + w
OBVIOUS

LEMMA TokenIs ==
  ASSUME NEW t, IsToken(t)
  PROVE  t \in TokenSet
<1>1. t \in [charlen : Nat, matchlen : Nat, matchdistance : 1 .. MYMATCHOFFSET_MAX - 1]
  BY Zenon DEF IsToken
<1>2. ASSUME NEW M \in Nat, M = MYMATCHOFFSET_MAX PROVE 1 .. M - 1 \subseteq Distances
  <2>1. M <= 1048576
    BY <1>2, SMT DEF MYMATCHOFFSET_MAX
  <2>2. ASSUME NEW d \in 1 .. M - 1 PROVE d \in Nat /\ d < 1048576
    BY <2>1, SMT
  <2> QED BY <2>2, SMT DEF Distances
<1>4. MYMATCHOFFSET_MAX \in Nat
  BY SMT DEF MYMATCHOFFSET_MAX
<1>3. 1 .. MYMATCHOFFSET_MAX - 1 \subseteq Distances
  BY <1>2, <1>4, Zenon
<1> QED BY <1>1, <1>3 DEF TokenSet

LEMMA InitCodec == Init => CodecInv
<1> SUFFICES ASSUME Init PROVE CodecInv
  OBVIOUS
<1> USE DEF Init
<1>1. EmptySections \in SectionSet /\ EndOf(EmptySections) = Unread
  BY DEF EmptySections, SectionSet, EndOf, Unread
<1>2. /\ Len(sec.pdistanceflag) = 0 /\ Len(sec.pflag) = 0
      /\ Len(sec.pdistance) = 0 /\ Len(sec.pflagExx) = 0
  BY DEF EmptySections
<1>3. TypeInv
  BY <1>1 DEF TypeInv
<1>4. ShareInv
  BY <1>2 DEF ShareInv
<1>5. Writing
  <2>1. \E Q : Path(Q, mc, <<>>, sec) /\ Q[Len(<<>>)] = Unread
    BY PathStarts
  <2>2. tokens = <<>> /\ EndOf(sec) = Unread /\ got = <<>> /\ reader = Unread
    BY <1>1
  <2> QED BY <2>1, <2>2, Zenon DEF Writing
<1> QED BY <1>3, <1>4, <1>5 DEF CodecInv

LEMMA WriteTokenKeeps ==
  ASSUME CodecInv, write_token
  PROVE  CodecInv'
<1>1. /\ pc = "write" /\ pc' = "write" /\ mc' = mc /\ lastlen' = lastlen
      /\ reader' = reader /\ got' = got
  BY DEF write_token
<1>2. PICK t : /\ t \in FirstTokens \cup Tokens
               /\ sec' = WriteToken(mc, sec, t) /\ tokens' = Append(tokens, t)
               /\ pi' = pi + t.charlen + t.matchlen + 2
  BY Zenon DEF write_token
<1>3. t \in TokenSet
  BY <1>2, TokensAssumption, TokenIs
<1>4. TypeInv /\ ShareInv /\ Writing
  BY <1>1, Zenon DEF CodecInv
<1>5. /\ mc \in BOOLEAN /\ tokens \in Seq(TokenSet) /\ pi \in Nat
      /\ sec \in SectionSet /\ lastlen = 0
  BY <1>1, <1>4 DEF TypeInv
<1>6. t.charlen \in Nat /\ t.matchlen \in Nat
  BY <1>3 DEF TokenSet
<1>7. /\ sec' \in SectionSet
      /\ Len(sec'.pdistanceflag) = Len(sec.pdistanceflag) + 1
      /\ Len(sec'.pdistance) <= Len(sec.pdistance) + 2
      /\ Len(sec'.pflag) <= Len(sec.pflag) + 1
      /\ Len(sec'.pflagExx) <= Len(sec.pflagExx) + (t.charlen + t.matchlen + 2)
  BY <1>2, <1>3, <1>5, TokenWritten, Zenon
<1>8. TypeInv'
  <2>1. tokens' \in Seq(TokenSet)
    <3>1. tokens' = Append(tokens, t)
      BY <1>2
    <3> QED BY <1>3, <1>5, <3>1
  <2>2. pi' \in Nat
    BY <1>2, <1>5, <1>6
  <2> QED BY <1>1, <1>5, <1>7, <2>1, <2>2 DEF TypeInv
<1>9. ShareInv'
  <2>1. /\ Len(sec.pdistanceflag) \in Nat /\ Len(sec.pdistance) \in Nat
        /\ Len(sec.pflag) \in Nat /\ Len(sec.pflagExx) \in Nat
    BY <1>5 DEF SectionSet
  <2>2. /\ Len(sec'.pdistanceflag) \in Nat /\ Len(sec'.pdistance) \in Nat
        /\ Len(sec'.pflag) \in Nat /\ Len(sec'.pflagExx) \in Nat
    <3>1. sec' \in SectionSet
      BY <1>7
    <3> QED BY <3>1 DEF SectionSet
  <2>3. pi' + lastlen' = pi + (t.charlen + t.matchlen + 2) /\ pi + lastlen = pi
    BY <1>1, <1>2, <1>5, <1>6
  <2>4. /\ 2 * Len(sec.pdistanceflag) <= pi /\ 2 * Len(sec.pflag) <= pi
        /\ Len(sec.pdistance) <= pi /\ Len(sec.pflagExx) <= pi
    BY <1>4, <2>3 DEF ShareInv
  <2>5. /\ 2 * Len(sec'.pdistanceflag) <= pi + (t.charlen + t.matchlen + 2)
        /\ 2 * Len(sec'.pflag) <= pi + (t.charlen + t.matchlen + 2)
        /\ Len(sec'.pdistance) <= pi + (t.charlen + t.matchlen + 2)
        /\ Len(sec'.pflagExx) <= pi + (t.charlen + t.matchlen + 2)
    <3> DEFINE w == t.charlen + t.matchlen + 2
    <3>1. w \in Nat /\ 1 \in Nat /\ 2 \in Nat /\ 2 * 1 <= w /\ 2 <= w /\ w <= w
      BY <1>6
    <3>2. Len(sec'.pdistanceflag) <= Len(sec.pdistanceflag) + 1
      BY <1>7, <2>1, <2>2
    <3>3. /\ Len(sec'.pdistance) <= Len(sec.pdistance) + 2
          /\ Len(sec'.pflag) <= Len(sec.pflag) + 1
          /\ Len(sec'.pflagExx) <= Len(sec.pflagExx) + w
      BY <1>7
    <3> HIDE DEF w
    <3>4. /\ 2 * Len(sec'.pdistanceflag) <= pi + w /\ 2 * Len(sec'.pflag) <= pi + w
          /\ Len(sec'.pdistance) <= pi + w /\ Len(sec'.pflagExx) <= pi + w
      BY <1>5, <2>1, <2>2, <2>4, <3>1, <3>2, <3>3, HalfShare, FullShare, Zenon
    <3> QED BY <3>4 DEF w
  <2> QED BY <2>3, <2>5 DEF ShareInv
<1>10. Writing'
  <2>1. PICK Q : Path(Q, mc, tokens, sec) /\ Q[Len(tokens)] = EndOf(sec)
    BY <1>4 DEF Writing
  <2>2. \E R : /\ Path(R, mc, Append(tokens, t), WriteToken(mc, sec, t))
               /\ R[Len(Append(tokens, t))] = EndOf(WriteToken(mc, sec, t))
    BY <1>3, <1>5, <2>1, PathGrows
  <2>3. \E R : Path(R, mc', tokens', sec') /\ R[Len(tokens')] = EndOf(sec')
    BY <1>1, <1>2, <2>2, Zenon
  <2>4. got' = <<>> /\ reader' = Unread
    BY <1>1, <1>4 DEF Writing
  <2> QED BY <2>3, <2>4, Zenon DEF Writing
<1> QED BY <1>1, <1>8, <1>9, <1>10 DEF CodecInv

LEMMA WriteLastKeeps ==
  ASSUME CodecInv, write_last
  PROVE  CodecInv'
<1>1. /\ pc = "write" /\ pc' = "read" /\ mc' = mc /\ tokens' = tokens /\ pi' = pi
      /\ reader' = reader /\ got' = got
  BY DEF write_last
<1>2. PICK l \in LastLens : lastlen' = l /\ sec' = WriteLast(sec, l)
  BY DEF write_last
<1>3. l \in Nat /\ l >= 4
  BY <1>2, TokensAssumption
<1>4. TypeInv /\ ShareInv /\ Writing
  BY <1>1, Zenon DEF CodecInv
<1>5. /\ mc \in BOOLEAN /\ tokens \in Seq(TokenSet) /\ pi \in Nat
      /\ sec \in SectionSet /\ lastlen = 0
  BY <1>1, <1>4 DEF TypeInv
<1>6. /\ sec' \in SectionSet
      /\ Len(sec'.pdistanceflag) = Len(sec.pdistanceflag) + 1
      /\ Len(sec'.pdistance) = Len(sec.pdistance)
      /\ Len(sec'.pflag) = Len(sec.pflag) + Len(LastBytes(l))
      /\ Holds(sec'.pflag, Len(sec.pflag), LastBytes(l))
      /\ Len(sec'.pflagExx) = 2 * (Len(sec.pflagExx) \div 2 + 1)
      /\ \A r \in ReaderSet, c \in CodeSet : Written(sec, r, c) => Written(sec', r, c)
  BY <1>2, <1>3, <1>5, LastWritten, Zenon
<1>7. TypeInv'
  BY <1>1, <1>2, <1>3, <1>5, <1>6 DEF TypeInv
<1>8. ShareInv'
  <2>1. /\ Len(sec.pdistanceflag) \in Nat /\ Len(sec.pdistance) \in Nat
        /\ Len(sec.pflag) \in Nat /\ Len(sec.pflagExx) \in Nat
    BY <1>5 DEF SectionSet
  <2>2. /\ Len(sec'.pdistanceflag) \in Nat /\ Len(sec'.pdistance) \in Nat
        /\ Len(sec'.pflag) \in Nat /\ Len(sec'.pflagExx) \in Nat
    <3>1. sec' \in SectionSet
      BY <1>6
    <3> QED BY <3>1 DEF SectionSet
  <2>3. pi' + lastlen' = pi + l /\ pi + lastlen = pi
    BY <1>1, <1>2, <1>3, <1>5
  <2>4. /\ 2 * Len(sec.pdistanceflag) <= pi /\ 2 * Len(sec.pflag) <= pi
        /\ Len(sec.pdistance) <= pi /\ Len(sec.pflagExx) <= pi
    BY <1>4, <2>3 DEF ShareInv
  <2>5. LastBytes(l) \in Seq(Nat) /\ 2 * Len(LastBytes(l)) <= l
    BY <1>3, LastShape
  <2>6. /\ 0 \in Nat /\ 1 \in Nat /\ 2 \in Nat /\ Len(LastBytes(l)) \in Nat
        /\ 2 * 1 <= l /\ 0 <= l /\ 2 <= l
    BY <1>3, <2>5
  <2>7. Len(sec'.pdistanceflag) <= Len(sec.pdistanceflag) + 1
    BY <1>6, <2>1, <2>2
  <2>8. Len(sec'.pdistance) <= Len(sec.pdistance) + 0
    BY <1>6, <2>1, <2>2
  <2>9. Len(sec'.pflag) <= Len(sec.pflag) + Len(LastBytes(l))
    BY <1>6, <2>1, <2>2, <2>6
  <2>10. Len(sec'.pflagExx) <= Len(sec.pflagExx) + 2
    <3>1. Len(sec'.pflagExx) = 2 * (Len(sec.pflagExx) \div 2 + 1)
      BY <1>6
    <3>2. ASSUME NEW n \in Nat PROVE 2 * (n \div 2 + 1) <= n + 2
      OBVIOUS
    <3> QED BY <2>1, <3>1, <3>2, Zenon
  <2>11. 2 * Len(LastBytes(l)) <= l
    BY <2>5
  <2>12. /\ 2 * Len(sec'.pdistanceflag) <= pi + l /\ 2 * Len(sec'.pflag) <= pi + l
         /\ Len(sec'.pdistance) <= pi + l /\ Len(sec'.pflagExx) <= pi + l
    BY <1>3, <1>5, <2>1, <2>2, <2>4, <2>6, <2>7, <2>8, <2>9, <2>10, <2>11, HalfShare, FullShare, Zenon
  <2> QED BY <2>3, <2>12 DEF ShareInv
<1>9. Reading'
  <2>1. PICK Q : Path(Q, mc, tokens, sec) /\ Q[Len(tokens)] = EndOf(sec)
    BY <1>4 DEF Writing
  <2>2. Path(Q, mc, tokens, sec')
    BY <1>5, <1>6, <2>1, PathStays
  <2> DEFINE e == Q[Len(tokens)]
  <2>3. /\ e.pdistanceflag = Len(sec.pdistanceflag) /\ e.pdistance = Len(sec.pdistance)
        /\ e.pflag = Len(sec.pflag) /\ e.pflagExx = Len(sec.pflagExx)
    BY <2>1 DEF EndOf
  <2> HIDE DEF e
  <2>4. Ends(e, sec', lastlen')
    BY <1>2, <1>6, <2>3, Zenon DEF Ends
  <2>5. got' = <<>> /\ reader' = Unread
    BY <1>1, <1>4 DEF Writing
  <2>6. reader' = Q[Len(got')]
    <3>1. Len(got') = 0 /\ Q[0] = Unread
      BY <2>1, <2>5 DEF Path
    <3> QED BY <2>5, <3>1
  <2>7. Prefix(got', tokens')
    <3>1. Prefix(<<>>, tokens)
      BY <1>5, PrefixEmpty
    <3> QED BY <1>1, <2>5, <3>1, Zenon
  <2>8. \E P : /\ Path(P, mc', tokens', sec')
               /\ Ends(P[Len(tokens')], sec', lastlen')
               /\ reader' = P[Len(got')]
    BY <1>1, <2>2, <2>4, <2>6, Zenon DEF e
  <2> QED BY <2>7, <2>8, Zenon DEF Reading
<1> QED BY <1>1, <1>7, <1>8, <1>9 DEF CodecInv

\* While tokens are read, the decoder's own count tells whether there are more.
LEMMA CountsTokens ==
  ASSUME NEW Q, Path(Q, mc, tokens, sec), Ends(Q[Len(tokens)], sec, lastlen), TypeInv,
         Prefix(got, tokens), reader = Q[Len(got)]
  PROVE  MoreTokens(sec, reader) <=> Len(got) < Len(tokens)
<1>1. tokens \in Seq(TokenSet) /\ Len(got) \in 0 .. Len(tokens)
  BY DEF Prefix, TypeInv
<1>2. MoreTokens(sec, Q[Len(got)]) <=> Len(got) < Len(tokens)
  BY <1>1, PathCounts
<1> QED BY <1>2, Zenon

LEMMA ReadTokenKeeps ==
  ASSUME CodecInv, read_token
  PROVE  CodecInv'
<1>1. /\ pc = "read" /\ pc' = "read" /\ mc' = mc /\ tokens' = tokens /\ pi' = pi
      /\ lastlen' = lastlen /\ sec' = sec /\ MoreTokens(sec, reader)
  BY DEF read_token
<1>2. /\ got' = Append(got, ReadToken(mc, sec, reader).token)
      /\ reader' = ReadToken(mc, sec, reader).reader
  BY Zenon DEF read_token
<1>3. TypeInv /\ ShareInv /\ Reading
  BY <1>1 DEF CodecInv
<1>4. mc \in BOOLEAN /\ tokens \in Seq(TokenSet) /\ sec \in SectionSet
  BY <1>3 DEF TypeInv
<1>5. Prefix(got, tokens)
  BY <1>3 DEF Reading
<1>6. PICK Q : /\ Path(Q, mc, tokens, sec)
               /\ Ends(Q[Len(tokens)], sec, lastlen)
               /\ reader = Q[Len(got)]
  BY <1>3, Zenon DEF Reading
<1>7. Len(got) < Len(tokens)
  BY <1>1, <1>3, <1>5, <1>6, CountsTokens
<1>8. Len(got) \in 0 .. Len(tokens) - 1
  BY <1>4, <1>5, <1>7 DEF Prefix
<1> DEFINE t == tokens[Len(got) + 1]
           e == Q[Len(got) + 1]
<1>9. ReadToken(mc, sec, reader) = [token |-> t, reader |-> e]
  <2>1. ReadToken(mc, sec, Q[Len(got)]) = [token |-> t, reader |-> e]
    BY <1>4, <1>6, <1>8, PathReads
  <2> QED BY <1>6, <2>1, Zenon
<1>10. got' = Append(got, t) /\ reader' = e
  <2> HIDE DEF t, e
  <2>1. ReadToken(mc, sec, reader).token = t /\ ReadToken(mc, sec, reader).reader = e
    BY <1>9
  <2> QED BY <1>2, <2>1, Zenon
<1>11. Prefix(Append(got, t), tokens) /\ Len(Append(got, t)) = Len(got) + 1
  BY <1>4, <1>5, <1>7, PrefixGrows
<1> HIDE DEF t
<1>12. Reading'
  <2>1. Prefix(got', tokens') /\ Len(got') = Len(got) + 1
    BY <1>1, <1>10, <1>11, Zenon
  <2>2. reader' = Q[Len(got')]
    BY <1>10, <2>1, Zenon
  <2>3. \E P : /\ Path(P, mc', tokens', sec')
               /\ Ends(P[Len(tokens')], sec', lastlen')
               /\ reader' = P[Len(got')]
    BY <1>1, <1>6, <2>2, Zenon
  <2> QED BY <2>1, <2>3, Zenon DEF Reading
<1>13. TypeInv'
  BY <1>1, <1>3 DEF TypeInv
<1>14. ShareInv'
  BY <1>1, <1>3, Zenon DEF ShareInv
<1> QED BY <1>1, <1>12, <1>13, <1>14 DEF CodecInv

LEMMA ReadLastKeeps ==
  ASSUME CodecInv, read_last
  PROVE  CodecInv'
<1>1. /\ pc = "read" /\ pc' = "done" /\ mc' = mc /\ tokens' = tokens /\ pi' = pi
      /\ lastlen' = lastlen /\ sec' = sec /\ ~ MoreTokens(sec, reader)
  BY DEF read_last
<1>2. /\ got' = Append(got, [charlen |-> ReadLast(sec, reader).charlen])
      /\ reader' = ReadLast(sec, reader).reader
  BY Zenon DEF read_last
<1>3. TypeInv /\ ShareInv /\ Reading
  BY <1>1 DEF CodecInv
<1>4. /\ mc \in BOOLEAN /\ tokens \in Seq(TokenSet) /\ sec \in SectionSet
      /\ lastlen \in Nat /\ lastlen >= 4
  BY <1>1, <1>3 DEF TypeInv
<1>5. Prefix(got, tokens)
  BY <1>3 DEF Reading
<1>6. PICK Q : /\ Path(Q, mc, tokens, sec)
               /\ Ends(Q[Len(tokens)], sec, lastlen)
               /\ reader = Q[Len(got)]
  BY <1>3, Zenon DEF Reading
<1>7. ~ (Len(got) < Len(tokens))
  BY <1>1, <1>3, <1>5, <1>6, CountsTokens
<1>8. got = tokens
  BY <1>4, <1>5, <1>7, PrefixIsAll
<1>9. reader = Q[Len(tokens)]
  BY <1>6, <1>8, Zenon
<1>10. reader \in ReaderSet
  <2>1. Q \in [0 .. Len(tokens) -> ReaderSet] /\ Len(tokens) \in 0 .. Len(tokens)
    BY <1>4, <1>6 DEF Path
  <2> QED BY <1>9, <2>1
<1> DEFINE b == Len(LastBytes(lastlen))
<1>11. /\ Len(sec.pdistance) = reader.pdistance
       /\ Holds(sec.pflag, reader.pflag, LastBytes(lastlen))
       /\ Len(sec.pflag) = reader.pflag + b
       /\ Len(sec.pflagExx) = 2 * (reader.pflagExx \div 2 + 1)
  <2>1. Ends(reader, sec, lastlen)
    BY <1>6, <1>9, Zenon
  <2> QED BY <2>1, Zenon DEF Ends
<1>12. ReadLast(sec, reader) =
         [charlen |-> lastlen, reader |-> [reader EXCEPT !.pflag = reader.pflag + b]]
  BY <1>4, <1>10, <1>11, LastReads
<1> HIDE DEF b
<1>13. /\ ReadLast(sec, reader).charlen = lastlen
       /\ ReadLast(sec, reader).reader = [reader EXCEPT !.pflag = reader.pflag + b]
  BY <1>12
<1>14. /\ reader'.pdistance = reader.pdistance /\ reader'.pflag = reader.pflag + b
       /\ reader'.pflagExx = reader.pflagExx
  <2>1. reader' = [reader EXCEPT !.pflag = reader.pflag + b]
    BY <1>2, <1>13, Zenon
  <2> QED BY <1>10, <2>1 DEF ReaderSet
<1>15. got' = Append(tokens, [charlen |-> lastlen])
  BY <1>2, <1>8, <1>13, Zenon
<1>16. AllRead'
  BY <1>1, <1>11, <1>14, <1>15, Zenon DEF AllRead
<1>17. TypeInv'
  BY <1>1, <1>3 DEF TypeInv
<1>18. ShareInv'
  BY <1>1, <1>3, Zenon DEF ShareInv
<1> QED BY <1>1, <1>16, <1>17, <1>18 DEF CodecInv

LEMMA NextKeeps == CodecInv /\ [Next]_vars => CodecInv'
<1> SUFFICES ASSUME CodecInv, [Next]_vars PROVE CodecInv'
  OBVIOUS
<1>1. CASE write_token
  BY <1>1, WriteTokenKeeps
<1>2. CASE write_last
  BY <1>2, WriteLastKeeps
<1>3. CASE read_token
  BY <1>3, ReadTokenKeeps
<1>4. CASE read_last
  BY <1>4, ReadLastKeeps
<1>5. CASE UNCHANGED vars
  <2>1. /\ mc' = mc /\ tokens' = tokens /\ pi' = pi /\ lastlen' = lastlen
        /\ sec' = sec /\ reader' = reader /\ got' = got /\ pc' = pc
    BY <1>5 DEF vars
  <2> QED BY <2>1, Zenon DEF CodecInv, TypeInv, ShareInv, Writing, Reading, AllRead
<1> QED BY <1>1, <1>2, <1>3, <1>4, <1>5 DEF Next

\* In every reachable state the codes of the tokens stand along a path from
\* the start of the sections, and the reader is on it.
THEOREM CodecInvariant == Spec => []CodecInv
<1>1. Init => CodecInv
  BY InitCodec
<1>2. CodecInv /\ [Next]_vars => CodecInv'
  BY NextKeeps
<1> QED BY <1>1, <1>2, PTL DEF Spec

\* The decoder's positions never drift: whatever tokens the encoder of its level
\* wrote are read back, and every section is read to its end.
THEOREM TokensAreReadBack == Spec => []TokensReadBack
<1>1. CodecInv => TokensReadBack
  <2> SUFFICES ASSUME CodecInv PROVE TokensReadBack
    OBVIOUS
  <2>1. pc = "read" => got = SubSeq(tokens, 1, Len(got))
    <3> SUFFICES ASSUME pc = "read" PROVE got = SubSeq(tokens, 1, Len(got))
      OBVIOUS
    <3>1. tokens \in Seq(TokenSet) /\ Prefix(got, tokens)
      BY DEF CodecInv, TypeInv, Reading
    <3> QED BY <3>1, PrefixIsSubSeq
  <2>2. pc = "done" => AllRead
    BY DEF CodecInv
  <2> QED BY <2>1, <2>2, Zenon DEF TokensReadBack, AllRead
<1> QED BY <1>1, CodecInvariant, PTL

\* No choice of tokens makes a section other than pchar run over its share of
\* the input, which the encoder never tests while it writes.
THEOREM SharesAreKept == Spec => []SectionsKeepShare
<1>1. CodecInv => SectionsKeepShare
  <2> SUFFICES ASSUME CodecInv PROVE SectionsKeepShare
    OBVIOUS
  <2>1. /\ Len(sec.pdistanceflag) \in Nat /\ Len(sec.pdistance) \in Nat
        /\ Len(sec.pflag) \in Nat /\ Len(sec.pflagExx) \in Nat
        /\ pi + lastlen \in Nat
    <3>1. sec \in SectionSet /\ pi \in Nat /\ lastlen \in Nat
      BY DEF CodecInv, TypeInv
    <3> QED BY <3>1 DEF SectionSet
  <2>2. ShareInv
    BY DEF CodecInv
  <2>3. ASSUME NEW n \in Nat, NEW w \in Nat, 2 * n <= w PROVE n <= w \div 2
    BY <2>3
  <2>4. /\ Len(sec.pdistanceflag) <= (pi + lastlen) \div 2
        /\ Len(sec.pflag) <= (pi + lastlen) \div 2
    BY <2>1, <2>2, <2>3, Zenon DEF ShareInv
  <2> QED BY <2>2, <2>4, Zenon DEF ShareInv, SectionsKeepShare
<1> QED BY <1>1, CodecInvariant, PTL
=============================================================================
