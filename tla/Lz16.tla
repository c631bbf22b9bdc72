-------------------------------- MODULE Lz16 --------------------------------
(***************************************************************************)
(* One LZ16 block: the match search of the four encoders lz16ENhashm, mc,  *)
(* Dm and Dmc (lib/c/lz16encode.c, lz16encode.h) over 16-bit words, the    *)
(* tokens of Lz16Tokens, and the decoders lz16DEm and lz16DEmc             *)
(* (lib/c/lz16decode.c), which copy in 64-bit units.  Positions are words  *)
(* from the start of the input or output.                                  *)
(***************************************************************************)
EXTENDS Lz16Tokens, FiniteSets, FiniteSetsExt

CONSTANTS Inputs,             \* records [inlen, word]: bytes, and a sequence of words
          Levels,             \* levels in use, of 1 .. 4
          Hash(_, _),         \* a hash of two words,
          HashSizes,          \* cut to one of these numbers of keys
          MYMATCHOFFSET_MAX   \* 2^20 in the code

\* mylz16Encode refuses 8 bytes and less; the token format has 20 bits for a distance.
ASSUME Lz16Assumption ==
  /\ \A x \in Inputs : /\ x.inlen \in Nat /\ x.inlen > 8
                       /\ x.word \in Seq(Nat) /\ Len(x.word) = (x.inlen + 1) \div 2
  /\ Levels \subseteq 1 .. 4
  /\ HashSizes \subseteq Nat \ {0}
  /\ MYMATCHOFFSET_MAX \in Nat /\ MYMATCHOFFSET_MAX <= 1048576

LIMIT_LEN_seven == 7

LIMIT_LEN == 8

MYRINGQUEUE_COUNT == 4

VARIABLES in,        \* pin
          level, size,
          pmyht,     \* the hash table: key -> position; a key not in it has 0 (calloc)
          pcdll,     \* levels 3 and 4: <<key, index>> -> position
          pi, charlen, pchar, sec,        \* the encoder
          reader, nchar, out, po, ret,    \* the decoder
          read,      \* end of the furthest read of the input, in bytes
          written,   \* end of the furthest store to the output, in bytes
          pc

encvars == <<pmyht, pcdll, pi, charlen, pchar, sec, read>>
decvars == <<reader, nchar, out, po, ret, written>>
vars == <<in, level, size, encvars, decvars, pc>>

In(k)  == At(in.word, k)    \* 0 behind the input, see InsideBuffers
NWords == (in.inlen + 1) \div 2
pinEnd == in.inlen \div 2 - LIMIT_LEN
UsesMc == level % 2 = 0    \* lz16ENhashmc, lz16ENhashDmc: flagsub 1
Deep   == level > 2        \* lz16ENhashDm, lz16ENhashDmc

Junk == -1

Key(p) == Hash(In(p), In(p + 1)) % size

Lookup(table, k) == IF k \in DOMAIN table THEN table[k] ELSE 0

\* myWriteHash for the positions P, in ascending order.
Hashed(table, P) ==
  [k \in DOMAIN table \cup {Key(p) : p \in P} |->
     LET Q == {p \in P : Key(p) = k} IN IF Q = {} THEN table[k] ELSE Max(Q)]

\* The start of an encoder: the first word is a literal.
Init == /\ in \in Inputs /\ level \in Levels /\ size \in HashSizes
        /\ pmyht = [k \in {Hash(in.word[1], in.word[2]) % size} |-> 0]
        /\ pcdll = <<>>
        /\ pi = 1 /\ charlen = 1 /\ pchar = <<in.word[1]>>
        /\ sec = EmptySections
        /\ reader = Unread /\ nchar = 0 /\ po = 0 /\ ret = 0
        /\ out = [k \in 0 .. (in.inlen + 1) \div 2 - 1 |-> Junk]
        /\ read = 4 /\ written = 0
        /\ pc = "search"

-----------------------------------------------------------------------------
(* The encoder: one action is one round of its loop.                       *)

\* *pmatch ^ ((DWORD *)pi)[0]
Same(p, m) == In(p) = In(m) /\ In(p + 1) = In(m + 1)

\* CharEQcountmacro compares four words at a time, until they differ or pinEnd
\* is passed, and counts three of the last four at most.
QuadEnd(p, k) == p + 2 + 4 * k
LastQuad(p, m) ==
  CHOOSE k \in 1 .. NWords :
    /\ QuadEnd(p, k) >= pinEnd \/ \E j \in 0 .. 3 : In(QuadEnd(p, k - 1) + j) # In(QuadEnd(m, k - 1) + j)
    /\ \A i \in 1 .. k - 1 : /\ QuadEnd(p, i) < pinEnd
                             /\ \A j \in 0 .. 3 : In(QuadEnd(p, i - 1) + j) = In(QuadEnd(m, i - 1) + j)
CharEQcount(p, m) ==
  LET k == LastQuad(p, m)
  IN  4 * (k - 1) + Max({n \in 0 .. 3 : \A j \in 0 .. n - 1 :
                           In(QuadEnd(p, k - 1) + j) = In(QuadEnd(m, k - 1) + j)})

\* The candidates at pi; the second one only at the deep levels, and only if
\* its match is longer.
First    == Lookup(pmyht, Key(pi))
ListKey  == <<Key(pi), In(pi + 8) % MYRINGQUEUE_COUNT>>
Second   == Lookup(pcdll, ListKey)
pmatch   == IF Deep /\ Same(pi, Second) /\ CharEQcount(pi, Second) > CharEQcount(pi, First)
            THEN Second ELSE First
pcdllNew == IF Deep
            THEN [k \in DOMAIN pcdll \cup {ListKey} |-> IF k = ListKey THEN pi ELSE pcdll[k]]
            ELSE pcdll

\* Where the furthest read of a round in which the first candidate matches ends.
ReadEnd == Max({read, 2 * (pi + (IF Deep THEN 9 ELSE 2))}
                 \cup {2 * QuadEnd(pi, LastQuad(pi, m)) : m \in {First, pmatch}})

literal == /\ pchar' = Append(pchar, In(pi))
           /\ charlen' = charlen + 1
           /\ pi' = pi + 1
           /\ pmyht' = Hashed(pmyht, {pi})
           /\ UNCHANGED sec

no_match ==
  /\ pc = "search" /\ pi < pinEnd
  /\ ~Same(pi, First)
  /\ literal
  /\ read' = Max({read, 2 * (pi + 2)})
  /\ UNCHANGED <<in, level, size, pcdll, decvars, pc>>

\* matchdistance>=MYMATCHOFFSET_MAX
too_far ==
  /\ pc = "search" /\ pi < pinEnd
  /\ Same(pi, First)
  /\ pi - pmatch >= MYMATCHOFFSET_MAX
  /\ literal
  /\ pcdll' = pcdllNew
  /\ read' = ReadEnd
  /\ UNCHANGED <<in, level, size, decvars, pc>>

MatchHashes_all(len, dis) == pi .. pi + Small(len, dis)

\* The positions of a match that go into the hash table: pi itself before the
\* search, then those of myWriteMatchtoHash, or one for a match of two words.
MatchHashes(len, dis) == IF len = 2 THEN {pi, pi + 1} ELSE pi .. pi + Small(len, dis) - 1

match ==
  /\ pc = "search" /\ pi < pinEnd
  /\ Same(pi, First)
  /\ pi - pmatch < MYMATCHOFFSET_MAX
  /\ LET t == [charlen |-> charlen, matchlen |-> CharEQcount(pi, pmatch),
               matchdistance |-> pi - pmatch]
     IN  /\ sec' = WriteToken(UsesMc, sec, t)
         /\ pmyht' = Hashed(pmyht, MatchHashes(t.matchlen + 2, t.matchdistance))
         /\ pi' = pi + t.matchlen + 2
  /\ charlen' = 0
  /\ pcdll' = pcdllNew
  /\ read' = ReadEnd
  /\ UNCHANGED <<in, level, size, pchar, decvars, pc>>

\* mylz16ENtailEndEx: the rest of the input is literal.  It is read in whole words,
\* the last one of an odd input with a byte that is not the input's.
last_block ==
  /\ pc = "search" /\ pi >= pinEnd
  /\ pchar' = pchar \o SubSeq(in.word, pi + 1, NWords)
  /\ charlen' = charlen + NWords - pi
  /\ sec' = WriteLast(sec, charlen')
  /\ pi' = NWords
  /\ read' = Max({read, 2 * NWords})
  /\ pc' = "decode"
  /\ UNCHANGED <<in, level, size, pmyht, pcdll, decvars>>

-----------------------------------------------------------------------------
(* The decoder: one action is one round of its loop.                       *)

Quads(n) == (n + 3) \div 4

\* mylz16_Copy64 within the output: each four words are read before they are
\* stored, and stored before the next four are read.
CopyQuad(o, to, from, i) ==
  [k \in DOMAIN o |-> IF k - to \in 4 * (i - 1) .. 4 * i - 1 THEN o[k - to + from] ELSE o[k]]
CopyQuads(o, to, from, n) ==
  LET f[i \in 0 .. Quads(n)] == IF i = 0 THEN o ELSE CopyQuad(f[i - 1], to, from, i)
  IN  f[Quads(n)]

\* mylz16_Copy64 of n literals out of pchar.
CopyLiterals(o, to, n) ==
  [k \in DOMAIN o |-> IF k - to \in 0 .. 4 * Quads(n) - 1 THEN At(pchar, nchar + k - to) ELSE o[k]]

\* The minimum sample: the four words at from, some of them not written yet,
\* are stored 1 + n/dis times, dis words apart; a later store wins.
CopySample(o, to, n, dis) ==
  LET x(j) == IF to - dis + j \in DOMAIN o THEN o[to - dis + j] ELSE Junk
      from(k) == Small((k - to) \div dis, n \div dis) * dis
  IN  [k \in DOMAIN o |->
         IF k >= to /\ k - to - from(k) < 4 THEN x(k - to - from(k)) ELSE o[k]]

\* *po++=*pmatch++;*po++=*pmatch++;
CopyTwo(o, to, dis) ==
  LET first == [o EXCEPT ![to] = o[to - dis]]
  IN  [first EXCEPT ![to + 1] = first[to + 1 - dis]]

ByQuads_from_3(dis) == dis > 2

ByQuads(dis) == dis > 3

\* What a round returns early: -3 behind the output, -4 before it, -5 nowhere.
Refusal(t) ==
  LET p == po + t.charlen
      n == t.matchlen + 2
  IN  IF t.charlen > 0 /\ 2 * p > in.inlen THEN -3
      ELSE IF t.matchdistance > p THEN -4
      ELSE IF t.matchlen > 0 /\ 2 * (p + n) > in.inlen THEN -3
      ELSE IF t.matchlen > 0 /\ t.matchdistance = 0 THEN -5
      ELSE 0

\* Where the last store of a round ends.
StoreEnd(t) ==
  LET p == po + t.charlen
      n == t.matchlen + 2
  IN  Max({po + 4 * Quads(t.charlen)} \cup
          {IF t.matchlen = 0 THEN p + 2
           ELSE IF ByQuads(t.matchdistance) THEN p + 4 * Quads(n)
           ELSE p + (n \div t.matchdistance) * t.matchdistance + 4})

decode_token ==
  /\ pc = "decode" /\ MoreTokens(sec, reader)
  /\ LET r == ReadToken(UsesMc, sec, reader)
         t == r.token
         p == po + t.charlen
         o == CopyLiterals(out, po, t.charlen)
     IN  IF Refusal(t) # 0
         THEN ret' = Refusal(t) /\ pc' = "done" /\ UNCHANGED <<reader, nchar, out, po, written>>
         ELSE /\ out' = IF t.matchlen = 0 THEN CopyTwo(o, p, t.matchdistance)
                        ELSE IF ByQuads(t.matchdistance)
                        THEN CopyQuads(o, p, p - t.matchdistance, t.matchlen + 2)
                        ELSE CopySample(o, p, t.matchlen + 2, t.matchdistance)
              /\ written' = Max({written, 2 * StoreEnd(t)})
              /\ po' = p + t.matchlen + 2
              /\ nchar' = nchar + t.charlen
              /\ reader' = r.reader
              /\ UNCHANGED <<ret, pc>>
  /\ UNCHANGED <<in, level, size, encvars>>

\* The last block word by word, and the last word byte by byte: of an input of
\* odd length it has one.
decode_last ==
  /\ pc = "decode" /\ ~MoreTokens(sec, reader)
  /\ LET r == ReadLast(sec, reader)
         n == r.charlen - 1
         w == At(pchar, nchar + n)
     IN  IF 2 * (po + n) >= in.inlen
         THEN ret' = -3 /\ UNCHANGED <<reader, nchar, out, po, written>>
         ELSE /\ out' = [k \in DOMAIN out |->
                           IF k - po \in 0 .. n - 1 THEN At(pchar, nchar + k - po)
                           ELSE IF k = po + n THEN IF in.inlen % 2 = 1 THEN w % 256 ELSE w
                           ELSE out[k]]
              /\ po' = po + n
              /\ ret' = 2 * (po + n) + 1 + (IF in.inlen % 2 = 0 THEN 1 ELSE 0)
              /\ written' = Max({written, ret'})
              /\ nchar' = nchar + r.charlen
              /\ reader' = r.reader
  /\ pc' = "done"
  /\ UNCHANGED <<in, level, size, encvars>>

Next == no_match \/ too_far \/ match \/ last_block \/ decode_token \/ decode_last

Spec == Init /\ [][Next]_vars

-----------------------------------------------------------------------------

\* The search never finds the position it stands at, or one ahead: all that is
\* in the tables lies behind pi, although whole matches are entered at once and
\* the second table only now and then.  (A distance of 0 is -5 for the decoder.)
TablesBehind ==
  pc = "search" => /\ \A k \in DOMAIN pmyht : pmyht[k] < pi
                   /\ \A k \in DOMAIN pcdll : pcdll[k] < pi

\* What is decoded is the input, at every step and in the end, for matches that
\* overlap their own output and for samples read before they are complete; no
\* block of the encoder is refused, and the length returned is the input's.
BlockLossless ==
  /\ \A k \in 0 .. po - 1 : out[k] = In(k)
  /\ pc = "done" => /\ ret = in.inlen
                    /\ out[po] = IF in.inlen % 2 = 1 THEN In(po) % 256 ELSE In(po)
                    /\ po = NWords - 1
                    /\ nchar = Len(pchar)

\* The search reads ahead (nine words at the deep levels, four at a time in a
\* comparison) and the decoder stores ahead (up to four words behind a match,
\* three behind literals) without a test of its own: the LIMIT_LEN words kept out
\* of the search are just enough.  Only the last block, copied in whole words, goes
\* behind the input: by one byte, if the input has an odd length, and by no more.
InsideBuffers ==
  /\ pc = "search" => read <= in.inlen
  /\ read <= in.inlen + (in.inlen % 2)
  /\ written <= in.inlen
=============================================================================
