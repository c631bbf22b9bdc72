----------------------------- MODULE Lz16Codec ------------------------------
(***************************************************************************)
(* The token format of Lz16Tokens, written by an encoder and read by the   *)
(* decoder of the same level.  Which tokens occur is the subject of Lz16;  *)
(* here they are arbitrary, with lengths and distances at the limits of    *)
(* the fields, so that the real widths are covered.  A behaviour is a part *)
(* of a block: what stands before it only shifts the positions, and the    *)
(* first token leaves pflagExx in the middle of a byte or not.             *)
(***************************************************************************)
EXTENDS Lz16Tokens, FiniteSets

CONSTANTS FirstTokens, Tokens,  \* what the first and the later tokens may be
          LastLens,             \* charlen of the last block
          MaxTokens

MYMATCHOFFSET_MAX == 1048576

IsToken(t) == t \in [charlen : Nat, matchlen : Nat, matchdistance : 1 .. MYMATCHOFFSET_MAX - 1]

\* mylz16ENhash...: the first word of a block is a literal; a match ends at
\* least 4 words before the end of the input, which the last block has.
ASSUME TokensAssumption ==
  /\ \A t \in FirstTokens \cup Tokens : IsToken(t)
  /\ \A t \in FirstTokens : t.charlen > 0
  /\ LastLens \subseteq Nat \ (0 .. 3)
  /\ MaxTokens \in Nat

VARIABLES mc,       \* pitem->flagsub: levels 2 and 4
          tokens,   \* the tokens written
          pi,       \* the words that they stand for
          lastlen,  \* charlen of the last block
          sec, reader, got, pc

vars == <<mc, tokens, pi, lastlen, sec, reader, got, pc>>

Init == /\ mc \in BOOLEAN
        /\ tokens = <<>> /\ pi = 0 /\ lastlen = 0
        /\ sec = EmptySections
        /\ reader = Unread
        /\ got = <<>>
        /\ pc = "write"

write_token ==
  /\ pc = "write" /\ Len(tokens) < MaxTokens
  /\ \E t \in IF tokens = <<>> THEN FirstTokens ELSE Tokens :
       /\ sec' = WriteToken(mc, sec, t)
       /\ tokens' = Append(tokens, t)
       /\ pi' = pi + t.charlen + t.matchlen + 2
  /\ UNCHANGED <<mc, lastlen, reader, got, pc>>

write_last ==
  /\ pc = "write"
  /\ \E n \in LastLens : lastlen' = n /\ sec' = WriteLast(sec, n)
  /\ pc' = "read"
  /\ UNCHANGED <<mc, tokens, pi, reader, got>>

read_token ==
  /\ pc = "read" /\ MoreTokens(sec, reader)
  /\ LET r == ReadToken(mc, sec, reader)
     IN  got' = Append(got, r.token) /\ reader' = r.reader
  /\ UNCHANGED <<mc, tokens, pi, lastlen, sec, pc>>

read_last ==
  /\ pc = "read" /\ ~MoreTokens(sec, reader)
  /\ LET r == ReadLast(sec, reader)
     IN  got' = Append(got, [charlen |-> r.charlen]) /\ reader' = r.reader
  /\ pc' = "done"
  /\ UNCHANGED <<mc, tokens, pi, lastlen, sec>>

Next == write_token \/ write_last \/ read_token \/ read_last

Spec == Init /\ [][Next]_vars

-----------------------------------------------------------------------------

\* The decoder, which tracks the byte counts of the distances and the half
\* bytes of the lengths on its own, reads the tokens that were written, and
\* leaves no section with a byte unread: its four positions never drift.
TokensReadBack ==
  /\ pc = "read" => got = SubSeq(tokens, 1, Len(got))
  /\ pc = "done" =>
       /\ got = Append(tokens, [charlen |-> lastlen])
       /\ reader.pdistance = Len(sec.pdistance)
       /\ reader.pflag = Len(sec.pflag)
       /\ 2 * (reader.pflagExx \div 2 + 1) = Len(sec.pflagExx)

\* mylz16ENheadInitsectionlen gives each section a share of the input, and the
\* encoder does not look at it while it writes.  Whatever the tokens are, the
\* sections but pchar keep to theirs: 1/4 of the bytes that are coded for
\* pdistanceflag, pflag and pflagExx, 1/2 for pdistance.  So only pchar can run
\* over its share, which is the one case that mylz16Encode retries.
SectionsKeepShare ==
  LET words == pi + lastlen
  IN  /\ Len(sec.pdistanceflag) <= words \div 2
      /\ Len(sec.pflag)         <= words \div 2
      /\ Len(sec.pdistance)     <= words
      /\ Len(sec.pflagExx)      <= words
=============================================================================
