--------------------------- MODULE NormalizeFreqs ---------------------------
(***************************************************************************)
(* The way of a frequency table: normalize_freqs of lib/rans/rans64_main.h *)
(* scales the symbol counts to sum to target_total, where a symbol that    *)
(* occurs and was rounded to nothing steals one unit from another symbol;  *)
(* ranscompress writes the table in front of the stream, last symbol       *)
(* first; ransuncompress reads it and normalises it again.                 *)
(***************************************************************************)
EXTENDS FreqHeader, Integers

CONSTANTS SymbolCount,    \* 256 in the code
          target_total,   \* prob_scale, 2^14 in the code
          Counts          \* the counts that count_freqs may leave

Symbols == 0 .. SymbolCount - 1
Bounds  == 0 .. SymbolCount

\* The assertion of rans64_main.h:40; an entry of the header that takes three bytes
\* has 16 bits of its value.  inlen = 0, which makes cur_total 0, is the subject of
\* RansSections.
ASSUME SizeAssumption ==
  /\ SymbolCount \in Nat \ {0}
  /\ target_total \in Nat /\ SymbolCount <= target_total /\ target_total < WORDs
  /\ Counts \subseteq [Symbols -> Nat]
  /\ \A f \in Counts : \E s \in Symbols : f[s] # 0

VARIABLES counts,     \* as count_freqs left them
          freqs,      \* SSTATS.freqs, of the encoder and then of the decoder
          cum_freqs,  \* SSTATS.cum_freqs
          table,      \* the table the encoder codes with
          bytes,      \* the memory from pfreqs on
          i,          \* loop index
          pc

vars == <<counts, freqs, cum_freqs, table, bytes, i, pc>>

Width(cum, s) == cum[s + 1] - cum[s]

\* count_freqs of a section, and an SSTATS of zeros for the rest.
Init == /\ counts \in Counts
        /\ freqs = counts
        /\ cum_freqs = [s \in Bounds |-> 0]
        /\ table = <<>>
        /\ bytes = <<>>
        /\ i = 0
        /\ pc = "encoder"

Summing == pc \in {"encoder", "decoder"}

\* One round of calc_cum_freqs; run by the encoder on the counts, and by the
\* decoder on the table it has read.
calc_cum_freqs ==
  /\ Summing /\ i < SymbolCount
  /\ cum_freqs' = [cum_freqs EXCEPT ![i + 1] = cum_freqs[i] + freqs[i]]
  /\ i' = i + 1
  /\ UNCHANGED <<counts, freqs, table, bytes, pc>>

\* The resampling loop.
resample ==
  /\ Summing /\ i = SymbolCount
  /\ cum_freqs' = [s \in Bounds |-> (target_total * cum_freqs[s]) \div cum_freqs[SymbolCount]]
  /\ i' = 0
  /\ pc' = IF pc = "encoder" THEN "steal" ELSE "steal_again"
  /\ UNCHANGED <<counts, freqs, table, bytes>>

Stealing == pc \in {"steal", "steal_again"}

\* Symbol i occurs and was rounded to nothing.
Nuked == freqs[i] # 0 /\ Width(cum_freqs, i) = 0

steal_from_any_of(cum) == {s \in Symbols : Width(cum, s) > 0}

steal_from_anyone(cum) == Symbols

\* The symbols that can give a unit away.
Givers(cum) == {s \in Symbols : Width(cum, s) > 1}

\* The first of those with the smallest share.
best_steal == CHOOSE s \in Givers(cum_freqs) : \A r \in Givers(cum_freqs) :
                 \/ Width(cum_freqs, s) < Width(cum_freqs, r)
                 \/ Width(cum_freqs, s) = Width(cum_freqs, r) /\ s <= r

\* The boundaries between the giver and i move by one.
Stolen(from) ==
  IF from < i
  THEN [s \in Bounds |-> IF s \in from + 1 .. i THEN cum_freqs[s] - 1 ELSE cum_freqs[s]]
  ELSE [s \in Bounds |-> IF s \in i + 1 .. from THEN cum_freqs[s] + 1 ELSE cum_freqs[s]]

\* One round of the stealing loop.  Without a giver the assertion of line 67
\* fails and the model stops.
steal ==
  /\ Stealing /\ i < SymbolCount
  /\ Nuked => Givers(cum_freqs) # {}
  /\ cum_freqs' = IF Nuked THEN Stolen(best_steal) ELSE cum_freqs
  /\ i' = i + 1
  /\ UNCHANGED <<counts, freqs, table, bytes, pc>>

\* The last loop: freqs from cum_freqs.
update ==
  /\ Stealing /\ i = SymbolCount
  /\ freqs' = [s \in Symbols |-> Width(cum_freqs, s)]
  /\ table' = IF pc = "steal" THEN freqs' ELSE table
  /\ pc' = IF pc = "steal" THEN "write" ELSE "done"
  /\ UNCHANGED <<counts, cum_freqs, bytes, i>>

\* ranscompress writes the table downwards from the stream.
write_entry ==
  /\ pc = "write" /\ i > 0
  /\ bytes' = Entry(freqs[i - 1]) \o bytes
  /\ i' = i - 1
  /\ UNCHANGED <<counts, freqs, cum_freqs, table, pc>>

\* ransuncompress starts, with an SSTATS of zeros, at the first entry.
start_reading ==
  /\ pc = "write" /\ i = 0
  /\ freqs' = [s \in Symbols |-> 0]
  /\ cum_freqs' = [s \in Bounds |-> 0]
  /\ pc' = "read"
  /\ UNCHANGED <<counts, table, bytes, i>>

read_entry ==
  /\ pc = "read"
  /\ freqs' = [freqs EXCEPT ![i] = EntryAt(bytes)]
  /\ bytes' = SubSeq(bytes, EntryWidth(bytes) + 1, Len(bytes))
  /\ IF i + 1 = SymbolCount THEN i' = 0 /\ pc' = "decoder" ELSE i' = i + 1 /\ pc' = pc
  /\ UNCHANGED <<counts, cum_freqs, table>>

Next == calc_cum_freqs \/ resample \/ steal \/ update \/ write_entry \/ start_reading \/ read_entry

Spec == Init /\ [][Next]_vars

-----------------------------------------------------------------------------

\* The assertions of rans64_main.h:67 and 73: whoever needs a unit finds another
\* symbol that keeps at least one.
StealSucceeds ==
  Stealing /\ i < SymbolCount /\ Nuked
    => Givers(cum_freqs) # {} /\ best_steal # i

\* The assertions of rans64_main.h:80-85, when the encoder's loop ends: the table
\* sums to target_total, and a symbol has a share exactly if it occurs; so
\* stealing never leaves an earlier symbol, or the giver, with nothing.
TableSound ==
  pc = "steal" /\ i = SymbolCount
    => /\ cum_freqs[0] = 0 /\ cum_freqs[SymbolCount] = target_total
       /\ \A s \in Symbols : IF counts[s] = 0 THEN cum_freqs[s + 1] = cum_freqs[s]
                                              ELSE cum_freqs[s + 1] > cum_freqs[s]

\* Encoder and decoder use the same table: ransuncompress takes no entry for one
\* of another width (the entry 16384 of a section of one symbol included), stops
\* at the first word of the stream, and its own normalisation leaves the table
\* as it was read.
SameTable == /\ pc = "decoder" => bytes = <<>>
             /\ pc = "done" => freqs = table
=============================================================================
