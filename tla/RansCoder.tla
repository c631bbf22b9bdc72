----------------------------- MODULE RansCoder -----------------------------
(***************************************************************************)
(* ranscompress and ransuncompress of lib/c/rans64me.c: a message is coded *)
(* backwards by two interleaved rANS states that share one word stream,    *)
(* and decoded forwards.  The table is any table normalize_freqs may leave *)
(* for the message; that the decoder, which normalises the counts of the   *)
(* header again, has the same one is SameTable of NormalizeFreqs.          *)
(***************************************************************************)
EXTENDS Rans64, Sequences

CONSTANTS SymbolCount,   \* 256 in the code: the values of a byte
          MaxLen         \* bound on the length of a message

ASSUME BoundAssumption == SymbolCount \in Nat \ {0} /\ MaxLen \in Nat

Symbols == 0 .. SymbolCount - 1

VARIABLES pin,        \* the message
          cum_freqs,  \* SSTATS.cum_freqs, as normalize_freqs leaves it
          i,          \* next position, as in the two functions
          rans,       \* the two states
          words,      \* the stream from ptr on: written for the encoder,
                      \* still to be read for the decoder
          pout,       \* decoded so far
          pc

vars == <<pin, cum_freqs, i, rans, words, pout, pc>>

\* The last loop of normalize_freqs.
freqs == [s \in Symbols |-> cum_freqs[s + 1] - cum_freqs[s]]

Tables == {c \in [0 .. SymbolCount -> 0 .. prob_scale] :
             /\ c[0] = 0 /\ c[SymbolCount] = prob_scale
             /\ \A s, t \in 0 .. SymbolCount : s <= t => c[s] <= c[t]}

Messages == UNION {[1 .. n -> {s \in Symbols : freqs[s] > 0}] : n \in 1 .. MaxLen}

\* The frequencies of the symbols that occur are not 0.  inlen = 0 is left
\* out: normalize_freqs divides by it.
Init == /\ cum_freqs \in Tables
        /\ pin \in Messages
        /\ i = 2 * (Len(pin) \div 2)
        /\ rans = <<RANS64_L, RANS64_L>>
        /\ words = <<>>
        /\ pout = <<>>
        /\ pc = IF Len(pin) % 2 = 1 THEN "odd" ELSE "pairs"

esyms(s) == Rans64EncSymbolInit(cum_freqs[s], freqs[s])

\* What putting symbol s does to state x and to the stream w.
PutState(x, s) == EncStep(Renormed(x, freqs[s]), esyms(s))
PutWords(x, s, w) == IF Emits(x, freqs[s]) THEN <<x % WORD32>> \o w ELSE w

\* The last byte of a message of odd length, into rans0.
put_odd ==
  /\ pc = "odd"
  /\ rans' = <<PutState(rans[1], pin[Len(pin)]), rans[2]>>
  /\ words' = PutWords(rans[1], pin[Len(pin)], words)
  /\ pc' = "pairs"
  /\ UNCHANGED <<pin, cum_freqs, i, pout>>

\* One round of the main loop: the second byte into rans1, the first into
\* rans0.
put_pair ==
  /\ pc = "pairs" /\ i > 0
  /\ LET s1 == pin[i]
         s0 == pin[i - 1]
     IN /\ rans' = <<PutState(rans[1], s0), PutState(rans[2], s1)>>
        /\ words' = PutWords(rans[1], s0, PutWords(rans[2], s1, words))
  /\ i' = i - 2
  /\ UNCHANGED <<pin, cum_freqs, pout, pc>>

\* Rans64EncFlush, rans1 below rans0.
flush ==
  /\ pc = "pairs" /\ i = 0
  /\ words' = <<rans[1] % WORD32, rans[1] \div WORD32,
                rans[2] % WORD32, rans[2] \div WORD32>> \o words
  /\ rans' = <<0, 0>>
  /\ pc' = "stream"
  /\ UNCHANGED <<pin, cum_freqs, i, pout>>

\* ransuncompress: Rans64DecInit of both states.
load ==
  /\ pc = "stream"
  /\ rans' = <<words[1] + words[2] * WORD32, words[3] + words[4] * WORD32>>
  /\ words' = SubSeq(words, 5, Len(words))
  /\ pc' = "get"
  /\ UNCHANGED <<pin, cum_freqs, i, pout>>

\* cum2sym[x & mask]
cum2sym(x) == CHOOSE s \in Symbols : /\ cum_freqs[s] <= x % prob_scale
                                     /\ x % prob_scale < cum_freqs[s + 1]

\* What getting a symbol does to state x, with the stream at w.
Got(x) == D(x, cum_freqs[cum2sym(x)], freqs[cum2sym(x)])
GetState(x, w) == IF Got(x) < RANS64_L THEN Got(x) * WORD32 + Head(w) ELSE Got(x)
GetWords(x, w) == IF Got(x) < RANS64_L THEN Tail(w) ELSE w

get_pair_swapped ==
  /\ pc = "get" /\ i < 2 * (Len(pin) \div 2)
  /\ LET w == GetWords(rans[1], words)
     IN /\ rans' = <<GetState(rans[1], words), GetState(rans[2], w)>>
        /\ words' = GetWords(rans[2], w)
  /\ pout' = pout \o <<cum2sym(rans[2]), cum2sym(rans[1])>>
  /\ i' = i + 2
  /\ UNCHANGED <<pin, cum_freqs, pc>>

\* One round of the main loop.
get_pair ==
  /\ pc = "get" /\ i < 2 * (Len(pin) \div 2)
  /\ LET w == GetWords(rans[1], words)
     IN /\ rans' = <<GetState(rans[1], words), GetState(rans[2], w)>>
        /\ words' = GetWords(rans[2], w)
  /\ pout' = pout \o <<cum2sym(rans[1]), cum2sym(rans[2])>>
  /\ i' = i + 2
  /\ UNCHANGED <<pin, cum_freqs, pc>>

\* The last byte of a message of odd length, and the return.
get_end ==
  /\ pc = "get" /\ i = 2 * (Len(pin) \div 2)
  /\ IF Len(pin) % 2 = 1
     THEN /\ pout' = Append(pout, cum2sym(rans[1]))
          /\ rans' = <<GetState(rans[1], words), rans[2]>>
          /\ words' = GetWords(rans[1], words)
     ELSE UNCHANGED <<pout, rans, words>>
  /\ pc' = "done"
  /\ UNCHANGED <<pin, cum_freqs, i>>

Next == put_odd \/ put_pair \/ flush \/ load \/ get_pair \/ get_end

Spec == Init /\ [][Next]_vars

-----------------------------------------------------------------------------

\* Between two symbols both states are in the normalisation interval of
\* rans64.h:55-56, encoding and decoding: 63 bits are enough, one emission and
\* one word read per symbol are enough, and the stream has the word to read.
Normalised ==
  pc # "stream" => \A k \in {1, 2} : rans[k] \in RANS64_L .. RANS64_L * WORD32 - 1

\* The reciprocal multiplication of Rans64EncPutSymbol is the division of
\* Rans64EncPut, in every step of the encoder (rans64.h:186-188).
ReciprocalExact ==
  [][LET Divided(k, s) ==
           rans'[k] = C(Renormed(rans[k], freqs[s]), cum_freqs[s], freqs[s])
     IN /\ put_odd => Divided(1, pin[Len(pin)])
        /\ put_pair => Divided(1, pin[i - 1]) /\ Divided(2, pin[i])]_vars

\* The decoder returns the message, with both states back where the encoder
\* started and every word of the stream read.
RoundTrip ==
  pc = "done" => /\ pout = pin
                 /\ words = <<>>
                 /\ rans = <<RANS64_L, RANS64_L>>
=============================================================================
