------------------------------- MODULE Rans64 -------------------------------
(***************************************************************************)
(* The rANS step of lib/rans/rans64.h: encoder symbols with a fixed-point  *)
(* reciprocal in place of a division, and the decoder step.  The widths    *)
(* are parameters: in the code WORD32 = 2^32 (one output word), a state is *)
(* a uint64_t (WORD32^2 values), RANS64_L = 2^31 and the table sums to     *)
(* prob_scale = 2^14.                                                      *)
(***************************************************************************)
EXTENDS Integers

CONSTANTS WORD32, RANS64_L, prob_scale,
          Powers   \* the values of 1u << shift

\* prob_scale divides RANS64_L, and RANS64_L is half a word.
ASSUME WidthAssumption ==
  /\ WORD32 \in Nat /\ RANS64_L \in Nat /\ prob_scale \in Nat \ {0}
  /\ WORD32 = 2 * RANS64_L
  /\ RANS64_L % prob_scale = 0 /\ prob_scale <= RANS64_L

\* Shifting reaches every frequency.
ASSUME PowersAssumption ==
  /\ Powers \subseteq Nat
  /\ \A freq \in 2 .. prob_scale : \E p \in Powers : p < freq /\ freq <= 2 * p

\* The values of a uint64_t.
WORD64 == WORD32 * WORD32

\* 1u << (shift - 1), where shift = ceil(log2(freq)): freq > 1 lies above it, and
\* not above 1u << shift.
HalfPower(freq) == CHOOSE p \in Powers : p < freq /\ freq <= 2 * p

SymbolInit_small_halved(start, freq) ==
  LET p == IF freq < 2 THEN 1 ELSE HalfPower(freq)
      x1 == 2 * p * RANS64_L
      x0 == freq - 1 + (x1 % freq) * WORD32
  IN [freq      |-> freq,
      cmpl_freq |-> prob_scale - freq,
      rcp_freq  |-> IF freq < 2 THEN WORD64 \div 2
                    ELSE (x0 \div freq + (x1 \div freq) * WORD32) % WORD64,
      rcp_div   |-> p,
      bias      |-> start]

\* Rans64EncSymbolInit; rcp_div is 1 << rcp_shift.
Rans64EncSymbolInit(start, freq) ==
  IF freq < 2
  THEN [freq      |-> freq,
        cmpl_freq |-> prob_scale - freq,
        rcp_freq  |-> WORD64 - 1,
        rcp_div   |-> 1,
        bias      |-> start + prob_scale - 1]
  ELSE LET p == HalfPower(freq)
           x1 == 2 * p * RANS64_L
           x0 == freq - 1 + (x1 % freq) * WORD32
       IN [freq      |-> freq,
           cmpl_freq |-> prob_scale - freq,
           rcp_freq  |-> (x0 \div freq + (x1 \div freq) * WORD32) % WORD64,
           rcp_div   |-> p,
           bias      |-> start]

\* The high half of the double-width product.
Rans64MulHi(a, b) == (a * b) \div WORD64

\* From this state on, a word has to be put out before freq is encoded.
x_max(freq) == (RANS64_L \div prob_scale) * WORD32 * freq

emit_one_late(x, freq) == x > x_max(freq)

\* Whether encoding emits the low word of the state first, and the state left.
Emits(x, freq) == x >= x_max(freq)
Renormed(x, freq) == IF Emits(x, freq) THEN x \div WORD32 ELSE x

\* Rans64EncPutSymbol after the renormalisation: the new state, modulo 2^64.
EncStep(x, sym) ==
  LET q == Rans64MulHi(x, sym.rcp_freq) \div sym.rcp_div
  IN (x + sym.bias + q * sym.cmpl_freq) % WORD64

\* Rans64EncPut after the renormalisation, which divides.
C(x, start, freq) == (x \div freq) * prob_scale + (x % freq) + start

\* Rans64DecAdvance before the renormalisation.
D(x, start, freq) == freq * (x \div prob_scale) + (x % prob_scale) - start
=============================================================================
