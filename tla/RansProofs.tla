----------------------------- MODULE RansProofs -----------------------------
(***************************************************************************)
(* The rANS coder for every word width, every table and every message: the *)
(* reciprocal is exact, the states stay normalised, and the decoder        *)
(* returns what the encoder was given.                                     *)
(***************************************************************************)
EXTENDS RansCoder, TLAPS

-----------------------------------------------------------------------------
(* Products, quotients and remainders.                                     *)

LEMMA MulNat == ASSUME NEW a \in Nat, NEW b \in Nat PROVE a * b \in Nat
OBVIOUS

LEMMA MulMono ==
  ASSUME NEW a \in Nat, NEW b \in Nat, NEW c \in Nat, a <= b
  PROVE  a * c <= b * c
OBVIOUS

LEMMA MulStep ==
  ASSUME NEW a \in Nat, NEW b \in Nat, NEW c \in Nat, a < b
  PROVE  a * c + c <= b * c
<1>1. (a + 1) * c <= b * c
  BY MulMono
<1> QED
  BY <1>1

LEMMA DivMod ==
  ASSUME NEW a \in Nat, NEW b \in Nat \ {0}
  PROVE  /\ a \div b \in Nat
         /\ a % b \in Nat /\ a % b < b
         /\ a = (a \div b) * b + (a % b)
OBVIOUS

LEMMA DivUnique ==
  ASSUME NEW a \in Nat, NEW b \in Nat \ {0}, NEW q \in Nat, NEW r \in Nat,
         r < b, a = q * b + r
  PROVE  a \div b = q /\ a % b = r
<1> DEFINE p == a \div b
           t == a % b
<1>1. p \in Nat /\ t \in Nat /\ t < b /\ a = p * b + t
  BY DivMod
<1> HIDE DEF p, t
<1>2. ~(p < q)
  <2>1. p < q => p * b + b <= q * b
    BY <1>1, MulStep
  <2>2. p * b \in Nat /\ q * b \in Nat
    BY <1>1, MulNat
  <2> QED
    BY <1>1, <2>1, <2>2
<1>3. ~(q < p)
  <2>1. q < p => q * b + b <= p * b
    BY <1>1, MulStep
  <2>2. p * b \in Nat /\ q * b \in Nat
    BY <1>1, MulNat
  <2> QED
    BY <1>1, <2>1, <2>2
<1>4. p = q
  BY <1>1, <1>2, <1>3
<1>5. t = r
  <2>1. q * b \in Nat
    BY MulNat
  <2> QED
    BY <1>1, <1>4, <2>1
<1> QED
  BY <1>4, <1>5 DEF p, t

\* What a factor of both sides says of the others.
LEMMA MulCancel ==
  ASSUME NEW a \in Nat, NEW b \in Nat, NEW c \in Nat \ {0}, a * c < b * c
  PROVE  a < b
<1>1. b <= a => b * c <= a * c
  BY MulMono
<1>2. a * c \in Nat /\ b * c \in Nat
  BY MulNat
<1> QED
  BY <1>1, <1>2

-----------------------------------------------------------------------------
(* The reciprocal.                                                         *)

\* R is p * 2H divided by freq, rounded up: for x < H, multiplying by R and
\* dividing by 2H and p is dividing by freq.
LEMMA Reciprocal ==
  ASSUME NEW x \in Nat, NEW freq \in Nat \ {0}, NEW p \in Nat \ {0}, NEW R \in Nat,
         NEW e \in Nat, NEW H \in Nat,
         x < H, freq <= 2 * p, e < freq, R * freq = p * (2 * H) + e
  PROVE  ((x * R) \div (2 * H)) \div p = x \div freq
<1> DEFINE Q == 2 * H
           A == p * Q
           q == x \div freq
           r == x % freq
           y == (x * R) \div Q
<1>1. q \in Nat /\ r \in Nat /\ r < freq /\ x = q * freq + r
  BY DivMod
<1>2. Q \in Nat \ {0}
  OBVIOUS
<1>3. A \in Nat /\ x * R \in Nat
  BY <1>2, MulNat
<1>4. R * freq = A + e
  OBVIOUS
<1>5. x * e < A
  <2>1. x * e <= x * (2 * p)
    <3>1. e * x <= (2 * p) * x
      BY MulMono
    <3> QED
      BY <3>1
  <2>2. x * (2 * p) + 2 * p <= H * (2 * p)
    BY MulStep
  <2>3. H * (2 * p) = A
    OBVIOUS
  <2>4. x * e \in Nat /\ x * (2 * p) \in Nat /\ H * (2 * p) \in Nat
    BY MulNat
  <2> HIDE DEF A
  <2> QED
    BY <2>1, <2>2, <2>3, <2>4
<1> HIDE DEF Q, A, q, r, y
<1>6. (x * R) * freq = x * A + x * e
  <2>1. (x * R) * freq = x * (R * freq)
    OBVIOUS
  <2> QED
    BY <1>3, <1>4, <2>1
<1>7. (q * A) * freq <= (x * R) * freq
  <2>1. (q * freq) * A <= x * A
    <3>1. q * freq \in Nat /\ q * freq <= x
      BY <1>1, MulNat
    <3> QED
      BY <1>3, <3>1, MulMono
  <2>2. (q * A) * freq = (q * freq) * A
    BY <1>1, <1>3
  <2>3. x * A \in Nat /\ x * e \in Nat
    BY <1>3, MulNat
  <2>4. (q * A) * freq \in Nat
    BY <1>1, <1>3, MulNat
  <2> QED
    BY <1>6, <2>1, <2>2, <2>3, <2>4
<1>8. (x * R) * freq < ((q + 1) * A) * freq
  <2>1. x < (q + 1) * freq
    BY <1>1
  <2>2. x * A + A <= ((q + 1) * freq) * A
    <3>1. (q + 1) * freq \in Nat
      BY <1>1, MulNat
    <3> QED
      BY <1>3, <2>1, <3>1, MulStep
  <2>3. ((q + 1) * A) * freq = ((q + 1) * freq) * A
    BY <1>1, <1>3
  <2>4. x * A \in Nat /\ x * e \in Nat /\ ((q + 1) * freq) * A \in Nat
    <3>1. (q + 1) * freq \in Nat
      BY <1>1, MulNat
    <3> QED
      BY <1>3, <3>1, MulNat
  <2> QED
    BY <1>3, <1>5, <1>6, <2>2, <2>3, <2>4
<1>9. q * A <= x * R
  <2>1. q * A \in Nat
    BY <1>1, <1>3, MulNat
  <2>2. x * R < q * A => (x * R) * freq + freq <= (q * A) * freq
    BY <1>3, <2>1, MulStep
  <2>3. (x * R) * freq \in Nat /\ (q * A) * freq \in Nat
    BY <1>3, <2>1, MulNat
  <2> QED
    BY <1>3, <1>7, <2>1, <2>2, <2>3
<1>10. x * R < (q + 1) * A
  <2>1. (q + 1) * A \in Nat
    BY <1>1, <1>3, MulNat
  <2> QED
    BY <1>3, <1>8, <2>1, MulCancel
<1>11. y \in Nat /\ y * Q <= x * R /\ x * R < y * Q + Q
  <2>1. y \in Nat /\ (x * R) % Q \in Nat /\ (x * R) % Q < Q /\ x * R = y * Q + ((x * R) % Q)
    BY <1>2, <1>3, DivMod DEF y
  <2>2. y * Q \in Nat
    BY <1>2, <2>1, MulNat
  <2> QED
    BY <1>2, <1>3, <2>1, <2>2
<1>12. q * p <= y
  <2>1. q * p \in Nat /\ q * A = (q * p) * Q
    BY <1>1, <1>2, MulNat DEF A
  <2>2. (q * p) * Q < (y + 1) * Q
    <3>1. (y + 1) * Q = y * Q + Q
      BY <1>2, <1>11
    <3>2. y * Q \in Nat /\ (q * p) * Q \in Nat
      BY <1>2, <1>11, <2>1, MulNat
    <3> QED
      BY <1>2, <1>3, <1>9, <1>11, <2>1, <3>1, <3>2
  <2>3. q * p < y + 1
    BY <1>2, <1>11, <2>1, <2>2, MulCancel
  <2> QED
    BY <1>11, <2>1, <2>3
<1>13. y < (q + 1) * p
  <2>1. (q + 1) * p \in Nat /\ (q + 1) * A = ((q + 1) * p) * Q
    BY <1>1, <1>2, MulNat DEF A
  <2>2. y * Q < ((q + 1) * p) * Q
    <3>1. y * Q \in Nat /\ ((q + 1) * p) * Q \in Nat
      BY <1>2, <1>11, <2>1, MulNat
    <3> QED
      BY <1>3, <1>10, <1>11, <2>1, <3>1
  <2> QED
    BY <1>2, <1>11, <2>1, <2>2, MulCancel
<1>14. y \div p = q
  <2>1. q * p \in Nat /\ (q + 1) * p = q * p + p
    BY <1>1, MulNat
  <2>2. y - q * p \in Nat /\ y - q * p < p /\ y = q * p + (y - q * p)
    BY <1>11, <1>12, <1>13, <2>1
  <2> QED
    BY <1>1, <1>11, <2>2, DivUnique
<1> QED
  BY <1>14 DEF y, q, Q

-----------------------------------------------------------------------------
(* One symbol.                                                             *)

\* How often the table fits into the lower bound of a state.
K == RANS64_L \div prob_scale

\* The states between two symbols.
States == {x \in Nat : RANS64_L <= x /\ x < RANS64_L * WORD32}

LEMMA Widths ==
  /\ RANS64_L \in Nat \ {0} /\ WORD32 \in Nat \ {0} /\ prob_scale \in Nat \ {0}
  /\ K \in Nat \ {0} /\ RANS64_L = K * prob_scale
  /\ RANS64_L < WORD32 /\ prob_scale <= RANS64_L
  /\ RANS64_L * WORD32 \in Nat /\ WORD64 \in Nat /\ WORD64 = 2 * (RANS64_L * WORD32)
  /\ RANS64_L < RANS64_L * WORD32 /\ WORD32 <= RANS64_L * WORD32
<1>1. /\ RANS64_L \in Nat \ {0} /\ WORD32 \in Nat \ {0} /\ prob_scale \in Nat \ {0}
      /\ RANS64_L < WORD32 /\ prob_scale <= RANS64_L /\ WORD32 = 2 * RANS64_L
      /\ RANS64_L % prob_scale = 0
  BY WidthAssumption
<1>2. K \in Nat /\ RANS64_L = K * prob_scale
  BY <1>1, DivMod DEF K
<1>3. K # 0
  <2>1. K = 0 => RANS64_L = 0
    BY <1>1, <1>2
  <2> QED
    BY <1>1, <2>1
<1>4. RANS64_L * WORD32 \in Nat /\ WORD64 \in Nat /\ WORD64 = 2 * (RANS64_L * WORD32)
  BY <1>1 DEF WORD64
<1>5. WORD32 <= RANS64_L * WORD32
  <2>1. 1 * WORD32 <= RANS64_L * WORD32
    BY <1>1, MulMono
  <2> QED
    BY <1>1, <2>1
<1> QED
  BY <1>1, <1>2, <1>3, <1>4, <1>5

\* A frequency of 1: the reciprocal is the largest there is.
LEMMA OneExact ==
  ASSUME NEW x \in Nat \ {0}, x < WORD64, NEW start \in Nat, C(x, start, 1) < WORD64
  PROVE  EncStep(x, Rans64EncSymbolInit(start, 1)) = C(x, start, 1)
<1> DEFINE sym == Rans64EncSymbolInit(start, 1)
<1>1. /\ sym.rcp_freq = WORD64 - 1 /\ sym.rcp_div = 1
      /\ sym.bias = start + prob_scale - 1 /\ sym.cmpl_freq = prob_scale - 1
  BY DEF Rans64EncSymbolInit
<1>2. Rans64MulHi(x, sym.rcp_freq) \div sym.rcp_div = x - 1
  <2>1. x * (WORD64 - 1) = (x - 1) * WORD64 + (WORD64 - x)
    BY Widths
  <2>2. x * (WORD64 - 1) \in Nat
    BY Widths, MulNat
  <2>3. (x * (WORD64 - 1)) \div WORD64 = x - 1
    <3>1. /\ x - 1 \in Nat /\ WORD64 - x \in Nat /\ WORD64 - x < WORD64
          /\ WORD64 \in Nat \ {0}
      BY Widths
    <3> QED
      BY <2>1, <2>2, <3>1, DivUnique
  <2>4. (x - 1) \div 1 = x - 1
    OBVIOUS
  <2> QED
    BY <1>1, <2>3, <2>4 DEF Rans64MulHi
<1>3. C(x, start, 1) = x * prob_scale + start
  <2>1. x \div 1 = x /\ x % 1 = 0
    OBVIOUS
  <2>2. x * prob_scale \in Nat
    BY Widths, MulNat
  <2> QED
    BY <2>1, <2>2 DEF C
<1>4. x + sym.bias + (x - 1) * sym.cmpl_freq = x * prob_scale + start
  <2>1. (x - 1) * (prob_scale - 1) = x * prob_scale - x - prob_scale + 1
    BY Widths
  <2>2. x * prob_scale \in Nat
    BY Widths, MulNat
  <2> HIDE DEF sym
  <2> QED
    BY <1>1, <2>1, <2>2, Widths
<1>5. EncStep(x, sym) = (x * prob_scale + start) % WORD64
  <2> HIDE DEF sym
  <2> QED
    BY <1>2, <1>4 DEF EncStep
<1>6. x * prob_scale + start \in Nat
  BY Widths, MulNat
<1> QED
  BY <1>3, <1>5, <1>6, Widths

\* The reciprocal of a larger frequency, as Rans64EncSymbolInit computes it with
\* two short divisions.
LEMMA RcpFreq ==
  ASSUME NEW start \in Nat, NEW freq \in 2 .. prob_scale
  PROVE  LET sym == Rans64EncSymbolInit(start, freq)
         IN  /\ sym.bias = start /\ sym.cmpl_freq = prob_scale - freq
             /\ sym.rcp_div \in Nat \ {0} /\ sym.rcp_freq \in Nat
             /\ freq <= 2 * sym.rcp_div
             /\ \E e \in Nat : e < freq /\ sym.rcp_freq * freq = sym.rcp_div * WORD64 + e
<1> DEFINE p == HalfPower(freq)
           x1 == 2 * p * RANS64_L
           t1 == x1 \div freq
           u == x1 % freq
           x0 == freq - 1 + u * WORD32
           t0 == x0 \div freq
           v == x0 % freq
           R == t0 + t1 * WORD32
           e == freq - 1 - v
<1>1. /\ freq \in Nat \ {0} /\ freq > 1
      /\ p \in Nat \ {0} /\ p < freq /\ freq <= 2 * p
  <2>1. freq \in Nat \ {0} /\ freq > 1
    BY Widths
  <2>2. \E a \in Powers : a < freq /\ freq <= 2 * a
    BY PowersAssumption
  <2>3. p \in Powers /\ p < freq /\ freq <= 2 * p
    BY <2>2 DEF HalfPower
  <2>4. p \in Nat
    BY <2>3, PowersAssumption
  <2> HIDE DEF p
  <2> QED
    BY <2>1, <2>3, <2>4
<1> HIDE DEF p
<1>2. x1 \in Nat
  <2>1. 2 * p \in Nat
    BY <1>1
  <2> QED
    BY <2>1, Widths, MulNat
<1> HIDE DEF x1
<1>3. t1 \in Nat /\ u \in Nat /\ u < freq /\ x1 = t1 * freq + u
  BY <1>1, <1>2, DivMod
<1> HIDE DEF t1, u
<1>4. x0 \in Nat
  <2>1. u * WORD32 \in Nat
    BY <1>3, Widths, MulNat
  <2> QED
    BY <1>1, <2>1
<1>5. t0 \in Nat /\ v \in Nat /\ v < freq /\ x0 = t0 * freq + v
  <2> HIDE DEF x0
  <2> QED
    BY <1>1, <1>4, DivMod
<1> HIDE DEF t0, v
<1>6. R \in Nat
  <2>1. t1 * WORD32 \in Nat
    BY <1>3, Widths, MulNat
  <2> QED
    BY <1>5, <2>1
<1>7. R * freq = x1 * WORD32 + e /\ e \in Nat /\ e < freq
  <2>1. R * freq = t0 * freq + (t1 * freq) * WORD32
    BY <1>1, <1>3, <1>5, Widths
  <2>2. t0 * freq = x0 - v /\ t1 * freq = x1 - u
    BY <1>1, <1>2, <1>3, <1>4, <1>5
  <2>3. (x1 - u) * WORD32 = x1 * WORD32 - u * WORD32
    BY <1>2, <1>3, Widths
  <2>4. x1 * WORD32 \in Nat /\ u * WORD32 \in Nat
    BY <1>2, <1>3, Widths, MulNat
  <2>5. R * freq = (x0 - v) + (x1 * WORD32 - u * WORD32)
    <3>1. (t1 * freq) * WORD32 = x1 * WORD32 - u * WORD32
      BY <2>2, <2>3
    <3> HIDE DEF R, x0
    <3> QED
      BY <2>1, <2>2, <3>1
  <2> HIDE DEF R
  <2> QED
    BY <1>1, <1>5, <2>4, <2>5
<1>8. x1 * WORD32 = p * WORD64
  <2>1. (2 * p * RANS64_L) * WORD32 = p * (2 * (RANS64_L * WORD32))
    BY <1>1, Widths
  <2> QED
    BY <2>1, Widths DEF x1
<1>9. R < WORD64
  <2>1. p * WORD64 + WORD64 <= freq * WORD64
    BY <1>1, Widths, MulStep
  <2>2. freq <= WORD64
    BY Widths
  <2>3. p * WORD64 \in Nat /\ freq * WORD64 \in Nat /\ R * freq \in Nat
    BY <1>1, <1>6, Widths, MulNat
  <2>4. R * freq < WORD64 * freq
    <3>1. WORD64 * freq = freq * WORD64
      BY Widths
    <3> HIDE DEF R, e
    <3> QED
      BY <1>1, <1>7, <1>8, <2>1, <2>2, <2>3, <3>1, Widths
  <2> HIDE DEF R
  <2> QED
    BY <1>1, <1>6, <2>4, Widths, MulCancel
<1>10. R % WORD64 = R
  <2> HIDE DEF R
  <2> QED
    BY <1>6, <1>9, Widths
<1>11. LET sym == Rans64EncSymbolInit(start, freq)
       IN  /\ sym.bias = start /\ sym.cmpl_freq = prob_scale - freq
           /\ sym.rcp_div = p /\ sym.rcp_freq = R % WORD64
  BY <1>1 DEF Rans64EncSymbolInit, p, x1, t1, u, t0
<1> HIDE DEF R, e
<1> QED
  BY <1>1, <1>6, <1>7, <1>8, <1>10, <1>11

\* The encoder's step is the division of Rans64EncPut.
LEMMA EncIsC ==
  ASSUME NEW x \in Nat \ {0}, x < RANS64_L * WORD32, NEW start \in Nat,
         NEW freq \in 1 .. prob_scale, C(x, start, freq) < WORD64
  PROVE  EncStep(x, Rans64EncSymbolInit(start, freq)) = C(x, start, freq)
<1>1. CASE freq = 1
  <2>1. x < WORD64
    BY Widths
  <2> QED
    BY <1>1, <2>1, OneExact
<1>2. CASE freq # 1
  <2> DEFINE sym == Rans64EncSymbolInit(start, freq)
             q == x \div freq
             r == x % freq
  <2>1. freq \in 2 .. prob_scale /\ freq \in Nat \ {0} /\ prob_scale - freq \in Nat
    BY <1>2, Widths
  <2>2. /\ sym.bias = start /\ sym.cmpl_freq = prob_scale - freq
        /\ sym.rcp_div \in Nat \ {0} /\ sym.rcp_freq \in Nat
        /\ freq <= 2 * sym.rcp_div
        /\ \E e \in Nat : e < freq /\ sym.rcp_freq * freq = sym.rcp_div * WORD64 + e
    BY <2>1, RcpFreq
  <2> HIDE DEF sym
  <2>3. Rans64MulHi(x, sym.rcp_freq) \div sym.rcp_div = q
    <3>1. PICK e \in Nat : e < freq /\ sym.rcp_freq * freq = sym.rcp_div * WORD64 + e
      BY <2>2
    <3>2. sym.rcp_freq * freq = sym.rcp_div * (2 * (RANS64_L * WORD32)) + e
      BY <3>1, Widths
    <3> DEFINE H == RANS64_L * WORD32
               R == sym.rcp_freq
               p == sym.rcp_div
    <3>3. /\ H \in Nat /\ x \in Nat /\ x < H /\ WORD64 = 2 * H
          /\ R \in Nat /\ p \in Nat \ {0} /\ freq \in Nat \ {0}
          /\ freq <= 2 * p /\ R * freq = p * (2 * H) + e
      BY <2>1, <2>2, <3>2, Widths
    <3> HIDE DEF H, R, p
    <3>4. ((x * R) \div (2 * H)) \div p = x \div freq
      BY <3>1, <3>3, Reciprocal
    <3> QED
      BY <3>3, <3>4 DEF Rans64MulHi, q, R, p
  <2>4. q \in Nat /\ r \in Nat /\ x = q * freq + r
    BY <2>1, DivMod
  <2> HIDE DEF q, r
  <2>5. x + start + q * (prob_scale - freq) = q * prob_scale + r + start
    <3>1. q * (prob_scale - freq) = q * prob_scale - q * freq
      BY <2>1, <2>4, Widths
    <3>2. q * prob_scale \in Nat /\ q * freq \in Nat
      BY <2>1, <2>4, Widths, MulNat
    <3> QED
      BY <2>4, <3>1, <3>2
  <2>6. C(x, start, freq) = q * prob_scale + r + start
    BY DEF C, q, r
  <2>7. EncStep(x, sym) = C(x, start, freq) % WORD64
    BY <2>2, <2>3, <2>5, <2>6 DEF EncStep
  <2>8. C(x, start, freq) \in Nat
    <3>1. q * prob_scale \in Nat
      BY <2>4, Widths, MulNat
    <3> QED
      BY <2>4, <2>6, <3>1
  <2>9. C(x, start, freq) % WORD64 = C(x, start, freq)
    BY <2>8, Widths
  <2> QED
    BY <2>7, <2>9 DEF sym
<1> QED
  BY <1>1, <1>2

\* The interval of states in which freq can be encoded.
LEMMA RenormRange ==
  ASSUME NEW x \in States, NEW freq \in 1 .. prob_scale
  PROVE  LET y == Renormed(x, freq)
         IN  /\ y \in Nat \ {0} /\ y < RANS64_L * WORD32
             /\ K * freq <= y /\ y < (K * WORD32) * freq
             /\ Emits(x, freq) => y < RANS64_L /\ y * WORD32 + (x % WORD32) = x
             /\ ~Emits(x, freq) => y = x
<1> DEFINE m == (K * WORD32) * freq
           y == x \div WORD32
<1>1. /\ freq \in Nat \ {0} /\ x \in Nat /\ RANS64_L <= x /\ x < RANS64_L * WORD32
  BY Widths DEF States
<1>2. K * WORD32 \in Nat /\ m \in Nat /\ K * freq \in Nat
  BY <1>1, Widths, MulNat
<1>3. Emits(x, freq) <=> x >= m
  BY DEF Emits, x_max, K
<1>4. Renormed(x, freq) = IF x >= m THEN y ELSE x
  BY <1>3 DEF Renormed
<1>5. K * freq <= RANS64_L
  <2>1. freq * K <= prob_scale * K
    BY <1>1, Widths, MulMono
  <2> QED
    BY <1>1, <2>1, Widths
<1>6. K * freq # 0
  <2>1. 1 * freq <= K * freq
    BY <1>1, Widths, MulMono
  <2> QED
    BY <1>1, <2>1
<1>7. CASE x >= m
  <2>1. /\ y \in Nat /\ x % WORD32 \in Nat /\ x % WORD32 < WORD32
        /\ x = y * WORD32 + (x % WORD32)
    BY <1>1, Widths, DivMod
  <2> HIDE DEF y
  <2>2. y * WORD32 \in Nat
    BY <2>1, Widths, MulNat
  <2>3. y < RANS64_L
    <3>1. y * WORD32 < RANS64_L * WORD32
      BY <1>1, <2>1, <2>2, Widths
    <3> QED
      BY <2>1, <3>1, Widths, MulCancel
  <2>4. K * freq <= y
    <3>1. m = (K * freq) * WORD32
      BY <1>1, Widths
    <3>2. (K * freq) * WORD32 < (y + 1) * WORD32
      <4>1. (y + 1) * WORD32 = y * WORD32 + WORD32
        BY <2>1, Widths
      <4> HIDE DEF m
      <4> QED
        BY <1>1, <1>2, <1>7, <2>1, <2>2, <3>1, <4>1, Widths
    <3>3. K * freq < y + 1
      BY <1>2, <2>1, <3>2, Widths, MulCancel
    <3> QED
      BY <1>2, <2>1, <3>3
  <2>5. y < m
    <3>1. WORD32 * 1 <= WORD32 * (K * freq)
      <4>1. 1 * WORD32 <= (K * freq) * WORD32
        BY <1>2, <1>6, Widths, MulMono
      <4> QED
        BY <1>2, <4>1, Widths
    <3>2. m = WORD32 * (K * freq)
      BY <1>1, Widths
    <3> HIDE DEF m
    <3> QED
      BY <1>2, <2>1, <2>3, <3>1, <3>2, Widths
  <2>6. y < RANS64_L * WORD32 /\ y # 0
    BY <1>2, <1>6, <2>1, <2>3, <2>4, Widths
  <2> HIDE DEF m
  <2> QED
    BY <1>3, <1>4, <1>7, <2>1, <2>3, <2>4, <2>5, <2>6 DEF m
<1>8. CASE ~(x >= m)
  <2> HIDE DEF m
  <2>1. x < m /\ x # 0 /\ K * freq <= x
    BY <1>1, <1>2, <1>5, <1>8, Widths
  <2> QED
    BY <1>1, <1>3, <1>4, <1>8, <2>1 DEF m
<1> QED
  BY <1>7, <1>8

\* Encoding leads back to the states, and the code of y shows the symbol's range,
\* the quotient and the remainder.
LEMMA CodeRange ==
  ASSUME NEW freq \in 1 .. prob_scale, NEW start \in Nat, start + freq <= prob_scale,
         NEW y \in Nat, K * freq <= y, y < (K * WORD32) * freq
  PROVE  LET z == C(y, start, freq)
         IN  /\ z \in States /\ z < WORD64
             /\ z % prob_scale = start + (y % freq)
             /\ z % prob_scale \in start .. start + freq - 1
             /\ D(z, start, freq) = y
<1> DEFINE q == y \div freq
           r == y % freq
           z == q * prob_scale + r + start
<1>1. freq \in Nat \ {0}
  BY Widths
<1>2. q \in Nat /\ r \in Nat /\ r < freq /\ y = q * freq + r
  BY <1>1, DivMod
<1>3. C(y, start, freq) = z
  BY DEF C
<1> HIDE DEF q, r
<1>4. q * prob_scale \in Nat /\ q * freq \in Nat /\ z \in Nat
  BY <1>1, <1>2, Widths, MulNat
<1>5. z \div prob_scale = q /\ z % prob_scale = r + start
  <2>1. r + start \in Nat /\ r + start < prob_scale /\ z = q * prob_scale + (r + start)
    BY <1>1, <1>2, <1>4, Widths
  <2> HIDE DEF z
  <2> QED
    BY <1>2, <1>4, <2>1, Widths, DivUnique
<1>6. K <= q
  <2>1. K * freq < (q + 1) * freq
    <3>1. (q + 1) * freq = q * freq + freq
      BY <1>1, <1>2
    <3>2. K * freq \in Nat
      BY <1>1, Widths, MulNat
    <3> QED
      BY <1>1, <1>2, <1>4, <3>1, <3>2
  <2>2. K < q + 1
    BY <1>1, <1>2, <2>1, Widths, MulCancel
  <2> QED
    BY <1>2, <2>2, Widths
<1>7. q < K * WORD32
  <2>1. K * WORD32 \in Nat
    BY Widths, MulNat
  <2>2. (K * WORD32) * freq \in Nat
    BY <1>1, <2>1, MulNat
  <2>3. q * freq < (K * WORD32) * freq
    BY <1>2, <1>4, <2>2
  <2> QED
    BY <1>1, <1>2, <2>1, <2>3, MulCancel
<1>8. RANS64_L <= z
  <2>1. K * prob_scale <= q * prob_scale
    BY <1>2, <1>6, Widths, MulMono
  <2> QED
    BY <1>2, <1>4, <2>1, Widths
<1>9. z < RANS64_L * WORD32
  <2>1. K * WORD32 \in Nat
    BY Widths, MulNat
  <2>2. q * prob_scale + prob_scale <= (K * WORD32) * prob_scale
    BY <1>2, <1>7, <2>1, Widths, MulStep
  <2>3. (K * WORD32) * prob_scale = (K * prob_scale) * WORD32
    BY Widths
  <2>4. (K * prob_scale) * WORD32 = RANS64_L * WORD32
    BY Widths
  <2>5. r + start < prob_scale
    BY <1>1, <1>2, Widths
  <2> QED
    BY <1>2, <1>4, <2>2, <2>3, <2>4, <2>5, Widths
<1>10. D(z, start, freq) = y
  <2>1. D(z, start, freq) = freq * q + (r + start) - start
    BY <1>5 DEF D
  <2>2. freq * q = q * freq
    BY <1>1, <1>2
  <2> QED
    BY <1>2, <1>4, <2>1, <2>2
<1>11. z < WORD64
  BY <1>4, <1>9, Widths
<1>12. z \in States
  BY <1>4, <1>8, <1>9 DEF States
<1>13. z % prob_scale = start + r /\ z % prob_scale \in start .. start + freq - 1
  BY <1>1, <1>2, <1>5
<1> HIDE DEF z
<1> QED
  BY <1>3, <1>10, <1>11, <1>12, <1>13 DEF r

-----------------------------------------------------------------------------
(* The table, and one symbol of the coder.                                 *)

\* The range of a symbol that occurs.
LEMMA Ranges ==
  ASSUME cum_freqs \in Tables, NEW s \in Symbols, freqs[s] > 0
  PROVE  /\ s \in 0 .. SymbolCount /\ s + 1 \in 0 .. SymbolCount
         /\ cum_freqs[s] \in Nat /\ cum_freqs[s + 1] \in Nat
         /\ freqs[s] \in 1 .. prob_scale
         /\ freqs[s] = cum_freqs[s + 1] - cum_freqs[s]
         /\ cum_freqs[s] + freqs[s] <= prob_scale
<1>1. s \in 0 .. SymbolCount /\ s + 1 \in 0 .. SymbolCount
  BY BoundAssumption DEF Symbols
<1>2. cum_freqs[s] \in 0 .. prob_scale /\ cum_freqs[s + 1] \in 0 .. prob_scale
  BY <1>1 DEF Tables
<1>3. freqs[s] = cum_freqs[s + 1] - cum_freqs[s]
  BY DEF freqs
<1> QED
  BY <1>1, <1>2, <1>3, Widths

\* The symbol whose range a value lies in is the one cum2sym gives.
LEMMA SymbolFound ==
  ASSUME cum_freqs \in Tables, NEW s \in Symbols, freqs[s] > 0, NEW x \in Nat,
         x % prob_scale \in cum_freqs[s] .. cum_freqs[s] + freqs[s] - 1
  PROVE  cum2sym(x) = s
<1> DEFINE v == x % prob_scale
           In(t) == cum_freqs[t] <= v /\ v < cum_freqs[t + 1]
<1>1. v \in Nat
  BY Widths
<1> HIDE DEF v
<1>2. In(s)
  <2>1. /\ cum_freqs[s] \in Nat /\ cum_freqs[s + 1] \in Nat
        /\ freqs[s] = cum_freqs[s + 1] - cum_freqs[s]
    BY Ranges
  <2>2. v \in cum_freqs[s] .. cum_freqs[s] + freqs[s] - 1
    BY DEF v
  <2> QED
    BY <1>1, <2>1, <2>2
<1>3. ASSUME NEW t \in Symbols, NEW r \in Symbols, In(t), In(r), t < r PROVE FALSE
  <2>1. t + 1 \in 0 .. SymbolCount /\ r \in 0 .. SymbolCount /\ t + 1 <= r
    BY <1>3, BoundAssumption DEF Symbols
  <2>2. cum_freqs[t + 1] <= cum_freqs[r]
    BY <2>1 DEF Tables
  <2>3. cum_freqs[t + 1] \in Nat /\ cum_freqs[r] \in Nat
    BY <2>1, Widths DEF Tables
  <2> QED
    BY <1>1, <1>3, <2>2, <2>3
<1>4. \A t \in Symbols : In(t) => t = s
  <2>1. s \in Int /\ \A t \in Symbols : t \in Int
    BY DEF Symbols
  <2> HIDE DEF In
  <2> QED
    BY <1>2, <1>3, <2>1
<1>5. cum2sym(x) = CHOOSE t \in Symbols : In(t)
  BY DEF cum2sym, v
<1> HIDE DEF In
<1> QED
  BY <1>2, <1>4, <1>5

\* Encoding a symbol that occurs keeps the state normalised, with the reciprocal
\* in place of the division ...
LEMMA PutOne ==
  ASSUME cum_freqs \in Tables, NEW s \in Symbols, freqs[s] > 0, NEW x \in States
  PROVE  /\ PutState(x, s) \in States
         /\ PutState(x, s) = C(Renormed(x, freqs[s]), cum_freqs[s], freqs[s])
         /\ cum2sym(PutState(x, s)) = s
         /\ Got(PutState(x, s)) = Renormed(x, freqs[s])
<1> DEFINE f == freqs[s]
           c == cum_freqs[s]
           y == Renormed(x, f)
           z == C(y, c, f)
<1>1. f \in 1 .. prob_scale /\ c \in Nat /\ c + f <= prob_scale
  BY Ranges
<1> HIDE DEF f, c
<1>2. /\ y \in Nat \ {0} /\ y < RANS64_L * WORD32
      /\ K * f <= y /\ y < (K * WORD32) * f
  BY <1>1, RenormRange
<1> HIDE DEF y
<1>3. /\ z \in States /\ z < WORD64
      /\ z % prob_scale \in c .. c + f - 1
      /\ D(z, c, f) = y
  BY <1>1, <1>2, CodeRange
<1>4. PutState(x, s) = z
  <2>1. EncStep(y, Rans64EncSymbolInit(c, f)) = z
    BY <1>1, <1>2, <1>3, EncIsC
  <2> QED
    BY <2>1 DEF PutState, esyms, y, f, c
<1> HIDE DEF z
<1>5. cum2sym(z) = s
  BY <1>3, SymbolFound DEF States, f, c
<1>6. Got(z) = y
  BY <1>3, <1>5 DEF Got, f, c
<1> QED
  BY <1>3, <1>4, <1>5, <1>6 DEF z, y, f, c

LEMMA FirstWord ==
  ASSUME NEW a \in Nat, NEW w \in Seq(Nat)
  PROVE  <<a>> \o w \in Seq(Nat) /\ Head(<<a>> \o w) = a /\ Tail(<<a>> \o w) = w
OBVIOUS

\* ... and decoding undoes it.
LEMMA GetOne ==
  ASSUME cum_freqs \in Tables, NEW s \in Symbols, freqs[s] > 0, NEW x \in States,
         NEW w \in Seq(Nat)
  PROVE  LET z == PutState(x, s)
             v == PutWords(x, s, w)
         IN  v \in Seq(Nat) /\ GetState(z, v) = x /\ GetWords(z, v) = w
<1> DEFINE z == PutState(x, s)
           v == PutWords(x, s, w)
           y == Renormed(x, freqs[s])
<1>1. Got(z) = y
  BY PutOne
<1>2. /\ y \in Nat
      /\ Emits(x, freqs[s]) => y < RANS64_L /\ y * WORD32 + (x % WORD32) = x
      /\ ~Emits(x, freqs[s]) => y = x
  BY Ranges, RenormRange
<1>3. x \in Nat /\ x >= RANS64_L /\ RANS64_L \in Nat
  BY Widths DEF States
<1> HIDE DEF z, y
<1>4. CASE Emits(x, freqs[s])
  <2>1. x % WORD32 \in Nat
    BY <1>3, Widths, DivMod
  <2>2. v = <<x % WORD32>> \o w
    BY <1>4 DEF PutWords
  <2>3. v \in Seq(Nat) /\ Head(v) = x % WORD32 /\ Tail(v) = w
    BY <2>1, <2>2, FirstWord
  <2> HIDE DEF v
  <2> QED
    BY <1>1, <1>2, <1>4, <2>3 DEF GetState, GetWords, z, v
<1>5. CASE ~Emits(x, freqs[s])
  <2>1. v = w
    BY <1>5 DEF PutWords
  <2>2. ~(y < RANS64_L)
    BY <1>2, <1>3, <1>5
  <2> QED
    BY <1>1, <1>2, <1>5, <2>1, <2>2 DEF GetState, GetWords, z
<1> QED
  BY <1>4, <1>5

-----------------------------------------------------------------------------
(* The invariant.  The decoder goes back through the states that the       *)
(* encoder has been in; the invariant says that there is such a way.       *)

Pairs == Len(pin) \div 2
Odd == Len(pin) % 2 = 1

\* Every symbol of the message has a place in the table.
MessageOK ==
  /\ cum_freqs \in Tables
  /\ pin \in Seq(Symbols)
  /\ \A k \in 1 .. Len(pin) : freqs[pin[k]] > 0

\* Where the encoder stands before the first pair.
First == IF Odd THEN PutState(RANS64_L, pin[Len(pin)]) ELSE RANS64_L
FirstWords == IF Odd THEN PutWords(RANS64_L, pin[Len(pin)], <<>>) ELSE <<>>

\* a and b are the two states, and w the stream, when the pairs behind each
\* number down to k have been encoded.
Trace(k, a, b, w) ==
  /\ a[Pairs] = First /\ b[Pairs] = RANS64_L /\ w[Pairs] = FirstWords
  /\ \A j \in k + 1 .. Pairs :
       /\ a[j - 1] = PutState(a[j], pin[2 * j - 1])
       /\ b[j - 1] = PutState(b[j], pin[2 * j])
       /\ w[j - 1] = PutWords(a[j], pin[2 * j - 1], PutWords(b[j], pin[2 * j], w[j]))

Stream(x, y, w) == <<x % WORD32, x \div WORD32, y % WORD32, y \div WORD32>> \o w

\* The coder stands on such a way.
OnTheWay ==
  \E k \in 0 .. Pairs :
    \E a \in [0 .. Pairs -> States], b \in [0 .. Pairs -> States],
       w \in [0 .. Pairs -> Seq(Nat)] :
      /\ i = 2 * k
      /\ Trace(k, a, b, w)
      /\ IF pc = "stream" THEN k = 0 /\ words = Stream(a[0], b[0], w[0])
         ELSE rans = <<a[k], b[k]>> /\ words = w[k]

Begun == /\ Odd /\ i = 2 * Pairs /\ pout = <<>>
         /\ rans = <<RANS64_L, RANS64_L>> /\ words = <<>>

Decoded == /\ pout \in Seq(Symbols) /\ Len(pout) = i
           /\ \A k \in 1 .. i : pout[k] = pin[k]

CoderInv ==
  /\ MessageOK
  /\ \/ pc = "odd" /\ Begun
     \/ pc \in {"pairs", "stream"} /\ OnTheWay /\ pout = <<>>
     \/ pc = "get" /\ OnTheWay /\ Decoded
     \/ pc = "done" /\ RoundTrip

-----------------------------------------------------------------------------

\* The way does not change with the place on it.
LEMMA SameMessage ==
  ASSUME UNCHANGED <<pin, cum_freqs>>, MessageOK
  PROVE  /\ MessageOK' /\ Pairs' = Pairs /\ (Odd' <=> Odd)
         /\ First' = First /\ FirstWords' = FirstWords
         /\ \A k, a, b, w : Trace(k, a, b, w)' <=> Trace(k, a, b, w)
<1>1. freqs' = freqs /\ Pairs' = Pairs /\ (Odd' <=> Odd)
  BY DEF freqs, Pairs, Odd
<1>2. MessageOK'
  BY <1>1 DEF MessageOK
<1>3. /\ \A x, s : PutState(x, s)' = PutState(x, s)
      /\ \A x, s, w : PutWords(x, s, w)' = PutWords(x, s, w)
  BY <1>1 DEF PutState, PutWords, esyms
<1>4. First' = First /\ FirstWords' = FirstWords
  BY <1>1, <1>3 DEF First, FirstWords
<1>5. \A k, a, b, w : Trace(k, a, b, w)' <=> Trace(k, a, b, w)
  BY <1>1, <1>3, <1>4 DEF Trace
<1> QED
  BY <1>1, <1>2, <1>4, <1>5

LEMMA Sizes ==
  ASSUME MessageOK
  PROVE  /\ Len(pin) \in Nat /\ Pairs \in Nat
         /\ Len(pin) = IF Odd THEN 2 * Pairs + 1 ELSE 2 * Pairs
         /\ \A k \in 1 .. Len(pin) : pin[k] \in Symbols /\ freqs[pin[k]] > 0
<1>1. Len(pin) \in Nat /\ \A k \in 1 .. Len(pin) : pin[k] \in Symbols
  BY DEF MessageOK
<1> QED
  BY <1>1 DEF MessageOK, Pairs, Odd

LEMMA FirstOK ==
  ASSUME MessageOK
  PROVE  RANS64_L \in States /\ First \in States /\ FirstWords \in Seq(Nat)
<1>1. RANS64_L \in States
  BY Widths DEF States
<1>2. CASE Odd
  <2>1. Len(pin) \in 1 .. Len(pin)
    BY <1>2, Sizes
  <2>2. /\ pin[Len(pin)] \in Symbols /\ freqs[pin[Len(pin)]] > 0
        /\ cum_freqs \in Tables /\ <<>> \in Seq(Nat)
    BY <2>1, Sizes DEF MessageOK
  <2>3. PutState(RANS64_L, pin[Len(pin)]) \in States
    BY <1>1, <2>2, PutOne
  <2>4. PutWords(RANS64_L, pin[Len(pin)], <<>>) \in Seq(Nat)
    BY <1>1, <2>2, GetOne
  <2> QED
    BY <1>1, <1>2, <2>3, <2>4 DEF First, FirstWords
<1>3. CASE ~Odd
  BY <1>1, <1>3 DEF First, FirstWords
<1> QED
  BY <1>2, <1>3

\* Before the first pair, the way has one place.
LEMMA WayBegins ==
  ASSUME MessageOK
  PROVE  \E a \in [0 .. Pairs -> States], b \in [0 .. Pairs -> States],
            w \in [0 .. Pairs -> Seq(Nat)] :
           /\ Trace(Pairs, a, b, w)
           /\ a[Pairs] = First /\ b[Pairs] = RANS64_L /\ w[Pairs] = FirstWords
<1> DEFINE a == [j \in 0 .. Pairs |-> First]
           b == [j \in 0 .. Pairs |-> RANS64_L]
           w == [j \in 0 .. Pairs |-> FirstWords]
<1>1. Pairs \in Nat
  BY Sizes
<1>2. /\ a \in [0 .. Pairs -> States] /\ b \in [0 .. Pairs -> States]
      /\ w \in [0 .. Pairs -> Seq(Nat)]
  BY FirstOK
<1>3. a[Pairs] = First /\ b[Pairs] = RANS64_L /\ w[Pairs] = FirstWords
  BY <1>1
<1> HIDE DEF a, b, w
<1>4. Pairs + 1 .. Pairs = {}
  BY <1>1
<1>5. Trace(Pairs, a, b, w)
  BY <1>3, <1>4 DEF Trace
<1> QED
  BY <1>2, <1>3, <1>5

LEMMA InitCoder == Init => CoderInv
<1> SUFFICES ASSUME Init PROVE CoderInv
  OBVIOUS
<1>1. PICK n \in 1 .. MaxLen : pin \in [1 .. n -> {s \in Symbols : freqs[s] > 0}]
  BY DEF Init, Messages
<1>2. n \in Nat
  BY BoundAssumption
<1>3. pin \in Seq(Symbols) /\ Len(pin) = n /\ \A k \in 1 .. n : freqs[pin[k]] > 0
  BY <1>1, <1>2
<1>4. MessageOK
  BY <1>3 DEF Init, MessageOK
<1>5. CASE Odd
  <2>1. pc = "odd" /\ Begun
    BY <1>5 DEF Init, Begun, Odd, Pairs
  <2> QED
    BY <1>4, <2>1 DEF CoderInv
<1>6. CASE ~Odd
  <2>1. /\ pc = "pairs" /\ pout = <<>> /\ i = 2 * Pairs
        /\ rans = <<First, RANS64_L>> /\ words = FirstWords
    BY <1>6 DEF Init, Odd, Pairs, First, FirstWords
  <2>2. Pairs \in 0 .. Pairs
    BY <1>4, Sizes
  <2>3. OnTheWay
    BY <1>4, <2>1, <2>2, WayBegins DEF OnTheWay
  <2> QED
    BY <1>4, <2>1, <2>3 DEF CoderInv
<1> QED
  BY <1>5, <1>6

LEMMA OddKeeps == ASSUME CoderInv, put_odd PROVE CoderInv'
<1>1. /\ MessageOK /\ Begun /\ pc = "odd" /\ pc' = "pairs"
      /\ UNCHANGED <<pin, cum_freqs, i, pout>>
  BY DEF CoderInv, put_odd
<1>2. rans' = <<First, RANS64_L>> /\ words' = FirstWords /\ i' = 2 * Pairs
  BY <1>1 DEF put_odd, Begun, First, FirstWords
<1>3. Pairs \in 0 .. Pairs
  BY <1>1, Sizes
<1>4. PICK a \in [0 .. Pairs -> States], b \in [0 .. Pairs -> States],
           w \in [0 .. Pairs -> Seq(Nat)] :
        /\ Trace(Pairs, a, b, w)
        /\ a[Pairs] = First /\ b[Pairs] = RANS64_L /\ w[Pairs] = FirstWords
  BY <1>1, WayBegins
<1>5. Trace(Pairs, a, b, w)' /\ Pairs' = Pairs /\ MessageOK'
  BY <1>1, <1>4, SameMessage
<1>7. OnTheWay'
  BY <1>1, <1>2, <1>3, <1>4, <1>5 DEF OnTheWay
<1> QED
  BY <1>1, <1>5, <1>7 DEF CoderInv, Begun

\* What OnTheWay says, for the step lemmas.
LEMMA Place ==
  ASSUME MessageOK, OnTheWay
  PROVE  \E k \in 0 .. Pairs :
           \E a \in [0 .. Pairs -> States], b \in [0 .. Pairs -> States],
              w \in [0 .. Pairs -> Seq(Nat)] :
             /\ i = 2 * k /\ Trace(k, a, b, w)
             /\ a[k] \in States /\ b[k] \in States /\ w[k] \in Seq(Nat)
             /\ IF pc = "stream" THEN k = 0 /\ words = Stream(a[0], b[0], w[0])
                ELSE rans = <<a[k], b[k]>> /\ words = w[k]
BY DEF OnTheWay

LEMMA PairKeeps == ASSUME CoderInv, put_pair PROVE CoderInv'
<1>1. /\ MessageOK /\ OnTheWay /\ pc = "pairs" /\ pc' = "pairs" /\ pout = <<>> /\ i > 0
      /\ UNCHANGED <<pin, cum_freqs, pout>>
  BY DEF CoderInv, put_pair
<1>2. PICK k \in 0 .. Pairs :
        \E a \in [0 .. Pairs -> States], b \in [0 .. Pairs -> States],
           w \in [0 .. Pairs -> Seq(Nat)] :
          /\ i = 2 * k /\ Trace(k, a, b, w)
          /\ a[k] \in States /\ b[k] \in States /\ w[k] \in Seq(Nat)
          /\ rans = <<a[k], b[k]>> /\ words = w[k]
  BY <1>1, Place
<1>3. PICK a \in [0 .. Pairs -> States], b \in [0 .. Pairs -> States],
           w \in [0 .. Pairs -> Seq(Nat)] :
        /\ i = 2 * k /\ Trace(k, a, b, w)
        /\ a[k] \in States /\ b[k] \in States /\ w[k] \in Seq(Nat)
        /\ rans = <<a[k], b[k]>> /\ words = w[k]
  BY <1>2
<1>4. /\ k \in Nat /\ k > 0 /\ k - 1 \in 0 .. Pairs /\ Pairs \in Nat
      /\ 2 * k \in 1 .. Len(pin) /\ 2 * k - 1 \in 1 .. Len(pin)
  BY <1>1, <1>3, Sizes
<1> DEFINE s1 == pin[2 * k]
           s0 == pin[2 * k - 1]
           x == PutState(a[k], s0)
           y == PutState(b[k], s1)
           v == PutWords(a[k], s0, PutWords(b[k], s1, w[k]))
           A == [a EXCEPT ![k - 1] = x]
           B == [b EXCEPT ![k - 1] = y]
           V == [w EXCEPT ![k - 1] = v]
<1>5. rans' = <<x, y>> /\ words' = v /\ i' = 2 * (k - 1)
  BY <1>3, <1>4 DEF put_pair
<1>6. /\ s0 \in Symbols /\ freqs[s0] > 0 /\ s1 \in Symbols /\ freqs[s1] > 0
      /\ cum_freqs \in Tables
  BY <1>1, <1>4, Sizes DEF MessageOK
<1> HIDE DEF s0, s1
<1>7. x \in States /\ y \in States /\ v \in Seq(Nat)
  <2>1. PutWords(b[k], s1, w[k]) \in Seq(Nat)
    BY <1>3, <1>6, GetOne
  <2> QED
    BY <1>3, <1>6, <2>1, PutOne, GetOne
<1> HIDE DEF x, y, v
<1>8. /\ A \in [0 .. Pairs -> States] /\ B \in [0 .. Pairs -> States]
      /\ V \in [0 .. Pairs -> Seq(Nat)]
      /\ A[k - 1] = x /\ B[k - 1] = y /\ V[k - 1] = v
      /\ \A j \in k .. Pairs : A[j] = a[j] /\ B[j] = b[j] /\ V[j] = w[j]
  BY <1>4, <1>7
<1> HIDE DEF A, B, V
<1>9. Trace(k - 1, A, B, V)
  <2>1. Pairs \in k .. Pairs /\ (k - 1) + 1 = k /\ k \in k .. Pairs
    BY <1>4
  <2>2. A[Pairs] = First /\ B[Pairs] = RANS64_L /\ V[Pairs] = FirstWords
    BY <1>3, <1>8, <2>1 DEF Trace
  <2>3. ASSUME NEW j \in k .. Pairs, j # k
        PROVE  /\ A[j - 1] = PutState(A[j], pin[2 * j - 1])
               /\ B[j - 1] = PutState(B[j], pin[2 * j])
               /\ V[j - 1] = PutWords(A[j], pin[2 * j - 1], PutWords(B[j], pin[2 * j], V[j]))
    <3>1. j - 1 \in k .. Pairs /\ j \in k + 1 .. Pairs
      BY <1>4, <2>3
    <3>2. /\ a[j - 1] = PutState(a[j], pin[2 * j - 1])
          /\ b[j - 1] = PutState(b[j], pin[2 * j])
          /\ w[j - 1] = PutWords(a[j], pin[2 * j - 1], PutWords(b[j], pin[2 * j], w[j]))
      BY <1>3, <3>1 DEF Trace
    <3> QED
      BY <1>8, <3>1, <3>2
  <2>4. /\ A[k - 1] = PutState(A[k], pin[2 * k - 1])
        /\ B[k - 1] = PutState(B[k], pin[2 * k])
        /\ V[k - 1] = PutWords(A[k], pin[2 * k - 1], PutWords(B[k], pin[2 * k], V[k]))
    BY <1>8, <2>1 DEF x, y, v, s0, s1
  <2> QED
    BY <2>1, <2>2, <2>3, <2>4 DEF Trace
<1>10. PICK c \in [0 .. Pairs -> States], d \in [0 .. Pairs -> States],
            u \in [0 .. Pairs -> Seq(Nat)] :
         /\ Trace(k - 1, c, d, u)
         /\ rans' = <<c[k - 1], d[k - 1]>> /\ words' = u[k - 1]
  BY <1>5, <1>8, <1>9
<1>11. Trace(k - 1, c, d, u)' /\ Pairs' = Pairs /\ MessageOK'
  BY <1>1, <1>10, SameMessage
<1>12. OnTheWay'
  BY <1>1, <1>4, <1>5, <1>10, <1>11 DEF OnTheWay
<1> QED
  BY <1>1, <1>11, <1>12 DEF CoderInv

LEMMA FlushKeeps == ASSUME CoderInv, flush PROVE CoderInv'
<1>1. /\ MessageOK /\ OnTheWay /\ pc = "pairs" /\ pc' = "stream" /\ pout = <<>> /\ i = 0
      /\ UNCHANGED <<pin, cum_freqs, i, pout>>
  BY DEF CoderInv, flush
<1>2. PICK k \in 0 .. Pairs :
        \E a \in [0 .. Pairs -> States], b \in [0 .. Pairs -> States],
           w \in [0 .. Pairs -> Seq(Nat)] :
          i = 2 * k /\ Trace(k, a, b, w) /\ rans = <<a[k], b[k]>> /\ words = w[k]
  BY <1>1, Place
<1>3. k = 0 /\ Pairs \in Nat
  BY <1>1, <1>2, Sizes
<1>4. PICK a \in [0 .. Pairs -> States], b \in [0 .. Pairs -> States],
           w \in [0 .. Pairs -> Seq(Nat)] :
        Trace(0, a, b, w) /\ rans = <<a[0], b[0]>> /\ words = w[0]
  BY <1>2, <1>3
<1>5. words' = Stream(a[0], b[0], w[0])
  BY <1>4 DEF flush, Stream
<1>6. Trace(0, a, b, w)' /\ Pairs' = Pairs /\ MessageOK'
  BY <1>1, <1>4, SameMessage
<1>7. 0 \in 0 .. Pairs /\ i' = 2 * 0
  BY <1>1, <1>3
<1>8. OnTheWay'
  BY <1>1, <1>4, <1>5, <1>6, <1>7 DEF OnTheWay
<1> QED
  BY <1>1, <1>6, <1>8 DEF CoderInv

LEMMA ConcatOK ==
  ASSUME NEW S, NEW s \in Seq(S), NEW t \in Seq(S)
  PROVE  /\ s \o t \in Seq(S) /\ Len(s \o t) = Len(s) + Len(t)
         /\ \A j \in 1 .. Len(s) : (s \o t)[j] = s[j]
         /\ \A j \in 1 .. Len(t) : (s \o t)[Len(s) + j] = t[j]
         /\ SubSeq(s \o t, Len(s) + 1, Len(s \o t)) = t
<1>1. s \o t \in Seq(S) /\ Len(s \o t) = Len(s) + Len(t)
  OBVIOUS
<1>2. \A j \in 1 .. Len(s) : (s \o t)[j] = s[j]
  OBVIOUS
<1>3. \A j \in 1 .. Len(t) : (s \o t)[Len(s) + j] = t[j]
  OBVIOUS
<1>4. SubSeq(s \o t, Len(s) + 1, Len(s \o t)) = t
  OBVIOUS
<1> QED
  BY <1>1, <1>2, <1>3, <1>4

\* Rans64DecInit reads what Rans64EncFlush wrote.
LEMMA StreamLoads ==
  ASSUME NEW x \in Nat, NEW y \in Nat, NEW w \in Seq(Nat)
  PROVE  LET v == Stream(x, y, w)
         IN  /\ v[1] + v[2] * WORD32 = x /\ v[3] + v[4] * WORD32 = y
             /\ SubSeq(v, 5, Len(v)) = w
<1> DEFINE h == <<x % WORD32, x \div WORD32, y % WORD32, y \div WORD32>>
           v == h \o w
<1>1. /\ x \div WORD32 \in Nat /\ x % WORD32 \in Nat /\ y \div WORD32 \in Nat
      /\ y % WORD32 \in Nat
      /\ x = (x \div WORD32) * WORD32 + (x % WORD32)
      /\ y = (y \div WORD32) * WORD32 + (y % WORD32)
  BY Widths, DivMod
<1>2. /\ h \in Seq(Nat) /\ Len(h) = 4 /\ 4 \in Nat
      /\ h[1] = x % WORD32 /\ h[2] = x \div WORD32
      /\ h[3] = y % WORD32 /\ h[4] = y \div WORD32
  BY <1>1
<1> HIDE DEF h
<1>3. (\A j \in 1 .. 4 : v[j] = h[j]) /\ SubSeq(v, 4 + 1, Len(v)) = w
  <2>1. h \in Seq(Nat)
    BY <1>2
  <2>2. /\ \A j \in 1 .. Len(h) : v[j] = h[j]
        /\ SubSeq(v, Len(h) + 1, Len(v)) = w
    BY <2>1, ConcatOK
  <2> HIDE DEF v
  <2> QED
    BY <1>2, <2>2
<1> HIDE DEF v
<1>4. v[1] = h[1] /\ v[2] = h[2] /\ v[3] = h[3] /\ v[4] = h[4]
  BY <1>3
<1>5. v[1] + v[2] * WORD32 = x /\ v[3] + v[4] * WORD32 = y
  <2>1. (x \div WORD32) * WORD32 \in Nat /\ (y \div WORD32) * WORD32 \in Nat
    BY <1>1, Widths, MulNat
  <2>2. /\ v[1] = x % WORD32 /\ v[2] = x \div WORD32
        /\ v[3] = y % WORD32 /\ v[4] = y \div WORD32
    BY <1>2, <1>4
  <2>3. /\ (x % WORD32) + (x \div WORD32) * WORD32 = x
        /\ (y % WORD32) + (y \div WORD32) * WORD32 = y
    BY <1>1, <2>1
  <2> QED
    BY <2>2, <2>3
<1>6. SubSeq(v, 5, Len(v)) = w
  BY <1>3
<1>7. Stream(x, y, w) = v
  BY DEF Stream, v, h
<1> QED
  BY <1>5, <1>6, <1>7

LEMMA LoadKeeps == ASSUME CoderInv, load PROVE CoderInv'
<1>1. /\ MessageOK /\ OnTheWay /\ pc = "stream" /\ pc' = "get" /\ pout = <<>>
      /\ UNCHANGED <<pin, cum_freqs, i, pout>>
  BY DEF CoderInv, load
<1>2. PICK k \in 0 .. Pairs :
        \E a \in [0 .. Pairs -> States], b \in [0 .. Pairs -> States],
           w \in [0 .. Pairs -> Seq(Nat)] :
          /\ i = 2 * k /\ Trace(k, a, b, w)
          /\ a[k] \in States /\ b[k] \in States /\ w[k] \in Seq(Nat)
          /\ k = 0 /\ words = Stream(a[0], b[0], w[0])
  BY <1>1, Place
<1>3. k = 0 /\ i = 0 /\ Pairs \in Nat
  BY <1>1, <1>2, Sizes
<1>4. PICK a \in [0 .. Pairs -> States], b \in [0 .. Pairs -> States],
           w \in [0 .. Pairs -> Seq(Nat)] :
        /\ Trace(0, a, b, w)
        /\ a[0] \in States /\ b[0] \in States /\ w[0] \in Seq(Nat)
        /\ words = Stream(a[0], b[0], w[0])
  BY <1>2, <1>3
<1>5. a[0] \in Nat /\ b[0] \in Nat
  BY <1>4 DEF States
<1>6. /\ words[1] + words[2] * WORD32 = a[0] /\ words[3] + words[4] * WORD32 = b[0]
      /\ SubSeq(words, 5, Len(words)) = w[0]
  <2> DEFINE x == a[0]
             y == b[0]
             u == w[0]
  <2>1. x \in Nat /\ y \in Nat /\ u \in Seq(Nat) /\ words = Stream(x, y, u)
    BY <1>4, <1>5
  <2> HIDE DEF x, y, u
  <2>2. /\ words[1] + words[2] * WORD32 = x /\ words[3] + words[4] * WORD32 = y
        /\ SubSeq(words, 5, Len(words)) = u
    <3>1. LET v == Stream(x, y, u)
          IN  /\ v[1] + v[2] * WORD32 = x /\ v[3] + v[4] * WORD32 = y
              /\ SubSeq(v, 5, Len(v)) = u
      BY <2>1, StreamLoads
    <3> QED
      BY <2>1, <3>1
  <2> QED
    BY <2>2 DEF x, y, u
<1>7. rans' = <<a[0], b[0]>> /\ words' = w[0]
  BY <1>6 DEF load
<1>8. Trace(0, a, b, w)' /\ Pairs' = Pairs /\ MessageOK'
  BY <1>1, <1>4, SameMessage
<1>9. 0 \in 0 .. Pairs /\ i' = 2 * 0
  BY <1>1, <1>3
<1>10. OnTheWay'
  BY <1>1, <1>4, <1>7, <1>8, <1>9 DEF OnTheWay
<1>11. Decoded'
  BY <1>1, <1>3 DEF Decoded
<1> QED
  BY <1>1, <1>8, <1>10, <1>11 DEF CoderInv

\* The message read so far grows by what the two states show.
LEMMA TwoMore ==
  ASSUME MessageOK, Decoded, i \in Nat, i + 2 <= Len(pin), i' = i + 2, pin' = pin,
         pout' = pout \o <<pin[i + 1], pin[i + 2]>>
  PROVE  Decoded'
<1>1. /\ pout \in Seq(Symbols) /\ Len(pout) = i /\ Len(pin) \in Nat
      /\ \A k \in 1 .. i : pout[k] = pin[k]
  BY Sizes DEF Decoded
<1> DEFINE t == <<pin[i + 1], pin[i + 2]>>
<1>2. pin[i + 1] \in Symbols /\ pin[i + 2] \in Symbols
  BY <1>1, Sizes
<1>3. t \in Seq(Symbols) /\ Len(t) = 2 /\ t[1] = pin[i + 1] /\ t[2] = pin[i + 2]
  BY <1>2
<1>4. pout' = pout \o t
  OBVIOUS
<1> HIDE DEF t
<1>5. /\ pout \o t \in Seq(Symbols) /\ Len(pout \o t) = i + Len(t)
      /\ \A k \in 1 .. i : (pout \o t)[k] = pout[k]
      /\ \A k \in 1 .. Len(t) : (pout \o t)[i + k] = t[k]
  <2> DEFINE v == pout \o t
  <2>1. pout \in Seq(Symbols) /\ t \in Seq(Symbols)
    BY <1>1, <1>3
  <2>2. /\ v \in Seq(Symbols) /\ Len(v) = Len(pout) + Len(t)
        /\ \A k \in 1 .. Len(pout) : v[k] = pout[k]
        /\ \A k \in 1 .. Len(t) : v[Len(pout) + k] = t[k]
    BY <2>1, ConcatOK
  <2> HIDE DEF v
  <2> QED
    BY <1>1, <2>2 DEF v
<1>6. pout'[i + 1] = pin[i + 1] /\ pout'[i + 2] = pin[i + 2]
  <2>1. 1 \in 1 .. Len(t) /\ 2 \in 1 .. Len(t)
    BY <1>3
  <2>2. (pout \o t)[i + 1] = t[1] /\ (pout \o t)[i + 2] = t[2]
    BY <1>5, <2>1
  <2> QED
    BY <1>3, <1>4, <2>2
<1>7. ASSUME NEW k \in 1 .. i + 2 PROVE pout'[k] = pin[k]
  <2>1. k \in 1 .. i \/ k = i + 1 \/ k = i + 2
    OBVIOUS
  <2> QED
    BY <1>1, <1>4, <1>5, <1>6, <2>1
<1>8. pout' \in Seq(Symbols) /\ Len(pout') = i'
  BY <1>3, <1>4, <1>5
<1> QED
  BY <1>7, <1>8 DEF Decoded

\* The decoder takes the pair that the encoder put on last, and is where the
\* encoder was before it.
LEMMA GetPairKeeps == ASSUME CoderInv, get_pair PROVE CoderInv'
<1>1. /\ MessageOK /\ OnTheWay /\ Decoded /\ pc = "get" /\ pc' = "get"
      /\ i < 2 * Pairs /\ i' = i + 2 /\ UNCHANGED <<pin, cum_freqs>>
  BY DEF CoderInv, get_pair, Pairs
<1>2. PICK k \in 0 .. Pairs :
        \E a \in [0 .. Pairs -> States], b \in [0 .. Pairs -> States],
           w \in [0 .. Pairs -> Seq(Nat)] :
          i = 2 * k /\ Trace(k, a, b, w) /\ rans = <<a[k], b[k]>> /\ words = w[k]
  BY <1>1, Place
<1>3. PICK a \in [0 .. Pairs -> States], b \in [0 .. Pairs -> States],
           w \in [0 .. Pairs -> Seq(Nat)] :
        i = 2 * k /\ Trace(k, a, b, w) /\ rans = <<a[k], b[k]>> /\ words = w[k]
  BY <1>2
<1>4. /\ k \in Nat /\ Pairs \in Nat /\ k + 1 \in k + 1 .. Pairs /\ k + 1 \in 0 .. Pairs
      /\ 2 * k + 1 \in 1 .. Len(pin) /\ 2 * k + 2 \in 1 .. Len(pin)
      /\ 2 * (k + 1) - 1 = 2 * k + 1 /\ 2 * (k + 1) = 2 * k + 2 /\ (k + 1) - 1 = k
      /\ i \in Nat /\ i + 2 <= Len(pin)
  BY <1>1, <1>3, Sizes
<1> DEFINE s0 == pin[2 * k + 1]
           s1 == pin[2 * k + 2]
           x == a[k + 1]
           y == b[k + 1]
           u == w[k + 1]
           v == PutWords(y, s1, u)
<1>5. /\ s0 \in Symbols /\ freqs[s0] > 0 /\ s1 \in Symbols /\ freqs[s1] > 0
      /\ cum_freqs \in Tables
  BY <1>1, <1>4, Sizes DEF MessageOK
<1>6. x \in States /\ y \in States /\ u \in Seq(Nat)
  BY <1>4
<1>7. a[k] = PutState(x, s0) /\ b[k] = PutState(y, s1) /\ w[k] = PutWords(x, s0, v)
  <2>1. /\ a[(k + 1) - 1] = PutState(a[k + 1], pin[2 * (k + 1) - 1])
        /\ b[(k + 1) - 1] = PutState(b[k + 1], pin[2 * (k + 1)])
        /\ w[(k + 1) - 1] = PutWords(a[k + 1], pin[2 * (k + 1) - 1],
                                     PutWords(b[k + 1], pin[2 * (k + 1)], w[k + 1]))
    BY <1>3, <1>4 DEF Trace
  <2> QED
    BY <1>4, <2>1
<1> HIDE DEF s0, s1, x, y, u
<1>8. v \in Seq(Nat) /\ GetState(b[k], v) = y /\ GetWords(b[k], v) = u
  BY <1>5, <1>6, <1>7, GetOne
<1> HIDE DEF v
<1>9. GetState(a[k], w[k]) = x /\ GetWords(a[k], w[k]) = v
  BY <1>5, <1>6, <1>7, <1>8, GetOne
<1>10. cum2sym(a[k]) = s0 /\ cum2sym(b[k]) = s1
  BY <1>5, <1>6, <1>7, PutOne
<1>11. rans[1] = a[k] /\ rans[2] = b[k] /\ words = w[k]
  BY <1>3
<1>12. rans' = <<x, y>> /\ words' = u /\ pout' = pout \o <<s0, s1>>
  BY <1>8, <1>9, <1>10, <1>11 DEF get_pair
<1>13. Decoded'
  <2>1. pout' = pout \o <<pin[i + 1], pin[i + 2]>>
    BY <1>3, <1>12 DEF s0, s1
  <2> QED
    BY <1>1, <1>4, <2>1, TwoMore
<1>14. Trace(k + 1, a, b, w)
  <2>1. \A j \in (k + 1) + 1 .. Pairs : j \in k + 1 .. Pairs
    BY <1>4
  <2> QED
    BY <1>3, <2>1 DEF Trace
<1>15. Trace(k + 1, a, b, w)' /\ Pairs' = Pairs /\ MessageOK'
  BY <1>1, <1>14, SameMessage
<1>16. i' = 2 * (k + 1) /\ rans' = <<a[k + 1], b[k + 1]>> /\ words' = w[k + 1]
  BY <1>1, <1>3, <1>4, <1>12 DEF x, y, u
<1>17. OnTheWay'
  BY <1>1, <1>4, <1>15, <1>16 DEF OnTheWay
<1> QED
  BY <1>1, <1>13, <1>15, <1>17 DEF CoderInv

LEMMA SameSeq ==
  ASSUME NEW S, NEW s \in Seq(S), NEW t \in Seq(S), Len(s) = Len(t),
         \A k \in 1 .. Len(s) : s[k] = t[k]
  PROVE  s = t
OBVIOUS

LEMMA EndKeeps == ASSUME CoderInv, get_end PROVE CoderInv'
<1>1. /\ MessageOK /\ OnTheWay /\ Decoded /\ pc = "get" /\ pc' = "done"
      /\ i = 2 * Pairs /\ UNCHANGED <<pin, cum_freqs>>
  BY DEF CoderInv, get_end, Pairs
<1>2. PICK k \in 0 .. Pairs :
        \E a \in [0 .. Pairs -> States], b \in [0 .. Pairs -> States],
           w \in [0 .. Pairs -> Seq(Nat)] :
          i = 2 * k /\ Trace(k, a, b, w) /\ rans = <<a[k], b[k]>> /\ words = w[k]
  BY <1>1, Place
<1>3. k = Pairs /\ Pairs \in Nat
  BY <1>1, <1>2, Sizes
<1>4. rans = <<First, RANS64_L>> /\ words = FirstWords
  BY <1>2, <1>3 DEF Trace
<1>5. /\ pin \in Seq(Symbols) /\ pout \in Seq(Symbols) /\ Len(pout) = 2 * Pairs
      /\ \A j \in 1 .. 2 * Pairs : pout[j] = pin[j]
  BY <1>1 DEF MessageOK, Decoded
<1>6. MessageOK'
  BY <1>1, SameMessage
<1>7. RoundTrip'
  <2>1. CASE Odd
    <3> DEFINE n == Len(pin)
               s == pin[n]
    <3>1. n = 2 * Pairs + 1 /\ n \in 1 .. n
      BY <1>1, <1>3, <2>1, Sizes
    <3>2. s \in Symbols /\ freqs[s] > 0 /\ cum_freqs \in Tables /\ <<>> \in Seq(Nat)
      BY <1>1, <3>1, Sizes DEF MessageOK
    <3>3. RANS64_L \in States
      BY <1>1, FirstOK
    <3>4. First = PutState(RANS64_L, s) /\ FirstWords = PutWords(RANS64_L, s, <<>>)
      BY <2>1 DEF First, FirstWords
    <3> HIDE DEF s
    <3>5. /\ GetState(First, FirstWords) = RANS64_L
          /\ GetWords(First, FirstWords) = <<>> /\ cum2sym(First) = s
      BY <3>2, <3>3, <3>4, GetOne, PutOne
    <3>6. /\ rans' = <<RANS64_L, RANS64_L>> /\ words' = <<>>
          /\ pout' = Append(pout, s)
      <4>1. rans[1] = First /\ rans[2] = RANS64_L /\ words = FirstWords
        BY <1>4
      <4> QED
        BY <2>1, <3>5, <4>1 DEF get_end, Odd
    <3>7. Append(pout, s) = pin
      <4>1. /\ Append(pout, s) \in Seq(Symbols) /\ Len(Append(pout, s)) = n
            /\ \A j \in 1 .. 2 * Pairs : Append(pout, s)[j] = pout[j]
            /\ Append(pout, s)[n] = s
        BY <1>3, <1>5, <3>1, <3>2
      <4>2. \A j \in 1 .. n : Append(pout, s)[j] = pin[j]
        <5>1. \A j \in 1 .. n : j \in 1 .. 2 * Pairs \/ j = n
          BY <1>3, <3>1
        <5> QED
          BY <1>5, <4>1, <5>1 DEF s
      <4> QED
        BY <1>5, <4>1, <4>2, SameSeq
    <3> QED
      BY <1>1, <3>6, <3>7 DEF RoundTrip
  <2>2. CASE ~Odd
    <3>1. rans' = rans /\ words' = words /\ pout' = pout
      BY <2>2 DEF get_end, Odd
    <3>2. rans = <<RANS64_L, RANS64_L>> /\ words = <<>>
      BY <1>4, <2>2 DEF First, FirstWords
    <3>3. Len(pin) = 2 * Pairs
      BY <1>1, <2>2, Sizes
    <3>4. pout = pin
      BY <1>5, <3>3, SameSeq
    <3> QED
      BY <1>1, <3>1, <3>2, <3>4 DEF RoundTrip
  <2> QED
    BY <2>1, <2>2
<1> QED
  BY <1>1, <1>6, <1>7 DEF CoderInv

LEMMA StutterKeeps == ASSUME CoderInv, UNCHANGED vars PROVE CoderInv'
<1>1. MessageOK /\ UNCHANGED <<pin, cum_freqs>>
  BY DEF CoderInv, vars
<1>2. /\ MessageOK' /\ Pairs' = Pairs /\ (Odd' <=> Odd)
      /\ \A k, a, b, w : Trace(k, a, b, w)' <=> Trace(k, a, b, w)
  BY <1>1, SameMessage
<1>3. OnTheWay => OnTheWay'
  <2>1. pc' = pc /\ i' = i /\ rans' = rans /\ words' = words
    BY DEF vars
  <2>2. SUFFICES ASSUME OnTheWay PROVE OnTheWay'
    OBVIOUS
  <2>3. PICK k \in 0 .. Pairs :
          \E a \in [0 .. Pairs -> States], b \in [0 .. Pairs -> States],
             w \in [0 .. Pairs -> Seq(Nat)] :
            /\ i = 2 * k /\ Trace(k, a, b, w)
            /\ IF pc = "stream" THEN k = 0 /\ words = Stream(a[0], b[0], w[0])
               ELSE rans = <<a[k], b[k]>> /\ words = w[k]
    BY <2>2 DEF OnTheWay
  <2>4. PICK a \in [0 .. Pairs -> States], b \in [0 .. Pairs -> States],
             w \in [0 .. Pairs -> Seq(Nat)] :
          /\ i = 2 * k /\ Trace(k, a, b, w)
          /\ IF pc = "stream" THEN k = 0 /\ words = Stream(a[0], b[0], w[0])
             ELSE rans = <<a[k], b[k]>> /\ words = w[k]
    BY <2>3
  <2>5. Trace(k, a, b, w)'
    BY <1>2, <2>4
  <2> QED
    BY <1>2, <2>1, <2>4, <2>5 DEF OnTheWay
<1>4. (Begun => Begun') /\ (Decoded => Decoded') /\ (RoundTrip => RoundTrip')
  BY <1>2 DEF Begun, Decoded, RoundTrip, vars
<1>5. pc' = pc /\ pout' = pout
  BY DEF vars
<1> QED
  BY <1>2, <1>3, <1>4, <1>5 DEF CoderInv

-----------------------------------------------------------------------------
(* The theorems.                                                           *)

\* Wherever the coder stands, the encoder has been there: see OnTheWay.
THEOREM CoderInvariant == Spec => []CoderInv
<1>1. Init => CoderInv
  BY InitCoder
<1>2. CoderInv /\ [Next]_vars => CoderInv'
  BY OddKeeps, PairKeeps, FlushKeeps, LoadKeeps, GetPairKeeps, EndKeeps, StutterKeeps
     DEF Next
<1> QED
  BY <1>1, <1>2, PTL DEF Spec

\* RoundTrip: ransuncompress returns what ranscompress was given, reads every word
\* and ends with both states where the encoder began.
THEOREM DecodesMessage == Spec => []RoundTrip
<1>1. CoderInv => RoundTrip
  BY DEF CoderInv, RoundTrip
<1> QED
  BY <1>1, CoderInvariant, PTL

\* Normalised: no state leaves the interval in which one word read or written per
\* symbol is enough.
THEOREM StatesNormalised == Spec => []Normalised
<1>1. ASSUME CoderInv, pc # "stream" PROVE rans[1] \in States /\ rans[2] \in States
  <2>1. RANS64_L \in States
    BY Widths DEF States
  <2>2. CASE OnTheWay
    <3>1. MessageOK
      BY <1>1 DEF CoderInv
    <3>2. \E x \in States, y \in States : rans = <<x, y>>
      BY <1>1, <2>2, <3>1, Place
    <3> QED
      BY <3>2
  <2>3. CASE Begun
    BY <2>1, <2>3 DEF Begun
  <2>4. CASE pc = "done" /\ RoundTrip
    BY <2>1, <2>4 DEF RoundTrip
  <2> QED
    BY <1>1, <2>2, <2>3, <2>4 DEF CoderInv
<1>2. States \subseteq RANS64_L .. RANS64_L * WORD32 - 1
  BY Widths DEF States
<1>3. CoderInv => Normalised
  BY <1>1, <1>2 DEF Normalised
<1> QED
  BY <1>3, CoderInvariant, PTL

\* ReciprocalExact: with the reciprocal, Rans64EncPutSymbol leaves the state that the
\* division of Rans64EncPut leaves, of pairs and of an odd last byte.
THEOREM DivisionExact == Spec => ReciprocalExact
<1> DEFINE Divided(k, s) ==
             rans'[k] = C(Renormed(rans[k], freqs[s]), cum_freqs[s], freqs[s])
           Exact == /\ put_odd => Divided(1, pin[Len(pin)])
                    /\ put_pair => Divided(1, pin[i - 1]) /\ Divided(2, pin[i])
<1>1. ASSUME CoderInv, put_pair PROVE Divided(1, pin[i - 1]) /\ Divided(2, pin[i])
  <2>1. /\ MessageOK /\ OnTheWay /\ pc = "pairs" /\ i > 0
    BY <1>1 DEF CoderInv, put_pair
  <2>2. PICK k \in 0 .. Pairs : \E x \in States, y \in States : i = 2 * k /\ rans = <<x, y>>
    BY <2>1, Place
  <2>3. PICK x \in States, y \in States : rans = <<x, y>>
    BY <2>2
  <2>4. /\ i \in Nat /\ i - 1 \in 1 .. Len(pin) /\ i \in 1 .. Len(pin)
    BY <2>1, <2>2, Sizes
  <2> DEFINE s0 == pin[i - 1]
             s1 == pin[i]
  <2>5. /\ s0 \in Symbols /\ freqs[s0] > 0 /\ s1 \in Symbols /\ freqs[s1] > 0
        /\ cum_freqs \in Tables
    BY <2>1, <2>4, Sizes DEF MessageOK
  <2>6. rans' = <<PutState(x, s0), PutState(y, s1)>> /\ rans[1] = x /\ rans[2] = y
    BY <1>1, <2>3 DEF put_pair
  <2> HIDE DEF s0, s1
  <2>7. /\ PutState(x, s0) = C(Renormed(x, freqs[s0]), cum_freqs[s0], freqs[s0])
        /\ PutState(y, s1) = C(Renormed(y, freqs[s1]), cum_freqs[s1], freqs[s1])
    BY <2>5, PutOne
  <2>8. /\ rans'[1] = C(Renormed(rans[1], freqs[s0]), cum_freqs[s0], freqs[s0])
        /\ rans'[2] = C(Renormed(rans[2], freqs[s1]), cum_freqs[s1], freqs[s1])
    BY <2>6, <2>7
  <2> QED
    BY <2>8 DEF s0, s1
<1>2. ASSUME CoderInv, put_odd PROVE Divided(1, pin[Len(pin)])
  <2>1. MessageOK /\ Begun
    BY <1>2 DEF CoderInv, put_odd
  <2>2. Len(pin) \in 1 .. Len(pin) /\ cum_freqs \in Tables
    BY <2>1, Sizes DEF Begun, MessageOK
  <2> DEFINE s == pin[Len(pin)]
  <2>3. s \in Symbols /\ freqs[s] > 0
    BY <2>1, <2>2, Sizes
  <2>4. rans[1] \in States /\ rans'[1] = PutState(rans[1], s)
    BY <1>2, <2>1, FirstOK DEF put_odd, Begun
  <2> HIDE DEF s
  <2>5. PutState(rans[1], s) = C(Renormed(rans[1], freqs[s]), cum_freqs[s], freqs[s])
    BY <2>2, <2>3, <2>4, PutOne
  <2> QED
    BY <2>4, <2>5 DEF s
<1>3. CoderInv => [Exact]_vars
  BY <1>1, <1>2
<1> QED
  BY <1>3, CoderInvariant, PTL DEF ReciprocalExact
=============================================================================
