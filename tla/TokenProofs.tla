----------------------------- MODULE TokenProofs ----------------------------
(***************************************************************************)
(* The token format of Lz16Tokens, for lengths and distances of any size:  *)
(* what is written is read back, wherever it stands in the sections.       *)
(***************************************************************************)
EXTENDS Lz16Tokens, SequenceTheorems, TLAPS

-----------------------------------------------------------------------------
(* Parts of sequences.                                                     *)

\* w stands in s behind the first n units.
Holds(s, n, w) == n + Len(w) <= Len(s) /\ \A j \in 1 .. Len(w) : s[n + j] = w[j]

LEMMA HoldsEnd ==
  ASSUME NEW s \in Seq(Nat), NEW w \in Seq(Nat)
  PROVE  Holds(s \o w, Len(s), w)
<1>1. /\ s \o w \in Seq(Nat) /\ Len(s \o w) = Len(s) + Len(w)
      /\ \A k \in 1 .. Len(s) + Len(w) : (s \o w)[k] = IF k <= Len(s) THEN s[k] ELSE w[k - Len(s)]
  BY ConcatProperties, Zenon
<1> DEFINE u == s \o w
<1>2. /\ Len(u) = Len(s) + Len(w)
      /\ \A k \in 1 .. Len(s) + Len(w) : u[k] = IF k <= Len(s) THEN s[k] ELSE w[k - Len(s)]
  BY <1>1, Zenon
<1> HIDE DEF u
<1>3. Len(s) \in Nat /\ Len(w) \in Nat
  OBVIOUS
<1>4. ASSUME NEW j \in 1 .. Len(w) PROVE u[Len(s) + j] = w[j]
  <2>1. Len(s) + j \in 1 .. Len(s) + Len(w) /\ ~ (Len(s) + j <= Len(s)) /\ (Len(s) + j) - Len(s) = j
    BY <1>3
  <2> QED BY <1>2, <2>1
<1>5. Holds(u, Len(s), w)
  BY <1>2, <1>3, <1>4 DEF Holds
<1> QED BY <1>5 DEF u

LEMMA HoldsLonger ==
  ASSUME NEW s \in Seq(Nat), NEW u \in Seq(Nat), NEW n \in Nat, NEW w \in Seq(Nat), Holds(s, n, w)
  PROVE  Holds(s \o u, n, w)
<1> DEFINE v == s \o u
<1>1. /\ Len(v) = Len(s) + Len(u)
      /\ \A k \in 1 .. Len(s) + Len(u) : v[k] = IF k <= Len(s) THEN s[k] ELSE u[k - Len(s)]
  BY ConcatProperties, Zenon
<1> HIDE DEF v
<1>2. Len(s) \in Nat /\ Len(u) \in Nat /\ Len(w) \in Nat /\ n + Len(w) <= Len(s)
  BY DEF Holds
<1>3. ASSUME NEW j \in 1 .. Len(w) PROVE v[n + j] = w[j]
  <2>1. n + j \in 1 .. Len(s) + Len(u) /\ n + j <= Len(s)
    BY <1>2
  <2>2. s[n + j] = w[j]
    BY DEF Holds
  <2> QED BY <1>1, <2>1, <2>2
<1>4. Holds(v, n, w)
  BY <1>1, <1>2, <1>3 DEF Holds
<1> QED BY <1>4 DEF v

LEMMA HoldsParts ==
  ASSUME NEW s \in Seq(Nat), NEW n \in Nat, NEW u \in Seq(Nat), NEW w \in Seq(Nat),
         Holds(s, n, u \o w)
  PROVE  Holds(s, n, u) /\ Holds(s, n + Len(u), w) /\ Len(u \o w) = Len(u) + Len(w)
<1> DEFINE v == u \o w
<1>1. /\ Len(v) = Len(u) + Len(w)
      /\ \A k \in 1 .. Len(u) + Len(w) : v[k] = IF k <= Len(u) THEN u[k] ELSE w[k - Len(u)]
  BY ConcatProperties, Zenon
<1>2. Holds(s, n, v)
  OBVIOUS
<1> HIDE DEF v
<1>3. Len(u) \in Nat /\ Len(w) \in Nat /\ Len(s) \in Nat /\ n + (Len(u) + Len(w)) <= Len(s)
  BY <1>1, <1>2 DEF Holds
<1>4. ASSUME NEW j \in 1 .. Len(u) PROVE s[n + j] = u[j]
  <2>1. j \in 1 .. Len(v) /\ j \in 1 .. Len(u) + Len(w) /\ j <= Len(u)
    BY <1>1, <1>3
  <2>2. s[n + j] = v[j]
    BY <1>2, <2>1 DEF Holds
  <2> QED BY <1>1, <2>1, <2>2
<1>5. ASSUME NEW j \in 1 .. Len(w) PROVE s[(n + Len(u)) + j] = w[j]
  <2>1. /\ Len(u) + j \in 1 .. Len(v) /\ Len(u) + j \in 1 .. Len(u) + Len(w) /\ ~ (Len(u) + j <= Len(u))
        /\ n + (Len(u) + j) = (n + Len(u)) + j /\ (Len(u) + j) - Len(u) = j
    BY <1>1, <1>3
  <2>2. s[n + (Len(u) + j)] = v[Len(u) + j]
    BY <1>2, <2>1 DEF Holds
  <2> QED BY <1>1, <2>1, <2>2
<1>6. Holds(s, n, u)
  BY <1>3, <1>4 DEF Holds
<1>7. (n + Len(u)) + Len(w) <= Len(s)
  BY <1>3
<1>8. Holds(s, n + Len(u), w)
  BY <1>5, <1>7, Zenon DEF Holds
<1> QED BY <1>1, <1>6, <1>8 DEF v

LEMMA HoldsAt ==
  ASSUME NEW s \in Seq(Nat), NEW n \in Nat, NEW w \in Seq(Nat), Holds(s, n, w),
         NEW j \in Nat, j < Len(w)
  PROVE  At(s, n + j) = w[j + 1] /\ w[j + 1] \in Nat
<1>1. j + 1 \in 1 .. Len(w) /\ n + j < Len(s) /\ (n + j) + 1 = n + (j + 1)
  <2>1. Len(w) \in Nat /\ Len(s) \in Nat
    OBVIOUS
  <2>2. n + Len(w) <= Len(s)
    BY Zenon DEF Holds
  <2> QED BY <2>1, <2>2
<1>2. s[n + (j + 1)] = w[j + 1]
  BY <1>1 DEF Holds
<1> QED BY <1>1, <1>2 DEF At

-----------------------------------------------------------------------------
(* Lengths.                                                                *)

\* y[q] is the byte that ends a length.
EndsAt(y, q) == y[q] < 255 /\ \A j \in 0 .. q - 1 : y[j] = 255

LEMMA LastByteIs ==
  ASSUME NEW n \in Nat, NEW y \in [0 .. n -> Nat], NEW q \in 0 .. n, EndsAt(y, q)
  PROVE  LastByte(y) = q
<1>1. \A k \in 0 .. n : EndsAt(y, k) => k = q
  <2> SUFFICES ASSUME NEW k \in 0 .. n, EndsAt(y, k) PROVE k = q
    OBVIOUS
  <2>1. CASE k < q
    <3>1. k \in 0 .. q - 1
      BY <2>1
    <3> QED BY <3>1 DEF EndsAt
  <2>2. CASE q < k
    <3>1. q \in 0 .. k - 1
      BY <2>2
    <3> QED BY <3>1 DEF EndsAt
  <2> QED BY <2>1, <2>2
<1>2. DOMAIN y = 0 .. n
  OBVIOUS
<1>3. LastByte(y) = CHOOSE k \in 0 .. n : EndsAt(y, k)
  BY <1>2 DEF LastByte, EndsAt
<1> QED BY <1>1, <1>3, Zenon

\* The half bytes of a long length.
LEMMA Length44Long ==
  ASSUME NEW l \in Nat, l >= 30,
         NEW q \in Nat, q = (l - 30) \div 255, NEW r \in Nat, r = (l - 30) % 255
  PROVE  /\ WriteLength44(l) \in Seq(Nat) /\ Len(WriteLength44(l)) = 4 + 2 * q
         /\ \A k \in 1 .. 2 + 2 * q : WriteLength44(l)[k] = 15
         /\ WriteLength44(l)[2 * q + 3] = r % 16 /\ WriteLength44(l)[2 * q + 4] = r \div 16
<1> DEFINE a == <<15, 15>>
           b == [k \in 1 .. 2 * q |-> 15]
           c == HalfBytes(r)
           d == a \o b
           e == d \o c
<1>1. WriteLength44(l) = e
  BY DEF WriteLength44
<1>2. a \in Seq(Nat) /\ Len(a) = 2 /\ a[1] = 15 /\ a[2] = 15
  OBVIOUS
<1>3. b \in Seq(Nat) /\ Len(b) = 2 * q /\ \A k \in 1 .. 2 * q : b[k] = 15
  <2>1. 2 * q \in Nat /\ b \in [1 .. 2 * q -> Nat]
    OBVIOUS
  <2>2. b \in Seq(Nat)
    BY <2>1
  <2> QED BY <2>1, <2>2
<1>4. c \in Seq(Nat) /\ Len(c) = 2 /\ c[1] = r % 16 /\ c[2] = r \div 16
  <2>1. r % 16 \in Nat /\ r \div 16 \in Nat
    OBVIOUS
  <2> QED BY <2>1 DEF HalfBytes
<1> HIDE DEF a, b, c
<1>5. /\ d \in Seq(Nat) /\ Len(d) = Len(a) + Len(b)
      /\ \A k \in 1 .. Len(a) + Len(b) : d[k] = IF k <= Len(a) THEN a[k] ELSE b[k - Len(a)]
  <2>1. a \in Seq(Nat) /\ b \in Seq(Nat)
    BY <1>2, <1>3
  <2> QED BY <2>1, ConcatProperties, Zenon
<1> HIDE DEF d
<1>6. /\ e \in Seq(Nat) /\ Len(e) = Len(d) + Len(c)
      /\ \A k \in 1 .. Len(d) + Len(c) : e[k] = IF k <= Len(d) THEN d[k] ELSE c[k - Len(d)]
  <2>1. d \in Seq(Nat) /\ c \in Seq(Nat)
    BY <1>4, <1>5
  <2> QED BY <2>1, ConcatProperties, Zenon
<1> HIDE DEF e
<1>7. Len(d) = 2 + 2 * q /\ Len(e) = 4 + 2 * q
  BY <1>2, <1>3, <1>4, <1>5, <1>6
<1>8. ASSUME NEW k \in 1 .. 2 + 2 * q PROVE e[k] = 15
  <2>1. e[k] = d[k]
    BY <1>4, <1>6, <1>7
  <2>2. CASE k <= 2
    <3>1. d[k] = a[k] /\ (k = 1 \/ k = 2)
      BY <2>2, <1>2, <1>3, <1>5
    <3> QED BY <2>1, <3>1, <1>2
  <2>3. CASE k > 2
    <3>1. k - 2 \in 1 .. 2 * q /\ d[k] = b[k - 2]
      BY <2>3, <1>2, <1>3, <1>5
    <3> QED BY <2>1, <3>1, <1>3
  <2> QED BY <2>2, <2>3
<1>9. e[2 * q + 3] = c[1] /\ e[2 * q + 4] = c[2]
  BY <1>4, <1>6, <1>7
<1> QED BY <1>1, <1>4, <1>6, <1>7, <1>8, <1>9

\* How many half bytes a length takes.
LEMMA Length44Shape ==
  ASSUME NEW l \in Nat
  PROVE  WriteLength44(l) \in Seq(Nat) /\ Len(WriteLength44(l)) <= l + 1
<1>1. CASE l < 15
  <2>1. WriteLength44(l) = <<l>>
    BY <1>1 DEF WriteLength44
  <2> QED BY <2>1
<1>2. CASE l >= 15 /\ l < 30
  <2>1. WriteLength44(l) = <<15, l - 15>> /\ l - 15 \in Nat
    BY <1>2 DEF WriteLength44
  <2> QED BY <2>1, <1>2
<1>3. CASE l >= 30
  <2> DEFINE q == (l - 30) \div 255
             r == (l - 30) % 255
  <2>1. q \in Nat /\ r \in Nat /\ 4 + 2 * q <= l
    BY <1>3
  <2>2. WriteLength44(l) \in Seq(Nat) /\ Len(WriteLength44(l)) = 4 + 2 * q
    BY <1>3, <2>1, Length44Long
  <2> QED BY <2>1, <2>2
<1> QED BY <1>1, <1>2, <1>3

\* mylz_ReadLength44 reads what mylz_WriteLength44 wrote.
LEMMA Length44Reads ==
  ASSUME NEW s \in Seq(Nat), NEW n \in Nat, NEW l \in Nat, Holds(s, n, WriteLength44(l))
  PROVE  ReadLength44(s, n) = [len |-> l, next |-> n + Len(WriteLength44(l))]
<1> DEFINE w == WriteLength44(l)
           m == At(s, n)
           h == At(s, n + 1)
           y == [k \in 0 .. Len(s) |-> At(s, n + 2 + 2 * k) + 16 * At(s, n + 3 + 2 * k)]
<1>1. w \in Seq(Nat) /\ Len(w) \in Nat
  BY Length44Shape
<1>2. ReadLength44(s, n) =
        IF m < 15 THEN [len |-> m, next |-> n + 1]
        ELSE IF h < 15 THEN [len |-> 15 + h, next |-> n + 2]
        ELSE [len |-> 30 + 255 * LastByte(y) + y[LastByte(y)], next |-> n + 4 + 2 * LastByte(y)]
  BY DEF ReadLength44
<1>3. ASSUME NEW j \in Nat, j < Len(w) PROVE At(s, n + j) = w[j + 1]
  BY <1>1, <1>3, HoldsAt
<1>4. Len(w) > 0 => m = w[1]
  <2> SUFFICES ASSUME Len(w) > 0 PROVE m = w[1]
    OBVIOUS
  <2>1. At(s, n + 0) = w[0 + 1]
    BY <1>3
  <2> QED BY <2>1
<1>5. Len(w) > 1 => h = w[2]
  <2> SUFFICES ASSUME Len(w) > 1 PROVE h = w[2]
    OBVIOUS
  <2>1. At(s, n + 1) = w[1 + 1]
    BY <1>3
  <2> QED BY <2>1
<1>6. CASE l < 15
  <2>1. w = <<l>>
    BY <1>6 DEF WriteLength44
  <2>2. Len(w) = 1 /\ w[1] = l
    BY <2>1
  <2>3. m = l
    BY <1>4, <2>2
  <2> QED BY <1>2, <1>6, <2>2, <2>3
<1>7. CASE l >= 15 /\ l < 30
  <2>1. w = <<15, l - 15>>
    BY <1>7 DEF WriteLength44
  <2>2. Len(w) = 2 /\ w[1] = 15 /\ w[2] = l - 15
    BY <2>1
  <2>3. m = 15 /\ h = l - 15
    BY <1>4, <1>5, <2>2
  <2> QED BY <1>2, <1>7, <2>2, <2>3
<1>8. CASE l >= 30
  <2> DEFINE q == (l - 30) \div 255
             r == (l - 30) % 255
  <2>1. q \in Nat /\ r \in Nat /\ r < 255 /\ l = 30 + 255 * q + r /\ (r % 16) + 16 * (r \div 16) = r
    BY <1>8
  <2>2. /\ Len(w) = 4 + 2 * q /\ \A k \in 1 .. 2 + 2 * q : w[k] = 15
        /\ w[2 * q + 3] = r % 16 /\ w[2 * q + 4] = r \div 16
    BY <1>8, <2>1, Length44Long
  <2> HIDE DEF q, r, w
  <2>3. \A j \in Nat : j < Len(w) => At(s, n + j) = w[j + 1]
    BY <1>3
  <2>4. m = 15 /\ h = 15
    <3>1. Len(w) > 0 /\ Len(w) > 1 /\ w[1] = 15 /\ w[2] = 15
      BY <2>1, <2>2
    <3> QED BY <3>1, <1>4, <1>5
  <2>5. \A k \in 0 .. q - 1 : At(s, n + 2 + 2 * k) = 15 /\ At(s, n + 3 + 2 * k) = 15
    <3> TAKE k \in 0 .. q - 1
    <3>1. /\ 2 + 2 * k \in Nat /\ 3 + 2 * k \in Nat /\ 2 + 2 * k < Len(w) /\ 3 + 2 * k < Len(w)
          /\ n + 2 + 2 * k = n + (2 + 2 * k) /\ n + 3 + 2 * k = n + (3 + 2 * k)
          /\ 2 + 2 * k + 1 \in 1 .. 2 + 2 * q /\ 3 + 2 * k + 1 \in 1 .. 2 + 2 * q
      BY <2>1, <2>2
    <3> QED BY <2>2, <2>3, <3>1
  <2>6. At(s, n + 2 + 2 * q) = r % 16 /\ At(s, n + 3 + 2 * q) = r \div 16
    <3>1. /\ 2 + 2 * q \in Nat /\ 3 + 2 * q \in Nat /\ 2 + 2 * q < Len(w) /\ 3 + 2 * q < Len(w)
          /\ n + 2 + 2 * q = n + (2 + 2 * q) /\ n + 3 + 2 * q = n + (3 + 2 * q)
          /\ 2 + 2 * q + 1 = 2 * q + 3 /\ 3 + 2 * q + 1 = 2 * q + 4
      BY <2>1, <2>2
    <3> QED BY <2>2, <2>3, <3>1
  <2>7. q \in 0 .. Len(s) /\ Len(s) \in Nat
    BY <2>1, <2>2 DEF Holds, w
  <2>8. y \in [0 .. Len(s) -> Nat]
    <3>1. \A k \in Nat : At(s, k) \in Nat
      BY DEF At
    <3>2. \A k \in 0 .. Len(s) : n + 2 + 2 * k \in Nat /\ n + 3 + 2 * k \in Nat
      OBVIOUS
    <3>3. ASSUME NEW k \in 0 .. Len(s)
          PROVE  At(s, n + 2 + 2 * k) + 16 * At(s, n + 3 + 2 * k) \in Nat
      <4>1. At(s, n + 2 + 2 * k) \in Nat /\ At(s, n + 3 + 2 * k) \in Nat
        BY <3>1, <3>2, Zenon
      <4> QED BY <4>1
    <3> QED BY <3>3
  <2>9. y[q] = r /\ \A k \in 0 .. q - 1 : y[k] = 255
    <3>1. y[q] = r
      BY <2>1, <2>6, <2>7
    <3>2. ASSUME NEW k \in 0 .. q - 1 PROVE y[k] = 255
      <4>1. k \in 0 .. Len(s)
        BY <2>7
      <4>2. y[k] = 15 + 16 * 15
        BY <2>5, <4>1, Zenon
      <4> QED BY <4>2
    <3> QED BY <3>1, <3>2
  <2> HIDE DEF y
  <2>10. y[q] < 255
    BY <2>1, <2>9
  <2>11. LastByte(y) = q
    <3>1. EndsAt(y, q)
      BY <2>9, <2>10 DEF EndsAt
    <3> QED BY <2>7, <2>8, <3>1, LastByteIs, Zenon
  <2>12. ReadLength44(s, n) = [len |-> 30 + 255 * q + r, next |-> n + 4 + 2 * q]
    BY <1>2, <2>4, <2>9, <2>11
  <2>13. n + 4 + 2 * q = n + Len(w)
    BY <2>1, <2>2
  <2> QED BY <2>1, <2>12, <2>13 DEF w
<1> QED BY <1>6, <1>7, <1>8

LEMMA ExcessShape ==
  ASSUME NEW l \in Nat, NEW lim \in Nat
  PROVE  Excess(l, lim) \in Seq(Nat) /\ Len(Excess(l, lim)) <= l + 1
<1>1. CASE l < lim
  <2>1. Excess(l, lim) = <<>>
    BY <1>1 DEF Excess
  <2> QED BY <2>1
<1>2. CASE ~ (l < lim)
  <2>1. Excess(l, lim) = WriteLength44(l - lim) /\ l - lim \in Nat
    BY <1>2 DEF Excess
  <2>2. WriteLength44(l - lim) \in Seq(Nat) /\ Len(WriteLength44(l - lim)) <= (l - lim) + 1
    BY <2>1, Length44Shape
  <2> QED BY <2>1, <2>2
<1> QED BY <1>1, <1>2

\* A length whose start is in a field.
LEMMA ExcessReads ==
  ASSUME NEW s \in Seq(Nat), NEW n \in Nat, NEW l \in Nat, NEW lim \in Nat,
         Holds(s, n, Excess(l, lim))
  PROVE  ReadExcess(s, n, Small(l, lim), lim) = [len |-> l, next |-> n + Len(Excess(l, lim))]
<1>1. CASE l < lim
  <2>1. Len(Excess(l, lim)) = 0 /\ Small(l, lim) = l
    BY <1>1 DEF Excess, Small
  <2> QED BY <1>1, <2>1 DEF ReadExcess
<1>2. CASE ~ (l < lim)
  <2>1. Excess(l, lim) = WriteLength44(l - lim) /\ l - lim \in Nat /\ Small(l, lim) = lim
    BY <1>2 DEF Excess, Small
  <2>2. ReadLength44(s, n) = [len |-> l - lim, next |-> n + Len(WriteLength44(l - lim))]
    BY <2>1, Length44Reads
  <2>3. ReadExcess(s, n, lim, lim) = [len |-> lim + ReadLength44(s, n).len, next |-> ReadLength44(s, n).next]
    BY DEF ReadExcess
  <2>4. lim + (l - lim) = l
    OBVIOUS
  <2> QED BY <2>1, <2>2, <2>3, <2>4
<1> QED BY <1>1, <1>2

-----------------------------------------------------------------------------
(* Distances.                                                              *)

Ids == {0, 64, 128, 192}

\* Distances below MYMATCHOFFSET_MAX, 2^20.
Distances == {d \in Nat : d < 1048576}

LEMMA DistanceIsNat ==
  ASSUME NEW d \in Distances
  PROVE  d \in Nat
BY DEF Distances

\* The upper two bits of c are those of id.
IdOf(c, id) == (Bit(c, 128) <=> id \in {128, 192}) /\ (Bit(c, 64) <=> id \in {64, 192})

\* The two upper bits of pdistanceflag do not touch the others.
LEMMA FlagBits ==
  ASSUME NEW id \in Ids, NEW x \in Nat, x < 64
  PROVE  /\ IdOf(id + x, id)
         /\ Bit(id + x, 32) <=> x >= 32
         /\ x < 32 => (id + x) % 32 = x
         /\ (id + x) % 16 = x % 16
         /\ ((id + x) \div 16) % 4 = x \div 16
<1>1. CASE id = 0
  BY <1>1 DEF Bit, IdOf
<1>2. CASE id = 64
  BY <1>2 DEF Bit, IdOf
<1>3. CASE id = 128
  BY <1>3 DEF Bit, IdOf
<1>4. CASE id = 192
  BY <1>4 DEF Bit, IdOf
<1> QED BY <1>1, <1>2, <1>3, <1>4 DEF Ids

\* The bytes of a distance that is not short, and the count in pdistanceflag.
LEMMA DistanceForms ==
  ASSUME NEW dis \in Distances, dis >= 32
  PROVE  \E a, b \in Nat :
           \/ DistanceBytes(dis) = <<a>> /\ 16 * a + (dis % 16) = dis
           \/ DistanceBytes(dis) = <<a, b>> /\ 16 * (a + 256 * b) + (dis % 16) = dis
<1> DEFINE d == dis \div 16
           a == d % 256
           b == d \div 256
<1>1. dis \in Nat /\ dis < 1048576
  BY DEF Distances
<1>2. d \in Nat /\ d < 65536 /\ 16 * d + (dis % 16) = dis
  BY <1>1
<1>3. DistanceBytes(dis) = IF (d + 65280) \div 65536 = 0 THEN <<a>> ELSE <<a, b>>
  BY DEF DistanceBytes
<1> HIDE DEF d
<1>4. a \in Nat /\ b \in Nat /\ a + 256 * b = d
  BY <1>2
<1>5. (d + 65280) \div 65536 = 0 => a = d
  BY <1>2
<1>6. 16 * (a + 256 * b) + (dis % 16) = dis
  BY <1>2, <1>4
<1>7. CASE (d + 65280) \div 65536 = 0
  <2>1. 16 * a + (dis % 16) = dis /\ DistanceBytes(dis) = <<a>>
    BY <1>2, <1>3, <1>5, <1>7
  <2> HIDE DEF a, b
  <2> QED BY <2>1, <1>4
<1>8. CASE (d + 65280) \div 65536 # 0
  <2>1. DistanceBytes(dis) = <<a, b>>
    BY <1>3, <1>8
  <2> HIDE DEF a, b
  <2> QED BY <2>1, <1>4, <1>6
<1> QED BY <1>7, <1>8

LEMMA MoreShape ==
  ASSUME NEW dis \in Distances
  PROVE  More(dis) \in Seq(Nat) /\ Len(More(dis)) <= 2
<1>1. CASE dis < 32
  <2>1. More(dis) = <<>>
    BY <1>1 DEF More
  <2> QED BY <2>1
<1>2. CASE ~ (dis < 32)
  <2>1. More(dis) = DistanceBytes(dis) /\ dis >= 32
    BY <1>2 DEF More, Distances
  <2>2. PICK a, b \in Nat : DistanceBytes(dis) = <<a>> \/ DistanceBytes(dis) = <<a, b>>
    BY <2>1, DistanceForms
  <2>3. CASE DistanceBytes(dis) = <<a>>
    BY <2>1, <2>3
  <2>4. CASE DistanceBytes(dis) = <<a, b>>
    BY <2>1, <2>4
  <2> QED BY <2>2, <2>3, <2>4
<1> QED BY <1>1, <1>2

\* The low six bits of pdistanceflag.
LEMMA FlagByteForm ==
  ASSUME NEW id \in Ids, NEW dis \in Distances
  PROVE  \E x \in Nat :
           /\ x < 64 /\ FlagByte(id, dis) = id + x
           /\ dis < 32 => x = dis
           /\ dis >= 32 => x = 16 * (Len(More(dis)) + 1) + (dis % 16)
<1>1. dis \in Nat /\ id \in Nat
  BY DEF Distances, Ids
<1>2. CASE dis < 32
  BY <1>1, <1>2 DEF FlagByte
<1>3. CASE dis >= 32
  <2> DEFINE n == Len(DistanceBytes(dis))
             x == 16 * (n + 1) + (dis % 16)
  <2>1. n \in Nat /\ n <= 2 /\ More(dis) = DistanceBytes(dis)
    <3>1. More(dis) = DistanceBytes(dis)
      BY <1>1, <1>3 DEF More
    <3>2. More(dis) \in Seq(Nat) /\ Len(More(dis)) <= 2
      BY MoreShape
    <3> QED BY <3>1, <3>2
  <2>2. FlagByte(id, dis) = id + 16 * (n + 1) + (dis % 16)
    BY <1>1, <1>3 DEF FlagByte
  <2> HIDE DEF n
  <2>3. dis % 16 \in Nat /\ dis % 16 < 16
    BY <1>1
  <2>4. x \in Nat /\ x < 64 /\ FlagByte(id, dis) = id + x
    BY <2>1, <2>2, <2>3, <1>1
  <2>5. x = 16 * (Len(More(dis)) + 1) + (dis % 16)
    BY <2>1 DEF n
  <2> HIDE DEF x
  <2> QED BY <1>1, <1>3, <2>4, <2>5
<1> QED BY <1>1, <1>2, <1>3

LEMMA HoldsOne ==
  ASSUME NEW s \in Seq(Nat), NEW n \in Nat, NEW a \in Nat, Holds(s, n, <<a>>)
  PROVE  At(s, n) = a
<1> DEFINE w == <<a>>
<1>1. Len(w) = 1 /\ w[1] = a
  OBVIOUS
<1>2. w \in Seq(Nat) /\ Holds(s, n, w)
  OBVIOUS
<1> HIDE DEF w
<1>3. 0 \in Nat /\ 0 < Len(w) /\ n + 0 = n /\ 0 + 1 = 1
  BY <1>1
<1>4. At(s, n + 0) = w[0 + 1]
  BY <1>2, <1>3, HoldsAt, Zenon
<1> QED BY <1>1, <1>3, <1>4, Zenon

LEMMA HoldsTwo ==
  ASSUME NEW s \in Seq(Nat), NEW n \in Nat, NEW a \in Nat, NEW b \in Nat, Holds(s, n, <<a, b>>)
  PROVE  At(s, n) = a /\ At(s, n + 1) = b
<1> DEFINE w == <<a, b>>
<1>1. Len(w) = 2 /\ w[1] = a /\ w[2] = b
  OBVIOUS
<1>2. w \in Seq(Nat) /\ Holds(s, n, w)
  OBVIOUS
<1> HIDE DEF w
<1>3. 0 \in Nat /\ 0 < Len(w)
  BY <1>1
<1>4. 1 \in Nat /\ 1 < Len(w)
  BY <1>1
<1>5. At(s, n + 0) = w[0 + 1]
  BY <1>2, <1>3, HoldsAt, Zenon
<1>6. At(s, n + 1) = w[1 + 1]
  BY <1>2, <1>4, HoldsAt, Zenon
<1>7. n + 0 = n /\ 0 + 1 = 1 /\ 1 + 1 = 2
  OBVIOUS
<1> QED BY <1>1, <1>5, <1>6, <1>7, Zenon

SectionSet == [pdistanceflag : Seq(Nat), pdistance : Seq(Nat), pflag : Seq(Nat), pflagExx : Seq(Nat)]
ReaderSet  == [pdistanceflag : Nat, pdistance : Nat, pflag : Nat, pflagExx : Nat]

LEMMA DistanceReads ==
  ASSUME NEW sec \in SectionSet, NEW r \in ReaderSet, NEW id \in Ids, NEW dis \in Distances,
         Holds(sec.pdistanceflag, r.pdistanceflag, <<FlagByte(id, dis)>>),
         Holds(sec.pdistance, r.pdistance, More(dis))
  PROVE  /\ IdOf(At(sec.pdistanceflag, r.pdistanceflag), id)
         /\ ReadDistance(sec, r) = [dis |-> dis, next |-> r.pdistance + Len(More(dis))]
<1> DEFINE c == At(sec.pdistanceflag, r.pdistanceflag)
           p == r.pdistance
           s == sec.pdistance
<1>1. dis \in Nat /\ id \in Nat /\ p \in Nat /\ s \in Seq(Nat)
  BY DEF Distances, Ids, SectionSet, ReaderSet
<1>2. PICK x \in Nat :
           /\ x < 64 /\ FlagByte(id, dis) = id + x
           /\ dis < 32 => x = dis
           /\ dis >= 32 => x = 16 * (Len(More(dis)) + 1) + (dis % 16)
  BY FlagByteForm
<1>3. c = id + x
  <2>1. id + x \in Nat /\ sec.pdistanceflag \in Seq(Nat) /\ r.pdistanceflag \in Nat
    BY <1>1 DEF SectionSet, ReaderSet
  <2>2. Holds(sec.pdistanceflag, r.pdistanceflag, <<id + x>>)
    BY <1>2
  <2> QED BY <2>1, <2>2, HoldsOne
<1> DEFINE i == ((c \div 16) % 4) - 1
<1>4. ReadDistance(sec, r) =
        IF ~Bit(c, 32) THEN [dis |-> c % 32, next |-> p]
        ELSE [dis  |-> 16 * (At(s, p) + (IF i = 2 THEN 256 * At(s, p + 1) ELSE 0)) + (c % 16),
              next |-> p + i]
  BY Zenon DEF ReadDistance
<1>5. /\ IdOf(c, id)
      /\ Bit(c, 32) <=> x >= 32
      /\ x < 32 => c % 32 = x
      /\ c % 16 = x % 16
      /\ (c \div 16) % 4 = x \div 16
  <2> HIDE DEF c
  <2>1. x < 64
    BY <1>2
  <2>2. /\ IdOf(id + x, id)
        /\ Bit(id + x, 32) <=> x >= 32
        /\ x < 32 => (id + x) % 32 = x
        /\ (id + x) % 16 = x % 16
        /\ ((id + x) \div 16) % 4 = x \div 16
    BY <2>1, FlagBits
  <2> QED BY <1>3, <2>2
<1>6. Holds(s, p, More(dis))
  OBVIOUS
<1> HIDE DEF c, p, s
<1>7. CASE dis < 32
  <2>1. More(dis) = <<>> /\ x = dis
    BY <1>2, <1>7 DEF More
  <2>2. ~ Bit(c, 32) /\ c % 32 = dis
    BY <1>1, <1>5, <1>7, <2>1
  <2>3. p + Len(More(dis)) = p
    BY <1>1, <2>1
  <2>4. ReadDistance(sec, r) = [dis |-> dis, next |-> p + Len(More(dis))]
    BY <1>4, <2>2, <2>3
  <2> QED BY <1>5, <2>4 DEF c, p
<1>8. CASE dis >= 32
  <2>1. More(dis) = DistanceBytes(dis)
    BY <1>1, <1>8 DEF More
  <2>2. PICK a, b \in Nat :
           \/ DistanceBytes(dis) = <<a>> /\ 16 * a + (dis % 16) = dis
           \/ DistanceBytes(dis) = <<a, b>> /\ 16 * (a + 256 * b) + (dis % 16) = dis
    BY <1>8, DistanceForms
  <2>3. ASSUME NEW n \in {1, 2}, Len(More(dis)) = n
        PROVE  Bit(c, 32) /\ i = n /\ c % 16 = dis % 16
    <3>1. x = 16 * (n + 1) + (dis % 16) /\ dis % 16 \in Nat /\ dis % 16 < 16
      BY <1>1, <1>2, <1>8, <2>3
    <3>2. x >= 32 /\ x % 16 = dis % 16 /\ x \div 16 = n + 1
      BY <3>1
    <3> QED BY <1>5, <3>2
  <2> HIDE DEF i
  <2>4. CASE DistanceBytes(dis) = <<a>> /\ 16 * a + (dis % 16) = dis
    <3>1. Len(More(dis)) = 1 /\ Holds(s, p, <<a>>)
      BY <1>6, <2>1, <2>4
    <3>2. Bit(c, 32) /\ i = 1 /\ c % 16 = dis % 16
      BY <2>3, <3>1
    <3>3. At(s, p) = a
      BY <1>1, <3>1, HoldsOne
    <3>4. ReadDistance(sec, r) = [dis |-> 16 * (a + 0) + (dis % 16), next |-> p + 1]
      BY <1>4, <3>2, <3>3
    <3>5. a + 0 = a
      OBVIOUS
    <3>6. ReadDistance(sec, r) = [dis |-> dis, next |-> p + Len(More(dis))]
      BY <2>4, <3>1, <3>4, <3>5
    <3> QED BY <1>5, <3>6 DEF c, p
  <2>5. CASE DistanceBytes(dis) = <<a, b>> /\ 16 * (a + 256 * b) + (dis % 16) = dis
    <3>1. Len(More(dis)) = 2 /\ Holds(s, p, <<a, b>>)
      BY <1>6, <2>1, <2>5
    <3>2. Bit(c, 32) /\ i = 2 /\ c % 16 = dis % 16
      BY <2>3, <3>1
    <3>3. At(s, p) = a /\ At(s, p + 1) = b
      BY <1>1, <3>1, HoldsTwo
    <3>4. ReadDistance(sec, r) = [dis |-> 16 * (a + 256 * b) + (dis % 16), next |-> p + 2]
      BY <1>4, <3>2, <3>3
    <3>5. ReadDistance(sec, r) = [dis |-> dis, next |-> p + Len(More(dis))]
      BY <2>5, <3>1, <3>4
    <3> QED BY <1>5, <3>5 DEF c, p
  <2> QED BY <2>2, <2>4, <2>5
<1> QED BY <1>1, <1>7, <1>8

-----------------------------------------------------------------------------
(* Tokens.                                                                 *)

TokenSet == [charlen : Nat, matchlen : Nat, matchdistance : Distances]
CodeSet  == [flag : Seq(Nat), flagExx : Seq(Nat), id : Ids, dis : Distances]

\* The code c of a token stands in the sections where the reader r is.
Written(sec, r, c) ==
  /\ Holds(sec.pdistanceflag, r.pdistanceflag, <<FlagByte(c.id, c.dis)>>)
  /\ Holds(sec.pdistance, r.pdistance, More(c.dis))
  /\ Holds(sec.pflag, r.pflag, c.flag)
  /\ Holds(sec.pflagExx, r.pflagExx, c.flagExx)

\* The reader behind the code c.
Behind(r, c) ==
  [pdistanceflag |-> r.pdistanceflag + 1,
   pdistance     |-> r.pdistance + Len(More(c.dis)),
   pflag         |-> r.pflag + Len(c.flag),
   pflagExx      |-> r.pflagExx + Len(c.flagExx)]

LEMMA DistanceParts ==
  ASSUME NEW md \in Distances, NEW lim \in {1, 8, 32, 64, 256}
  PROVE  md \div lim \in Distances /\ (md \div lim) * lim + (md % lim) = md
<1>1. md \in Nat /\ md < 1048576
  BY DEF Distances
<1>2. md \div lim \in Nat /\ md \div lim <= md /\ (md \div lim) * lim + (md % lim) = md
  <2>1. CASE lim = 1
    BY <1>1, <2>1
  <2>2. CASE lim = 8
    BY <1>1, <2>2
  <2>3. CASE lim = 32
    BY <1>1, <2>3
  <2>4. CASE lim = 64
    BY <1>1, <2>4
  <2>5. CASE lim = 256
    BY <1>1, <2>5
  <2> QED BY <2>1, <2>2, <2>3, <2>4, <2>5
<1> QED BY <1>1, <1>2 DEF Distances

LEMMA SmallIs ==
  ASSUME NEW l \in Nat, NEW lim \in Nat
  PROVE  Small(l, lim) \in Nat /\ Small(l, lim) <= lim
BY DEF Small

-----------------------------------------------------------------------------
(* How much a token takes of each section.                                 *)

LEMMA CodeIs ==
  ASSUME NEW flag \in Seq(Nat), NEW flagExx \in Seq(Nat), NEW id \in Ids, NEW dis \in Distances
  PROVE  /\ Code(flag, flagExx, id, dis) \in CodeSet
         /\ Code(flag, flagExx, id, dis).flag = flag
         /\ Code(flag, flagExx, id, dis).flagExx = flagExx
         /\ Code(flag, flagExx, id, dis).id = id
         /\ Code(flag, flagExx, id, dis).dis = dis
BY DEF Code, CodeSet

LEMMA OneByte ==
  ASSUME NEW f \in Nat
  PROVE  <<f>> \in Seq(Nat) /\ Len(<<f>>) <= 1
OBVIOUS

LEMMA ConcatShape ==
  ASSUME NEW a \in Seq(Nat), NEW b \in Seq(Nat), NEW m \in Nat, NEW n \in Nat,
         Len(a) <= m, Len(b) <= n
  PROVE  a \o b \in Seq(Nat) /\ Len(a \o b) <= m + n
<1> DEFINE c == a \o b
<1>1. c \in Seq(Nat) /\ Len(c) = Len(a) + Len(b)
  BY ConcatProperties, Zenon
<1> HIDE DEF c
<1>2. Len(c) <= m + n
  BY <1>1
<1> QED BY <1>1, <1>2 DEF c

\* At most a byte of pflag, and no more half bytes of pflagExx than words.
CodeFits(t, c) == /\ c \in CodeSet
                  /\ Len(c.flag) <= 1
                  /\ Len(c.flagExx) <= t.charlen + t.matchlen + 2

LEMMA FitsBy ==
  ASSUME NEW t \in TokenSet, NEW c,
         NEW w \in Seq(Nat), NEW e \in Seq(Nat), NEW id \in Ids, NEW q \in Distances,
         c = Code(w, e, id, q), Len(w) <= 1, Len(e) <= t.charlen + t.matchlen + 2
  PROVE  CodeFits(t, c)
<1>1. c \in CodeSet /\ c.flag = w /\ c.flagExx = e
  <2>1. /\ Code(w, e, id, q) \in CodeSet /\ Code(w, e, id, q).flag = w
        /\ Code(w, e, id, q).flagExx = e
    BY CodeIs
  <2>2. c = Code(w, e, id, q)
    OBVIOUS
  <2> QED BY <2>1, <2>2, Zenon
<1>2. Len(c.flag) <= 1 /\ Len(c.flagExx) <= t.charlen + t.matchlen + 2
  <2>1. Len(w) <= 1 /\ Len(e) <= t.charlen + t.matchlen + 2
    OBVIOUS
  <2> QED BY <1>1, <2>1, Zenon
<1> QED BY <1>1, <1>2, Zenon DEF CodeFits

LEMMA CodeMcFits ==
  ASSUME NEW t \in TokenSet
  PROVE  CodeFits(t, CodeMc(t))
<1> DEFINE ml == t.matchlen - 1
           cl == t.charlen - 1
           md == t.matchdistance
<1>1. t.charlen \in Nat /\ t.matchlen \in Nat /\ md \in Distances
  BY DEF TokenSet
<1>2. /\ md \div 8 \in Distances /\ md \div 32 \in Distances
      /\ md \div 64 \in Distances /\ md \div 256 \in Distances
  BY <1>1, DistanceParts
<1>3. 0 \in Ids /\ 64 \in Ids /\ 128 \in Ids /\ 192 \in Ids
  BY DEF Ids
<1>4. md % 8 \in Nat /\ md % 32 \in Nat /\ md % 64 \in Nat /\ md % 256 \in Nat
  <2>1. md \in Nat
    BY <1>1, DistanceIsNat
  <2> HIDE DEF md
  <2> QED BY <2>1
<1>6. CASE t.charlen = 0 /\ t.matchlen > 0
  <2> DEFINE f == Small(ml, 7) * 32 + (md % 32)
             w == <<f>>
             e == Excess(ml, 7)
             q == md \div 32
  <2>1. CodeMc(t) = Code(w, e, 128, q)
    BY <1>6 DEF CodeMc
  <2>2. ml \in Nat
    BY <1>1, <1>6
  <2>3. e \in Seq(Nat) /\ Len(e) <= ml + 1
    BY <2>2, ExcessShape
  <2>4. f \in Nat
    <3>1. Small(ml, 7) \in Nat
      BY <2>2, SmallIs
    <3> QED BY <3>1, <1>4
  <2>5. w \in Seq(Nat) /\ Len(w) <= 1
    BY <2>4, OneByte
  <2> HIDE DEF w, e, f
  <2>6. Len(e) <= t.charlen + t.matchlen + 2
    BY <1>1, <2>3
  <2> QED BY <1>2, <1>3, <2>1, <2>3, <2>5, <2>6, FitsBy
<1>7. CASE t.charlen = 0 /\ t.matchlen = 0
  <2> DEFINE w == <<>>
             u == md % 256
             e == HalfBytes(u)
             q == md \div 256
  <2>1. CodeMc(t) = Code(w, e, 0, q)
    BY <1>7 DEF CodeMc
  <2>2. w \in Seq(Nat) /\ Len(w) <= 1
    OBVIOUS
  <2>3. u \in Nat
    BY <1>4
  <2> HIDE DEF u
  <2>4. e \in Seq(Nat) /\ Len(e) = 2
    <3>1. u % 16 \in Nat /\ u \div 16 \in Nat
      BY <2>3
    <3> QED BY <3>1 DEF HalfBytes
  <2> HIDE DEF w, e
  <2>5. Len(e) <= t.charlen + t.matchlen + 2
    BY <1>7, <2>4
  <2> QED BY <1>2, <1>3, <2>1, <2>2, <2>4, <2>5, FitsBy
<1>8. CASE t.charlen > 0 /\ t.matchlen > 0
  <2> DEFINE f == Small(ml, 7) * 32 + Small(cl, 3) * 8 + (md % 8)
             w == <<f>>
             e == Excess(cl, 3) \o Excess(ml, 7)
             q == md \div 8
  <2>1. CodeMc(t) = Code(w, e, 192, q)
    BY <1>8 DEF CodeMc
  <2>2. ml \in Nat /\ cl \in Nat /\ ml + 1 \in Nat /\ cl + 1 \in Nat
    BY <1>1, <1>8
  <2>3. /\ Excess(cl, 3) \in Seq(Nat) /\ Len(Excess(cl, 3)) <= cl + 1
        /\ Excess(ml, 7) \in Seq(Nat) /\ Len(Excess(ml, 7)) <= ml + 1
    BY <2>2, ExcessShape
  <2>4. e \in Seq(Nat) /\ Len(e) <= (cl + 1) + (ml + 1)
    BY <2>2, <2>3, ConcatShape, Zenon
  <2>5. f \in Nat
    <3>1. Small(ml, 7) \in Nat /\ Small(cl, 3) \in Nat
      BY <2>2, SmallIs
    <3> QED BY <3>1, <1>4
  <2>6. w \in Seq(Nat) /\ Len(w) <= 1
    BY <2>5, OneByte
  <2> HIDE DEF w, e, f
  <2>7. Len(e) <= t.charlen + t.matchlen + 2
    BY <1>1, <2>4
  <2> QED BY <1>2, <1>3, <2>1, <2>4, <2>6, <2>7, FitsBy
<1>9. CASE t.charlen > 0 /\ t.matchlen = 0
  <2> DEFINE f == Small(cl, 3) * 64 + (md % 64)
             w == <<f>>
             e == Excess(cl, 3)
             q == md \div 64
  <2>1. CodeMc(t) = Code(w, e, 64, q)
    BY <1>9 DEF CodeMc
  <2>2. cl \in Nat
    BY <1>1, <1>9
  <2>3. e \in Seq(Nat) /\ Len(e) <= cl + 1
    BY <2>2, ExcessShape
  <2>4. f \in Nat
    <3>1. Small(cl, 3) \in Nat
      BY <2>2, SmallIs
    <3> QED BY <3>1, <1>4
  <2>5. w \in Seq(Nat) /\ Len(w) <= 1
    BY <2>4, OneByte
  <2> HIDE DEF w, e, f
  <2>6. Len(e) <= t.charlen + t.matchlen + 2
    BY <1>1, <2>3
  <2> QED BY <1>2, <1>3, <2>1, <2>3, <2>5, <2>6, FitsBy
<1> QED BY <1>1, <1>6, <1>7, <1>8, <1>9

\* The half bytes for the literals of a token of levels 1 and 3.
Chars(n) == IF n = 0 THEN <<>> ELSE WriteLength44(n - 1)

LEMMA CharsShape ==
  ASSUME NEW n \in Nat
  PROVE  Chars(n) \in Seq(Nat) /\ Len(Chars(n)) <= n
<1>1. CASE n = 0
  BY <1>1 DEF Chars
<1>2. CASE n > 0
  <2>1. Chars(n) = WriteLength44(n - 1) /\ n - 1 \in Nat
    BY <1>2 DEF Chars
  <2>2. WriteLength44(n - 1) \in Seq(Nat) /\ Len(WriteLength44(n - 1)) <= (n - 1) + 1
    BY <2>1, Length44Shape
  <2> QED BY <2>1, <2>2
<1> QED BY <1>1, <1>2

LEMMA CodeMFits ==
  ASSUME NEW t \in TokenSet
  PROVE  CodeFits(t, CodeM(t))
<1> DEFINE ml == t.matchlen - 1
           n  == t.charlen
           md == t.matchdistance
           c  == Chars(n)
<1>1. n \in Nat /\ t.matchlen \in Nat /\ md \in Distances
  BY DEF TokenSet
<1>2. c \in Seq(Nat) /\ Len(c) <= n
  BY <1>1, CharsShape
<1>3. CASE t.matchlen > 0
  <2> DEFINE f == Small(ml, 7) * 32 + (md % 32)
             w == <<f>>
             e == c \o Excess(ml, 7)
             q == md \div 32
             id == 128 + (IF n = 0 THEN 0 ELSE 64)
  <2>1. CodeM(t) = Code(w, e, id, q)
    BY <1>3, Zenon DEF CodeM, Chars
  <2>2. ml \in Nat /\ ml + 1 \in Nat
    BY <1>1, <1>3
  <2>3. Excess(ml, 7) \in Seq(Nat) /\ Len(Excess(ml, 7)) <= ml + 1
    BY <2>2, ExcessShape
  <2>4. e \in Seq(Nat) /\ Len(e) <= n + (ml + 1)
    <3> HIDE DEF c, n
    <3> QED BY <1>1, <1>2, <2>2, <2>3, ConcatShape, Zenon
  <2>5. f \in Nat
    <3>1. Small(ml, 7) \in Nat /\ md \in Nat
      BY <1>1, <2>2, SmallIs, DistanceIsNat
    <3> QED BY <3>1
  <2>6. w \in Seq(Nat) /\ Len(w) <= 1
    BY <2>5, OneByte
  <2>7. q \in Distances
    BY <1>1, DistanceParts
  <2>8. id \in Ids
    BY DEF Ids
  <2> HIDE DEF w, e, f, q, id
  <2>9. Len(e) <= n + t.matchlen + 2
    BY <1>1, <2>4
  <2> QED BY <2>1, <2>4, <2>6, <2>7, <2>8, <2>9, FitsBy, Zenon
<1>4. CASE t.matchlen = 0
  <2> DEFINE w  == <<>>
             id == IF n = 0 THEN 0 ELSE 64
  <2>1. CodeM(t) = Code(w, c, id, md)
    <3>1. ~ (t.matchlen > 0)
      BY <1>4
    <3> QED BY <3>1, Zenon DEF CodeM, Chars
  <2>2. w \in Seq(Nat) /\ Len(w) <= 1
    OBVIOUS
  <2>3. id \in Ids
    BY DEF Ids
  <2>4. Len(c) <= n + t.matchlen + 2
    BY <1>1, <1>2
  <2> HIDE DEF w, id, c, md, n
  <2> QED BY <1>1, <1>2, <2>1, <2>2, <2>3, <2>4, FitsBy, Zenon DEF n
<1> QED BY <1>1, <1>3, <1>4

LEMMA TokenFits ==
  ASSUME NEW mc \in BOOLEAN, NEW t \in TokenSet
  PROVE  CodeFits(t, TokenCode(mc, t))
BY CodeMcFits, CodeMFits, Zenon DEF TokenCode

-----------------------------------------------------------------------------
(* Reading a token.                                                        *)

LEMMA CodeReads ==
  ASSUME NEW sec \in SectionSet, NEW r \in ReaderSet, NEW code \in CodeSet, Written(sec, r, code)
  PROVE  /\ IdOf(At(sec.pdistanceflag, r.pdistanceflag), code.id)
         /\ ReadDistance(sec, r) = [dis |-> code.dis, next |-> r.pdistance + Len(More(code.dis))]
         /\ Holds(sec.pflag, r.pflag, code.flag)
         /\ Holds(sec.pflagExx, r.pflagExx, code.flagExx)
<1>1. code.id \in Ids /\ code.dis \in Distances
  BY DEF CodeSet
<1>2. /\ Holds(sec.pdistanceflag, r.pdistanceflag, <<FlagByte(code.id, code.dis)>>)
      /\ Holds(sec.pdistance, r.pdistance, More(code.dis))
      /\ Holds(sec.pflag, r.pflag, code.flag)
      /\ Holds(sec.pflagExx, r.pflagExx, code.flagExx)
  BY Zenon DEF Written
<1> QED BY <1>1, <1>2, DistanceReads, Zenon

\* What Read gives for the parts of a code.
LEMMA ReadParts ==
  ASSUME NEW r \in ReaderSet, NEW t \in TokenSet, NEW code
  PROVE  Read(r, [dis |-> code.dis, next |-> r.pdistance + Len(More(code.dis))], Len(code.flag),
              r.pflagExx + Len(code.flagExx), t.charlen, t.matchlen, t.matchdistance)
           = [token |-> t, reader |-> Behind(r, code)]
<1> DEFINE d == [dis |-> code.dis, next |-> r.pdistance + Len(More(code.dis))]
<1>1. d.next = r.pdistance + Len(More(code.dis))
  OBVIOUS
<1> HIDE DEF d
<1>2. Behind(r, code) = [pdistanceflag |-> r.pdistanceflag + 1, pdistance |-> d.next,
                         pflag |-> r.pflag + Len(code.flag),
                         pflagExx |-> r.pflagExx + Len(code.flagExx)]
  BY <1>1, Zenon DEF Behind
<1>3. [charlen |-> t.charlen, matchlen |-> t.matchlen, matchdistance |-> t.matchdistance] = t
  BY DEF TokenSet
<1>4. Read(r, d, Len(code.flag), r.pflagExx + Len(code.flagExx), t.charlen, t.matchlen, t.matchdistance)
        = [token |-> t, reader |-> Behind(r, code)]
  BY <1>2, <1>3, Zenon DEF Read
<1> QED BY <1>4, Zenon DEF d

\* A match without literals.
LEMMA MatchReads ==
  ASSUME NEW sec \in SectionSet, NEW r \in ReaderSet, NEW t \in TokenSet,
         t.charlen = 0, t.matchlen > 0, Written(sec, r, CodeMc(t))
  PROVE  ReadTokenMc(sec, r) = [token |-> t, reader |-> Behind(r, CodeMc(t))]
<1> DEFINE ml == t.matchlen - 1
           md == t.matchdistance
           a  == Small(ml, 7)
           f  == a * 32 + (md % 32)
           w  == <<f>>
           e  == Excess(ml, 7)
           id == 128
           q  == md \div 32
           code == CodeMc(t)
           c  == At(sec.pdistanceflag, r.pdistanceflag)
           d  == [dis |-> q, next |-> r.pdistance + Len(More(q))]
           x  == r.pflagExx + Len(e)
<1>1. md \in Distances /\ ml \in Nat /\ ml + 1 = t.matchlen
  BY DEF TokenSet
<1>2. code = Code(w, e, id, q)
  BY DEF CodeMc
<1>3. e \in Seq(Nat) /\ a \in Nat
  BY <1>1, ExcessShape, SmallIs
<1>4. q \in Distances
  BY <1>1, DistanceParts
<1>5. q * 32 + (md % 32) = md
  BY <1>1, DistanceParts
<1> HIDE DEF a, md, ml
<1>6. f \in Nat /\ f \div 32 = a /\ f % 32 = md % 32
  <2>1. a \in Nat
    BY <1>3
  <2>2. md \in Nat
    BY <1>1, DistanceIsNat
  <2> QED BY <2>1, <2>2
<1> HIDE DEF f, e, q
<1>7. w \in Seq(Nat) /\ 1 = Len(w) /\ id \in Ids /\ 1 \in Nat
  BY <1>6 DEF Ids
<1> HIDE DEF w, id
<1>8. /\ code \in CodeSet /\ Written(sec, r, code)
      /\ code.flag = w /\ code.flagExx = e /\ code.id = id /\ code.dis = q
  <2> HIDE DEF e
  <2>1. code \in CodeSet
    BY CodeMcFits, Zenon DEF CodeFits
  <2>2. /\ Code(w, e, id, q).flag = w /\ Code(w, e, id, q).flagExx = e
        /\ Code(w, e, id, q).id = id /\ Code(w, e, id, q).dis = q
    BY Zenon DEF Code
  <2> QED BY <1>2, <2>1, <2>2, Zenon
<1> HIDE DEF code
<1>9. /\ IdOf(c, id) /\ ReadDistance(sec, r) = d
      /\ Holds(sec.pflag, r.pflag, w) /\ Holds(sec.pflagExx, r.pflagExx, e)
  BY <1>8, CodeReads, Zenon
<1>10. r.pflag \in Nat /\ r.pflagExx \in Nat /\ sec.pflag \in Seq(Nat) /\ sec.pflagExx \in Seq(Nat)
  BY DEF ReaderSet, SectionSet
<1>11. At(sec.pflag, r.pflag) = f
  BY <1>6, <1>9, <1>10, HoldsOne DEF w
<1>12. ReadExcess(sec.pflagExx, r.pflagExx, a, 7) = [len |-> ml, next |-> x]
  BY <1>1, <1>9, <1>10, ExcessReads DEF e, a
<1> HIDE DEF c, x
<1>13. Bit(c, 128) /\ ~ Bit(c, 64)
  BY <1>9 DEF IdOf, id
<1>14. ReadTokenMc(sec, r) = Read(r, d, 1, x, 0, ml + 1, d.dis * 32 + (f % 32))
  BY <1>6, <1>9, <1>11, <1>12, <1>13 DEF ReadTokenMc, c
<1>15. d.dis * 32 + (f % 32) = md
  BY <1>5, <1>6
<1>16. ReadTokenMc(sec, r) = Read(r, d, Len(w), x, t.charlen, t.matchlen, t.matchdistance)
  BY <1>1, <1>7, <1>14, <1>15, Zenon DEF md
<1>17. Read(r, d, Len(w), x, t.charlen, t.matchlen, t.matchdistance)
         = [token |-> t, reader |-> Behind(r, code)]
  BY <1>8, ReadParts, Zenon DEF x
<1> QED BY <1>16, <1>17, Zenon DEF code

\* A match of two words without literals: the low bits of the distance are in pflagExx.
LEMMA PairReads ==
  ASSUME NEW sec \in SectionSet, NEW r \in ReaderSet, NEW t \in TokenSet,
         t.charlen = 0, t.matchlen = 0, Written(sec, r, CodeMc(t))
  PROVE  ReadTokenMc(sec, r) = [token |-> t, reader |-> Behind(r, CodeMc(t))]
<1> DEFINE md == t.matchdistance
           u  == md % 256
           w  == <<>>
           e  == HalfBytes(u)
           id == 0
           q  == md \div 256
           code == CodeMc(t)
           c  == At(sec.pdistanceflag, r.pdistanceflag)
           d  == [dis |-> q, next |-> r.pdistance + Len(More(q))]
           x  == r.pflagExx + Len(e)
<1>1. md \in Distances
  BY DEF TokenSet
<1>2. code = Code(w, e, id, q)
  BY DEF CodeMc
<1>3. u \in Nat
  BY <1>1 DEF Distances
<1>4. q \in Distances
  BY <1>1, DistanceParts
<1>5. q * 256 + u = md
  BY <1>1, DistanceParts
<1> HIDE DEF u, q, md
<1>6. /\ u % 16 \in Nat /\ u \div 16 \in Nat /\ (u % 16) + 16 * (u \div 16) = u
      /\ e = <<u % 16, u \div 16>>
  BY <1>3 DEF HalfBytes
<1> HIDE DEF e
<1>7. e \in Seq(Nat) /\ Len(e) = 2
  BY <1>6
<1>8. w \in Seq(Nat) /\ 0 = Len(w) /\ id \in Ids
  BY DEF Ids
<1> HIDE DEF w, id
<1>9. /\ code \in CodeSet /\ Written(sec, r, code)
      /\ code.flag = w /\ code.flagExx = e /\ code.id = id /\ code.dis = q
  <2> HIDE DEF e
  <2>1. code \in CodeSet
    BY CodeMcFits, Zenon DEF CodeFits
  <2>2. /\ Code(w, e, id, q).flag = w /\ Code(w, e, id, q).flagExx = e
        /\ Code(w, e, id, q).id = id /\ Code(w, e, id, q).dis = q
    BY Zenon DEF Code
  <2> QED BY <1>2, <2>1, <2>2, Zenon
<1> HIDE DEF code
<1>10. /\ IdOf(c, id) /\ ReadDistance(sec, r) = d
       /\ Holds(sec.pflagExx, r.pflagExx, e)
  BY <1>9, CodeReads, Zenon
<1>11. r.pflagExx \in Nat /\ sec.pflagExx \in Seq(Nat)
  BY DEF ReaderSet, SectionSet
<1>12. At(sec.pflagExx, r.pflagExx) = u % 16 /\ At(sec.pflagExx, r.pflagExx + 1) = u \div 16
  <2> DEFINE a == u % 16
             b == u \div 16
  <2>1. Holds(sec.pflagExx, r.pflagExx, <<a, b>>)
    BY <1>6, <1>10, Zenon
  <2>2. a \in Nat /\ b \in Nat
    BY <1>6
  <2> HIDE DEF a, b
  <2>3. At(sec.pflagExx, r.pflagExx) = a /\ At(sec.pflagExx, r.pflagExx + 1) = b
    BY <1>11, <2>1, <2>2, HoldsTwo
  <2> QED BY <2>3 DEF a, b
<1> HIDE DEF c
<1>13. ~ Bit(c, 128) /\ ~ Bit(c, 64)
  BY <1>10 DEF IdOf, id
<1>14. ReadTokenMc(sec, r) =
         Read(r, d, 0, r.pflagExx + 2, 0, 0, d.dis * 256 + (u % 16) + 16 * (u \div 16))
  BY <1>10, <1>12, <1>13 DEF ReadTokenMc, c
<1>15. d.dis * 256 + (u % 16) + 16 * (u \div 16) = md
  <2>1. q \in Nat
    BY <1>4 DEF Distances
  <2> QED BY <2>1, <1>3, <1>5, <1>6
<1>16. ReadTokenMc(sec, r) = Read(r, d, Len(w), x, t.charlen, t.matchlen, t.matchdistance)
  BY <1>7, <1>8, <1>14, <1>15, Zenon DEF md
<1>17. Read(r, d, Len(w), x, t.charlen, t.matchlen, t.matchdistance)
         = [token |-> t, reader |-> Behind(r, code)]
  BY <1>9, ReadParts, Zenon DEF x
<1> QED BY <1>16, <1>17, Zenon DEF code

\* Literals and a match.
LEMMA LiteralMatchReads ==
  ASSUME NEW sec \in SectionSet, NEW r \in ReaderSet, NEW t \in TokenSet,
         t.charlen > 0, t.matchlen > 0, Written(sec, r, CodeMc(t))
  PROVE  ReadTokenMc(sec, r) = [token |-> t, reader |-> Behind(r, CodeMc(t))]
<1> DEFINE ml == t.matchlen - 1
           cl == t.charlen - 1
           md == t.matchdistance
           a  == Small(ml, 7)
           b  == Small(cl, 3)
           f  == a * 32 + b * 8 + (md % 8)
           w  == <<f>>
           el == Excess(cl, 3)
           em == Excess(ml, 7)
           e  == el \o em
           id == 192
           q  == md \div 8
           code == CodeMc(t)
           c  == At(sec.pdistanceflag, r.pdistanceflag)
           d  == [dis |-> q, next |-> r.pdistance + Len(More(q))]
           x  == r.pflagExx + Len(e)
<1>1. /\ md \in Distances /\ ml \in Nat /\ ml + 1 = t.matchlen
      /\ cl \in Nat /\ cl + 1 = t.charlen
  BY DEF TokenSet
<1>2. code = Code(w, e, id, q)
  BY DEF CodeMc
<1>3. el \in Seq(Nat) /\ em \in Seq(Nat)
  BY <1>1, ExcessShape
<1>4. a \in Nat /\ b \in Nat /\ b <= 3
  BY <1>1, SmallIs
<1>5. q \in Distances
  BY <1>1, DistanceParts
<1>6. q * 8 + (md % 8) = md
  BY <1>1, DistanceParts
<1> HIDE DEF a, b, md, ml, cl, el, em
<1>7. f \in Nat /\ f \div 32 = a /\ (f \div 8) % 4 = b /\ f % 8 = md % 8
  <2>1. a \in Nat /\ b \in Nat /\ b < 4
    BY <1>4
  <2> DEFINE u == md % 8
  <2>2. u \in Nat /\ u < 8
    <3>1. md \in Nat
      BY <1>1, DistanceIsNat
    <3> QED BY <3>1
  <2> HIDE DEF u
  <2>3. ASSUME NEW g, g = a * 32 + b * 8 + u
        PROVE  g \in Nat /\ g \div 32 = a /\ (g \div 8) % 4 = b /\ g % 8 = u
    BY <2>1, <2>2, <2>3
  <2>4. f = a * 32 + b * 8 + u
    BY DEF u
  <2> HIDE DEF f
  <2>5. f \in Nat /\ f \div 32 = a /\ (f \div 8) % 4 = b /\ f % 8 = u
    BY <2>3, <2>4, Zenon
  <2> QED BY <2>5 DEF u
<1>8. e \in Seq(Nat) /\ Len(e) = Len(el) + Len(em)
  BY <1>3, ConcatProperties, Zenon
<1> HIDE DEF f, q
<1>9. w \in Seq(Nat) /\ 1 = Len(w) /\ id \in Ids
  BY <1>7 DEF Ids
<1> HIDE DEF w, id
<1>10. /\ code \in CodeSet /\ Written(sec, r, code)
      /\ code.flag = w /\ code.flagExx = e /\ code.id = id /\ code.dis = q
  <2> HIDE DEF e
  <2>1. code \in CodeSet
    BY CodeMcFits, Zenon DEF CodeFits
  <2>2. /\ Code(w, e, id, q).flag = w /\ Code(w, e, id, q).flagExx = e
        /\ Code(w, e, id, q).id = id /\ Code(w, e, id, q).dis = q
    BY Zenon DEF Code
  <2> QED BY <1>2, <2>1, <2>2, Zenon
<1> HIDE DEF code
<1>11. /\ IdOf(c, id) /\ ReadDistance(sec, r) = d
       /\ Holds(sec.pflag, r.pflag, w) /\ Holds(sec.pflagExx, r.pflagExx, e)
  <2> HIDE DEF e
  <2> QED BY <1>10, CodeReads, Zenon
<1>12. /\ r.pflag \in Nat /\ r.pflagExx \in Nat
       /\ sec.pflag \in Seq(Nat) /\ sec.pflagExx \in Seq(Nat)
  BY DEF ReaderSet, SectionSet
<1>13. At(sec.pflag, r.pflag) = f
  BY <1>7, <1>11, <1>12, HoldsOne DEF w
<1>14. Holds(sec.pflagExx, r.pflagExx, el) /\ Holds(sec.pflagExx, r.pflagExx + Len(el), em)
  BY <1>3, <1>11, <1>12, HoldsParts, Zenon
<1> HIDE DEF e
<1>15. ReadExcess(sec.pflagExx, r.pflagExx, b, 3) = [len |-> cl, next |-> r.pflagExx + Len(el)]
  BY <1>1, <1>12, <1>14, ExcessReads DEF el, b
<1>16. ReadExcess(sec.pflagExx, r.pflagExx + Len(el), a, 7) = [len |-> ml, next |-> x]
  <2>1. r.pflagExx + Len(el) \in Nat /\ r.pflagExx + Len(el) + Len(em) = x
    BY <1>3, <1>8, <1>12
  <2>2. ReadExcess(sec.pflagExx, r.pflagExx + Len(el), a, 7)
          = [len |-> ml, next |-> (r.pflagExx + Len(el)) + Len(em)]
    <3> DEFINE n == r.pflagExx + Len(el)
    <3>1. n \in Nat /\ Holds(sec.pflagExx, n, em)
      BY <1>14, <2>1
    <3> HIDE DEF n
    <3>2. ReadExcess(sec.pflagExx, n, a, 7) = [len |-> ml, next |-> n + Len(em)]
      BY <1>1, <1>12, <3>1, ExcessReads DEF em, a
    <3> QED BY <3>2 DEF n
  <2> QED BY <2>1, <2>2
<1> HIDE DEF c, x
<1>17. Bit(c, 128) /\ Bit(c, 64)
  BY <1>11 DEF IdOf, id
<1>18. ReadTokenMc(sec, r) = Read(r, d, 1, x, cl + 1, ml + 1, d.dis * 8 + (f % 8))
  BY <1>7, <1>11, <1>13, <1>15, <1>16, <1>17 DEF ReadTokenMc, c
<1>19. d.dis * 8 + (f % 8) = md
  BY <1>6, <1>7
<1>20. ReadTokenMc(sec, r) = Read(r, d, Len(w), x, t.charlen, t.matchlen, t.matchdistance)
  BY <1>1, <1>9, <1>18, <1>19, Zenon DEF md
<1>21. Read(r, d, Len(w), x, t.charlen, t.matchlen, t.matchdistance)
         = [token |-> t, reader |-> Behind(r, code)]
  BY <1>10, ReadParts, Zenon DEF x
<1> QED BY <1>20, <1>21, Zenon DEF code

\* Literals and a match of two words.
LEMMA LiteralPairReads ==
  ASSUME NEW sec \in SectionSet, NEW r \in ReaderSet, NEW t \in TokenSet,
         t.charlen > 0, t.matchlen = 0, Written(sec, r, CodeMc(t))
  PROVE  ReadTokenMc(sec, r) = [token |-> t, reader |-> Behind(r, CodeMc(t))]
<1> DEFINE cl == t.charlen - 1
           md == t.matchdistance
           a  == Small(cl, 3)
           f  == a * 64 + (md % 64)
           w  == <<f>>
           e  == Excess(cl, 3)
           id == 64
           q  == md \div 64
           code == CodeMc(t)
           c  == At(sec.pdistanceflag, r.pdistanceflag)
           d  == [dis |-> q, next |-> r.pdistance + Len(More(q))]
           x  == r.pflagExx + Len(e)
<1>1. md \in Distances /\ cl \in Nat /\ cl + 1 = t.charlen
  BY DEF TokenSet
<1>2. code = Code(w, e, id, q)
  BY DEF CodeMc
<1>3. e \in Seq(Nat) /\ a \in Nat
  BY <1>1, ExcessShape, SmallIs
<1>4. q \in Distances
  BY <1>1, DistanceParts
<1>5. q * 64 + (md % 64) = md
  BY <1>1, DistanceParts
<1> HIDE DEF a, md, cl
<1>6. f \in Nat /\ f \div 64 = a /\ f % 64 = md % 64
  <2>1. a \in Nat
    BY <1>3
  <2>2. md \in Nat
    BY <1>1, DistanceIsNat
  <2> QED BY <2>1, <2>2
<1> HIDE DEF f, e, q
<1>7. w \in Seq(Nat) /\ 1 = Len(w) /\ id \in Ids
  BY <1>6 DEF Ids
<1> HIDE DEF w, id
<1>8. /\ code \in CodeSet /\ Written(sec, r, code)
      /\ code.flag = w /\ code.flagExx = e /\ code.id = id /\ code.dis = q
  <2> HIDE DEF e
  <2>1. code \in CodeSet
    BY CodeMcFits, Zenon DEF CodeFits
  <2>2. /\ Code(w, e, id, q).flag = w /\ Code(w, e, id, q).flagExx = e
        /\ Code(w, e, id, q).id = id /\ Code(w, e, id, q).dis = q
    BY Zenon DEF Code
  <2> QED BY <1>2, <2>1, <2>2, Zenon
<1> HIDE DEF code
<1>9. /\ IdOf(c, id) /\ ReadDistance(sec, r) = d
      /\ Holds(sec.pflag, r.pflag, w) /\ Holds(sec.pflagExx, r.pflagExx, e)
  BY <1>8, CodeReads, Zenon
<1>10. /\ r.pflag \in Nat /\ r.pflagExx \in Nat
       /\ sec.pflag \in Seq(Nat) /\ sec.pflagExx \in Seq(Nat)
  BY DEF ReaderSet, SectionSet
<1>11. At(sec.pflag, r.pflag) = f
  BY <1>6, <1>9, <1>10, HoldsOne DEF w
<1>12. ReadExcess(sec.pflagExx, r.pflagExx, a, 3) = [len |-> cl, next |-> x]
  BY <1>1, <1>9, <1>10, ExcessReads DEF e, a
<1> HIDE DEF c, x
<1>13. ~ Bit(c, 128) /\ Bit(c, 64)
  BY <1>9 DEF IdOf, id
<1>14. ReadTokenMc(sec, r) = Read(r, d, 1, x, cl + 1, 0, d.dis * 64 + (f % 64))
  BY <1>6, <1>9, <1>11, <1>12, <1>13 DEF ReadTokenMc, c
<1>15. d.dis * 64 + (f % 64) = md
  BY <1>5, <1>6
<1>16. ReadTokenMc(sec, r) = Read(r, d, Len(w), x, t.charlen, t.matchlen, t.matchdistance)
  BY <1>1, <1>7, <1>14, <1>15, Zenon DEF md
<1>17. Read(r, d, Len(w), x, t.charlen, t.matchlen, t.matchdistance)
         = [token |-> t, reader |-> Behind(r, code)]
  BY <1>8, ReadParts, Zenon DEF x
<1> QED BY <1>16, <1>17, Zenon DEF code

LEMMA CharsRead ==
  ASSUME NEW s \in Seq(Nat), NEW p \in Nat, NEW n \in Nat, Holds(s, p, Chars(n))
  PROVE  (IF n = 0 THEN [len |-> -1, next |-> p] ELSE ReadLength44(s, p))
           = [len |-> n - 1, next |-> p + Len(Chars(n))]
<1>1. CASE n = 0
  <2>1. Len(Chars(n)) = 0
    BY <1>1 DEF Chars
  <2>2. p + Len(Chars(n)) = p /\ n - 1 = -1
    BY <1>1, <2>1
  <2> QED BY <1>1, <2>2
<1>2. CASE n > 0
  <2>1. Chars(n) = WriteLength44(n - 1) /\ n - 1 \in Nat
    BY <1>2 DEF Chars
  <2>2. ReadLength44(s, p) = [len |-> n - 1, next |-> p + Len(WriteLength44(n - 1))]
    BY <2>1, Length44Reads
  <2> QED BY <1>2, <2>1, <2>2
<1> QED BY <1>1, <1>2

\* A match of levels 1 and 3, behind any number of literals.
LEMMA MatchReadsM ==
  ASSUME NEW sec \in SectionSet, NEW r \in ReaderSet, NEW t \in TokenSet,
         t.matchlen > 0, Written(sec, r, CodeM(t))
  PROVE  ReadTokenM(sec, r) = [token |-> t, reader |-> Behind(r, CodeM(t))]
<1> DEFINE ml == t.matchlen - 1
           n  == t.charlen
           md == t.matchdistance
           a  == Small(ml, 7)
           f  == a * 32 + (md % 32)
           w  == <<f>>
           el == Chars(n)
           em == Excess(ml, 7)
           e  == el \o em
           id == 128 + (IF n = 0 THEN 0 ELSE 64)
           q  == md \div 32
           code == CodeM(t)
           c  == At(sec.pdistanceflag, r.pdistanceflag)
           d  == [dis |-> q, next |-> r.pdistance + Len(More(q))]
           x  == r.pflagExx + Len(e)
<1>1. md \in Distances /\ ml \in Nat /\ ml + 1 = t.matchlen /\ n \in Nat /\ (n - 1) + 1 = n
  BY DEF TokenSet
<1>2. code = Code(w, e, id, q)
  BY Zenon DEF CodeM, Chars
<1>3. el \in Seq(Nat) /\ em \in Seq(Nat)
  BY <1>1, ExcessShape, CharsShape
<1>4. a \in Nat
  BY <1>1, SmallIs
<1>5. q \in Distances
  BY <1>1, DistanceParts
<1>6. q * 32 + (md % 32) = md
  BY <1>1, DistanceParts
<1> HIDE DEF a, md, ml, n, el, em
<1>7. f \in Nat /\ f \div 32 = a /\ f % 32 = md % 32
  <2>1. a \in Nat
    BY <1>4
  <2>2. md \in Nat
    BY <1>1, DistanceIsNat
  <2> QED BY <2>1, <2>2
<1>8. e \in Seq(Nat) /\ Len(e) = Len(el) + Len(em)
  BY <1>3, ConcatProperties, Zenon
<1> HIDE DEF f, q
<1>9. w \in Seq(Nat) /\ 1 = Len(w) /\ id \in Ids
  BY <1>7 DEF Ids
<1> HIDE DEF w, id
<1>10. /\ code \in CodeSet /\ Written(sec, r, code)
      /\ code.flag = w /\ code.flagExx = e /\ code.id = id /\ code.dis = q
  <2> HIDE DEF e
  <2>1. code \in CodeSet
    BY CodeMFits, Zenon DEF CodeFits
  <2>2. /\ Code(w, e, id, q).flag = w /\ Code(w, e, id, q).flagExx = e
        /\ Code(w, e, id, q).id = id /\ Code(w, e, id, q).dis = q
    BY Zenon DEF Code
  <2> QED BY <1>2, <2>1, <2>2, Zenon
<1> HIDE DEF code
<1>11. /\ IdOf(c, id) /\ ReadDistance(sec, r) = d
       /\ Holds(sec.pflag, r.pflag, w) /\ Holds(sec.pflagExx, r.pflagExx, e)
  <2> HIDE DEF e
  <2> QED BY <1>10, CodeReads, Zenon
<1>12. /\ r.pflag \in Nat /\ r.pflagExx \in Nat
       /\ sec.pflag \in Seq(Nat) /\ sec.pflagExx \in Seq(Nat)
  BY DEF ReaderSet, SectionSet
<1>13. At(sec.pflag, r.pflag) = f
  BY <1>7, <1>11, <1>12, HoldsOne DEF w
<1>14. Holds(sec.pflagExx, r.pflagExx, el) /\ Holds(sec.pflagExx, r.pflagExx + Len(el), em)
  BY <1>3, <1>11, <1>12, HoldsParts, Zenon
<1> HIDE DEF e
<1>15. (IF n = 0 THEN [len |-> -1, next |-> r.pflagExx] ELSE ReadLength44(sec.pflagExx, r.pflagExx))
         = [len |-> n - 1, next |-> r.pflagExx + Len(el)]
  BY <1>1, <1>12, <1>14, CharsRead, Zenon DEF el
<1>16. ReadExcess(sec.pflagExx, r.pflagExx + Len(el), a, 7) = [len |-> ml, next |-> x]
  <2>1. r.pflagExx + Len(el) \in Nat /\ r.pflagExx + Len(el) + Len(em) = x
    BY <1>3, <1>8, <1>12
  <2>2. ReadExcess(sec.pflagExx, r.pflagExx + Len(el), a, 7)
          = [len |-> ml, next |-> (r.pflagExx + Len(el)) + Len(em)]
    <3> DEFINE p == r.pflagExx + Len(el)
    <3>1. p \in Nat /\ Holds(sec.pflagExx, p, em)
      BY <1>14, <2>1
    <3> HIDE DEF p
    <3>2. ReadExcess(sec.pflagExx, p, a, 7) = [len |-> ml, next |-> p + Len(em)]
      BY <1>1, <1>12, <3>1, ExcessReads DEF em, a
    <3> QED BY <3>2 DEF p
  <2> QED BY <2>1, <2>2
<1> HIDE DEF c, x
<1>17. Bit(c, 128) /\ (~ Bit(c, 64) <=> n = 0)
  BY <1>11 DEF IdOf, id
<1>18. ReadTokenM(sec, r) = Read(r, d, 1, x, (n - 1) + 1, ml + 1, d.dis * 32 + (f % 32))
  <2> DEFINE l == IF ~ Bit(c, 64) THEN [len |-> -1, next |-> r.pflagExx]
                  ELSE ReadLength44(sec.pflagExx, r.pflagExx)
             m == ReadExcess(sec.pflagExx, l.next, f \div 32, 7)
  <2>1. l = [len |-> n - 1, next |-> r.pflagExx + Len(el)]
    BY <1>15, <1>17
  <2>2. ReadTokenM(sec, r) = Read(r, d, 1, m.next, l.len + 1, m.len + 1, d.dis * 32 + (f % 32))
    <3>1. ReadDistance(sec, r) = d
      BY <1>11
    <3> QED BY <1>13, <1>17, <3>1, Zenon DEF ReadTokenM, c
  <2> HIDE DEF l
  <2>3. m = [len |-> ml, next |-> x]
    BY <1>7, <1>16, <2>1
  <2> HIDE DEF m
  <2>4. l.len = n - 1 /\ m.len = ml /\ m.next = x
    BY <2>1, <2>3
  <2> QED BY <2>2, <2>4, Zenon
<1>19. d.dis * 32 + (f % 32) = md
  BY <1>6, <1>7
<1>20. ReadTokenM(sec, r) = Read(r, d, Len(w), x, t.charlen, t.matchlen, t.matchdistance)
  BY <1>1, <1>9, <1>18, <1>19, Zenon DEF md, n
<1>21. Read(r, d, Len(w), x, t.charlen, t.matchlen, t.matchdistance)
         = [token |-> t, reader |-> Behind(r, code)]
  BY <1>10, ReadParts, Zenon DEF x
<1> QED BY <1>20, <1>21, Zenon DEF code

\* A match of two words of levels 1 and 3: the whole distance is in pdistance.
LEMMA PairReadsM ==
  ASSUME NEW sec \in SectionSet, NEW r \in ReaderSet, NEW t \in TokenSet,
         t.matchlen = 0, Written(sec, r, CodeM(t))
  PROVE  ReadTokenM(sec, r) = [token |-> t, reader |-> Behind(r, CodeM(t))]
<1> DEFINE n  == t.charlen
           q  == t.matchdistance
           w  == <<>>
           e  == Chars(n)
           id == IF n = 0 THEN 0 ELSE 64
           code == CodeM(t)
           c  == At(sec.pdistanceflag, r.pdistanceflag)
           d  == [dis |-> q, next |-> r.pdistance + Len(More(q))]
           x  == r.pflagExx + Len(e)
<1>1. q \in Distances /\ n \in Nat /\ (n - 1) + 1 = n
  BY DEF TokenSet
<1>2. code = Code(w, e, id, q)
  <2>1. ~ (t.matchlen > 0)
    OBVIOUS
  <2> QED BY <2>1, Zenon DEF CodeM, Chars
<1>3. e \in Seq(Nat)
  BY <1>1, CharsShape
<1> HIDE DEF q, n, e
<1>4. w \in Seq(Nat) /\ 0 = Len(w) /\ id \in Ids
  BY DEF Ids
<1> HIDE DEF w, id
<1>5. /\ code \in CodeSet /\ Written(sec, r, code)
      /\ code.flag = w /\ code.flagExx = e /\ code.id = id /\ code.dis = q
  <2> HIDE DEF e
  <2>1. code \in CodeSet
    BY CodeMFits, Zenon DEF CodeFits
  <2>2. /\ Code(w, e, id, q).flag = w /\ Code(w, e, id, q).flagExx = e
        /\ Code(w, e, id, q).id = id /\ Code(w, e, id, q).dis = q
    BY Zenon DEF Code
  <2> QED BY <1>2, <2>1, <2>2, Zenon
<1> HIDE DEF code
<1>6. /\ IdOf(c, id) /\ ReadDistance(sec, r) = d /\ Holds(sec.pflagExx, r.pflagExx, e)
  BY <1>5, CodeReads, Zenon
<1>7. r.pflagExx \in Nat /\ sec.pflagExx \in Seq(Nat)
  BY DEF ReaderSet, SectionSet
<1>8. (IF n = 0 THEN [len |-> -1, next |-> r.pflagExx] ELSE ReadLength44(sec.pflagExx, r.pflagExx))
        = [len |-> n - 1, next |-> x]
  BY <1>1, <1>6, <1>7, CharsRead, Zenon DEF e
<1> HIDE DEF c, x
<1>9. ~ Bit(c, 128) /\ (~ Bit(c, 64) <=> n = 0)
  BY <1>6 DEF IdOf, id
<1>10. ReadTokenM(sec, r) = Read(r, d, 0, x, (n - 1) + 1, 0, q)
  <2> DEFINE l == IF ~ Bit(c, 64) THEN [len |-> -1, next |-> r.pflagExx]
                  ELSE ReadLength44(sec.pflagExx, r.pflagExx)
  <2>1. l = [len |-> n - 1, next |-> x]
    BY <1>8, <1>9
  <2>2. ReadTokenM(sec, r) = Read(r, d, 0, l.next, l.len + 1, 0, d.dis)
    <3>1. ReadDistance(sec, r) = d
      BY <1>6
    <3> QED BY <1>9, <3>1, Zenon DEF ReadTokenM, c
  <2> HIDE DEF l
  <2>3. l.len = n - 1 /\ l.next = x /\ d.dis = q
    BY <2>1
  <2> QED BY <2>2, <2>3, Zenon
<1>11. ReadTokenM(sec, r) = Read(r, d, Len(w), x, t.charlen, t.matchlen, t.matchdistance)
  BY <1>1, <1>4, <1>10, Zenon DEF q, n
<1>12. Read(r, d, Len(w), x, t.charlen, t.matchlen, t.matchdistance)
         = [token |-> t, reader |-> Behind(r, code)]
  BY <1>5, ReadParts, Zenon DEF x
<1> QED BY <1>11, <1>12, Zenon DEF code

\* The decoder reads the token that the encoder of its level wrote.
LEMMA TokenReads ==
  ASSUME NEW mc \in BOOLEAN, NEW sec \in SectionSet, NEW r \in ReaderSet, NEW t \in TokenSet,
         Written(sec, r, TokenCode(mc, t))
  PROVE  ReadToken(mc, sec, r) = [token |-> t, reader |-> Behind(r, TokenCode(mc, t))]
<1>1. t.charlen \in Nat /\ t.matchlen \in Nat
  BY DEF TokenSet
<1>2. (t.charlen = 0 \/ t.charlen > 0) /\ (t.matchlen = 0 \/ t.matchlen > 0)
  BY <1>1
<1>3. CASE mc
  <2>1. /\ TokenCode(mc, t) = CodeMc(t) /\ ReadToken(mc, sec, r) = ReadTokenMc(sec, r)
        /\ Written(sec, r, CodeMc(t))
    BY <1>3, Zenon DEF TokenCode, ReadToken
  <2>2. ReadTokenMc(sec, r) = [token |-> t, reader |-> Behind(r, CodeMc(t))]
    BY <1>2, <2>1, MatchReads, PairReads, LiteralMatchReads, LiteralPairReads, Zenon
  <2> QED BY <2>1, <2>2, Zenon
<1>4. CASE ~ mc
  <2>1. /\ TokenCode(mc, t) = CodeM(t) /\ ReadToken(mc, sec, r) = ReadTokenM(sec, r)
        /\ Written(sec, r, CodeM(t))
    BY <1>4, Zenon DEF TokenCode, ReadToken
  <2>2. ReadTokenM(sec, r) = [token |-> t, reader |-> Behind(r, CodeM(t))]
    BY <1>2, <2>1, MatchReadsM, PairReadsM, Zenon
  <2> QED BY <2>1, <2>2, Zenon
<1> QED BY <1>3, <1>4

-----------------------------------------------------------------------------
(* The last block.                                                         *)

\* The bytes of a long charlen.
LEMMA LastLong ==
  ASSUME NEW l \in Nat, l >= 15,
         NEW q \in Nat, q = (l - 15) \div 255, NEW r \in Nat, r = (l - 15) % 255
  PROVE  /\ LastBytes(l) \in Seq(Nat) /\ Len(LastBytes(l)) = 2 + q
         /\ LastBytes(l)[1] = 15 /\ \A k \in 2 .. q + 1 : LastBytes(l)[k] = 255
         /\ LastBytes(l)[q + 2] = r
<1> DEFINE a == <<15>>
           b == [k \in 1 .. q |-> 255]
           c == <<r>>
           d == a \o b
           e == d \o c
<1>1. LastBytes(l) = e
  BY DEF LastBytes
<1>2. a \in Seq(Nat) /\ Len(a) = 1 /\ a[1] = 15
  OBVIOUS
<1>3. b \in Seq(Nat) /\ Len(b) = q /\ \A k \in 1 .. q : b[k] = 255
  <2>1. b \in [1 .. q -> Nat]
    OBVIOUS
  <2>2. b \in Seq(Nat)
    BY <2>1
  <2> QED BY <2>1, <2>2
<1>4. c \in Seq(Nat) /\ Len(c) = 1 /\ c[1] = r
  OBVIOUS
<1> HIDE DEF a, b, c
<1>5. /\ d \in Seq(Nat) /\ Len(d) = Len(a) + Len(b)
      /\ \A k \in 1 .. Len(a) + Len(b) : d[k] = IF k <= Len(a) THEN a[k] ELSE b[k - Len(a)]
  <2>1. a \in Seq(Nat) /\ b \in Seq(Nat)
    BY <1>2, <1>3
  <2> QED BY <2>1, ConcatProperties, Zenon
<1> HIDE DEF d
<1>6. /\ e \in Seq(Nat) /\ Len(e) = Len(d) + Len(c)
      /\ \A k \in 1 .. Len(d) + Len(c) : e[k] = IF k <= Len(d) THEN d[k] ELSE c[k - Len(d)]
  <2>1. d \in Seq(Nat) /\ c \in Seq(Nat)
    BY <1>4, <1>5
  <2> QED BY <2>1, ConcatProperties, Zenon
<1> HIDE DEF e
<1>7. Len(d) = 1 + q /\ Len(e) = 2 + q
  BY <1>2, <1>3, <1>4, <1>5, <1>6
<1>8. e[1] = 15
  <2>1. e[1] = d[1] /\ d[1] = a[1]
    BY <1>2, <1>3, <1>4, <1>5, <1>6, <1>7
  <2> QED BY <1>2, <2>1
<1>9. ASSUME NEW k \in 2 .. q + 1 PROVE e[k] = 255
  <2>1. e[k] = d[k]
    BY <1>4, <1>6, <1>7
  <2>2. k - 1 \in 1 .. q /\ d[k] = b[k - 1]
    BY <1>2, <1>3, <1>5
  <2> QED BY <2>1, <2>2, <1>3
<1>10. e[q + 2] = c[1]
  BY <1>4, <1>6, <1>7
<1> QED BY <1>1, <1>4, <1>6, <1>7, <1>8, <1>9, <1>10

LEMMA LastShape ==
  ASSUME NEW l \in Nat, l >= 4
  PROVE  LastBytes(l) \in Seq(Nat) /\ 2 * Len(LastBytes(l)) <= l
<1>1. CASE l < 15
  <2>1. LastBytes(l) = <<l>>
    BY <1>1 DEF LastBytes
  <2>2. LastBytes(l) \in Seq(Nat) /\ Len(LastBytes(l)) = 1
    BY <2>1
  <2> QED BY <2>2
<1>2. CASE l >= 15
  <2> DEFINE q == (l - 15) \div 255
             r == (l - 15) % 255
  <2>1. q \in Nat /\ r \in Nat /\ 2 * (2 + q) <= l
    BY <1>2
  <2>2. LastBytes(l) \in Seq(Nat) /\ Len(LastBytes(l)) = 2 + q
    BY <1>2, <2>1, LastLong
  <2> QED BY <2>1, <2>2
<1> QED BY <1>1, <1>2

\* mylz_ReadLength reads what mylz_WriteLength wrote.
LEMMA LastReads ==
  ASSUME NEW sec \in SectionSet, NEW r \in ReaderSet, NEW l \in Nat, l >= 4,
         Holds(sec.pflag, r.pflag, LastBytes(l))
  PROVE  ReadLast(sec, r) =
           [charlen |-> l, reader |-> [r EXCEPT !.pflag = r.pflag + Len(LastBytes(l))]]
<1> DEFINE s == sec.pflag
           n == r.pflag
           w == LastBytes(l)
           f == At(s, n)
           y == [k \in 0 .. Len(s) |-> At(s, n + 1 + k)]
<1>1. s \in Seq(Nat) /\ n \in Nat
  BY DEF SectionSet, ReaderSet
<1>2. w \in Seq(Nat) /\ Len(w) \in Nat /\ Holds(s, n, w)
  BY LastShape
<1>3. /\ f # 15 => ReadLast(sec, r) = [charlen |-> f, reader |-> [r EXCEPT !.pflag = n + 1]]
      /\ f = 15 => ReadLast(sec, r) =
            [charlen |-> 15 + 255 * LastByte(y) + y[LastByte(y)],
             reader |-> [r EXCEPT !.pflag = n + 2 + LastByte(y)]]
  BY DEF ReadLast
<1> HIDE DEF s, n, w, f
<1>4. ASSUME NEW j \in Nat, j < Len(w) PROVE At(s, n + j) = w[j + 1]
  BY <1>1, <1>2, <1>4, HoldsAt
<1>5. Len(w) > 0 => f = w[1]
  <2> SUFFICES ASSUME Len(w) > 0 PROVE f = w[1]
    OBVIOUS
  <2>1. At(s, n + 0) = w[0 + 1]
    BY <1>4
  <2> QED BY <1>1, <2>1 DEF f
<1>6. CASE l < 15
  <2>1. w = <<l>>
    BY <1>6 DEF LastBytes, w
  <2>2. Len(w) = 1 /\ w[1] = l
    BY <2>1
  <2>3. f = l /\ f # 15
    BY <1>5, <1>6, <2>2
  <2>4. ReadLast(sec, r) = [charlen |-> l, reader |-> [r EXCEPT !.pflag = n + Len(w)]]
    BY <1>3, <2>2, <2>3
  <2> QED BY <2>4 DEF n, w
<1>7. CASE l >= 15
  <2> DEFINE q == (l - 15) \div 255
             z == (l - 15) % 255
  <2>1. q \in Nat /\ z \in Nat /\ z < 255 /\ l = 15 + 255 * q + z
    BY <1>7
  <2>2. /\ Len(w) = 2 + q /\ w[1] = 15 /\ \A k \in 2 .. q + 1 : w[k] = 255
        /\ w[q + 2] = z
    BY <1>7, <2>1, LastLong DEF w
  <2> HIDE DEF q, z
  <2>3. f = 15
    BY <1>5, <2>1, <2>2
  <2>4. \A j \in Nat : j < Len(w) => At(s, n + j) = w[j + 1]
    BY <1>4
  <2>5. \A k \in 0 .. q - 1 : At(s, n + 1 + k) = 255
    <3> TAKE k \in 0 .. q - 1
    <3>1. /\ 1 + k \in Nat /\ 1 + k < Len(w) /\ n + 1 + k = n + (1 + k)
          /\ 1 + k + 1 \in 2 .. q + 1
      BY <1>1, <2>1, <2>2
    <3> QED BY <2>2, <2>4, <3>1
  <2>6. At(s, n + 1 + q) = z
    <3>1. 1 + q \in Nat /\ 1 + q < Len(w) /\ n + 1 + q = n + (1 + q) /\ 1 + q + 1 = q + 2
      BY <1>1, <2>1, <2>2
    <3> QED BY <2>2, <2>4, <3>1
  <2>7. q \in 0 .. Len(s) /\ Len(s) \in Nat
    <3>1. n + Len(w) <= Len(s) /\ Len(s) \in Nat
      BY <1>1, <1>2 DEF Holds
    <3> QED BY <1>1, <2>1, <2>2, <3>1
  <2>8. y \in [0 .. Len(s) -> Nat]
    <3>1. \A k \in Nat : At(s, k) \in Nat
      BY <1>1 DEF At
    <3>2. ASSUME NEW k \in 0 .. Len(s) PROVE At(s, n + 1 + k) \in Nat
      <4>1. n + 1 + k \in Nat
        BY <1>1, <2>7
      <4> QED BY <3>1, <4>1
    <3> QED BY <3>2
  <2>9. y[q] = z /\ \A k \in 0 .. q - 1 : y[k] = 255
    BY <2>1, <2>5, <2>6, <2>7
  <2> HIDE DEF y
  <2>10. y[q] < 255
    BY <2>1, <2>9
  <2>11. LastByte(y) = q
    <3>1. EndsAt(y, q)
      BY <2>9, <2>10 DEF EndsAt
    <3> QED BY <2>7, <2>8, <3>1, LastByteIs, Zenon
  <2>12. ReadLast(sec, r) = [charlen |-> 15 + 255 * q + z, reader |-> [r EXCEPT !.pflag = n + 2 + q]]
    BY <1>3, <2>3, <2>9, <2>11
  <2>13. n + 2 + q = n + Len(w)
    BY <1>1, <2>1, <2>2
  <2>14. ReadLast(sec, r) = [charlen |-> l, reader |-> [r EXCEPT !.pflag = n + Len(w)]]
    BY <2>1, <2>12, <2>13
  <2> QED BY <2>14 DEF n, w
<1> QED BY <1>6, <1>7

-----------------------------------------------------------------------------
(* Writing behind the sections.                                            *)

\* A reader that has read all of the sections.
EndOf(sec) == [pdistanceflag |-> Len(sec.pdistanceflag), pdistance |-> Len(sec.pdistance),
               pflag |-> Len(sec.pflag), pflagExx |-> Len(sec.pflagExx)]

LEMMA ConcatLen ==
  ASSUME NEW a \in Seq(Nat), NEW b \in Seq(Nat)
  PROVE  a \o b \in Seq(Nat) /\ Len(a \o b) = Len(a) + Len(b)
BY ConcatProperties, Zenon

LEMMA FlagBytes ==
  ASSUME NEW id \in Ids, NEW dis \in Distances
  PROVE  <<FlagByte(id, dis)>> \in Seq(Nat) /\ Len(<<FlagByte(id, dis)>>) = 1
<1>1. PICK x \in Nat : FlagByte(id, dis) = id + x
  BY FlagByteForm
<1>2. FlagByte(id, dis) \in Nat
  BY <1>1 DEF Ids
<1> QED BY <1>2

LEMMA ExtendShape ==
  ASSUME NEW sec \in SectionSet,
         NEW a \in Seq(Nat), NEW b \in Seq(Nat), NEW c \in Seq(Nat), NEW d \in Seq(Nat)
  PROVE  LET new == Extend(sec, a, b, c, d)
         IN  /\ new \in SectionSet
             /\ Len(new.pdistanceflag) = Len(sec.pdistanceflag) + Len(a)
             /\ Len(new.pdistance) = Len(sec.pdistance) + Len(b)
             /\ Len(new.pflag) = Len(sec.pflag) + Len(c)
             /\ Len(new.pflagExx) = Len(sec.pflagExx) + Len(d)
             /\ Holds(new.pdistanceflag, Len(sec.pdistanceflag), a)
             /\ Holds(new.pdistance, Len(sec.pdistance), b)
             /\ Holds(new.pflag, Len(sec.pflag), c)
             /\ Holds(new.pflagExx, Len(sec.pflagExx), d)
<1> DEFINE s1 == sec.pdistanceflag  s2 == sec.pdistance
           s3 == sec.pflag          s4 == sec.pflagExx
           t1 == s1 \o a  t2 == s2 \o b  t3 == s3 \o c  t4 == s4 \o d
           new == [pdistanceflag |-> t1, pdistance |-> t2, pflag |-> t3, pflagExx |-> t4]
<1>1. s1 \in Seq(Nat) /\ s2 \in Seq(Nat) /\ s3 \in Seq(Nat) /\ s4 \in Seq(Nat)
  BY DEF SectionSet
<1>2. Extend(sec, a, b, c, d) = new
  BY Zenon DEF Extend
<1> HIDE DEF s1, s2, s3, s4
<1>3. /\ t1 \in Seq(Nat) /\ Len(t1) = Len(s1) + Len(a) /\ Holds(t1, Len(s1), a)
      /\ t2 \in Seq(Nat) /\ Len(t2) = Len(s2) + Len(b) /\ Holds(t2, Len(s2), b)
      /\ t3 \in Seq(Nat) /\ Len(t3) = Len(s3) + Len(c) /\ Holds(t3, Len(s3), c)
      /\ t4 \in Seq(Nat) /\ Len(t4) = Len(s4) + Len(d) /\ Holds(t4, Len(s4), d)
  BY <1>1, ConcatLen, HoldsEnd, Zenon
<1> HIDE DEF t1, t2, t3, t4
<1>4. new \in SectionSet
  BY <1>3 DEF SectionSet
<1>5. new.pdistanceflag = t1 /\ new.pdistance = t2 /\ new.pflag = t3 /\ new.pflagExx = t4
  OBVIOUS
<1> HIDE DEF new
<1> QED BY <1>2, <1>3, <1>4, <1>5, Zenon DEF s1, s2, s3, s4

\* What was written stays.
LEMMA ExtendKeeps ==
  ASSUME NEW sec \in SectionSet, NEW r \in ReaderSet, NEW code \in CodeSet,
         Written(sec, r, code),
         NEW a \in Seq(Nat), NEW b \in Seq(Nat), NEW c \in Seq(Nat), NEW d \in Seq(Nat)
  PROVE  Written(Extend(sec, a, b, c, d), r, code)
<1> DEFINE new == Extend(sec, a, b, c, d)
           fb == <<FlagByte(code.id, code.dis)>>
           mb == More(code.dis)
<1>1. /\ sec.pdistanceflag \in Seq(Nat) /\ sec.pdistance \in Seq(Nat)
      /\ sec.pflag \in Seq(Nat) /\ sec.pflagExx \in Seq(Nat)
  BY DEF SectionSet
<1>2. /\ r.pdistanceflag \in Nat /\ r.pdistance \in Nat /\ r.pflag \in Nat /\ r.pflagExx \in Nat
  BY DEF ReaderSet
<1>3. /\ new.pdistanceflag = sec.pdistanceflag \o a /\ new.pdistance = sec.pdistance \o b
      /\ new.pflag = sec.pflag \o c /\ new.pflagExx = sec.pflagExx \o d
  BY Zenon DEF Extend
<1>4. code.flag \in Seq(Nat) /\ code.flagExx \in Seq(Nat) /\ code.id \in Ids /\ code.dis \in Distances
  BY DEF CodeSet
<1>5. fb \in Seq(Nat) /\ mb \in Seq(Nat)
  BY <1>4, FlagBytes, MoreShape
<1>6. /\ Holds(sec.pdistanceflag, r.pdistanceflag, fb) /\ Holds(sec.pdistance, r.pdistance, mb)
      /\ Holds(sec.pflag, r.pflag, code.flag) /\ Holds(sec.pflagExx, r.pflagExx, code.flagExx)
  BY Zenon DEF Written
<1> HIDE DEF new, fb, mb
<1>7. /\ Holds(new.pdistanceflag, r.pdistanceflag, fb) /\ Holds(new.pdistance, r.pdistance, mb)
      /\ Holds(new.pflag, r.pflag, code.flag) /\ Holds(new.pflagExx, r.pflagExx, code.flagExx)
  <2>1. Holds(new.pdistanceflag, r.pdistanceflag, fb)
    BY <1>1, <1>2, <1>3, <1>5, <1>6, HoldsLonger, Zenon
  <2>2. Holds(new.pdistance, r.pdistance, mb)
    BY <1>1, <1>2, <1>3, <1>5, <1>6, HoldsLonger, Zenon
  <2>3. Holds(new.pflag, r.pflag, code.flag)
    BY <1>1, <1>2, <1>3, <1>4, <1>6, HoldsLonger, Zenon
  <2>4. Holds(new.pflagExx, r.pflagExx, code.flagExx)
    BY <1>1, <1>2, <1>3, <1>4, <1>6, HoldsLonger, Zenon
  <2> QED BY <2>1, <2>2, <2>3, <2>4
<1>8. Written(new, r, code)
  BY <1>7, Zenon DEF Written, fb, mb
<1> QED BY <1>8 DEF new

LEMMA SumBound ==
  ASSUME NEW x \in Nat, NEW y \in Nat, NEW m \in Nat, y <= m
  PROVE  x + y <= x + m
OBVIOUS

\* Whole bytes behind any number of half bytes.
LEMMA WholeBytes ==
  ASSUME NEW x \in Nat
  PROVE  x + (IF x % 2 = 0 THEN 2 ELSE 1) = 2 * (x \div 2 + 1)
OBVIOUS

LEMMA TokenWritten ==
  ASSUME NEW mc \in BOOLEAN, NEW sec \in SectionSet, NEW t \in TokenSet
  PROVE  LET new == WriteToken(mc, sec, t)
             c   == TokenCode(mc, t)
         IN  /\ new \in SectionSet
             /\ Written(new, EndOf(sec), c)
             /\ EndOf(new) = Behind(EndOf(sec), c)
             /\ Len(new.pdistanceflag) = Len(sec.pdistanceflag) + 1
             /\ Len(new.pdistance) <= Len(sec.pdistance) + 2
             /\ Len(new.pflag) <= Len(sec.pflag) + 1
             /\ Len(new.pflagExx) <= Len(sec.pflagExx) + (t.charlen + t.matchlen + 2)
<1> DEFINE c   == TokenCode(mc, t)
           fb  == <<FlagByte(c.id, c.dis)>>
           mb  == More(c.dis)
           new == Extend(sec, fb, mb, c.flag, c.flagExx)
           e   == EndOf(sec)
<1>1. WriteToken(mc, sec, t) = new
  BY Zenon DEF WriteToken
<1>2. c \in CodeSet /\ Len(c.flag) <= 1 /\ Len(c.flagExx) <= t.charlen + t.matchlen + 2
  BY TokenFits, Zenon DEF CodeFits
<1> HIDE DEF c
<1>3. c.flag \in Seq(Nat) /\ c.flagExx \in Seq(Nat) /\ c.id \in Ids /\ c.dis \in Distances
  BY <1>2 DEF CodeSet
<1>4. fb \in Seq(Nat) /\ Len(fb) = 1 /\ mb \in Seq(Nat) /\ Len(mb) <= 2
  BY <1>3, FlagBytes, MoreShape
<1> HIDE DEF fb, mb
<1>5. /\ new \in SectionSet
      /\ Len(new.pdistanceflag) = Len(sec.pdistanceflag) + Len(fb)
      /\ Len(new.pdistance) = Len(sec.pdistance) + Len(mb)
      /\ Len(new.pflag) = Len(sec.pflag) + Len(c.flag)
      /\ Len(new.pflagExx) = Len(sec.pflagExx) + Len(c.flagExx)
      /\ Holds(new.pdistanceflag, Len(sec.pdistanceflag), fb)
      /\ Holds(new.pdistance, Len(sec.pdistance), mb)
      /\ Holds(new.pflag, Len(sec.pflag), c.flag)
      /\ Holds(new.pflagExx, Len(sec.pflagExx), c.flagExx)
  BY <1>3, <1>4, ExtendShape, Zenon
<1> HIDE DEF new
<1>6. /\ e.pdistanceflag = Len(sec.pdistanceflag) /\ e.pdistance = Len(sec.pdistance)
      /\ e.pflag = Len(sec.pflag) /\ e.pflagExx = Len(sec.pflagExx)
  BY DEF EndOf
<1>7. Written(new, e, c)
  <2> HIDE DEF e
  <2> QED BY <1>5, <1>6, Zenon DEF Written, fb, mb
<1>8. EndOf(new) = Behind(e, c)
  <2> HIDE DEF e
  <2> QED BY <1>4, <1>5, <1>6, Zenon DEF EndOf, Behind, mb
<1>9. /\ Len(new.pdistanceflag) = Len(sec.pdistanceflag) + 1
      /\ Len(new.pdistance) <= Len(sec.pdistance) + 2
      /\ Len(new.pflag) <= Len(sec.pflag) + 1
      /\ Len(new.pflagExx) <= Len(sec.pflagExx) + (t.charlen + t.matchlen + 2)
  <2>1. /\ Len(sec.pdistanceflag) \in Nat /\ Len(sec.pdistance) \in Nat /\ Len(sec.pflag) \in Nat /\ Len(sec.pflagExx) \in Nat
        /\ Len(mb) \in Nat /\ Len(c.flag) \in Nat /\ Len(c.flagExx) \in Nat
        /\ t.charlen \in Nat /\ t.matchlen \in Nat
    BY <1>3, <1>4 DEF SectionSet, TokenSet
  <2>2. Len(fb) = 1 /\ Len(mb) <= 2
    BY <1>4
  <2>3. Len(c.flag) <= 1 /\ Len(c.flagExx) <= t.charlen + t.matchlen + 2
    BY <1>2
  <2>4. /\ Len(new.pdistanceflag) = Len(sec.pdistanceflag) + Len(fb)
        /\ Len(new.pdistance) = Len(sec.pdistance) + Len(mb)
        /\ Len(new.pflag) = Len(sec.pflag) + Len(c.flag)
        /\ Len(new.pflagExx) = Len(sec.pflagExx) + Len(c.flagExx)
    BY <1>5, Zenon
  <2>5. 1 \in Nat /\ 2 \in Nat /\ t.charlen + t.matchlen + 2 \in Nat
    BY <2>1
  <2> QED BY <2>1, <2>2, <2>3, <2>4, <2>5, SumBound, Zenon
<1> QED BY <1>1, <1>5, <1>7, <1>8, <1>9, Zenon DEF c

LEMMA TokenKeeps ==
  ASSUME NEW mc \in BOOLEAN, NEW sec \in SectionSet, NEW t \in TokenSet,
         NEW r \in ReaderSet, NEW c \in CodeSet, Written(sec, r, c)
  PROVE  Written(WriteToken(mc, sec, t), r, c)
<1> DEFINE d  == TokenCode(mc, t)
           fb == <<FlagByte(d.id, d.dis)>>
           mb == More(d.dis)
<1>1. WriteToken(mc, sec, t) = Extend(sec, fb, mb, d.flag, d.flagExx)
  BY Zenon DEF WriteToken
<1>2. d \in CodeSet
  BY TokenFits, Zenon DEF CodeFits
<1> HIDE DEF d
<1>3. d.flag \in Seq(Nat) /\ d.flagExx \in Seq(Nat) /\ d.id \in Ids /\ d.dis \in Distances
  BY <1>2 DEF CodeSet
<1>4. fb \in Seq(Nat) /\ mb \in Seq(Nat)
  BY <1>3, FlagBytes, MoreShape
<1> HIDE DEF fb, mb
<1> QED BY <1>1, <1>3, <1>4, ExtendKeeps, Zenon

LEMMA LastWritten ==
  ASSUME NEW sec \in SectionSet, NEW l \in Nat, l >= 4
  PROVE  LET new == WriteLast(sec, l)
         IN  /\ new \in SectionSet
             /\ Len(new.pdistanceflag) = Len(sec.pdistanceflag) + 1
             /\ Len(new.pdistance) = Len(sec.pdistance)
             /\ Len(new.pflag) = Len(sec.pflag) + Len(LastBytes(l))
             /\ Holds(new.pflag, Len(sec.pflag), LastBytes(l))
             /\ Len(new.pflagExx) = 2 * (Len(sec.pflagExx) \div 2 + 1)
             /\ \A r \in ReaderSet, c \in CodeSet : Written(sec, r, c) => Written(new, r, c)
<1> DEFINE z   == <<0>>
           n   == <<>>
           b   == LastBytes(l)
           x   == IF Len(sec.pflagExx) % 2 = 0 THEN <<0, 0>> ELSE <<0>>
           new == Extend(sec, z, n, b, x)
<1>1. WriteLast(sec, l) = new
  BY Zenon DEF WriteLast
<1>2. z \in Seq(Nat) /\ n \in Seq(Nat) /\ x \in Seq(Nat)
  OBVIOUS
<1>3. Len(z) = 1 /\ Len(n) = 0
  OBVIOUS
<1>4. b \in Seq(Nat)
  BY LastShape
<1>5. Len(x) = IF Len(sec.pflagExx) % 2 = 0 THEN 2 ELSE 1
  OBVIOUS
<1> HIDE DEF z, n, b, x
<1>6. /\ new \in SectionSet
      /\ Len(new.pdistanceflag) = Len(sec.pdistanceflag) + Len(z)
      /\ Len(new.pdistance) = Len(sec.pdistance) + Len(n)
      /\ Len(new.pflag) = Len(sec.pflag) + Len(b)
      /\ Len(new.pflagExx) = Len(sec.pflagExx) + Len(x)
      /\ Holds(new.pdistanceflag, Len(sec.pdistanceflag), z)
      /\ Holds(new.pdistance, Len(sec.pdistance), n)
      /\ Holds(new.pflag, Len(sec.pflag), b)
      /\ Holds(new.pflagExx, Len(sec.pflagExx), x)
  BY <1>2, <1>4, ExtendShape, Zenon
<1>7. ASSUME NEW r \in ReaderSet, NEW c \in CodeSet, Written(sec, r, c) PROVE Written(new, r, c)
  BY <1>2, <1>4, <1>7, ExtendKeeps, Zenon
<1> HIDE DEF new
<1>8. /\ Len(new.pdistanceflag) = Len(sec.pdistanceflag) + 1
      /\ Len(new.pdistance) = Len(sec.pdistance)
      /\ Len(new.pflagExx) = 2 * (Len(sec.pflagExx) \div 2 + 1)
  <2>1. Len(sec.pdistanceflag) \in Nat /\ Len(sec.pdistance) \in Nat /\ Len(sec.pflagExx) \in Nat
    BY DEF SectionSet
  <2>2. /\ Len(new.pdistanceflag) = Len(sec.pdistanceflag) + Len(z)
        /\ Len(new.pdistance) = Len(sec.pdistance) + Len(n)
        /\ Len(new.pflagExx) = Len(sec.pflagExx) + Len(x)
    BY <1>6, Zenon
  <2>3. Len(sec.pdistance) + 0 = Len(sec.pdistance)
    BY <2>1
  <2> QED BY <1>3, <1>5, <2>1, <2>2, <2>3, WholeBytes, Zenon
<1> QED BY <1>1, <1>6, <1>7, <1>8, Zenon DEF b

-----------------------------------------------------------------------------
(* Paths.                                                                  *)

\* Q[k] is the reader behind the first k of the tokens ts, written in s.
Path(Q, m, ts, s) ==
  /\ Q \in [0 .. Len(ts) -> ReaderSet]
  /\ Q[0] = Unread
  /\ \A k \in 0 .. Len(ts) : Q[k].pdistanceflag = k
  /\ \A k \in 1 .. Len(ts) : /\ Written(s, Q[k - 1], TokenCode(m, ts[k]))
                             /\ Q[k] = Behind(Q[k - 1], TokenCode(m, ts[k]))

LEMMA BehindIsReader ==
  ASSUME NEW r \in ReaderSet, NEW c \in CodeSet
  PROVE  Behind(r, c) \in ReaderSet /\ Behind(r, c).pdistanceflag = r.pdistanceflag + 1
<1>1. c.flag \in Seq(Nat) /\ c.flagExx \in Seq(Nat) /\ c.dis \in Distances
  BY DEF CodeSet
<1>2. More(c.dis) \in Seq(Nat)
  BY <1>1, MoreShape
<1>3. Len(c.flag) \in Nat /\ Len(c.flagExx) \in Nat /\ Len(More(c.dis)) \in Nat
  BY <1>1, <1>2
<1>4. /\ r.pdistanceflag + 1 \in Nat /\ r.pdistance + Len(More(c.dis)) \in Nat
      /\ r.pflag + Len(c.flag) \in Nat /\ r.pflagExx + Len(c.flagExx) \in Nat
  <2>1. r.pdistanceflag \in Nat /\ r.pdistance \in Nat /\ r.pflag \in Nat /\ r.pflagExx \in Nat
    BY DEF ReaderSet
  <2>2. r.pdistanceflag + 1 \in Nat
    BY <2>1
  <2>3. r.pdistance + Len(More(c.dis)) \in Nat
    BY <1>3, <2>1
  <2>4. r.pflag + Len(c.flag) \in Nat
    BY <1>3, <2>1
  <2>5. r.pflagExx + Len(c.flagExx) \in Nat
    BY <1>3, <2>1
  <2> QED BY <2>2, <2>3, <2>4, <2>5
<1> QED BY <1>4 DEF Behind, ReaderSet

LEMMA TokenCodeIs ==
  ASSUME NEW m \in BOOLEAN, NEW t \in TokenSet
  PROVE  TokenCode(m, t) \in CodeSet
BY TokenFits, Zenon DEF CodeFits

\* Nothing is written at the start.
LEMMA PathStarts ==
  ASSUME NEW m, NEW s
  PROVE  \E Q : Path(Q, m, <<>>, s) /\ Q[Len(<<>>)] = Unread
<1> DEFINE Q == [k \in 0 .. 0 |-> Unread]
<1>1. Unread \in ReaderSet /\ Unread.pdistanceflag = 0
  BY DEF Unread, ReaderSet
<1>2. Q \in [0 .. 0 -> ReaderSet] /\ Q[0] = Unread /\ \A k \in 0 .. 0 : Q[k].pdistanceflag = k
  BY <1>1
<1>3. Len(<<>>) = 0 /\ 1 .. 0 = {}
  OBVIOUS
<1> HIDE DEF Q
<1>4. Path(Q, m, <<>>, s) /\ Q[Len(<<>>)] = Unread
  BY <1>2, <1>3 DEF Path
<1> QED BY <1>4

\* The path goes on over one more token.
LEMMA PathGrows ==
  ASSUME NEW m \in BOOLEAN, NEW ts \in Seq(TokenSet), NEW s \in SectionSet, NEW t \in TokenSet,
         NEW Q, Path(Q, m, ts, s), Q[Len(ts)] = EndOf(s)
  PROVE  \E R : /\ Path(R, m, Append(ts, t), WriteToken(m, s, t))
                /\ R[Len(Append(ts, t))] = EndOf(WriteToken(m, s, t))
<1> DEFINE us  == Append(ts, t)
           n   == Len(ts)
           new == WriteToken(m, s, t)
           c   == TokenCode(m, t)
           b   == Behind(Q[n], c)
           R   == [k \in 0 .. n + 1 |-> IF k = n + 1 THEN b ELSE Q[k]]
<1>1. n \in Nat /\ Len(us) = n + 1 /\ us[n + 1] = t /\ \A k \in 1 .. n : us[k] = ts[k]
  OBVIOUS
<1>2. /\ Q \in [0 .. n -> ReaderSet] /\ Q[0] = Unread
      /\ \A k \in 0 .. n : Q[k].pdistanceflag = k
  BY DEF Path
<1>3. \A k \in 1 .. n : Written(s, Q[k - 1], TokenCode(m, ts[k])) /\ Q[k] = Behind(Q[k - 1], TokenCode(m, ts[k]))
  BY DEF Path
<1>4. c \in CodeSet
  BY TokenCodeIs
<1>5. new \in SectionSet /\ Written(new, Q[n], c) /\ EndOf(new) = b
  BY TokenWritten, Zenon
<1>6. \A r \in ReaderSet, d \in CodeSet : Written(s, r, d) => Written(new, r, d)
  BY TokenKeeps
<1> HIDE DEF us, n, new, c
<1>7. b \in ReaderSet /\ b.pdistanceflag = n + 1
  <2>1. Q[n] \in ReaderSet /\ Q[n].pdistanceflag = n
    BY <1>1, <1>2
  <2> QED BY <1>4, <2>1, BehindIsReader
<1> HIDE DEF b
<1>8. /\ R \in [0 .. n + 1 -> ReaderSet] /\ R[0] = Unread /\ R[n + 1] = b
      /\ \A k \in 0 .. n : R[k] = Q[k]
  <2>1. \A k \in 0 .. n + 1 : (IF k = n + 1 THEN b ELSE Q[k]) \in ReaderSet
    BY <1>1, <1>2, <1>7
  <2> QED BY <1>1, <1>2, <2>1
<1> HIDE DEF R
<1>9. \A k \in 0 .. n + 1 : R[k].pdistanceflag = k
  <2> TAKE k \in 0 .. n + 1
  <2>1. CASE k = n + 1
    BY <2>1, <1>7, <1>8
  <2>2. CASE k # n + 1
    <3>1. k \in 0 .. n
      BY <1>1, <2>2
    <3> QED BY <3>1, <1>2, <1>8
  <2> QED BY <2>1, <2>2
<1>10. ASSUME NEW k \in 1 .. n + 1
       PROVE  Written(new, R[k - 1], TokenCode(m, us[k])) /\ R[k] = Behind(R[k - 1], TokenCode(m, us[k]))
  <2>1. CASE k = n + 1
    <3>1. k - 1 = n /\ n \in 0 .. n /\ us[k] = t
      BY <1>1, <2>1
    <3>2. R[k - 1] = Q[n] /\ R[k] = b /\ TokenCode(m, us[k]) = c
      BY <1>8, <2>1, <3>1 DEF c
    <3> QED BY <1>5, <3>2, Zenon DEF b
  <2>2. CASE k # n + 1
    <3>1. k \in 1 .. n /\ k \in 0 .. n /\ k - 1 \in 0 .. n
      BY <1>1, <2>2
    <3>2. R[k - 1] = Q[k - 1] /\ R[k] = Q[k] /\ us[k] = ts[k]
      BY <1>1, <1>8, <3>1
    <3>3. Q[k - 1] \in ReaderSet /\ TokenCode(m, ts[k]) \in CodeSet
      <4>1. ts[k] \in TokenSet
        BY <3>1 DEF n
      <4> QED BY <1>2, <3>1, <4>1, TokenCodeIs
    <3> QED BY <1>3, <1>6, <3>1, <3>2, <3>3, Zenon
  <2> QED BY <2>1, <2>2
<1>11. Path(R, m, us, new)
  BY <1>1, <1>8, <1>9, <1>10, Zenon DEF Path
<1>12. R[Len(us)] = EndOf(new)
  BY <1>1, <1>5, <1>8, Zenon
<1> QED BY <1>11, <1>12 DEF us, new

\* The last block does not disturb the path.
LEMMA PathStays ==
  ASSUME NEW m \in BOOLEAN, NEW ts \in Seq(TokenSet), NEW s \in SectionSet,
         NEW Q, Path(Q, m, ts, s), NEW new,
         \A r \in ReaderSet, c \in CodeSet : Written(s, r, c) => Written(new, r, c)
  PROVE  Path(Q, m, ts, new)
<1>1. /\ Q \in [0 .. Len(ts) -> ReaderSet] /\ Q[0] = Unread
      /\ \A k \in 0 .. Len(ts) : Q[k].pdistanceflag = k
  BY DEF Path
<1>2. \A k \in 1 .. Len(ts) : /\ Written(s, Q[k - 1], TokenCode(m, ts[k]))
                              /\ Q[k] = Behind(Q[k - 1], TokenCode(m, ts[k]))
  BY DEF Path
<1>3. ASSUME NEW k \in 1 .. Len(ts) PROVE Q[k - 1] \in ReaderSet /\ TokenCode(m, ts[k]) \in CodeSet
  <2>1. k - 1 \in 0 .. Len(ts) /\ ts[k] \in TokenSet
    OBVIOUS
  <2> QED BY <1>1, <2>1, TokenCodeIs
<1> QED BY <1>1, <1>2, <1>3, Zenon DEF Path

\* A token is read along the path.
LEMMA PathReads ==
  ASSUME NEW m \in BOOLEAN, NEW ts \in Seq(TokenSet), NEW s \in SectionSet,
         NEW Q, Path(Q, m, ts, s), NEW n \in 0 .. Len(ts) - 1
  PROVE  ReadToken(m, s, Q[n]) = [token |-> ts[n + 1], reader |-> Q[n + 1]]
<1>1. n \in 0 .. Len(ts) /\ n + 1 \in 1 .. Len(ts) /\ (n + 1) - 1 = n
  OBVIOUS
<1>2. Q[n] \in ReaderSet /\ ts[n + 1] \in TokenSet
  BY <1>1 DEF Path
<1>3. Written(s, Q[n], TokenCode(m, ts[n + 1])) /\ Q[n + 1] = Behind(Q[n], TokenCode(m, ts[n + 1]))
  <2>1. \A k \in 1 .. Len(ts) : /\ Written(s, Q[k - 1], TokenCode(m, ts[k]))
                                /\ Q[k] = Behind(Q[k - 1], TokenCode(m, ts[k]))
    BY DEF Path
  <2>2. /\ Written(s, Q[(n + 1) - 1], TokenCode(m, ts[n + 1]))
        /\ Q[n + 1] = Behind(Q[(n + 1) - 1], TokenCode(m, ts[n + 1]))
    BY <1>1, <2>1, Zenon
  <2> QED BY <1>1, <2>2, Zenon
<1> QED BY <1>2, <1>3, TokenReads, Zenon

\* The last block stands behind the reader e.
Ends(e, s, l) == /\ Len(s.pdistanceflag) = e.pdistanceflag + 1
                 /\ Len(s.pdistance) = e.pdistance
                 /\ Holds(s.pflag, e.pflag, LastBytes(l))
                 /\ Len(s.pflag) = e.pflag + Len(LastBytes(l))
                 /\ Len(s.pflagExx) = 2 * (e.pflagExx \div 2 + 1)

\* The loop of the decoders ends with the last token.
LEMMA PathCounts ==
  ASSUME NEW m, NEW ts \in Seq(TokenSet), NEW s, NEW l, NEW Q, Path(Q, m, ts, s),
         Ends(Q[Len(ts)], s, l), NEW k \in 0 .. Len(ts)
  PROVE  MoreTokens(s, Q[k]) <=> k < Len(ts)
<1>1. \A j \in 0 .. Len(ts) : Q[j].pdistanceflag = j
  BY DEF Path
<1>2. Q[k].pdistanceflag = k
  BY <1>1, Zenon
<1>3. Len(s.pdistanceflag) = Len(ts) + 1
  <2>1. Len(ts) \in 0 .. Len(ts)
    OBVIOUS
  <2>2. Q[Len(ts)].pdistanceflag = Len(ts)
    BY <1>1, <2>1, Zenon
  <2>3. Len(s.pdistanceflag) = Q[Len(ts)].pdistanceflag + 1
    BY Zenon DEF Ends
  <2> QED BY <2>2, <2>3
<1>4. MoreTokens(s, Q[k]) <=> Q[k].pdistanceflag < Len(s.pdistanceflag) - 1
  BY Zenon DEF MoreTokens
<1>5. k < (Len(ts) + 1) - 1 <=> k < Len(ts)
  OBVIOUS
<1> QED BY <1>2, <1>3, <1>4, <1>5, Zenon
=============================================================================
