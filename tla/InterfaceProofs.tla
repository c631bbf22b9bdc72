--------------------------- MODULE InterfaceProofs --------------------------
(***************************************************************************)
(* mylz16Encode and mylz16Decode for every input length, every buffer and  *)
(* every section lengths that tokens can lead to: with room the encoder    *)
(* stays in its buffer, the packed sections are found again and nothing is *)
(* overwritten, and the block is restored.                                 *)
(***************************************************************************)
EXTENDS Lz16Interface, TLAPS

-----------------------------------------------------------------------------
(* Sums of section lengths.                                                *)

\* The sum of the lengths from number n on.
Behind(l, n) == LET part(s) == IF s >= n THEN l[s] ELSE 0
                IN  part(0) + part(1) + part(2) + part(3) + part(4)

LEMMA SectionsAre == Sections = {0, 1, 2, 3, 4} /\ Sections = 0 .. 4
BY DEF Sections, MYSECTION_COUNT

LEMMA LensAre ==
  ASSUME NEW l \in [Sections -> Nat]
  PROVE  l[0] \in Nat /\ l[1] \in Nat /\ l[2] \in Nat /\ l[3] \in Nat /\ l[4] \in Nat
BY SectionsAre

LEMMA BehindStep ==
  ASSUME NEW l \in [Sections -> Nat], NEW n \in Sections
  PROVE  Behind(l, n) = l[n] + Behind(l, n + 1)
BY LensAre, SectionsAre DEF Behind

LEMMA BehindEnds ==
  ASSUME NEW l \in [Sections -> Nat]
  PROVE  Behind(l, 5) = 0 /\ \A n \in 0 .. 5 : Behind(l, n) \in Nat
BY LensAre DEF Behind

LEMMA BehindSame ==
  ASSUME NEW l \in [Sections -> Nat], NEW k \in [Sections -> Nat], NEW n \in 0 .. 5,
         \A s \in Sections : s >= n => l[s] = k[s]
  PROVE  Behind(l, n) = Behind(k, n)
BY SectionsAre DEF Behind

LEMMA FirstStep ==
  ASSUME NEW l \in [Sections -> Nat], NEW n \in Sections
  PROVE  /\ FirstLens(l, n + 1) = FirstLens(l, n) + l[n] /\ FirstLens(l, 0) = 0
         /\ FirstLens(l, n) \in Nat
BY LensAre, SectionsAre DEF FirstLens

LEMMA TotalIs ==
  ASSUME NEW l \in [Sections -> Nat]
  PROVE  /\ Total(l) \in Nat /\ Total(l) = l[0] + l[1] + l[2] + l[3] + l[4]
         /\ \A n \in 0 .. 5 : FirstLens(l, n) + Behind(l, n) = Total(l)
BY LensAre DEF Total, FirstLens, Behind, MYSECTION_COUNT

-----------------------------------------------------------------------------
(* The invariant.                                                          *)

\* What a section takes in the packed part.
size == [s \in Sections |-> IF ranslen[s] # 0 THEN ranslen[s] ELSE len[s]]

Stored == lz >= call.inlen \/ lz < 0

\* The call, the buffer and the sections.
CallInv ==
  /\ call \in Calls /\ outlen = call.outlen
  /\ len \in [Sections -> Nat]
  /\ pc \in {"call", "refused", "block", "coded", "null", "returned", "lz16", "encode",
             "fault", "decode", "done"}
  /\ pc \notin {"call", "refused"} => call.inlen > 8 /\ outlen >= 2 * call.inlen
  /\ pc \in {"call", "block", "coded"} => PackInit

\* With room, the first attempt has the larger sections, and is the only one.
RoomInv ==
  HasRoom => /\ ~spilled
             /\ pc \in {"call", "block"} => outlenEx = outlen
             /\ pc = "coded" => lz # SECTION_OVER /\ items # -1
             /\ call.zeroed => ~stale

\* What was returned is the block that is described by the head.
BlockInv ==
  /\ lz \in Int /\ items \in -1 .. 2
  /\ pc = "coded" => lz < 0 \/ (items = 1 /\ len = call.len /\ lz = HeadLen + Total(len))
  /\ pc \in {"encode", "lz16"} => /\ ~Stored /\ items = 1 /\ len = call.len
                                  /\ lz = HeadLen + Total(len)
  /\ pc = "lz16" => ret = lz
  /\ pc = "returned" => \/ Stored /\ items = 0 /\ ret = HeadLen + call.inlen
                        \/ ~Stored /\ items = 1 /\ ret = lz /\ lz = HeadLen + Total(len)
  /\ pc = "decode" => ~Stored /\ items = 2
  /\ LosslessWithRoom

\* Section s is among the blocks b, at x, and coded in k bytes if k # 0.
PlacedAt(b, x, s, k) == [at |-> x, sec |-> s, coded |-> k # 0] \in b

\* The sections from number n on have been packed.
Packed(n) ==
  /\ sum \in Nat /\ sum_notrans \in Nat /\ index \in Nat /\ checkok \in BOOLEAN
  /\ ranslen \in [Sections -> Nat]
  /\ \A s \in Sections : ranslen[s] # 0 => IsEncodedLength(ranslen[s], len[s])
  /\ sum + sum_notrans = Behind(size, n)
  /\ \A s \in Sections :
       s >= n => PlacedAt(blocks, outlen - Behind(size, s), s, ranslen[s])
  /\ \A s \in Sections : ranslen[s] # 0 <=> n <= s /\ s < index + n

\* Sections are coded from the first that is long enough.
PackInv ==
  /\ pc = "encode" =>
       /\ i \in -1 .. 4 /\ Packed(i + 1)
       /\ IF checkok THEN sum = 0 /\ index = 0 ELSE sum > 0 /\ Total(len) >= 4096
  /\ pc = "decode" =>
       /\ i \in 0 .. 5 /\ Packed(0)
       /\ pransbuf = outlen - Behind(size, i)
       /\ polz16buf = HeadLen + FirstLens(len, i)
       /\ 2 * HeadLen + sum + sum_notrans <= outlen

IfInv == CallInv /\ RoomInv /\ BlockInv /\ PackInv

-----------------------------------------------------------------------------
(* Room.                                                                   *)

LEMMA CallIs ==
  ASSUME CallInv
  PROVE  /\ call.inlen \in Nat /\ outlen \in Nat /\ call.zeroed \in BOOLEAN
         /\ call.keep \in {"buffer", "returned"} /\ call.len \in [Sections -> Nat]
         /\ call.level \in 1 .. 4
         /\ call.inlen > 8 => Feasible(call.inlen, call.len)
BY CallsAssumption DEF CallInv

\* A coded section is not much longer than it was.
LEMMA CodedBound ==
  ASSUME NEW k \in Nat, NEW n \in Nat, IsEncodedLength(k, n)
  PROVE  k > 0 /\ 128 * k <= 69120 + 129 * n
<1> DEFINE q == n \div 128
<1>1. q \in Nat /\ 128 * q <= n
  OBVIOUS
<1>2. k >= 280 /\ k <= 540 + n + q
  BY DEF IsEncodedLength
<1> HIDE DEF q
<1> QED
  BY <1>1, <1>2

LEMMA BehindBound ==
  ASSUME NEW l \in [Sections -> Nat], NEW k \in [Sections -> Nat], NEW n \in 0 .. 5,
         \A s \in Sections : 128 * k[s] <= 69120 + 129 * l[s]
  PROVE  128 * Behind(k, n) <= 345600 + 129 * Behind(l, n)
<1>1. /\ 128 * k[0] <= 69120 + 129 * l[0] /\ 128 * k[1] <= 69120 + 129 * l[1]
      /\ 128 * k[2] <= 69120 + 129 * l[2] /\ 128 * k[3] <= 69120 + 129 * l[3]
      /\ 128 * k[4] <= 69120 + 129 * l[4]
  BY SectionsAre
<1> QED
  BY <1>1, LensAre DEF Behind

LEMMA SizeIs ==
  ASSUME len \in [Sections -> Nat], ranslen \in [Sections -> Nat]
  PROVE  size \in [Sections -> Nat]
BY DEF size

\* With the packed part in front of it, the next section is still whole, and the
\* two heads find their place.
LEMMA PackRoom ==
  ASSUME CallInv, BlockInv, PackInv, pc = "encode"
  PROVE  /\ Start >= HeadLen + FirstLens(len, i + 1)
         /\ ~checkok => Start >= 3 * HeadLen
<1> DEFINE T == Total(len)
           F == FirstLens(len, i + 1)
           B == Behind(len, i + 1)
           S == Behind(size, i + 1)
<1>1. /\ len \in [Sections -> Nat] /\ ranslen \in [Sections -> Nat] /\ i + 1 \in 0 .. 5
      /\ i \in -1 .. 4 /\ outlen \in Nat /\ call.inlen \in Nat
  BY CallIs DEF CallInv, PackInv, Packed
<1>2. size \in [Sections -> Nat]
  BY <1>1, SizeIs
<1>3. T \in Nat /\ F + B = T /\ B \in Nat /\ S \in Nat
  BY <1>1, <1>2, TotalIs, BehindEnds
<1>4. F \in Nat
  BY <1>1, LensAre DEF FirstLens
<1>5. outlen >= 2 * call.inlen /\ lz = 52 + T /\ lz < call.inlen
  BY <1>1 DEF CallInv, BlockInv, Stored, HeadLen
<1>6. Start = outlen - S
  BY DEF Start, PackInv, Packed
<1> HIDE DEF T, F, B, S
<1>7. outlen >= 106 + 2 * T
  BY <1>1, <1>3, <1>5
<1>8. CASE checkok
  <2>1. \A s \in Sections : ranslen[s] = 0
    <3>1. /\ \A s \in Sections : ranslen[s] # 0 <=> i + 1 <= s /\ s < index + (i + 1)
          /\ index = 0
      BY <1>8 DEF PackInv, Packed
    <3> QED
      BY <1>1, <3>1, SectionsAre
  <2>2. \A s \in Sections : s >= i + 1 => size[s] = len[s]
    BY <2>1 DEF size
  <2>3. S = B
    BY <1>1, <1>2, <2>2, BehindSame DEF S, B
  <2>4. outlen - S >= 52 + F
    BY <1>1, <1>3, <1>4, <1>7, <2>3
  <2> QED
    BY <1>6, <1>8, <2>4 DEF HeadLen, F
<1>9. CASE ~checkok
  <2>1. T >= 4096
    BY <1>9 DEF PackInv, T
  <2>2. ASSUME NEW s \in Sections PROVE 128 * size[s] <= 69120 + 129 * len[s]
    <3>1. len[s] \in Nat /\ ranslen[s] \in Nat
      BY <1>1
    <3>2. size[s] = IF ranslen[s] # 0 THEN ranslen[s] ELSE len[s]
      BY DEF size
    <3>3. ranslen[s] # 0 => 128 * ranslen[s] <= 69120 + 129 * len[s]
      <4>1. ranslen[s] # 0 => IsEncodedLength(ranslen[s], len[s])
        BY DEF PackInv, Packed
      <4> QED
        BY <3>1, <4>1, CodedBound
    <3> QED
      BY <3>1, <3>2, <3>3
  <2>3. 128 * S <= 345600 + 129 * B
    BY <1>1, <1>2, <2>2, BehindBound DEF S, B
  <2>4. outlen - S >= 52 + F /\ outlen - S >= 156
    BY <1>1, <1>3, <1>4, <1>7, <2>1, <2>3
  <2> QED
    BY <1>6, <2>4 DEF HeadLen, F
<1> QED
  BY <1>8, <1>9

\* The sections at their places end in a buffer of 2.5 * inlen + 90 bytes.
LEMMA Layout ==
  ASSUME CallInv, call.inlen > 8, HasRoom
  PROVE  \A s \in Sections : pbuf(s, 1) + call.len[s] <= outlen
<1> DEFINE n == call.inlen
           l == call.len
           v == [k \in Sections |-> savelen(k, 1)]
           h == n \div 2
           q == n \div 4
           e == n \div 8
           x == n \div 16
           w == Words(n)
           t == l[1] - 1
           g == l[0] \div 2
           r == l[0] \div 510
           u == w \div 2
           a == (n * 3) \div 4
           b == n % 2
<1>1. n \in Nat /\ outlen \in Nat /\ l \in [Sections -> Nat] /\ Feasible(n, l)
  BY CallIs
<1>2. l[0] \in Nat /\ l[1] \in Nat /\ l[2] \in Nat /\ l[3] \in Nat /\ l[4] \in Nat
  BY <1>1, LensAre
<1>3. w = (n + 1) \div 2
  BY DEF Words
<1> HIDE DEF l, n
<1>4. /\ h \in Nat /\ 2 * h <= n /\ q \in Nat /\ 4 * q <= n /\ e \in Nat /\ 8 * e <= n
      /\ x \in Nat /\ 16 * x <= n /\ a \in Nat /\ 4 * a <= 3 * n /\ b \in {0, 1}
  BY <1>1
<1>5. w \in Nat /\ 2 * w <= n + 1
  BY <1>1, <1>3
<1> HIDE DEF w
<1>6. /\ g \in Nat /\ 2 * g <= l[0] /\ r \in Nat /\ 510 * r <= l[0] /\ u \in Nat /\ 2 * u <= w
      /\ l[0] <= 2 * g + 1
  BY <1>2, <1>5
<1>7. /\ l[1] > 0
      /\ IF t = 0 THEN l[0] = 2 * w ELSE g + 2 * t <= w
      /\ l[2] <= 2 * t /\ l[3] <= t + 2 + r /\ l[4] <= u
  BY <1>1, SectionsAre DEF Feasible, w
<1>8. /\ v[0] = a + q + b + 8 /\ v[1] = q + x + 8 /\ v[2] = h + e + 8
      /\ v[3] = q + x + 8 /\ v[4] = q + x + 8
  <2>1. /\ savelen(0, 1) = a + 1 * q + b + 8 /\ savelen(1, 1) = q + 1 * x + 8
        /\ savelen(2, 1) = h + 1 * e + 8
        /\ savelen(3, 1) = q + 1 * x + 8 /\ savelen(4, 1) = q + 1 * x + 8
    BY DEF savelen, MYREST_LEN, n
  <2> QED
    BY <2>1, <1>4, SectionsAre
<1>9. 2 * outlen >= 5 * n + 180
  BY DEF HasRoom, n
<1> HIDE DEF v, h, q, e, x, t, g, r, u, a, b
<1>10. /\ pbuf(0, 1) = 52 /\ pbuf(1, 1) = 52 + v[0] /\ pbuf(2, 1) = 52 + v[0] + v[1]
       /\ pbuf(3, 1) = 52 + v[0] + v[1] + v[2] /\ pbuf(4, 1) = 52 + v[0] + v[1] + v[2] + v[3]
  <2>1. \A s : pbuf(s, 1) = 52 + FirstLens(v, s)
    BY DEF pbuf, HeadLen, v
  <2>2. v[0] \in Nat /\ v[1] \in Nat /\ v[2] \in Nat /\ v[3] \in Nat /\ v[4] \in Nat
    BY <1>4, <1>8
  <2> QED
    BY <2>1, <2>2 DEF FirstLens
<1>11. t \in Nat /\ l[1] = t + 1
  BY <1>2, <1>7 DEF t
<1>12. l[0] <= n + 1 /\ 4 * t <= n + 1 /\ 4 * l[4] <= n + 1
  BY <1>1, <1>2, <1>5, <1>6, <1>7, <1>11
<1>13. 52 + l[0] <= outlen /\ 52 + v[0] + l[1] <= outlen /\ 52 + v[0] + v[1] + l[2] <= outlen
  BY <1>1, <1>2, <1>4, <1>7, <1>8, <1>9, <1>11, <1>12
<1>14. 52 + v[0] + v[1] + v[2] + l[3] <= outlen
  BY <1>1, <1>2, <1>4, <1>6, <1>7, <1>8, <1>9, <1>11, <1>12
<1>15. 52 + v[0] + v[1] + v[2] + v[3] + l[4] <= outlen
  BY <1>1, <1>2, <1>4, <1>8, <1>9, <1>12
<1> QED
  BY <1>10, <1>13, <1>14, <1>15, SectionsAre DEF l

-----------------------------------------------------------------------------
(* Steps that leave the packed part alone.                                 *)

LEMMA InitInterface == Init => IfInv
<1> SUFFICES ASSUME Init PROVE IfInv
  OBVIOUS
<1>1. CallInv
  BY DEF Init, CallInv
<1>2. RoomInv
  BY DEF Init, RoomInv
<1>3. BlockInv
  BY DEF Init, BlockInv, LosslessWithRoom
<1>4. PackInv
  BY DEF Init, PackInv
<1> QED
  BY <1>1, <1>2, <1>3, <1>4 DEF IfInv

LEMMA RefuseKeeps == ASSUME IfInv, refuse PROVE IfInv'
<1>1. CallInv'
  BY DEF IfInv, CallInv, refuse, constvars, packvars
<1>2. RoomInv'
  BY DEF IfInv, RoomInv, HasRoom, refuse, constvars
<1>3. BlockInv'
  BY DEF IfInv, BlockInv, LosslessWithRoom, refuse
<1>4. PackInv'
  BY DEF PackInv, refuse
<1> QED
  BY <1>1, <1>2, <1>3, <1>4 DEF IfInv

LEMMA AcceptKeeps == ASSUME IfInv, accept PROVE IfInv'
<1>1. CallInv'
  BY DEF IfInv, CallInv, accept, constvars, packvars, callvars, PackInit, LIMIT_LEN
<1>2. RoomInv'
  BY DEF IfInv, RoomInv, HasRoom, accept, constvars, callvars
<1>3. BlockInv'
  BY DEF IfInv, BlockInv, LosslessWithRoom, accept, callvars
<1>4. PackInv'
  BY DEF PackInv, accept
<1> QED
  BY <1>1, <1>2, <1>3, <1>4 DEF IfInv

\* With room, CheckBuffer does not refuse.
LEMMA CheckKeeps == ASSUME IfInv, check_buffer PROVE IfInv'
<1>1. CallInv'
  BY DEF IfInv, CallInv, check_buffer, constvars, packvars, PackInit
<1>2. RoomInv'
  <2>1. ~HasRoom
    <3>1. HasRoom => outlenEx = outlen /\ outlen >= 1024
      BY DEF IfInv, RoomInv, HasRoom, check_buffer
    <3>2. outlen \in Nat
      BY CallIs DEF IfInv
    <3> QED
      BY <3>1, <3>2 DEF check_buffer
  <2> QED
    BY <2>1 DEF RoomInv, HasRoom, check_buffer, constvars
<1>3. BlockInv'
  BY DEF IfInv, BlockInv, LosslessWithRoom, check_buffer
<1>4. PackInv'
  BY DEF PackInv, check_buffer
<1> QED
  BY <1>1, <1>2, <1>3, <1>4 DEF IfInv

LEMMA NoMemoryKeeps == ASSUME IfInv, no_memory PROVE IfInv'
<1>1. pc' \in {"null", "coded"} /\ (pc' = "coded" => lz' = -100 /\ items' = 0)
      /\ (pc' = "null" => lz' = lz /\ items' = items)
  BY DEF no_memory
<1>2. CallInv'
  BY <1>1 DEF IfInv, CallInv, no_memory, constvars, packvars, PackInit
<1>3. RoomInv'
  BY <1>1 DEF IfInv, RoomInv, HasRoom, no_memory, constvars, SECTION_OVER
<1>4. BlockInv'
  BY <1>1 DEF IfInv, BlockInv, LosslessWithRoom, no_memory
<1>5. PackInv'
  BY <1>1 DEF PackInv
<1> QED
  BY <1>2, <1>3, <1>4, <1>5 DEF IfInv

\* With room, the sections are the larger ones and inside the buffer; the retry
\* is for the smaller ones.
LEMMA EncodeKeeps == ASSUME IfInv, encode_block PROVE IfInv'
<1> DEFINE l == call.len
           f == Islarge
           over == \E s \in Sections : l[s] > savelen(s, f)
<1>1. /\ pc = "block" /\ pc' = "coded" /\ len' = l
      /\ spilled' = (spilled \/ \E s \in Sections : pbuf(s, f) + l[s] > outlen)
      /\ stale' = (pbuf(4, f) + l[4] > (IF call.zeroed THEN outlen ELSE 2 * call.inlen))
      /\ IF over THEN lz' = (IF f = 1 THEN -1 ELSE SECTION_OVER) /\ items' = 0
         ELSE lz' = HeadLen + Total(l) /\ items' = 1
      /\ outlen' = outlen /\ UNCHANGED packvars
      /\ UNCHANGED <<call, outlenEx, flag, ret, got>>
  BY DEF encode_block
<1>2. /\ CallInv /\ call.inlen \in Nat /\ outlen \in Nat /\ l \in [Sections -> Nat]
      /\ call.inlen > 8
  BY <1>1, CallIs DEF IfInv, CallInv
<1>3. CallInv'
  BY <1>1, <1>2 DEF CallInv, packvars, PackInit
<1> HIDE DEF over, l
<1>4. Total(l) \in Nat
  BY <1>2, TotalIs
<1>5. RoomInv'
  <2> SUFFICES ASSUME HasRoom PROVE ~spilled' /\ lz' # SECTION_OVER /\ items' # -1
                                    /\ (call.zeroed => ~stale')
    BY <1>1 DEF RoomInv, HasRoom
  <2>1. f = 1
    <3>1. outlenEx = outlen
      BY <1>1 DEF IfInv, RoomInv
    <3> QED
      BY <1>2, <3>1 DEF HasRoom, Islarge
  <2> HIDE DEF f
  <2>2. \A s \in Sections : pbuf(s, 1) + l[s] <= outlen
    BY <1>2, Layout DEF l
  <2>3. \A s \in Sections : pbuf(s, 1) \in Int /\ l[s] \in Nat
    <3>1. ASSUME NEW s \in Sections PROVE savelen(s, 1) \in Int
      BY <1>2, SectionsAre DEF savelen, MYREST_LEN
    <3>2. [k \in Sections |-> savelen(k, 1)] \in [Sections -> Int]
      BY <3>1
    <3>3. \A v \in [Sections -> Int], s \in Sections : FirstLens(v, s) \in Int
      BY SectionsAre DEF FirstLens
    <3> QED
      BY <1>2, <3>2, <3>3 DEF pbuf, HeadLen
  <2>4. ~(\E s \in Sections : pbuf(s, 1) + l[s] > outlen)
    BY <1>2, <2>2, <2>3
  <2>5. ~spilled'
    BY <1>1, <2>1, <2>4 DEF IfInv, RoomInv
  <2>6. call.zeroed => ~stale'
    BY <1>1, <2>1, <2>4, SectionsAre
  <2>7. lz' # SECTION_OVER /\ items' # -1
    BY <1>1, <1>4, <2>1 DEF SECTION_OVER, HeadLen
  <2> QED
    BY <2>5, <2>6, <2>7
<1>6. BlockInv'
  <2>1. lz' \in Int /\ items' \in -1 .. 2
    BY <1>1, <1>4 DEF HeadLen, SECTION_OVER
  <2>2. lz' < 0 \/ (items' = 1 /\ len' = call'.len /\ lz' = HeadLen + Total(len'))
    BY <1>1 DEF SECTION_OVER, l
  <2>3. Total(len)' = Total(len')
    BY DEF Total
  <2> QED
    BY <1>1, <2>1, <2>2, <2>3 DEF BlockInv, LosslessWithRoom
<1>7. PackInv'
  BY <1>1 DEF PackInv
<1> QED
  BY <1>3, <1>5, <1>6, <1>7 DEF IfInv

LEMMA RetryKeeps == ASSUME IfInv, retry PROVE IfInv'
<1>1. CallInv'
  BY DEF IfInv, CallInv, retry, constvars, packvars, PackInit
<1>2. RoomInv'
  BY DEF IfInv, RoomInv, HasRoom, retry, constvars
<1>3. BlockInv'
  BY DEF IfInv, BlockInv, LosslessWithRoom, retry
<1>4. PackInv'
  BY DEF PackInv, retry
<1> QED
  BY <1>1, <1>2, <1>3, <1>4 DEF IfInv

LEMMA StoreKeeps == ASSUME IfInv, store PROVE IfInv'
<1>1. CallInv'
  BY DEF IfInv, CallInv, store, constvars
<1>2. RoomInv'
  <2>1. HasRoom => ~(HeadLen + call.inlen > outlen)
    BY CallIs DEF IfInv, HasRoom, HeadLen
  <2>2. HasRoom => ~spilled /\ items # -1
    BY DEF IfInv, RoomInv, store
  <2>3. HasRoom => ~spilled' /\ ~stale'
    BY <2>1, <2>2 DEF store
  <2> QED
    BY <2>3 DEF RoomInv, HasRoom, store, constvars
<1>3. BlockInv'
  BY DEF IfInv, BlockInv, LosslessWithRoom, Stored, store
<1>4. PackInv'
  BY DEF PackInv, store
<1> QED
  BY <1>1, <1>2, <1>3, <1>4 DEF IfInv

LEMMA ReturnKeeps == ASSUME IfInv, return_lz16 PROVE IfInv'
<1>1. CallInv'
  BY DEF IfInv, CallInv, return_lz16, Smaller, constvars
<1>2. RoomInv'
  BY DEF IfInv, RoomInv, HasRoom, return_lz16, Smaller, constvars
<1>3. BlockInv'
  <2>1. call.inlen \in Nat /\ lz \in Int
    BY CallIs DEF IfInv, BlockInv
  <2> QED
    BY <2>1 DEF IfInv, BlockInv, LosslessWithRoom, Stored, return_lz16, Smaller, constvars, Total
<1>4. PackInv'
  BY DEF PackInv, return_lz16
<1> QED
  BY <1>1, <1>2, <1>3, <1>4 DEF IfInv

-----------------------------------------------------------------------------
(* Packing.                                                                *)

LEMMA PackKeeps == ASSUME IfInv, pack PROVE IfInv'
<1>1. /\ pc = "coded" /\ pc' = "encode" /\ lz >= 0 /\ lz < call.inlen
      /\ len' = len /\ outlen' = outlen /\ UNCHANGED packvars /\ UNCHANGED callvars
  BY DEF pack, Smaller, constvars
<1>2. CallInv /\ PackInit /\ len \in [Sections -> Nat] /\ lz \in Int /\ call.inlen \in Nat
  BY <1>1, CallIs DEF IfInv, CallInv, BlockInv
<1>3. CallInv'
  BY <1>1, <1>2 DEF CallInv, callvars
<1>4. RoomInv'
  BY <1>1 DEF IfInv, RoomInv, HasRoom, callvars
<1>5. BlockInv'
  BY <1>1, <1>2 DEF IfInv, BlockInv, LosslessWithRoom, Stored, callvars, Total
<1>6. PackInv'
  <2>1. /\ i = 4 /\ checkok = TRUE /\ sum = 0 /\ sum_notrans = 0 /\ index = 0
        /\ ranslen = [s \in Sections |-> 0]
    BY <1>2 DEF PackInit, MYSECTION_COUNT
  <2>2. ranslen \in [Sections -> Nat] /\ size \in [Sections -> Nat] /\ size' = size
    BY <1>1, <1>2, <2>1, SizeIs DEF size, packvars
  <2>3. Behind(size, 5) = 0
    BY <2>2, BehindEnds
  <2>4. Packed(5)
    <3>1. \A s \in Sections : ~(s >= 5) /\ ranslen[s] = 0 /\ ~(5 <= s)
      BY <2>1, SectionsAre
    <3> QED
      BY <2>1, <2>2, <2>3, <3>1 DEF Packed
  <2>5. Packed(5)'
    BY <1>1, <2>2, <2>4 DEF Packed, packvars
  <2>6. i' = 4 /\ i' + 1 = 5 /\ checkok' = TRUE /\ sum' = 0 /\ index' = 0
    BY <1>1, <2>1 DEF packvars
  <2> QED
    BY <1>1, <2>5, <2>6 DEF PackInv
<1> QED
  BY <1>3, <1>4, <1>5, <1>6 DEF IfInv

\* What a step of mylz16torans64 leaves alone.
LEMMA EncodeFrame ==
  ASSUME IfInv, pc = "encode", pc' \in {"encode", "fault"}, UNCHANGED callvars,
         UNCHANGED constvars
  PROVE  CallInv' /\ RoomInv' /\ BlockInv'
<1>1. CallInv'
  BY DEF IfInv, CallInv, callvars, constvars
<1>2. RoomInv'
  BY DEF IfInv, RoomInv, HasRoom, callvars, constvars
<1>3. BlockInv'
  BY DEF IfInv, BlockInv, LosslessWithRoom, Stored, callvars, constvars, Total
<1> QED
  BY <1>1, <1>2, <1>3

\* The coded sections are the first ones.
LEMMA IndexMoves ==
  ASSUME NEW a \in Nat, NEW b \in Nat, NEW k \in Nat, NEW n \in Int, NEW s \in Int,
         k # 0 => b = a + 1, k = 0 => b = 0 /\ a = 0
  PROVE  /\ s = n => (k # 0 <=> n <= s /\ s < b + n)
         /\ s # n => (n + 1 <= s /\ s < a + (n + 1) <=> n <= s /\ s < b + n)
OBVIOUS

\* One more section in front of the packed ones.
LEMMA OneMore ==
  ASSUME CallInv, i \in Sections, Packed(i + 1), len' = len, outlen' = outlen,
         sum' \in Nat, sum_notrans' \in Nat, checkok' \in BOOLEAN,
         i' = i - 1, NEW k \in Nat, ranslen' = [ranslen EXCEPT ![i] = k],
         k # 0 => IsEncodedLength(k, len[i]),
         sum' + sum_notrans' = sum + sum_notrans + (IF k # 0 THEN k ELSE len[i]),
         \A x, s, j : PlacedAt(blocks, x, s, j) => PlacedAt(blocks', x, s, j),
         PlacedAt(blocks', outlen - (sum' + sum_notrans'), i, k),
         NEW b \in Nat, index' = b, k # 0 => b = index + 1, k = 0 => b = 0 /\ index = 0
  PROVE  Packed(i + 1)'
<1> DEFINE n == i
           z == IF k # 0 THEN k ELSE len[i]
<1>1. /\ n \in 0 .. 4 /\ n + 1 \in 0 .. 5 /\ n \in Int
      /\ len \in [Sections -> Nat] /\ ranslen \in [Sections -> Nat] /\ outlen \in Nat
  BY SectionsAre, CallIs DEF CallInv, Packed
<1>2. size \in [Sections -> Nat] /\ ranslen' \in [Sections -> Nat] /\ size' \in [Sections -> Nat]
  BY <1>1, SizeIs DEF size
<1>3. size'[n] = z /\ \A s \in Sections : s # n => size'[s] = size[s] /\ ranslen'[s] = ranslen[s]
  BY <1>1 DEF size
<1>4. \A m \in 0 .. 5 : m >= n + 1 => Behind(size', m) = Behind(size, m)
  <2>1. ASSUME NEW m \in 0 .. 5, m >= n + 1 PROVE Behind(size', m) = Behind(size, m)
    <3>1. \A s \in Sections : s >= m => size'[s] = size[s]
      BY <1>1, <1>3, <2>1, SectionsAre
    <3> QED
      BY <1>2, <3>1, BehindSame
  <2> QED
    BY <2>1
<1>5. Behind(size', n) = z + Behind(size, n + 1)
  <2>1. Behind(size', n) = size'[n] + Behind(size', n + 1)
    BY <1>2, BehindStep
  <2>2. n + 1 >= n + 1
    BY <1>1
  <2> QED
    BY <1>1, <1>3, <1>4, <2>1, <2>2
<1>6. sum + sum_notrans = Behind(size, n + 1) /\ sum \in Nat /\ sum_notrans \in Nat
  BY DEF Packed
<1>7. sum' + sum_notrans' = Behind(size', n)
  BY <1>1, <1>5, <1>6
<1>8. ASSUME NEW s \in Sections
      PROVE  /\ ranslen'[s] # 0 => IsEncodedLength(ranslen'[s], len[s])
             /\ s >= n => PlacedAt(blocks', outlen - Behind(size', s), s, ranslen'[s])
             /\ ranslen'[s] # 0 <=> n <= s /\ s < b + n
  <2>3. index \in Nat /\ b \in Nat /\ k \in Nat /\ n \in Int /\ s \in Int
    BY <1>1, SectionsAre DEF Packed
  <2>1. CASE s = n
    <3>1. ranslen'[s] = k /\ len[s] \in Nat
      BY <1>1, <2>1
    <3>2. PlacedAt(blocks', outlen - Behind(size', s), s, ranslen'[s])
      BY <1>7, <2>1, <3>1
    <3>3. k # 0 <=> n <= s /\ s < b + n
      BY <2>1, <2>3, IndexMoves
    <3> QED
      BY <1>1, <2>1, <3>1, <3>2, <3>3
  <2>2. CASE s # n
    <3>1. /\ ranslen'[s] = ranslen[s]
          /\ ranslen[s] # 0 => IsEncodedLength(ranslen[s], len[s])
          /\ s >= n + 1 => PlacedAt(blocks, outlen - Behind(size, s), s, ranslen[s])
          /\ ranslen[s] # 0 <=> n + 1 <= s /\ s < index + (n + 1)
      BY <1>3, <2>2 DEF Packed
    <3>2. s \in 0 .. 5 /\ (s >= n => s >= n + 1) /\ (n <= s <=> n + 1 <= s)
      BY <1>1, <2>2, SectionsAre
    <3>3. s >= n => Behind(size', s) = Behind(size, s)
      BY <1>4, <3>2
    <3>4. n + 1 <= s /\ s < index + (n + 1) <=> n <= s /\ s < b + n
      BY <2>2, <2>3, IndexMoves
    <3> QED
      BY <3>1, <3>2, <3>3, <3>4
  <2> QED
    BY <2>1, <2>2
<1>9. i' + 1 = n
  BY <1>1
<1>10. ASSUME NEW s \in Sections
       PROVE  /\ ranslen'[s] # 0 => IsEncodedLength(ranslen'[s], len'[s])
              /\ s >= n => PlacedAt(blocks', outlen' - Behind(size', s), s, ranslen'[s])
              /\ ranslen'[s] # 0 <=> n <= s /\ s < index' + n
  BY <1>8
<1> HIDE DEF n
<1> QED
  BY <1>2, <1>7, <1>9, <1>10 DEF Packed

\* Before a section is packed.
LEMMA NextSection ==
  ASSUME IfInv, pc = "encode", i >= 0
  PROVE  /\ i \in Sections /\ i - 1 \in -1 .. 4 /\ CallInv /\ Packed(i + 1)
         /\ len \in [Sections -> Nat] /\ len[i] \in Nat /\ len = call.len /\ call \in Calls
         /\ ranslen \in [Sections -> Nat] /\ ranslen[i] = 0
         /\ sum \in Nat /\ sum_notrans \in Nat /\ index \in Nat /\ checkok \in BOOLEAN
         /\ outlen \in Nat
         /\ IF checkok THEN sum = 0 /\ index = 0 ELSE sum > 0 /\ Total(len) >= 4096
<1>1. i \in Sections /\ i - 1 \in -1 .. 4 /\ i \in Int /\ Packed(i + 1)
  BY SectionsAre DEF IfInv, PackInv
<1>2. ranslen[i] = 0
  <2>1. ranslen[i] # 0 <=> i + 1 <= i /\ i < index + (i + 1)
    BY <1>1 DEF Packed
  <2> QED
    BY <1>1, <2>1
<1> QED
  BY <1>1, <1>2, CallIs DEF IfInv, CallInv, BlockInv, PackInv, Packed

LEMMA CopyKeeps == ASSUME IfInv, copy_section, UNCHANGED callvars PROVE IfInv'
<1>1. /\ pc = "encode" /\ pc' = "encode" /\ i >= 0 /\ Copied(len[i]) /\ i' = i - 1
      /\ sum_notrans' = sum_notrans + len[i]
      /\ blocks' = blocks \cup {[at |-> outlen - sum_notrans', sec |-> i, coded |-> FALSE]}
      /\ UNCHANGED constvars /\ UNCHANGED <<checkok, sum, index, ranslen>>
  BY DEF copy_section
<1>2. CallInv' /\ RoomInv' /\ BlockInv'
  BY <1>1, EncodeFrame
<1>3. /\ i \in Sections /\ i - 1 \in -1 .. 4 /\ CallInv /\ Packed(i + 1) /\ len[i] \in Nat
      /\ ranslen \in [Sections -> Nat] /\ ranslen[i] = 0 /\ sum_notrans \in Nat
      /\ checkok = TRUE /\ sum = 0 /\ index = 0 /\ outlen \in Nat
  BY <1>1, NextSection DEF Copied
<1>4. Packed(i + 1)'
  <2>1. ranslen' = [ranslen EXCEPT ![i] = 0]
    BY <1>1, <1>3
  <2>2. /\ sum' \in Nat /\ sum_notrans' \in Nat /\ sum' = 0 /\ index' = 0
        /\ checkok' \in BOOLEAN /\ len' = len /\ outlen' = outlen
    BY <1>1, <1>3 DEF constvars
  <2>3. sum' + sum_notrans' = sum + sum_notrans + (IF 0 # 0 THEN 0 ELSE len[i])
    BY <1>1, <1>3
  <2>4. \A x, s, j : PlacedAt(blocks, x, s, j) => PlacedAt(blocks', x, s, j)
    BY <1>1 DEF PlacedAt
  <2>5. PlacedAt(blocks', outlen - (sum' + sum_notrans'), i, 0)
    <3> DEFINE x == outlen - (sum_notrans + len[i])
    <3>1. outlen - (sum' + sum_notrans') = x
      <4>1. sum' + sum_notrans' = 0 + (sum_notrans + len[i])
        BY <1>1, <1>3
      <4>2. 0 + (sum_notrans + len[i]) = sum_notrans + len[i]
        BY <1>3
      <4> QED
        BY <4>1, <4>2
    <3>2. [at |-> x, sec |-> i, coded |-> FALSE] \in blocks'
      BY <1>1
    <3>3. [at |-> x, sec |-> i, coded |-> 0 # 0] = [at |-> x, sec |-> i, coded |-> FALSE]
      OBVIOUS
    <3> HIDE DEF x
    <3> QED
      BY <3>1, <3>2, <3>3 DEF PlacedAt
  <2>6. 0 \in Nat /\ i' = i - 1
    BY <1>1
  <2> QED
    BY <1>3, <2>1, <2>2, <2>3, <2>4, <2>5, <2>6, OneMore
<1>5. PackInv'
  BY <1>1, <1>3, <1>4 DEF PackInv
<1> QED
  BY <1>2, <1>5 DEF IfInv

LEMMA CodeKeeps == ASSUME IfInv, code_section, UNCHANGED callvars PROVE IfInv'
<1>1. /\ pc = "encode" /\ pc' = "encode" /\ i >= 0 /\ ~Copied(len[i]) /\ i' = i - 1
      /\ len[i] > 0 /\ checkok' = FALSE /\ index' = index + 1
      /\ UNCHANGED constvars /\ sum_notrans' = sum_notrans
  BY DEF code_section
<1>2. PICK n \in EncodedLengths(len[i]) :
        /\ ranslen' = [ranslen EXCEPT ![i] = n]
        /\ sum' = sum + n
        /\ blocks' = blocks \cup {[at |-> Start - n, sec |-> i, coded |-> TRUE]}
  BY DEF code_section
<1>3. CallInv' /\ RoomInv' /\ BlockInv'
  BY <1>1, EncodeFrame
<1>4. /\ i \in Sections /\ i - 1 \in -1 .. 4 /\ CallInv /\ Packed(i + 1)
      /\ len \in [Sections -> Nat] /\ len[i] \in Nat /\ len = call.len /\ call \in Calls
      /\ sum \in Nat /\ sum_notrans \in Nat /\ index \in Nat /\ outlen \in Nat
      /\ IF checkok THEN sum = 0 /\ index = 0 ELSE sum > 0 /\ Total(len) >= 4096
  BY <1>1, NextSection
<1>5. n \in Nat /\ IsEncodedLength(n, len[i]) /\ n > 0
  <2>1. n \in Nat /\ IsEncodedLength(n, len[i])
    BY <1>2, <1>4, CallsAssumption
  <2> QED
    BY <1>4, <2>1, CodedBound
<1>6. Packed(i + 1)'
  <2>1. /\ sum' \in Nat /\ sum_notrans' \in Nat /\ checkok' \in BOOLEAN
        /\ len' = len /\ outlen' = outlen /\ n # 0
    <3>1. n # 0 /\ sum + n \in Nat
      BY <1>4, <1>5
    <3>2. len' = len /\ outlen' = outlen
      BY <1>1 DEF constvars
    <3> QED
      BY <1>1, <1>2, <1>4, <3>1, <3>2
  <2>2. sum' + sum_notrans' = sum + sum_notrans + (IF n # 0 THEN n ELSE len[i])
    BY <1>1, <1>2, <1>4, <1>5
  <2>3. \A x, s, j : PlacedAt(blocks, x, s, j) => PlacedAt(blocks', x, s, j)
    BY <1>2 DEF PlacedAt
  <2>4. PlacedAt(blocks', outlen - (sum' + sum_notrans'), i, n)
    <3>1. outlen - (sum' + sum_notrans') = Start - n
      BY <1>1, <1>2, <1>4, <1>5 DEF Start
    <3>2. [at |-> Start - n, sec |-> i, coded |-> TRUE] \in blocks'
      BY <1>2
    <3>3. [at |-> Start - n, sec |-> i, coded |-> n # 0]
            = [at |-> Start - n, sec |-> i, coded |-> TRUE]
      BY <2>1
    <3> QED
      BY <3>1, <3>2, <3>3 DEF PlacedAt
  <2> DEFINE b == index + 1
  <2>5. b \in Nat /\ index' = b /\ b = index + 1 /\ i' = i - 1
    BY <1>1, <1>4
  <2> HIDE DEF b
  <2>6. n \in Nat /\ ranslen' = [ranslen EXCEPT ![i] = n] /\ IsEncodedLength(n, len[i])
    BY <1>2, <1>5
  <2>7. CallInv /\ i \in Sections /\ Packed(i + 1)
    BY <1>4
  <2> QED
    BY <2>1, <2>2, <2>3, <2>4, <2>5, <2>6, <2>7, OneMore
<1>7. Total(len) >= 4096 /\ sum + n > 0
  <2>1. checkok => len[i] >= 4096
    BY <1>1, <1>4 DEF Copied
  <2>2. Total(len) >= len[i] /\ Total(len) \in Nat
    BY <1>4, TotalIs, LensAre, SectionsAre
  <2> QED
    BY <1>4, <1>5, <2>1, <2>2
<1>8. PackInv'
  <2>1. Total(len)' = Total(len)
    BY <1>1 DEF constvars, Total
  <2> QED
    BY <1>1, <1>2, <1>4, <1>6, <1>7, <2>1 DEF PackInv
<1> QED
  BY <1>3, <1>8 DEF IfInv

LEMMA EmptyKeeps == ASSUME IfInv, code_empty_section, UNCHANGED callvars PROVE IfInv'
<1>1. CallInv' /\ RoomInv' /\ BlockInv'
  BY EncodeFrame DEF code_empty_section
<1>2. PackInv'
  BY DEF PackInv, code_empty_section
<1> QED
  BY <1>1, <1>2 DEF IfInv

LEMMA NothingKeeps == ASSUME IfInv, pack_nothing PROVE IfInv'
<1>1. CallInv'
  BY DEF IfInv, CallInv, pack_nothing, return_uncoded, constvars
<1>2. RoomInv'
  BY DEF IfInv, RoomInv, HasRoom, pack_nothing, return_uncoded, constvars
<1>3. BlockInv'
  BY DEF IfInv, BlockInv, LosslessWithRoom, Stored, pack_nothing, return_uncoded, constvars, Total
<1>4. PackInv'
  BY DEF PackInv, pack_nothing, return_uncoded
<1> QED
  BY <1>1, <1>2, <1>3, <1>4 DEF IfInv

LEMMA HeadsKeeps == ASSUME IfInv, pack_heads PROVE IfInv'
<1>1. /\ pc = "encode" /\ pc' = "decode" /\ i < 0 /\ sum # 0 /\ i' = 0 /\ pransbuf' = Start
      /\ polz16buf' = HeadLen /\ items' = 2 /\ UNCHANGED constvars
      /\ UNCHANGED <<checkok, sum, sum_notrans, index, ranslen, blocks>>
      /\ UNCHANGED <<call, outlenEx, flag, lz, spilled, stale, got>>
  BY DEF pack_heads, write_heads
<1>2. len' = len /\ outlen' = outlen
  BY <1>1 DEF constvars
<1>3. CallInv'
  BY <1>1, <1>2 DEF IfInv, CallInv
<1>4. RoomInv'
  BY <1>1, <1>2 DEF IfInv, RoomInv, HasRoom
<1>5. BlockInv'
  BY <1>1, <1>2 DEF IfInv, BlockInv, LosslessWithRoom, Stored
<1>6. PackInv'
  <2>1. /\ i = -1 /\ Packed(0) /\ ~checkok /\ len \in [Sections -> Nat]
        /\ ranslen \in [Sections -> Nat] /\ outlen \in Nat /\ sum \in Nat /\ sum_notrans \in Nat
    <3>1. i \in -1 .. 4 /\ Packed(i + 1) /\ (checkok => sum = 0)
      BY <1>1 DEF IfInv, PackInv
    <3>2. i = -1 /\ i + 1 = 0
      BY <1>1, <3>1
    <3>3. Packed(0)
      BY <3>1, <3>2
    <3>4. ~checkok
      BY <1>1, <3>1
    <3> QED
      BY <3>2, <3>3, <3>4, CallIs DEF IfInv, CallInv, Packed
  <2>2. Start >= 3 * HeadLen
    BY <1>1, <2>1, PackRoom DEF IfInv
  <2>3. Start = outlen - (sum + sum_notrans) /\ sum + sum_notrans = Behind(size, 0)
    BY <2>1 DEF Start, Packed
  <2>4. 2 * HeadLen + sum + sum_notrans <= outlen
    BY <2>1, <2>2, <2>3 DEF HeadLen
  <2>5. FirstLens(len, 0) = 0
    BY <2>1, FirstStep, SectionsAre
  <2>6. size' = size
    BY <1>1, <1>2 DEF size
  <2>7. Packed(0)'
    BY <1>1, <1>2, <2>1, <2>6 DEF Packed
  <2>8. pransbuf' = outlen - Behind(size, 0) /\ polz16buf' = HeadLen + FirstLens(len, 0)
    BY <1>1, <2>3, <2>5 DEF HeadLen
  <2>9. 0 \in 0 .. 5 /\ FirstLens(len, i)' = FirstLens(len, 0) /\ Behind(size, i)' = Behind(size, 0)
    BY <1>1, <1>2, <2>6 DEF FirstLens, Behind
  <2> QED
    BY <1>1, <1>2, <2>4, <2>7, <2>8, <2>9 DEF PackInv
<1> QED
  BY <1>3, <1>4, <1>5, <1>6 DEF IfInv

-----------------------------------------------------------------------------
(* The decoder.                                                            *)

LEMMA UnpackKeeps == ASSUME IfInv, unpack_section PROVE IfInv'
<1>1. /\ pc = "decode" /\ pc' = "decode" /\ i < 5 /\ i' = i + 1
      /\ pransbuf' = pransbuf + (IF index > i THEN ranslen[i] ELSE len[i])
      /\ polz16buf' = polz16buf + len[i] /\ UNCHANGED constvars
      /\ UNCHANGED <<checkok, sum, sum_notrans, index, ranslen, blocks>> /\ UNCHANGED callvars
  BY DEF unpack_section, decode_section, MYSECTION_COUNT
<1>2. len' = len /\ outlen' = outlen
  BY <1>1 DEF constvars
<1>3. CallInv'
  BY <1>1, <1>2 DEF IfInv, CallInv, callvars
<1>4. RoomInv'
  BY <1>1, <1>2 DEF IfInv, RoomInv, HasRoom, callvars
<1>5. BlockInv'
  BY <1>1, <1>2 DEF IfInv, BlockInv, LosslessWithRoom, Stored, callvars
<1>6. PackInv'
  <2>1. /\ i \in 0 .. 5 /\ Packed(0) /\ pransbuf = outlen - Behind(size, i)
        /\ polz16buf = HeadLen + FirstLens(len, i)
        /\ 2 * HeadLen + sum + sum_notrans <= outlen
    BY <1>1 DEF IfInv, PackInv
  <2>2. i \in Sections /\ i + 1 \in 0 .. 5
    BY <1>1, <2>1, SectionsAre
  <2>3. /\ len \in [Sections -> Nat] /\ ranslen \in [Sections -> Nat] /\ outlen \in Nat
        /\ index \in Nat
    BY <2>1, CallIs DEF IfInv, CallInv, Packed
  <2>4. size \in [Sections -> Nat] /\ size' = size
    BY <1>1, <1>2, <2>3, SizeIs DEF size
  <2>5. (IF index > i THEN ranslen[i] ELSE len[i]) = size[i]
    <3>1. ranslen[i] # 0 <=> 0 <= i /\ i < index + 0
      BY <2>1, <2>2 DEF Packed
    <3>2. ranslen[i] # 0 <=> index > i
      BY <2>1, <2>3, <3>1
    <3> QED
      BY <2>2, <3>2 DEF size
  <2>6. pransbuf' = outlen - Behind(size, i + 1)
    <3>1. Behind(size, i) = size[i] + Behind(size, i + 1)
      BY <2>2, <2>4, BehindStep
    <3>2. Behind(size, i + 1) \in Nat /\ size[i] \in Nat
      BY <2>2, <2>4, BehindEnds
    <3>3. outlen - (size[i] + Behind(size, i + 1)) + size[i] = outlen - Behind(size, i + 1)
      BY <2>3, <3>2
    <3> QED
      BY <1>1, <2>1, <2>5, <3>1, <3>3
  <2>7. polz16buf' = HeadLen + FirstLens(len, i + 1)
    <3>1. FirstLens(len, i + 1) = FirstLens(len, i) + len[i] /\ FirstLens(len, i) \in Nat
      BY <2>2, <2>3, FirstStep
    <3>2. len[i] \in Nat
      BY <2>2, <2>3
    <3>3. HeadLen + FirstLens(len, i) + len[i] = HeadLen + (FirstLens(len, i) + len[i])
      BY <3>1, <3>2 DEF HeadLen
    <3> QED
      BY <1>1, <2>1, <3>1, <3>3
  <2>8. /\ FirstLens(len, i)' = FirstLens(len, i + 1) /\ Behind(size, i)' = Behind(size, i + 1)
        /\ (2 * HeadLen + sum + sum_notrans <= outlen)'
    BY <1>1, <1>2, <2>1, <2>4 DEF FirstLens, Behind
  <2>9. Packed(0)'
    BY <1>1, <1>2, <2>1, <2>4 DEF Packed
  <2> QED
    BY <1>1, <1>2, <2>2, <2>6, <2>7, <2>8, <2>9 DEF PackInv, HeadLen
<1> QED
  BY <1>3, <1>4, <1>5, <1>6 DEF IfInv

\* mylz16Decode has the whole block before it, and a head that says which it is.
LEMMA DecodeKeeps == ASSUME IfInv, mylz16Decode PROVE IfInv'
<1> DEFINE kept == IF call.keep = "buffer" THEN outlen ELSE ret
<1>1. /\ pc \in {"returned", "lz16", "decode"} /\ pc' = "done" /\ got' \in Outcomes(kept)
      /\ UNCHANGED constvars /\ UNCHANGED packvars
      /\ UNCHANGED <<call, outlenEx, flag, lz, items, spilled, stale, ret>>
  BY DEF mylz16Decode
<1>2. len' = len /\ outlen' = outlen
  BY <1>1 DEF constvars
<1>3. CallInv'
  BY <1>1, <1>2 DEF IfInv, CallInv
<1>4. RoomInv'
  BY <1>1, <1>2 DEF IfInv, RoomInv, HasRoom
<1>5. ASSUME HasRoom, call.zeroed, call.keep = "buffer" \/ items < 2 PROVE got' = "input"
  <2>1. ~spilled /\ ~stale
    BY <1>5 DEF IfInv, RoomInv
  <2>2. /\ call.inlen \in Nat /\ outlen \in Nat /\ len \in [Sections -> Nat] /\ lz \in Int
        /\ outlen >= 2 * call.inlen /\ call.inlen > 8 /\ 2 * outlen >= 5 * call.inlen + 180
        /\ call.keep \in {"buffer", "returned"}
    BY <1>1, <1>5, CallIs DEF IfInv, CallInv, BlockInv, HasRoom
  <2>3. Total(len) \in Nat
    BY <2>2, TotalIs
  <2>4. CASE items = 0
    <3>1. Stored /\ (pc = "returned" => ret = HeadLen + call.inlen) /\ pc = "returned"
      BY <1>1, <2>4 DEF IfInv, BlockInv
    <3>2. BlockBytes = HeadLen + call.inlen
      BY <2>4 DEF BlockBytes
    <3>3. ~(BlockBytes > kept)
      BY <2>2, <3>1, <3>2 DEF HeadLen
    <3>4. Outcomes(kept) = {"input"}
      BY <2>1, <2>4, <3>1, <3>3 DEF Outcomes, Stored
    <3> QED
      BY <1>1, <3>4
  <2>5. CASE items = 1
    <3>1. ~Stored /\ ret = lz /\ lz = HeadLen + Total(len)
      BY <1>1, <2>5 DEF IfInv, BlockInv
    <3>2. BlockBytes = HeadLen + Total(len)
      BY <2>5 DEF BlockBytes
    <3>3. ~(BlockBytes > kept)
      <4>1. lz < call.inlen /\ lz <= outlen /\ lz <= lz
        BY <2>2, <3>1 DEF Stored
      <4>2. kept \in {outlen, lz}
        BY <3>1
      <4>3. kept \in Int /\ lz <= kept
        BY <2>2, <4>1, <4>2
      <4>4. BlockBytes = lz
        BY <3>1, <3>2
      <4> HIDE DEF kept
      <4> QED
        BY <2>2, <4>3, <4>4
    <3>4. Outcomes(kept) = {"input"}
      BY <2>1, <2>5, <3>1, <3>3 DEF Outcomes, Stored
    <3> QED
      BY <1>1, <3>4
  <2>6. CASE items = 2
    <3>1. pc = "decode" /\ ~Stored /\ kept = outlen
      BY <1>1, <1>5, <2>6 DEF IfInv, BlockInv
    <3>2. BlockBytes = 2 * HeadLen + sum + sum_notrans
      BY <2>6 DEF BlockBytes
    <3>3. 2 * HeadLen + sum + sum_notrans <= outlen /\ sum \in Nat /\ sum_notrans \in Nat
      BY <3>1 DEF IfInv, PackInv, Packed
    <3>4. ~(BlockBytes > kept)
      <4>1. BlockBytes \in Nat /\ BlockBytes <= outlen
        BY <3>2, <3>3 DEF HeadLen
      <4>2. ~(BlockBytes > outlen)
        BY <2>2, <4>1
      <4> HIDE DEF kept
      <4> QED
        BY <3>1, <4>2
    <3>5. Outcomes(kept) = {"input"}
      BY <2>1, <2>6, <3>1, <3>4 DEF Outcomes, Stored
    <3> QED
      BY <1>1, <3>5
  <2>7. items \in 0 .. 2
    BY <1>1 DEF IfInv, BlockInv
  <2> QED
    BY <2>4, <2>5, <2>6, <2>7
<1>6. BlockInv'
  <2>1. LosslessWithRoom'
    BY <1>1, <1>2, <1>5 DEF LosslessWithRoom, HasRoom
  <2> QED
    BY <1>1, <2>1 DEF IfInv, BlockInv
<1>7. PackInv'
  BY <1>1 DEF PackInv
<1> QED
  BY <1>3, <1>4, <1>6, <1>7 DEF IfInv

LEMMA StutterKeeps == ASSUME IfInv, UNCHANGED vars PROVE IfInv'
<1>1. CallInv'
  BY DEF IfInv, CallInv, PackInit, vars, constvars, packvars, callvars
<1>2. RoomInv'
  BY DEF IfInv, RoomInv, HasRoom, vars, constvars, callvars
<1>3. BlockInv'
  BY DEF IfInv, BlockInv, LosslessWithRoom, HasRoom, Stored, Total, vars, constvars, callvars
<1>4. PackInv'
  <2>1. /\ len' = len /\ outlen' = outlen /\ ranslen' = ranslen /\ size' = size /\ pc' = pc /\ i' = i
        /\ sum' = sum /\ sum_notrans' = sum_notrans /\ index' = index /\ checkok' = checkok
        /\ blocks' = blocks /\ pransbuf' = pransbuf /\ polz16buf' = polz16buf
    BY DEF vars, constvars, packvars, size
  <2>2. (\A n : Packed(n) => Packed(n)') /\ (Packed(i + 1) => Packed(i + 1)')
    BY <2>1 DEF Packed
  <2>3. /\ FirstLens(len, i)' = FirstLens(len, i) /\ Behind(size, i)' = Behind(size, i)
        /\ Total(len)' = Total(len)
    BY <2>1 DEF FirstLens, Behind, Total
  <2> QED
    BY <2>1, <2>2, <2>3 DEF IfInv, PackInv
<1> QED
  BY <1>1, <1>2, <1>3, <1>4 DEF IfInv

-----------------------------------------------------------------------------
(* The theorems.                                                           *)

\* The frame of mylz16Encode, the packed sections and the decoder's position.
THEOREM InterfaceInvariant == Spec => []IfInv
<1>1. Init => IfInv
  BY InitInterface
<1>2. IfInv /\ [Next]_vars => IfInv'
  BY RefuseKeeps, AcceptKeeps, CheckKeeps, NoMemoryKeeps, EncodeKeeps, RetryKeeps, StoreKeeps,
     ReturnKeeps, PackKeeps, CopyKeeps, CodeKeeps, EmptyKeeps, NothingKeeps, HeadsKeeps,
     UnpackKeeps, DecodeKeeps, StutterKeeps
     DEF Next, pack_section
<1> QED
  BY <1>1, <1>2, PTL DEF Spec

\* EncoderInBuffer: with 2.5 * inlen + 90 bytes, and 1024 at least, nothing is stored
\* behind the caller's buffer, whatever the input is.
THEOREM StaysInBuffer == Spec => []EncoderInBuffer
<1>1. IfInv => EncoderInBuffer
  BY DEF IfInv, RoomInv, EncoderInBuffer
<1> QED
  BY <1>1, InterfaceInvariant, PTL

\* LosslessWithRoom: where mylz16Encode returns, mylz16Decode restores the input from what
\* it leaves in a clear buffer with that much room.
THEOREM RestoresInput == Spec => []LosslessWithRoom
<1>1. IfInv => LosslessWithRoom
  BY DEF IfInv, BlockInv
<1> QED
  BY <1>1, InterfaceInvariant, PTL

\* NothingOverwritten: mylz16torans64, packing towards the sections it reads from,
\* reaches none of them, however long the coded sections become.
THEOREM PackingIsSafe == Spec => []NothingOverwritten
<1>1. ASSUME IfInv, pc = "encode" PROVE NothingOverwritten
  <2>1. /\ Start >= HeadLen + FirstLens(len, i + 1)
        /\ ~checkok => Start >= 3 * HeadLen
    BY <1>1, PackRoom DEF IfInv
  <2>2. checkok => sum = 0
    BY <1>1 DEF IfInv, PackInv
  <2>3. outlen \in Nat /\ sum \in Nat /\ sum_notrans \in Nat
    BY <1>1, CallIs DEF IfInv, PackInv, Packed
  <2>4. ~checkok => Start - 2 * HeadLen >= HeadLen
    BY <2>1, <2>3 DEF Start, HeadLen
  <2> QED
    BY <2>1, <2>2, <2>4 DEF NothingOverwritten
<1>2. IfInv => NothingOverwritten
  BY <1>1 DEF NothingOverwritten
<1> QED
  BY <1>2, InterfaceInvariant, PTL

\* SectionsFound: myrans64tolz16 finds every section where mylz16torans64 put it, and
\* restores it at its old place.
THEOREM FindsSections == Spec => []SectionsFound
<1>1. ASSUME IfInv, pc = "decode" PROVE SectionsFound
  <2>1. /\ i \in 0 .. 5 /\ Packed(0) /\ pransbuf = outlen - Behind(size, i)
        /\ polz16buf = HeadLen + FirstLens(len, i)
    BY <1>1 DEF IfInv, PackInv
  <2>2. /\ len \in [Sections -> Nat] /\ ranslen \in [Sections -> Nat] /\ outlen \in Nat
        /\ index \in Nat
    BY <1>1, <2>1, CallIs DEF IfInv, CallInv, Packed
  <2>3. ASSUME i < 5 PROVE [at |-> pransbuf, sec |-> i, coded |-> index > i] \in blocks
    <3>1. i \in Sections /\ i >= 0
      BY <2>1, <2>3, SectionsAre
    <3>2. /\ PlacedAt(blocks, outlen - Behind(size, i), i, ranslen[i])
          /\ ranslen[i] # 0 <=> 0 <= i /\ i < index + 0
      BY <2>1, <3>1 DEF Packed
    <3>3. ranslen[i] # 0 <=> index > i
      BY <2>1, <2>2, <3>2
    <3>4. (ranslen[i] # 0) = (index > i)
      BY <3>3
    <3>5. [at |-> pransbuf, sec |-> i, coded |-> ranslen[i] # 0] \in blocks
      BY <2>1, <3>2 DEF PlacedAt
    <3> QED
      BY <3>4, <3>5
  <2>4. i = 5 => pransbuf = outlen
    <3>1. Behind(size, 5) = 0
      BY <2>2, SizeIs, BehindEnds
    <3> QED
      BY <2>1, <2>2, <3>1
  <2> QED
    BY <2>1, <2>3, <2>4 DEF SectionsFound, MYSECTION_COUNT
<1>2. IfInv => SectionsFound
  BY <1>1 DEF SectionsFound
<1> QED
  BY <1>2, InterfaceInvariant, PTL
=============================================================================
