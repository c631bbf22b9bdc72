----------------------------- MODULE Lz16Proofs -----------------------------
(***************************************************************************)
(* TablesBehind, InsideBuffers and BlockLossless for every input of more   *)
(* than 8 bytes, every level, every hash and every size of the hash table: *)
(* the tokens and literals written so far tell the input up to pi (Told),  *)
(* and the decoder, wherever it stands among them, has restored the words  *)
(* that the tokens behind it tell (Decoding).  That a token is read back   *)
(* as it was written is taken from TokenProofs; how the three ways to copy *)
(* a match restore it is proved here.                                      *)
(***************************************************************************)
EXTENDS Lz16, TokenProofs, WellFoundedInduction

-----------------------------------------------------------------------------
(* Smallest and largest numbers.                                           *)

\* Induction, in a form without an operator as a parameter.
LEMMA Least ==
  ASSUME NEW S, S \subseteq Nat, S # {}
  PROVE  \E x \in S : \A y \in S : x <= y
<1> DEFINE R == OpToRel(<, Nat)
<1>1. IsWellFoundedOn(R, Nat)
  BY NatLessThanWellFounded
<1>2. \A x, y \in Nat : y < x => <<y, x>> \in R
  BY DEF OpToRel
<1> HIDE DEF R
<1>3. PICK x \in S : \A y \in S : ~ (<<y, x>> \in R)
  BY <1>1, WFMin
<1>4. \A y \in S : ~ (y < x)
  BY <1>2, <1>3
<1> QED BY <1>4

LEMMA MaxIs ==
  ASSUME NEW S, S \subseteq Nat, S # {}, NEW b \in Nat, \A x \in S : x <= b
  PROVE  Max(S) \in S /\ \A y \in S : y <= Max(S)
<1> DEFINE D == {d \in Nat : \E x \in S : d = b - x}
<1>1. D \subseteq Nat /\ D # {}
  <2>1. PICK x \in S : TRUE
    OBVIOUS
  <2>2. b - x \in Nat
    BY <2>1
  <2>3. b - x \in D
    BY <2>1, <2>2
  <2> QED BY <2>3
<1>2. PICK d \in D : \A e \in D : d <= e
  BY <1>1, Least
<1>3. PICK x \in S : d = b - x
  BY <1>2
<1>4. ASSUME NEW y \in S PROVE x >= y
  <2>1. b - y \in D
    OBVIOUS
  <2>2. b - x <= b - y
    BY <1>2, <1>3, <2>1
  <2> QED BY <2>2
<1>5. \E m \in S : \A y \in S : m >= y
  BY <1>4
<1>6. Max(S) \in S /\ \A y \in S : Max(S) >= y
  BY <1>5, Zenon DEF Max
<1> QED BY <1>6

LEMMA MaxOfTwo ==
  ASSUME NEW a \in Nat, NEW b \in Nat
  PROVE  Max({a, b}) \in Nat /\ (Max({a, b}) = a \/ Max({a, b}) = b)
<1>1. {a, b} \subseteq Nat /\ {a, b} # {} /\ a + b \in Nat /\ \A x \in {a, b} : x <= a + b
  OBVIOUS
<1>2. Max({a, b}) \in {a, b}
  BY <1>1, MaxIs
<1> QED BY <1>2

-----------------------------------------------------------------------------
(* The search.                                                             *)

LEMMA InputIs ==
  ASSUME in \in Inputs
  PROVE  /\ in.inlen \in Nat /\ in.inlen > 8
         /\ in.word \in Seq(Nat) /\ Len(in.word) = NWords
         /\ NWords \in Nat /\ NWords >= 5 /\ 2 * NWords <= in.inlen + 1 /\ in.inlen <= 2 * NWords
         /\ pinEnd \in Int /\ 2 * (pinEnd + 8) <= in.inlen /\ pinEnd + 8 <= NWords
<1>1. /\ in.inlen \in Nat /\ in.inlen > 8
      /\ in.word \in Seq(Nat) /\ Len(in.word) = (in.inlen + 1) \div 2
  BY Lz16Assumption
<1> DEFINE x == in.inlen
<1>2. x \in Nat /\ x > 8
  BY <1>1
<1>3. NWords = (x + 1) \div 2 /\ pinEnd = x \div 2 - 8
  BY DEF NWords, pinEnd, LIMIT_LEN
<1> HIDE DEF x
<1>4. /\ NWords \in Nat /\ NWords >= 5 /\ 2 * NWords <= x + 1 /\ x <= 2 * NWords
      /\ pinEnd \in Int /\ 2 * (pinEnd + 8) <= x /\ pinEnd + 8 <= NWords
  <2>1. (x + 1) \div 2 \in Nat /\ 2 * ((x + 1) \div 2) <= x + 1 /\ x <= 2 * ((x + 1) \div 2)
    BY <1>2
  <2>2. x \div 2 \in Nat /\ 2 * (x \div 2) <= x
    BY <1>2
  <2> QED BY <1>2, <1>3, <2>1, <2>2
<1>5. Len(in.word) = NWords
  BY <1>1 DEF NWords
<1> QED BY <1>1, <1>4, <1>5 DEF x

\* Two words that differ, or the end of the search.
Stop(p, m, k) ==
  QuadEnd(p, k) >= pinEnd \/ \E j \in 0 .. 3 : In(QuadEnd(p, k - 1) + j) # In(QuadEnd(m, k - 1) + j)

\* The first four words at which CharEQcountmacro stops.
LEMMA LastQuadIs ==
  ASSUME in \in Inputs, NEW p \in Nat, NEW m \in Nat
  PROVE  /\ LastQuad(p, m) \in 1 .. NWords
         /\ \A i \in 1 .. LastQuad(p, m) - 1 :
              /\ QuadEnd(p, i) < pinEnd
              /\ \A j \in 0 .. 3 : In(QuadEnd(p, i - 1) + j) = In(QuadEnd(m, i - 1) + j)
<1>1. NWords \in Nat /\ NWords >= 5 /\ pinEnd \in Int /\ pinEnd + 8 <= NWords
  BY InputIs
<1> DEFINE S == {k \in 1 .. NWords : Stop(p, m, k)}
<1>2. NWords \in S
  <2>1. QuadEnd(p, NWords) >= pinEnd
    BY <1>1 DEF QuadEnd
  <2> QED BY <1>1, <2>1 DEF Stop
<1>3. S \subseteq Nat /\ S # {}
  BY <1>1, <1>2
<1>4. PICK k \in S : \A y \in S : k <= y
  BY <1>3, Least
<1>5. ASSUME NEW i \in 1 .. k - 1
      PROVE  /\ QuadEnd(p, i) < pinEnd
             /\ \A j \in 0 .. 3 : In(QuadEnd(p, i - 1) + j) = In(QuadEnd(m, i - 1) + j)
  <2>1. i \in 1 .. NWords /\ ~ (k <= i)
    BY <1>1, <1>4
  <2>2. ~ Stop(p, m, i)
    BY <1>4, <2>1
  <2>3. ~ (QuadEnd(p, i) >= pinEnd)
    BY <2>2, Zenon DEF Stop
  <2>4. \A j \in 0 .. 3 : In(QuadEnd(p, i - 1) + j) = In(QuadEnd(m, i - 1) + j)
    BY <2>2, Zenon DEF Stop
  <2>5. QuadEnd(p, i) \in Int
    BY <2>1 DEF QuadEnd
  <2>6. QuadEnd(p, i) < pinEnd
    BY <1>1, <2>3, <2>5
  <2> QED BY <2>4, <2>6
<1>6. \E x \in 1 .. NWords :
        /\ QuadEnd(p, x) >= pinEnd \/ \E j \in 0 .. 3 : In(QuadEnd(p, x - 1) + j) # In(QuadEnd(m, x - 1) + j)
        /\ \A i \in 1 .. x - 1 : /\ QuadEnd(p, i) < pinEnd
                                 /\ \A j \in 0 .. 3 : In(QuadEnd(p, i - 1) + j) = In(QuadEnd(m, i - 1) + j)
  <2>1. k \in 1 .. NWords /\ Stop(p, m, k)
    BY <1>4
  <2> QED BY <1>5, <2>1, Zenon DEF Stop
<1> QED BY <1>6, Zenon DEF LastQuad

\* Where CharEQcountmacro stops reading.
LEMMA QuadEndIs ==
  ASSUME in \in Inputs, NEW p \in Nat, NEW m \in Nat, p < pinEnd
  PROVE  /\ QuadEnd(p, LastQuad(p, m)) \in Nat
         /\ QuadEnd(p, LastQuad(p, m)) <= pinEnd + 5
<1> DEFINE k == LastQuad(p, m)
<1>1. k \in Nat /\ k >= 1 /\ pinEnd \in Int
  <2>1. k \in 1 .. NWords
    BY LastQuadIs, Zenon
  <2>2. NWords \in Nat /\ pinEnd \in Int
    BY InputIs
  <2> QED BY <2>1, <2>2
<1>2. k > 1 => QuadEnd(p, k - 1) < pinEnd
  <2> SUFFICES ASSUME k > 1 PROVE QuadEnd(p, k - 1) < pinEnd
    OBVIOUS
  <2>1. k - 1 \in 1 .. k - 1
    BY <1>1
  <2> QED BY <2>1, LastQuadIs
<1> HIDE DEF k
<1>3. QuadEnd(p, k) = p + 2 + 4 * k /\ QuadEnd(p, k - 1) = p + 2 + 4 * (k - 1)
  BY DEF QuadEnd
<1>4. QuadEnd(p, k) \in Nat /\ QuadEnd(p, k) <= pinEnd + 5
  BY <1>1, <1>2, <1>3
<1> QED BY <1>4 DEF k

\* CharEQcountmacro counts equal words, and no more than the decoder has room for.
LEMMA CountIs ==
  ASSUME in \in Inputs, NEW p \in Nat, NEW m \in Nat
  PROVE  /\ CharEQcount(p, m) \in Nat
         /\ \A j \in 0 .. CharEQcount(p, m) - 1 : In(p + 2 + j) = In(m + 2 + j)
         /\ p < pinEnd => p + 2 + CharEQcount(p, m) <= pinEnd + 4
<1> DEFINE k == LastQuad(p, m)
           N == {n \in 0 .. 3 : \A j \in 0 .. n - 1 : In(QuadEnd(p, k - 1) + j) = In(QuadEnd(m, k - 1) + j)}
           x == Max(N)
<1>1. CharEQcount(p, m) = 4 * (k - 1) + x
  BY DEF CharEQcount
<1>2. k \in Nat /\ k >= 1 /\ pinEnd \in Int
  <2> HIDE DEF N, x
  <2>1. k \in 1 .. NWords
    BY LastQuadIs, Zenon
  <2>2. NWords \in Nat /\ pinEnd \in Int
    BY InputIs
  <2> HIDE DEF k
  <2> QED BY <2>1, <2>2
<1>3. \A i \in 1 .. k - 1 : \A j \in 0 .. 3 : In(QuadEnd(p, i - 1) + j) = In(QuadEnd(m, i - 1) + j)
  BY LastQuadIs
<1>4. p < pinEnd => QuadEnd(p, k) <= pinEnd + 5
  BY QuadEndIs
<1>5. p < pinEnd => QuadEnd(p, k - 1) <= pinEnd + 1
  BY <1>2, <1>4 DEF QuadEnd
<1> HIDE DEF k
<1>6. N \subseteq Nat /\ 0 \in N /\ \A n \in N : n <= 3
  OBVIOUS
<1>7. x \in N
  <2>1. N # {} /\ 3 \in Nat
    BY <1>6
  <2> HIDE DEF N
  <2> QED BY <1>6, <2>1, MaxIs
<1>8. x \in 0 .. 3 /\ \A j \in 0 .. x - 1 : In(QuadEnd(p, k - 1) + j) = In(QuadEnd(m, k - 1) + j)
  <2> HIDE DEF x
  <2> QED BY <1>7
<1> HIDE DEF x, N
<1>9. ASSUME NEW j \in 0 .. (4 * (k - 1) + x) - 1 PROVE In(p + 2 + j) = In(m + 2 + j)
  <2>1. CASE j < 4 * (k - 1)
    <3> DEFINE i == j \div 4 + 1
               r == j % 4
    <3>1. i \in 1 .. k - 1 /\ r \in 0 .. 3 /\ j = 4 * (i - 1) + r
      BY <1>2, <2>1
    <3> HIDE DEF i, r
    <3>2. In(QuadEnd(p, i - 1) + r) = In(QuadEnd(m, i - 1) + r)
      BY <1>3, <3>1, Zenon
    <3>3. QuadEnd(p, i - 1) + r = p + 2 + j /\ QuadEnd(m, i - 1) + r = m + 2 + j
      BY <3>1 DEF QuadEnd
    <3> QED BY <3>2, <3>3
  <2>2. CASE j >= 4 * (k - 1)
    <3> DEFINE r == j - 4 * (k - 1)
    <3>1. r \in 0 .. x - 1 /\ j = 4 * (k - 1) + r
      BY <1>2, <1>8, <2>2
    <3> HIDE DEF r
    <3>2. In(QuadEnd(p, k - 1) + r) = In(QuadEnd(m, k - 1) + r)
      BY <1>8, <3>1, Zenon
    <3>3. QuadEnd(p, k - 1) + r = p + 2 + j /\ QuadEnd(m, k - 1) + r = m + 2 + j
      BY <1>2, <1>8, <3>1 DEF QuadEnd
    <3> QED BY <3>2, <3>3
  <2> QED BY <1>2, <2>1, <2>2
<1>10. 4 * (k - 1) + x \in Nat
  BY <1>2, <1>8
<1>11. p < pinEnd => p + 2 + (4 * (k - 1) + x) <= pinEnd + 4
  BY <1>2, <1>5, <1>8 DEF QuadEnd
<1> DEFINE c == 4 * (k - 1) + x
<1>12. /\ c \in Nat /\ \A j \in 0 .. c - 1 : In(p + 2 + j) = In(m + 2 + j)
       /\ p < pinEnd => p + 2 + c <= pinEnd + 4
  BY <1>9, <1>10, <1>11, Zenon
<1>13. CharEQcount(p, m) = c
  BY <1>1
<1> HIDE DEF c
<1> QED BY <1>12, <1>13

LEMMA LookupIs ==
  ASSUME NEW table, NEW b \in Nat, b >= 1,
         \A k \in DOMAIN table : table[k] \in Nat /\ table[k] < b, NEW x
  PROVE  Lookup(table, x) \in Nat /\ Lookup(table, x) < b
BY DEF Lookup

\* What is hashed is what was in the table, or one of the new positions.
LEMMA HashedIs ==
  ASSUME NEW table, NEW b \in Nat, NEW c \in Nat, b <= c,
         \A k \in DOMAIN table : table[k] \in Nat /\ table[k] < b,
         NEW P, P \subseteq Nat, \A p \in P : p < c,
         NEW k \in DOMAIN Hashed(table, P)
  PROVE  Hashed(table, P)[k] \in Nat /\ Hashed(table, P)[k] < c
<1> DEFINE Q == {p \in P : Key(p) = k}
<1>1. /\ k \in DOMAIN table \cup {Key(p) : p \in P}
      /\ Hashed(table, P)[k] = IF Q = {} THEN table[k] ELSE Max(Q)
  BY Zenon DEF Hashed
<1>2. CASE Q = {}
  <2>1. k \in DOMAIN table
    BY <1>1, <1>2, Zenon
  <2>2. table[k] \in Nat /\ table[k] < b
    BY <2>1
  <2> QED BY <1>1, <1>2, <2>2
<1>3. CASE Q # {}
  <2>1. Q \subseteq Nat /\ \A p \in Q : p <= c
    <3>1. \A p \in P : p \in Nat /\ p <= c
      OBVIOUS
    <3> QED BY <3>1, Zenon
  <2>2. Max(Q) \in Q
    BY <1>3, <2>1, MaxIs
  <2>3. Max(Q) \in P
    BY <2>2, Zenon
  <2>4. Max(Q) \in Nat /\ Max(Q) < c
    BY <2>3
  <2> HIDE DEF Q
  <2> QED BY <1>1, <1>3, <2>4
<1> QED BY <1>2, <1>3

-----------------------------------------------------------------------------
(* What the tokens tell the decoder.                                       *)

\* The words at p are the l literals behind the first n of ch.
Literals(w, ch, p, n, l) == \A j \in 0 .. l - 1 : At(ch, n + j) = At(w, p + j)

\* The words at p are those dis words before.
Repeats(w, p, dis, len) == \A j \in 0 .. len - 1 : At(w, p + j) = At(w, (p + j) - dis)

\* With n literals used and p words restored, the token t goes on to m literals and q
\* words of the input w, which has lim bytes.
Tells(w, lim, ch, t, p, n, q, m) ==
  /\ m = n + t.charlen /\ m <= Len(ch)
  /\ q = p + t.charlen + (t.matchlen + 2) /\ 2 * q + 8 <= lim
  /\ Literals(w, ch, p, n, t.charlen)
  /\ 1 <= t.matchdistance /\ t.matchdistance <= p + t.charlen
  /\ Repeats(w, p + t.charlen, t.matchdistance, t.matchlen + 2)

\* The tokens ts tell the first words of the input: P[k] words and N[k] literals are
\* behind the first k of them.
Story(w, lim, ch, ts, P, N) ==
  /\ ts \in Seq(TokenSet)
  /\ P \in [0 .. Len(ts) -> Nat] /\ P[0] = 0
  /\ N \in [0 .. Len(ts) -> Nat] /\ N[0] = 0
  /\ \A k \in 1 .. Len(ts) : Tells(w, lim, ch, ts[k], P[k - 1], N[k - 1], P[k], N[k])

\* ch is what dh starts with.
Starts(ch, dh) == Len(ch) <= Len(dh) /\ \A k \in 0 .. Len(ch) - 1 : At(dh, k) = At(ch, k)

LEMMA TokenParts ==
  ASSUME NEW t \in TokenSet
  PROVE  t.charlen \in Nat /\ t.matchlen \in Nat /\ t.matchdistance \in Nat
BY DEF TokenSet, Distances

LEMMA AtIs ==
  ASSUME NEW s \in Seq(Nat), NEW k \in Nat
  PROVE  At(s, k) \in Nat
BY DEF At

LEMMA StartsConcat ==
  ASSUME NEW ch \in Seq(Nat), NEW x \in Seq(Nat)
  PROVE  /\ ch \o x \in Seq(Nat) /\ Len(ch \o x) = Len(ch) + Len(x)
         /\ Starts(ch, ch \o x)
         /\ \A j \in 0 .. Len(x) - 1 : At(ch \o x, Len(ch) + j) = At(x, j)
<1> DEFINE u == ch \o x
<1>1. /\ u \in Seq(Nat) /\ Len(u) = Len(ch) + Len(x)
      /\ \A k \in 1 .. Len(ch) + Len(x) : u[k] = IF k <= Len(ch) THEN ch[k] ELSE x[k - Len(ch)]
  BY ConcatProperties, Zenon
<1>2. Len(ch) \in Nat /\ Len(x) \in Nat
  OBVIOUS
<1> HIDE DEF u
<1>3. Starts(ch, u)
  BY <1>1, <1>2 DEF Starts, At
<1>4. \A j \in 0 .. Len(x) - 1 : At(u, Len(ch) + j) = At(x, j)
  <2> TAKE j \in 0 .. Len(x) - 1
  <2>1. /\ Len(ch) + j + 1 \in 1 .. Len(ch) + Len(x) /\ ~ (Len(ch) + j + 1 <= Len(ch))
        /\ (Len(ch) + j + 1) - Len(ch) = j + 1 /\ j < Len(x) /\ Len(ch) + j < Len(u)
    BY <1>1, <1>2
  <2> QED BY <1>1, <2>1 DEF At
<1> QED BY <1>1, <1>3, <1>4 DEF u

LEMMA LiteralsStay ==
  ASSUME NEW w, NEW ch, NEW dh, Len(ch) \in Nat, Starts(ch, dh), NEW p, NEW n \in Nat, NEW l \in Nat,
         n + l <= Len(ch), Literals(w, ch, p, n, l)
  PROVE  Literals(w, dh, p, n, l)
<1> SUFFICES ASSUME NEW j \in 0 .. l - 1 PROVE At(dh, n + j) = At(w, p + j)
  BY DEF Literals
<1>1. n + j \in 0 .. Len(ch) - 1
  OBVIOUS
<1>2. At(ch, n + j) = At(w, p + j)
  BY Zenon DEF Literals
<1>3. At(dh, n + j) = At(ch, n + j)
  BY <1>1, Zenon DEF Starts
<1> QED BY <1>2, <1>3

\* The story does not change when there are more literals.
LEMMA StoryStays ==
  ASSUME NEW w, NEW lim, NEW ch \in Seq(Nat), NEW dh \in Seq(Nat), Starts(ch, dh),
         NEW ts, NEW P, NEW N, Story(w, lim, ch, ts, P, N)
  PROVE  Story(w, lim, dh, ts, P, N)
<1>1. /\ ts \in Seq(TokenSet)
      /\ P \in [0 .. Len(ts) -> Nat] /\ P[0] = 0
      /\ N \in [0 .. Len(ts) -> Nat] /\ N[0] = 0
  BY DEF Story
<1>2. ASSUME NEW k \in 1 .. Len(ts)
      PROVE  Tells(w, lim, dh, ts[k], P[k - 1], N[k - 1], P[k], N[k])
  <2> DEFINE t == ts[k]
             p == P[k - 1]
             n == N[k - 1]
             q == P[k]
             m == N[k]
  <2>1. Tells(w, lim, ch, t, p, n, q, m)
    BY Zenon DEF Story
  <2>2. t \in TokenSet /\ k - 1 \in 0 .. Len(ts)
    BY <1>1
  <2>3. n \in Nat /\ t.charlen \in Nat
    BY <1>1, <2>2, TokenParts
  <2> HIDE DEF t, p, n, q, m
  <2>4. Len(ch) \in Nat /\ Len(dh) \in Nat /\ Len(ch) <= Len(dh)
    BY DEF Starts
  <2>5. n + t.charlen <= Len(ch) /\ Literals(w, ch, p, n, t.charlen) /\ m = n + t.charlen
    BY <2>1, Zenon DEF Tells
  <2>6. Literals(w, dh, p, n, t.charlen)
    BY <2>3, <2>4, <2>5, LiteralsStay
  <2>7. m <= Len(dh)
    BY <2>3, <2>4, <2>5
  <2>8. Tells(w, lim, dh, t, p, n, q, m)
    BY <2>1, <2>6, <2>7, Zenon DEF Tells
  <2> QED BY <2>8 DEF t, p, n, q, m
<1> QED BY <1>1, <1>2, Zenon DEF Story

LEMMA LiteralsGrow ==
  ASSUME NEW w, NEW ch, NEW dh, Len(ch) \in Nat, Starts(ch, dh), NEW p \in Nat,
         NEW n \in Nat, NEW l \in Nat, NEW x \in Nat, Len(ch) = n + l, Literals(w, ch, p, n, l),
         \A j \in 0 .. x - 1 : At(dh, Len(ch) + j) = At(w, p + l + j)
  PROVE  Literals(w, dh, p, n, l + x)
<1>1. Literals(w, dh, p, n, l)
  BY LiteralsStay
<1> SUFFICES ASSUME NEW j \in 0 .. (l + x) - 1 PROVE At(dh, n + j) = At(w, p + j)
  BY DEF Literals
<1>2. CASE j < l
  <2>1. j \in 0 .. l - 1
    BY <1>2
  <2> QED BY <1>1, <2>1, Zenon DEF Literals
<1>3. CASE j >= l
  <2>1. j - l \in 0 .. x - 1 /\ Len(ch) + (j - l) = n + j /\ p + l + (j - l) = p + j
    BY <1>3
  <2>2. At(dh, Len(ch) + (j - l)) = At(w, p + l + (j - l))
    BY <2>1, Zenon
  <2> QED BY <2>1, <2>2
<1> QED BY <1>2, <1>3

LEMMA StoryStarts ==
  ASSUME NEW w, NEW lim, NEW ch
  PROVE  \E P, N : Story(w, lim, ch, <<>>, P, N) /\ P[Len(<<>>)] = 0 /\ N[Len(<<>>)] = 0
<1> DEFINE Z == [k \in 0 .. 0 |-> 0]
<1>1. Z \in [0 .. 0 -> Nat] /\ Z[0] = 0 /\ Len(<<>>) = 0 /\ 1 .. 0 = {} /\ <<>> \in Seq(TokenSet)
  OBVIOUS
<1> HIDE DEF Z
<1>2. Story(w, lim, ch, <<>>, Z, Z)
  BY <1>1 DEF Story
<1>3. Z[Len(<<>>)] = 0
  BY <1>1
<1> QED BY <1>2, <1>3

\* One more token.
LEMMA StoryGrows ==
  ASSUME NEW w, NEW lim, NEW ch, NEW ts, NEW P, NEW N, Story(w, lim, ch, ts, P, N),
         NEW t \in TokenSet, NEW q \in Nat, NEW m \in Nat,
         Tells(w, lim, ch, t, P[Len(ts)], N[Len(ts)], q, m)
  PROVE  \E R, M : /\ Story(w, lim, ch, Append(ts, t), R, M)
                   /\ R[Len(Append(ts, t))] = q /\ M[Len(Append(ts, t))] = m
<1> DEFINE us == Append(ts, t)
           n == Len(ts)
           R == [k \in 0 .. n + 1 |-> IF k = n + 1 THEN q ELSE P[k]]
           M == [k \in 0 .. n + 1 |-> IF k = n + 1 THEN m ELSE N[k]]
<1>0. /\ ts \in Seq(TokenSet)
      /\ P \in [0 .. n -> Nat] /\ P[0] = 0
      /\ N \in [0 .. n -> Nat] /\ N[0] = 0
  BY DEF Story
<1>1. /\ us \in Seq(TokenSet) /\ n \in Nat /\ Len(us) = n + 1
      /\ us[n + 1] = t /\ \A k \in 1 .. n : us[k] = ts[k]
  BY <1>0
<1>2. \A k \in 1 .. n : Tells(w, lim, ch, ts[k], P[k - 1], N[k - 1], P[k], N[k])
  BY Zenon DEF Story
<1>3. Tells(w, lim, ch, t, P[n], N[n], q, m)
  OBVIOUS
<1> HIDE DEF us, n
<1>4. /\ R \in [0 .. n + 1 -> Nat] /\ R[0] = 0 /\ R[n + 1] = q
      /\ \A k \in 0 .. n : R[k] = P[k]
  <2>1. \A k \in 0 .. n + 1 : (IF k = n + 1 THEN q ELSE P[k]) \in Nat
    BY <1>0, <1>1
  <2> QED BY <1>0, <1>1, <2>1
<1>5. /\ M \in [0 .. n + 1 -> Nat] /\ M[0] = 0 /\ M[n + 1] = m
      /\ \A k \in 0 .. n : M[k] = N[k]
  <2>1. \A k \in 0 .. n + 1 : (IF k = n + 1 THEN m ELSE N[k]) \in Nat
    BY <1>0, <1>1
  <2> QED BY <1>0, <1>1, <2>1
<1> HIDE DEF R, M
<1>6. ASSUME NEW k \in 1 .. n + 1 PROVE Tells(w, lim, ch, us[k], R[k - 1], M[k - 1], R[k], M[k])
  <2>1. CASE k = n + 1
    <3>1. k - 1 = n /\ n \in 0 .. n
      BY <1>1, <2>1
    <3>2. us[k] = t /\ R[k - 1] = P[n] /\ M[k - 1] = N[n] /\ R[k] = q /\ M[k] = m
      BY <1>1, <1>4, <1>5, <2>1, <3>1
    <3> QED BY <1>3, <3>2
  <2>2. CASE k # n + 1
    <3>1. k \in 1 .. n /\ k \in 0 .. n /\ k - 1 \in 0 .. n
      BY <1>1, <2>2
    <3>2. us[k] = ts[k] /\ R[k - 1] = P[k - 1] /\ M[k - 1] = N[k - 1] /\ R[k] = P[k] /\ M[k] = N[k]
      BY <1>1, <1>4, <1>5, <3>1
    <3> QED BY <1>2, <3>1, <3>2, Zenon
  <2> QED BY <2>1, <2>2
<1>7. Story(w, lim, ch, us, R, M)
  BY <1>1, <1>4, <1>5, <1>6, Zenon DEF Story
<1>8. R[Len(us)] = q /\ M[Len(us)] = m
  BY <1>1, <1>4, <1>5
<1> QED BY <1>7, <1>8, Zenon DEF us

-----------------------------------------------------------------------------
(* The invariant.                                                          *)

TypeInv ==
  /\ in \in Inputs
  /\ charlen \in Nat /\ pchar \in Seq(Nat) /\ sec \in SectionSet
  /\ read \in Nat /\ read <= 2 * NWords
  /\ written \in Nat /\ written <= in.inlen
  /\ DOMAIN out = 0 .. NWords - 1
  /\ pc \in {"search", "decode", "done"}

\* All that is in a table lies before b.
Before(table, b) == \A k \in DOMAIN table : table[k] \in Nat /\ table[k] < b

\* The tokens written and the literals behind them tell the input up to pi.
Told == \E ts, P, N, Q :
  /\ Story(in.word, in.inlen, pchar, ts, P, N)
  /\ Path(Q, UsesMc, ts, sec) /\ Q[Len(ts)] = EndOf(sec)
  /\ pi = P[Len(ts)] + charlen
  /\ Len(pchar) = N[Len(ts)] + charlen
  /\ Literals(in.word, pchar, P[Len(ts)], N[Len(ts)], charlen)

Searching ==
  /\ pi \in Nat /\ pi >= 1 /\ pi + 4 <= NWords
  /\ read <= in.inlen
  /\ Before(pmyht, pi) /\ Before(pcdll, pi)
  /\ Told
  /\ reader = Unread /\ nchar = 0 /\ po = 0 /\ ret = 0

\* The decoder stands in front of a token, or of the last block.
Decoding ==
  /\ charlen >= 4 /\ ret = 0
  /\ po \in Nat /\ \A j \in 0 .. po - 1 : out[j] = In(j)
  /\ \E ts, P, N, Q : \E k \in 0 .. Len(ts) :
       /\ Story(in.word, in.inlen, pchar, ts, P, N)
       /\ Path(Q, UsesMc, ts, sec) /\ Ends(Q[Len(ts)], sec, charlen)
       /\ NWords = P[Len(ts)] + charlen
       /\ Len(pchar) = N[Len(ts)] + charlen
       /\ Literals(in.word, pchar, P[Len(ts)], N[Len(ts)], charlen)
       /\ reader = Q[k] /\ po = P[k] /\ nchar = N[k]

BlockInv == /\ TypeInv
            /\ pc = "search" => Searching
            /\ pc = "decode" => Decoding
            /\ pc = "done" => BlockLossless

-----------------------------------------------------------------------------
(* The encoder.                                                            *)

LEMMA InIs ==
  ASSUME in \in Inputs, NEW k \in Nat
  PROVE  In(k) \in Nat
BY InputIs, AtIs DEF In

LEMMA AppendIs ==
  ASSUME NEW ch \in Seq(Nat), NEW x \in Nat
  PROVE  /\ Append(ch, x) \in Seq(Nat) /\ Len(Append(ch, x)) = Len(ch) + 1
         /\ Starts(ch, Append(ch, x))
         /\ At(Append(ch, x), Len(ch)) = x
<1> DEFINE u == Append(ch, x)
<1>1. /\ u \in Seq(Nat) /\ Len(u) = Len(ch) + 1 /\ Len(ch) \in Nat
      /\ u[Len(ch) + 1] = x /\ \A k \in 1 .. Len(ch) : u[k] = ch[k]
  OBVIOUS
<1> HIDE DEF u
<1>2. Starts(ch, u) /\ At(u, Len(ch)) = x
  BY <1>1 DEF Starts, At
<1> QED BY <1>1, <1>2 DEF u

LEMMA McIs == UsesMc \in BOOLEAN
BY DEF UsesMc

LEMMA InitBlock == Init => BlockInv
<1> SUFFICES ASSUME Init PROVE BlockInv
  OBVIOUS
<1>1. /\ in \in Inputs /\ pi = 1 /\ charlen = 1 /\ pchar = <<in.word[1]>> /\ sec = EmptySections
      /\ reader = Unread /\ nchar = 0 /\ po = 0 /\ ret = 0 /\ read = 4 /\ written = 0
      /\ pc = "search" /\ pcdll = <<>>
      /\ pmyht = [k \in {Hash(in.word[1], in.word[2]) % size} |-> 0]
      /\ out = [k \in 0 .. NWords - 1 |-> Junk]
  BY DEF Init, NWords
<1>2. /\ in.inlen \in Nat /\ in.inlen > 8 /\ in.word \in Seq(Nat) /\ Len(in.word) = NWords
      /\ NWords \in Nat /\ NWords >= 5
  BY <1>1, InputIs
<1>3. EmptySections \in SectionSet /\ EndOf(EmptySections) = Unread
  BY DEF EmptySections, SectionSet, EndOf, Unread
<1>4. in.word[1] \in Nat /\ At(in.word, 0) = in.word[1]
  BY <1>2 DEF At
<1>5. pchar \in Seq(Nat) /\ Len(pchar) = 1 /\ At(pchar, 0) = At(in.word, 0)
  <2> DEFINE x == in.word[1]
  <2>1. pchar = <<x>> /\ x \in Nat /\ At(in.word, 0) = x
    BY <1>1, <1>4
  <2> HIDE DEF x
  <2> QED BY <2>1 DEF At
<1>6. TypeInv
  <2>1. DOMAIN out = 0 .. NWords - 1
    BY <1>1, Zenon
  <2> QED BY <1>1, <1>2, <1>3, <1>5, <2>1 DEF TypeInv
<1>7. Before(pmyht, pi) /\ Before(pcdll, pi)
  BY <1>1 DEF Before
<1>8. Told
  <2>1. PICK P, N : /\ Story(in.word, in.inlen, pchar, <<>>, P, N)
                    /\ P[Len(<<>>)] = 0 /\ N[Len(<<>>)] = 0
    BY StoryStarts
  <2>2. PICK Q : Path(Q, UsesMc, <<>>, sec) /\ Q[Len(<<>>)] = Unread
    BY PathStarts
  <2>3. pi = 0 + charlen /\ Len(pchar) = 0 + charlen
    BY <1>1, <1>5
  <2>4. Literals(in.word, pchar, 0, 0, charlen)
    BY <1>1, <1>5 DEF Literals
  <2> QED BY <1>1, <1>3, <2>1, <2>2, <2>3, <2>4, Zenon DEF Told
<1>9. Searching
  BY <1>1, <1>2, <1>7, <1>8 DEF Searching
<1> QED BY <1>1, <1>6, <1>9 DEF BlockInv

\* What the actions of the encoder start from.
LEMMA SearchFacts ==
  ASSUME BlockInv, pc = "search", pi < pinEnd
  PROVE  /\ in \in Inputs /\ TypeInv /\ Searching
         /\ pi \in Nat /\ pi >= 1
         /\ First \in Nat /\ First < pi /\ Second \in Nat /\ Second < pi
         /\ pmatch \in Nat /\ pmatch < pi
         /\ Same(pi, First) => Same(pi, pmatch)
<1>1. TypeInv /\ Searching
  BY DEF BlockInv
<1>2. in \in Inputs /\ pi \in Nat /\ pi >= 1 /\ Before(pmyht, pi) /\ Before(pcdll, pi)
  BY <1>1 DEF TypeInv, Searching
<1>3. First \in Nat /\ First < pi
  BY <1>2, LookupIs DEF First, Before
<1>4. Second \in Nat /\ Second < pi
  BY <1>2, LookupIs DEF Second, Before
<1>5. (pmatch = Second /\ Same(pi, Second)) \/ pmatch = First
  BY Zenon DEF pmatch
<1> QED BY <1>1, <1>2, <1>3, <1>4, <1>5

LEMMA ReadEndIs ==
  ASSUME BlockInv, pc = "search", pi < pinEnd
  PROVE  ReadEnd \in Nat /\ ReadEnd <= in.inlen
<1> DEFINE a == 2 * (pi + (IF Deep THEN 9 ELSE 2))
           b == 2 * QuadEnd(pi, LastQuad(pi, First))
           c == 2 * QuadEnd(pi, LastQuad(pi, pmatch))
           S == {read, a, b, c}
<1>1. /\ in \in Inputs /\ pi \in Nat /\ First \in Nat /\ pmatch \in Nat
      /\ read \in Nat /\ read <= in.inlen
  BY SearchFacts DEF TypeInv, Searching
<1>2. in.inlen \in Nat /\ pinEnd \in Int /\ 2 * (pinEnd + 8) <= in.inlen
  BY <1>1, InputIs
<1>3. a \in Nat /\ a <= in.inlen
  BY <1>1, <1>2
<1>4. b \in Nat /\ b <= in.inlen /\ c \in Nat /\ c <= in.inlen
  <2> DEFINE x == QuadEnd(pi, LastQuad(pi, First))
             y == QuadEnd(pi, LastQuad(pi, pmatch))
  <2>1. x \in Nat /\ x <= pinEnd + 5 /\ y \in Nat /\ y <= pinEnd + 5
    BY <1>1, QuadEndIs
  <2> HIDE DEF x, y
  <2>2. 2 * x \in Nat /\ 2 * x <= in.inlen /\ 2 * y \in Nat /\ 2 * y <= in.inlen
    BY <1>2, <2>1
  <2> QED BY <2>2 DEF x, y
<1>5. ReadEnd = Max(S)
  <2>1. {read, a} \cup {2 * QuadEnd(pi, LastQuad(pi, m)) : m \in {First, pmatch}} = S
    OBVIOUS
  <2> QED BY <2>1, Zenon DEF ReadEnd
<1> HIDE DEF a, b, c
<1>6. \A x \in S : x \in Nat /\ x <= in.inlen
  BY <1>1, <1>2, <1>3, <1>4
<1>7. S \subseteq Nat /\ S # {}
  BY <1>6
<1> HIDE DEF S
<1>8. Max(S) \in S
  BY <1>2, <1>6, <1>7, MaxIs
<1> QED BY <1>5, <1>6, <1>8

\* A word becomes a literal.
LEMMA LiteralKeeps ==
  ASSUME BlockInv, pc = "search", pi < pinEnd, literal, in' = in, level' = level
  PROVE  /\ charlen' \in Nat /\ pchar' \in Seq(Nat) /\ sec' \in SectionSet
         /\ pi' \in Nat /\ pi' >= 1 /\ pi' + 4 <= NWords /\ pi' = pi + 1
         /\ Before(pmyht', pi') /\ Told'
<1>1. /\ pchar' = Append(pchar, In(pi)) /\ charlen' = charlen + 1 /\ pi' = pi + 1
      /\ pmyht' = Hashed(pmyht, {pi}) /\ sec' = sec
  BY DEF literal
<1>2. TypeInv /\ Searching /\ in \in Inputs /\ pi \in Nat /\ pi >= 1
  BY SearchFacts
<1>3. charlen \in Nat /\ pchar \in Seq(Nat) /\ sec \in SectionSet
  BY <1>2 DEF TypeInv
<1>4. Before(pmyht, pi) /\ Told
  BY <1>2 DEF Searching
<1>5. NWords \in Nat /\ pinEnd \in Int /\ pinEnd + 8 <= NWords
  BY <1>2, InputIs
<1>6. pi' \in Nat /\ pi' >= 1 /\ pi' + 4 <= NWords /\ charlen' \in Nat
  BY <1>1, <1>2, <1>3, <1>5
<1>7. Before(pmyht', pi')
  <2>1. {pi} \subseteq Nat /\ \A p \in {pi} : p < pi + 1
    BY <1>2
  <2>2. pi + 1 \in Nat /\ pi <= pi + 1
    BY <1>2
  <2>3. \A k \in DOMAIN Hashed(pmyht, {pi}) :
          Hashed(pmyht, {pi})[k] \in Nat /\ Hashed(pmyht, {pi})[k] < pi + 1
    BY <1>2, <1>4, <2>1, <2>2, HashedIs DEF Before
  <2> QED BY <1>1, <2>3, Zenon DEF Before
<1> DEFINE x == In(pi)
<1>8. x \in Nat /\ x = At(in.word, pi)
  BY <1>2, InIs DEF In
<1>9. pchar' = Append(pchar, x)
  BY <1>1
<1> HIDE DEF x
<1>10. /\ pchar' \in Seq(Nat) /\ Len(pchar') = Len(pchar) + 1 /\ Starts(pchar, pchar')
       /\ At(pchar', Len(pchar)) = x
  BY <1>3, <1>8, <1>9, AppendIs
<1>11. Told'
  <2>1. PICK ts, P, N, Q :
          /\ Story(in.word, in.inlen, pchar, ts, P, N)
          /\ Path(Q, UsesMc, ts, sec) /\ Q[Len(ts)] = EndOf(sec)
          /\ pi = P[Len(ts)] + charlen
          /\ Len(pchar) = N[Len(ts)] + charlen
          /\ Literals(in.word, pchar, P[Len(ts)], N[Len(ts)], charlen)
    BY <1>4, Zenon DEF Told
  <2> DEFINE p == P[Len(ts)]
             n == N[Len(ts)]
  <2>2. p \in Nat /\ n \in Nat
    BY <2>1 DEF Story
  <2>3. Story(in.word, in.inlen, pchar', ts, P, N)
    BY <1>3, <1>10, <2>1, StoryStays
  <2>4. pi = p + charlen /\ Len(pchar) = n + charlen /\ Literals(in.word, pchar, p, n, charlen)
    BY <2>1
  <2> HIDE DEF p, n
  <2>5. pi' = p + charlen' /\ Len(pchar') = n + charlen'
    BY <1>1, <1>3, <1>10, <2>2, <2>4
  <2>6. Literals(in.word, pchar', p, n, charlen')
    <3>1. \A j \in 0 .. 1 - 1 : At(pchar', Len(pchar) + j) = At(in.word, p + charlen + j)
      <4> TAKE j \in 0 .. 1 - 1
      <4>1. Len(pchar) + j = Len(pchar) /\ p + charlen + j = pi
        BY <1>3, <2>2, <2>4
      <4> QED BY <1>8, <1>10, <4>1
    <3>2. Literals(in.word, pchar', p, n, charlen + 1)
      <4>1. Len(pchar) \in Nat /\ 1 \in Nat
        BY <1>3
      <4> QED BY <1>3, <1>10, <2>2, <2>4, <3>1, <4>1, LiteralsGrow, Zenon
    <3> QED BY <1>1, <3>2
  <2>7. UsesMc' = UsesMc
    BY DEF UsesMc
  <2> QED BY <1>1, <2>1, <2>3, <2>5, <2>6, <2>7, Zenon DEF Told, p, n
<1> QED BY <1>1, <1>3, <1>6, <1>7, <1>10, <1>11

\* The second table gets the position of the search.
LEMMA SecondKeeps ==
  ASSUME NEW b \in Nat, pi \in Nat, pi < b, Before(pcdll, pi)
  PROVE  Before(pcdllNew, b)
<1>1. \A k \in DOMAIN pcdll : pcdll[k] \in Nat /\ pcdll[k] < b
  BY DEF Before
<1>2. CASE Deep
  <2> DEFINE D == DOMAIN pcdll \cup {ListKey}
             f == [k \in D |-> IF k = ListKey THEN pi ELSE pcdll[k]]
  <2>1. pcdllNew = f
    BY <1>2, Zenon DEF pcdllNew
  <2>2. ASSUME NEW k \in D PROVE f[k] \in Nat /\ f[k] < b
    BY <1>1
  <2>3. DOMAIN f = D
    OBVIOUS
  <2> HIDE DEF D, f
  <2> QED BY <2>1, <2>2, <2>3, Zenon DEF Before
<1>3. CASE ~Deep
  BY <1>1, <1>3 DEF pcdllNew, Before
<1> QED BY <1>2, <1>3

\* The decoder waits.
LEMMA DecoderWaits ==
  ASSUME BlockInv, pc = "search", UNCHANGED <<in, decvars, pc>>,
         charlen' \in Nat, pchar' \in Seq(Nat), sec' \in SectionSet,
         read' \in Nat, read' <= in.inlen,
         pi' \in Nat, pi' >= 1, pi' + 4 <= NWords,
         Before(pmyht', pi'), Before(pcdll', pi'), Told'
  PROVE  BlockInv'
<1>1. TypeInv /\ Searching
  BY DEF BlockInv
<1>2. /\ in' = in /\ reader' = reader /\ nchar' = nchar /\ out' = out /\ po' = po /\ ret' = ret
      /\ written' = written /\ pc' = pc
  BY DEF decvars
<1>3. NWords' = NWords
  BY <1>2 DEF NWords
<1>4. TypeInv'
  <2>1. in \in Inputs
    BY <1>1 DEF TypeInv
  <2>2. read' <= 2 * NWords
    BY <2>1, InputIs
  <2> QED BY <1>1, <1>2, <1>3, <2>2 DEF TypeInv
<1>5. Searching'
  BY <1>1, <1>2, <1>3 DEF Searching
<1> QED BY <1>2, <1>4, <1>5 DEF BlockInv

LEMMA NoMatchKeeps ==
  ASSUME BlockInv, no_match
  PROVE  BlockInv'
<1>1. /\ pc = "search" /\ pi < pinEnd /\ literal /\ read' = Max({read, 2 * (pi + 2)})
      /\ UNCHANGED <<in, decvars, pc>> /\ level' = level /\ in' = in /\ pcdll' = pcdll
  BY DEF no_match
<1>2. TypeInv /\ Searching /\ in \in Inputs /\ pi \in Nat
  BY <1>1, SearchFacts
<1>3. read' \in Nat /\ read' <= in.inlen
  <2>1. read \in Nat /\ read <= in.inlen
    BY <1>2 DEF TypeInv, Searching
  <2>2. pinEnd \in Int /\ 2 * (pinEnd + 8) <= in.inlen /\ in.inlen \in Nat
    BY <1>2, InputIs
  <2>3. 2 * (pi + 2) \in Nat /\ 2 * (pi + 2) <= in.inlen
    BY <1>1, <1>2, <2>2
  <2>4. read' \in Nat /\ (read' = read \/ read' = 2 * (pi + 2))
    BY <1>1, <2>1, <2>3, MaxOfTwo
  <2> QED BY <2>1, <2>3, <2>4
<1>4. /\ charlen' \in Nat /\ pchar' \in Seq(Nat) /\ sec' \in SectionSet
      /\ pi' \in Nat /\ pi' >= 1 /\ pi' + 4 <= NWords /\ pi' = pi + 1
      /\ Before(pmyht', pi') /\ Told'
  BY <1>1, LiteralKeeps
<1>5. Before(pcdll', pi')
  <2>1. Before(pcdll, pi)
    BY <1>2 DEF Searching
  <2> QED BY <1>1, <1>2, <1>4, <2>1 DEF Before
<1> QED BY <1>1, <1>3, <1>4, <1>5, DecoderWaits

LEMMA TooFarKeeps ==
  ASSUME BlockInv, too_far
  PROVE  BlockInv'
<1>1. /\ pc = "search" /\ pi < pinEnd /\ literal /\ read' = ReadEnd
      /\ UNCHANGED <<in, decvars, pc>> /\ level' = level /\ in' = in /\ pcdll' = pcdllNew
  BY DEF too_far
<1>2. TypeInv /\ Searching /\ in \in Inputs /\ pi \in Nat
  BY <1>1, SearchFacts
<1>3. read' \in Nat /\ read' <= in.inlen
  BY <1>1, ReadEndIs
<1>4. /\ charlen' \in Nat /\ pchar' \in Seq(Nat) /\ sec' \in SectionSet
      /\ pi' \in Nat /\ pi' >= 1 /\ pi' + 4 <= NWords /\ pi' = pi + 1
      /\ Before(pmyht', pi') /\ Told'
  BY <1>1, LiteralKeeps
<1>5. Before(pcdll', pi')
  <2>1. Before(pcdll, pi)
    BY <1>2 DEF Searching
  <2>2. pi < pi + 1 /\ pi + 1 \in Nat
    BY <1>2
  <2>3. Before(pcdllNew, pi + 1)
    BY <1>2, <2>1, <2>2, SecondKeeps
  <2> QED BY <1>1, <1>4, <2>3
<1> QED BY <1>1, <1>3, <1>4, <1>5, DecoderWaits

\* The words of a match repeat those before them.
LEMMA MatchRepeats ==
  ASSUME in \in Inputs, NEW p \in Nat, NEW m \in Nat, m < p, Same(p, m)
  PROVE  Repeats(in.word, p, p - m, CharEQcount(p, m) + 2)
<1> DEFINE c == CharEQcount(p, m)
<1>1. c \in Nat /\ \A j \in 0 .. c - 1 : In(p + 2 + j) = In(m + 2 + j)
  BY CountIs, Zenon
<1>2. In(p) = In(m) /\ In(p + 1) = In(m + 1)
  BY DEF Same
<1> HIDE DEF c
<1>3. ASSUME NEW j \in 0 .. (c + 2) - 1 PROVE In(p + j) = In((p + j) - (p - m))
  <2>0. (p + j) - (p - m) = m + j
    OBVIOUS
  <2>1. CASE j = 0
    <3>1. p + j = p /\ m + j = m
      BY <2>1
    <3> QED BY <1>2, <2>0, <3>1
  <2>2. CASE j = 1
    BY <1>2, <2>0, <2>2
  <2>3. CASE j >= 2
    <3>1. j - 2 \in 0 .. c - 1 /\ p + 2 + (j - 2) = p + j /\ m + 2 + (j - 2) = m + j
      BY <1>1, <2>3
    <3>2. In(p + 2 + (j - 2)) = In(m + 2 + (j - 2))
      BY <1>1, <3>1, Zenon
    <3> QED BY <2>0, <3>1, <3>2
  <2> QED BY <2>1, <2>2, <2>3
<1>4. Repeats(in.word, p, p - m, c + 2)
  BY <1>3, Zenon DEF Repeats, In
<1> QED BY <1>4 DEF c

LEMMA MatchHashesBefore ==
  ASSUME pi \in Nat, NEW len \in Nat, len >= 2, NEW dis \in Nat
  PROVE  MatchHashes(len, dis) \subseteq Nat /\ \A p \in MatchHashes(len, dis) : p < pi + len
<1>1. Small(len, dis) \in Nat /\ Small(len, dis) <= len
  BY DEF Small
<1> QED BY <1>1 DEF MatchHashes

LEMMA MatchKeeps ==
  ASSUME BlockInv, match
  PROVE  BlockInv'
<1> DEFINE c == CharEQcount(pi, pmatch)
           d == pi - pmatch
           t == [charlen |-> charlen, matchlen |-> c, matchdistance |-> d]
<1>1. /\ pc = "search" /\ pi < pinEnd /\ Same(pi, First) /\ d < MYMATCHOFFSET_MAX
      /\ charlen' = 0 /\ pchar' = pchar /\ read' = ReadEnd /\ pcdll' = pcdllNew
      /\ UNCHANGED <<in, decvars, pc>> /\ level' = level /\ in' = in
  BY DEF match
<1>2. /\ sec' = WriteToken(UsesMc, sec, t)
      /\ pmyht' = Hashed(pmyht, MatchHashes(c + 2, d))
      /\ pi' = pi + c + 2
  BY DEF match
<1>3. /\ TypeInv /\ Searching /\ in \in Inputs /\ pi \in Nat /\ pi >= 1
      /\ pmatch \in Nat /\ pmatch < pi /\ Same(pi, pmatch)
  BY <1>1, SearchFacts
<1>4. charlen \in Nat /\ pchar \in Seq(Nat) /\ sec \in SectionSet
  BY <1>3 DEF TypeInv
<1>5. Before(pmyht, pi) /\ Before(pcdll, pi) /\ Told
  BY <1>3 DEF Searching
<1>6. /\ NWords \in Nat /\ pinEnd \in Int /\ pinEnd + 8 <= NWords
      /\ in.inlen \in Nat /\ 2 * (pinEnd + 8) <= in.inlen
  BY <1>3, InputIs
<1>7. c \in Nat /\ pi + 2 + c <= pinEnd + 4
  BY <1>1, <1>3, CountIs
<1>8. Repeats(in.word, pi, d, c + 2)
  BY <1>3, MatchRepeats
<1>9. read' \in Nat /\ read' <= in.inlen
  BY <1>1, ReadEndIs
<1>10. d \in Nat /\ 1 <= d /\ d <= pi /\ d \in Distances
  <2>1. MYMATCHOFFSET_MAX \in Nat /\ MYMATCHOFFSET_MAX <= 1048576
    BY Lz16Assumption
  <2> QED BY <1>1, <1>3, <2>1 DEF Distances
<1> HIDE DEF c, d
<1>11. t \in TokenSet /\ t.charlen = charlen /\ t.matchlen = c /\ t.matchdistance = d
  BY <1>4, <1>7, <1>10 DEF TokenSet
<1> HIDE DEF t
<1>12. pi' \in Nat /\ pi' >= 1 /\ pi' + 4 <= NWords /\ pi' = pi + (c + 2) /\ pi < pi'
       /\ 2 * pi' + 8 <= in.inlen
  BY <1>2, <1>3, <1>6, <1>7
<1>13. Before(pmyht', pi')
  <2> DEFINE H == MatchHashes(c + 2, d)
  <2>1. c + 2 \in Nat /\ c + 2 >= 2
    BY <1>7
  <2>2. H \subseteq Nat /\ \A p \in H : p < pi'
    BY <1>3, <1>10, <1>12, <2>1, MatchHashesBefore
  <2>3. pi <= pi'
    BY <1>3, <1>12
  <2>4. pmyht' = Hashed(pmyht, H)
    BY <1>2
  <2> HIDE DEF H
  <2>5. \A k \in DOMAIN Hashed(pmyht, H) : Hashed(pmyht, H)[k] \in Nat /\ Hashed(pmyht, H)[k] < pi'
    BY <1>3, <1>5, <1>12, <2>2, <2>3, HashedIs DEF Before
  <2> QED BY <2>4, <2>5, Zenon DEF Before
<1>14. Before(pcdll', pi')
  <2>1. Before(pcdllNew, pi')
    BY <1>3, <1>5, <1>12, SecondKeeps
  <2> QED BY <1>1, <2>1
<1>15. sec' \in SectionSet
  BY <1>2, <1>4, <1>11, McIs, TokenWritten, Zenon
<1>16. Told'
  <2>1. PICK ts, P, N, Q :
          /\ Story(in.word, in.inlen, pchar, ts, P, N)
          /\ Path(Q, UsesMc, ts, sec) /\ Q[Len(ts)] = EndOf(sec)
          /\ pi = P[Len(ts)] + charlen
          /\ Len(pchar) = N[Len(ts)] + charlen
          /\ Literals(in.word, pchar, P[Len(ts)], N[Len(ts)], charlen)
    BY <1>5, Zenon DEF Told
  <2> DEFINE us == Append(ts, t)
  <2>2. ts \in Seq(TokenSet) /\ P[Len(ts)] \in Nat /\ N[Len(ts)] \in Nat
    BY <2>1 DEF Story
  <2>3. PICK R : /\ Path(R, UsesMc, us, WriteToken(UsesMc, sec, t))
                 /\ R[Len(us)] = EndOf(WriteToken(UsesMc, sec, t))
    BY <1>4, <1>11, <2>1, <2>2, McIs, PathGrows
  <2>4. Path(R, UsesMc', us, sec') /\ R[Len(us)] = EndOf(sec')
    <3>1. UsesMc' = UsesMc
      BY <1>1 DEF UsesMc
    <3> QED BY <1>2, <2>3, <3>1, Zenon
  <2> DEFINE p == P[Len(ts)]
             n == N[Len(ts)]
             m == n + charlen
  <2>5. /\ p \in Nat /\ n \in Nat /\ pi = p + charlen /\ Len(pchar) = m
        /\ Literals(in.word, pchar, p, n, charlen)
    BY <2>1, <2>2
  <2> HIDE DEF p, n
  <2>6. Tells(in.word, in.inlen, pchar, t, p, n, pi', m)
    <3>1. m = n + t.charlen /\ m <= Len(pchar)
      BY <1>4, <1>11, <2>5
    <3>2. pi' = p + t.charlen + (t.matchlen + 2) /\ 2 * pi' + 8 <= in.inlen
      BY <1>11, <1>12, <2>5
    <3>3. 1 <= t.matchdistance /\ t.matchdistance <= p + t.charlen
      BY <1>10, <1>11, <2>5
    <3>4. Repeats(in.word, p + t.charlen, t.matchdistance, t.matchlen + 2)
      BY <1>8, <1>11, <2>5
    <3>5. Literals(in.word, pchar, p, n, t.charlen)
      BY <1>11, <2>5
    <3> QED BY <3>1, <3>2, <3>3, <3>4, <3>5, Zenon DEF Tells
  <2>7. m \in Nat
    BY <1>4, <2>5
  <2>8. PICK A, M : /\ Story(in.word, in.inlen, pchar, us, A, M)
                    /\ A[Len(us)] = pi' /\ M[Len(us)] = m
    <3>1. Tells(in.word, in.inlen, pchar, t, P[Len(ts)], N[Len(ts)], pi', m)
      BY <2>6 DEF p, n
    <3>2. t \in TokenSet /\ pi' \in Nat /\ Story(in.word, in.inlen, pchar, ts, P, N)
      BY <1>11, <1>12, <2>1
    <3> QED BY <2>7, <3>1, <3>2, StoryGrows
  <2>9. pi' = A[Len(us)] + charlen' /\ Len(pchar') = M[Len(us)] + charlen'
    BY <1>1, <1>12, <2>5, <2>7, <2>8
  <2>10. Literals(in'.word, pchar', A[Len(us)], M[Len(us)], charlen')
    BY <1>1 DEF Literals
  <2>11. Story(in'.word, in'.inlen, pchar', us, A, M)
    BY <1>1, <2>8, Zenon
  <2> HIDE DEF us
  <2> QED BY <2>4, <2>9, <2>10, <2>11, Zenon DEF Told
<1> QED
  <2>1. charlen' \in Nat /\ pchar' \in Seq(Nat)
    BY <1>1, <1>4
  <2> QED BY <1>1, <1>9, <1>12, <1>13, <1>14, <1>15, <1>16, <2>1, DecoderWaits

LEMMA LastBlockKeeps ==
  ASSUME BlockInv, last_block
  PROVE  BlockInv'
<1> DEFINE x == SubSeq(in.word, pi + 1, NWords)
<1>1. /\ pc = "search" /\ pc' = "decode" /\ pchar' = pchar \o x
      /\ charlen' = charlen + NWords - pi /\ sec' = WriteLast(sec, charlen')
      /\ in' = in /\ level' = level /\ read' = Max({read, 2 * NWords})
      /\ reader' = reader /\ nchar' = nchar /\ out' = out /\ po' = po /\ ret' = ret /\ written' = written
  BY DEF last_block, decvars
<1>2. TypeInv /\ Searching
  BY <1>1 DEF BlockInv
<1>3. in \in Inputs /\ charlen \in Nat /\ pchar \in Seq(Nat) /\ sec \in SectionSet
  BY <1>2 DEF TypeInv
<1>4. pi \in Nat /\ pi >= 1 /\ pi + 4 <= NWords /\ Told /\ reader = Unread /\ nchar = 0 /\ po = 0 /\ ret = 0
  BY <1>2 DEF Searching
<1>5. NWords \in Nat /\ in.word \in Seq(Nat) /\ Len(in.word) = NWords
  BY <1>3, InputIs
<1>6. charlen' \in Nat /\ charlen' >= 4 /\ charlen' = charlen + (NWords - pi)
  BY <1>1, <1>3, <1>4, <1>5
<1>7. /\ x \in Seq(Nat) /\ Len(x) = NWords - pi
      /\ \A j \in 0 .. (NWords - pi) - 1 : At(x, j) = At(in.word, pi + j)
  <2> DEFINE w == in.word
  <2>1. x \in Seq(Nat) /\ Len(x) = NWords - pi /\ \A k \in 1 .. NWords - pi : x[k] = w[pi + k]
    BY <1>4, <1>5
  <2>2. ASSUME NEW j \in 0 .. (NWords - pi) - 1 PROVE At(x, j) = At(w, pi + j)
    <3> HIDE DEF x, w
    <3>1. j + 1 \in 1 .. NWords - pi /\ j < Len(x) /\ pi + j < NWords /\ pi + (j + 1) = pi + j + 1
      BY <1>4, <1>5, <2>1
    <3>2. x[j + 1] = w[pi + j + 1]
      BY <2>1, <3>1
    <3>3. Len(w) = NWords
      BY <1>5 DEF w
    <3> QED BY <3>1, <3>2, <3>3 DEF At
  <2> QED BY <2>1, <2>2
<1> HIDE DEF x
<1>8. /\ pchar' \in Seq(Nat) /\ Len(pchar') = Len(pchar) + Len(x) /\ Starts(pchar, pchar')
      /\ \A j \in 0 .. Len(x) - 1 : At(pchar', Len(pchar) + j) = At(x, j)
  BY <1>1, <1>3, <1>7, StartsConcat, Zenon
<1>9. /\ sec' \in SectionSet
      /\ Len(sec'.pdistanceflag) = Len(sec.pdistanceflag) + 1
      /\ Len(sec'.pdistance) = Len(sec.pdistance)
      /\ Len(sec'.pflag) = Len(sec.pflag) + Len(LastBytes(charlen'))
      /\ Holds(sec'.pflag, Len(sec.pflag), LastBytes(charlen'))
      /\ Len(sec'.pflagExx) = 2 * (Len(sec.pflagExx) \div 2 + 1)
      /\ \A r \in ReaderSet, c \in CodeSet : Written(sec, r, c) => Written(sec', r, c)
  BY <1>1, <1>3, <1>6, LastWritten, Zenon
<1>10. NWords' = NWords /\ UsesMc' = UsesMc
  BY <1>1 DEF NWords, UsesMc
<1>11. TypeInv'
  <2>1. read \in Nat /\ read <= 2 * NWords
    BY <1>2 DEF TypeInv
  <2>2. read' \in Nat /\ (read' = read \/ read' = 2 * NWords)
    <3>1. 2 * NWords \in Nat
      BY <1>5
    <3> QED BY <1>1, <2>1, <3>1, MaxOfTwo
  <2>3. read' \in Nat /\ read' <= 2 * NWords
    BY <1>5, <2>1, <2>2
  <2> QED BY <1>1, <1>2, <1>6, <1>8, <1>9, <1>10, <2>3 DEF TypeInv
<1>12. \E ts, P, N, Q : \E k \in 0 .. Len(ts) :
         /\ Story(in'.word, in'.inlen, pchar', ts, P, N)
         /\ Path(Q, UsesMc', ts, sec') /\ Ends(Q[Len(ts)], sec', charlen')
         /\ NWords' = P[Len(ts)] + charlen'
         /\ Len(pchar') = N[Len(ts)] + charlen'
         /\ Literals(in'.word, pchar', P[Len(ts)], N[Len(ts)], charlen')
         /\ reader' = Q[k] /\ po' = P[k] /\ nchar' = N[k]
  <2>1. PICK ts, P, N, Q :
          /\ Story(in.word, in.inlen, pchar, ts, P, N)
          /\ Path(Q, UsesMc, ts, sec) /\ Q[Len(ts)] = EndOf(sec)
          /\ pi = P[Len(ts)] + charlen
          /\ Len(pchar) = N[Len(ts)] + charlen
          /\ Literals(in.word, pchar, P[Len(ts)], N[Len(ts)], charlen)
    BY <1>4, Zenon DEF Told
  <2> DEFINE p == P[Len(ts)]
             n == N[Len(ts)]
             e == Q[Len(ts)]
  <2>2. /\ ts \in Seq(TokenSet) /\ p \in Nat /\ n \in Nat /\ P[0] = 0 /\ N[0] = 0 /\ Q[0] = Unread
        /\ 0 \in 0 .. Len(ts)
    BY <2>1 DEF Story, Path
  <2>3. Story(in'.word, in'.inlen, pchar', ts, P, N)
    <3>1. Story(in.word, in.inlen, pchar', ts, P, N)
      BY <1>3, <1>8, <2>1, StoryStays
    <3> QED BY <1>1, <3>1, Zenon
  <2>4. Path(Q, UsesMc', ts, sec')
    <3>1. Path(Q, UsesMc, ts, sec')
      BY <1>3, <1>9, <2>1, <2>2, McIs, PathStays
    <3> QED BY <1>10, <3>1, Zenon
  <2>5. /\ e.pdistanceflag = Len(sec.pdistanceflag) /\ e.pdistance = Len(sec.pdistance)
        /\ e.pflag = Len(sec.pflag) /\ e.pflagExx = Len(sec.pflagExx)
    BY <2>1 DEF EndOf
  <2>6. pi = p + charlen /\ Len(pchar) = n + charlen /\ Literals(in.word, pchar, p, n, charlen)
    BY <2>1
  <2> HIDE DEF p, n, e
  <2>7. Ends(e, sec', charlen')
    BY <1>9, <2>5, Zenon DEF Ends
  <2>8. NWords' = p + charlen' /\ Len(pchar') = n + charlen'
    BY <1>3, <1>4, <1>5, <1>6, <1>7, <1>8, <1>10, <2>2, <2>6
  <2>9. Literals(in'.word, pchar', p, n, charlen')
    <3> DEFINE y == NWords - pi
    <3>1. y \in Nat /\ y = Len(x)
      BY <1>4, <1>5, <1>7
    <3>2. \A j \in 0 .. y - 1 : At(pchar', Len(pchar) + j) = At(in.word, pi + j)
      BY <1>7, <1>8, <3>1, Zenon
    <3> HIDE DEF y
    <3>3. \A j \in 0 .. y - 1 : At(pchar', Len(pchar) + j) = At(in.word, p + charlen + j)
      BY <2>6, <3>2, Zenon
    <3>4. Len(pchar) \in Nat
      BY <1>3
    <3>5. Literals(in.word, pchar', p, n, charlen + y)
      BY <1>3, <1>8, <2>2, <2>6, <3>1, <3>3, <3>4, LiteralsGrow, Zenon
    <3> QED BY <1>1, <1>6, <3>5 DEF y
  <2>10. reader' = Q[0] /\ po' = P[0] /\ nchar' = N[0]
    BY <1>1, <1>4, <2>2
  <2> QED BY <2>2, <2>3, <2>4, <2>7, <2>8, <2>9, <2>10, Zenon DEF p, n, e
<1>13. Decoding'
  <2>1. ret' = 0 /\ po' \in Nat /\ (\A j \in 0 .. po - 1 : out[j] = In(j))'
    <3>1. po' = 0 /\ 0 .. 0 - 1 = {}
      BY <1>1, <1>4
    <3> QED BY <1>1, <1>4, <3>1
  <2> QED BY <1>6, <1>12, <2>1, Zenon DEF Decoding
<1> QED BY <1>1, <1>11, <1>13 DEF BlockInv

-----------------------------------------------------------------------------
(* The copies of the decoder.                                              *)

\* The first b words of o are those of w.
Restored(w, o, b) == \A j \in 0 .. b - 1 : o[j] = At(w, j)

\* Literals are stored in fours, and the last of them is not behind the output.
LEMMA LiteralsCopied ==
  ASSUME NEW N \in Nat, DOMAIN out = 0 .. N - 1, po \in Nat, nchar \in Nat, NEW l \in Nat, NEW w,
         Restored(w, out, po), Literals(w, pchar, po, nchar, l), po + l <= N
  PROVE  /\ DOMAIN CopyLiterals(out, po, l) = 0 .. N - 1
         /\ Restored(w, CopyLiterals(out, po, l), po + l)
<1> DEFINE o == CopyLiterals(out, po, l)
<1>1. /\ DOMAIN o = 0 .. N - 1
      /\ \A k \in 0 .. N - 1 :
           o[k] = IF k - po \in 0 .. 4 * Quads(l) - 1 THEN At(pchar, nchar + k - po) ELSE out[k]
  BY Zenon DEF CopyLiterals
<1> HIDE DEF o
<1>2. l <= 4 * Quads(l) /\ Quads(l) \in Nat
  BY DEF Quads
<1>3. ASSUME NEW k \in 0 .. (po + l) - 1 PROVE o[k] = At(w, k)
  <2>0. k \in 0 .. N - 1
    OBVIOUS
  <2>1. CASE k < po
    <3>1. ~ (k - po \in 0 .. 4 * Quads(l) - 1) /\ k \in 0 .. po - 1
      BY <1>2, <2>1
    <3>2. o[k] = out[k]
      BY <1>1, <2>0, <3>1
    <3>3. out[k] = At(w, k)
      BY <3>1, Zenon DEF Restored
    <3> QED BY <3>2, <3>3
  <2>2. CASE k >= po
    <3>1. /\ k - po \in 0 .. 4 * Quads(l) - 1 /\ k - po \in 0 .. l - 1
          /\ po + (k - po) = k
      BY <1>2, <2>2
    <3>2. o[k] = At(pchar, nchar + (k - po))
      BY <1>1, <2>0, <3>1
    <3>3. At(pchar, nchar + (k - po)) = At(w, po + (k - po))
      BY <3>1, Zenon DEF Literals
    <3> QED BY <3>1, <3>2, <3>3
  <2> QED BY <2>1, <2>2
<1>4. Restored(w, o, po + l)
  BY <1>3, Zenon DEF Restored
<1> QED BY <1>1, <1>4 DEF o

\* Two words, the second of which may be a copy of the first.
LEMMA PairCopied ==
  ASSUME NEW N \in Nat, NEW o, DOMAIN o = 0 .. N - 1, NEW p \in Nat, NEW dis \in Nat, 1 <= dis, dis <= p,
         p + 2 <= N, NEW w, Restored(w, o, p), Repeats(w, p, dis, 2)
  PROVE  /\ DOMAIN CopyTwo(o, p, dis) = 0 .. N - 1
         /\ Restored(w, CopyTwo(o, p, dis), p + 2)
<1> DEFINE f == [o EXCEPT ![p] = o[p - dis]]
           g == [f EXCEPT ![p + 1] = f[p + 1 - dis]]
<1>1. CopyTwo(o, p, dis) = g
  BY DEF CopyTwo
<1>2. /\ DOMAIN f = 0 .. N - 1 /\ f[p] = o[p - dis]
      /\ \A k \in 0 .. N - 1 : k # p => f[k] = o[k]
  OBVIOUS
<1> HIDE DEF f
<1>3. /\ DOMAIN g = 0 .. N - 1 /\ g[p + 1] = f[p + 1 - dis]
      /\ \A k \in 0 .. N - 1 : k # p + 1 => g[k] = f[k]
  BY <1>2
<1> HIDE DEF g
<1>4. \A k \in 0 .. p - 1 : o[k] = At(w, k)
  BY DEF Restored
<1>5. At(w, p) = At(w, p - dis) /\ At(w, p + 1) = At(w, p + 1 - dis)
  <2>1. \A j \in 0 .. 2 - 1 : At(w, p + j) = At(w, (p + j) - dis)
    BY DEF Repeats
  <2>2. 0 \in 0 .. 2 - 1 /\ 1 \in 0 .. 2 - 1 /\ p + 0 = p /\ (p + 1) - dis = p + 1 - dis
    OBVIOUS
  <2> QED BY <2>1, <2>2
<1>6. f[p] = At(w, p)
  <2>1. p - dis \in 0 .. p - 1
    OBVIOUS
  <2> QED BY <1>2, <1>4, <1>5, <2>1
<1>7. \A k \in 0 .. p : f[k] = At(w, k)
  <2> TAKE k \in 0 .. p
  <2>1. k = p \/ (k \in 0 .. p - 1 /\ k \in 0 .. N - 1 /\ k # p)
    OBVIOUS
  <2> QED BY <1>2, <1>4, <1>6, <2>1
<1>8. g[p + 1] = At(w, p + 1)
  <2>1. p + 1 - dis \in 0 .. p
    OBVIOUS
  <2> QED BY <1>3, <1>5, <1>7, <2>1
<1>9. \A k \in 0 .. (p + 2) - 1 : g[k] = At(w, k)
  <2> TAKE k \in 0 .. (p + 2) - 1
  <2>1. k = p + 1 \/ (k \in 0 .. p /\ k \in 0 .. N - 1 /\ k # p + 1)
    OBVIOUS
  <2> QED BY <1>3, <1>7, <1>8, <2>1
<1>10. Restored(w, g, p + 2)
  BY <1>9, Zenon DEF Restored
<1> QED BY <1>1, <1>3, <1>10

LEMMA Remainders ==
  ASSUME NEW x \in Nat, NEW d \in 1 .. 3
  PROVE  /\ x % d \in Nat
         /\ x < d => x % d = x
         /\ x >= d => (x - d) % d = x % d
<1>1. CASE d = 1
  BY <1>1
<1>2. CASE d = 2
  BY <1>2
<1>3. CASE d = 3
  BY <1>3
<1>4. d = 1 \/ d = 2 \/ d = 3
  OBVIOUS
<1> QED BY <1>1, <1>2, <1>3, <1>4

\* The words at p are the dis words before, over and over.
Periodic(w, p, dis, n) == \A j \in 0 .. n - 1 : At(w, p + j) = At(w, p - dis + (j % dis))

\* Words that repeat those dis before repeat the dis words before them.
LEMMA Period ==
  ASSUME NEW w, NEW p \in Nat, NEW dis \in 1 .. 3, dis <= p, NEW n \in Nat, Repeats(w, p, dis, n)
  PROVE  Periodic(w, p, dis, n)
<1> DEFINE S == {i \in 0 .. n - 1 : At(w, p + i) # At(w, p - dis + (i % dis))}
<1> SUFFICES ASSUME S # {} PROVE FALSE
  BY DEF Periodic
<1>1. S \subseteq Nat
  OBVIOUS
<1>2. PICK x \in S : \A y \in S : x <= y
  BY <1>1, Least
<1>3. x \in 0 .. n - 1 /\ x \in Nat /\ dis \in Nat /\ At(w, p + x) # At(w, p - dis + (x % dis))
  BY <1>2
<1>4. At(w, p + x) = At(w, (p + x) - dis)
  BY <1>3, Zenon DEF Repeats
<1>5. CASE x < dis
  <2>1. x % dis = x
    BY <1>3, <1>5, Remainders
  <2>2. p - dis + x = (p + x) - dis
    BY <1>3
  <2> QED BY <1>3, <1>4, <2>1, <2>2, Zenon
<1>6. CASE x >= dis
  <2> DEFINE y == x - dis
  <2>1. y \in 0 .. n - 1 /\ ~ (x <= y)
    BY <1>3, <1>6
  <2>2. y % dis = x % dis
    BY <1>3, <1>6, Remainders
  <2>3. p + y = (p + x) - dis
    BY <1>3
  <2> HIDE DEF y
  <2>4. ~ (y \in S)
    BY <1>2, <2>1, Zenon
  <2>5. At(w, p + y) = At(w, p - dis + (y % dis))
    BY <2>1, <2>4, Zenon
  <2>6. At(w, p + y) = At(w, p - dis + (x % dis))
    BY <2>2, <2>5, Zenon
  <2> QED BY <1>3, <1>4, <2>3, <2>6, Zenon
<1> QED BY <1>3, <1>5, <1>6

\* Of a sample of four words only the first dis are right; the others are
\* overwritten by the next sample, which starts behind these.
LEMMA SampleCopied ==
  ASSUME NEW N \in Nat, NEW o, DOMAIN o = 0 .. N - 1, NEW p \in Nat, NEW dis \in 1 .. 3, dis <= p,
         NEW n \in Nat, p + n <= N, NEW w, Restored(w, o, p), Repeats(w, p, dis, n)
  PROVE  /\ DOMAIN CopySample(o, p, n, dis) = 0 .. N - 1
         /\ Restored(w, CopySample(o, p, n, dis), p + n)
<1>0. Periodic(w, p, dis, n)
  BY Period
<1> DEFINE x(j) == IF p - dis + j \in 0 .. N - 1 THEN o[p - dis + j] ELSE Junk
           from(k) == Small((k - p) \div dis, n \div dis) * dis
           g == CopySample(o, p, n, dis)
<1>1. /\ DOMAIN g = 0 .. N - 1
      /\ \A k \in 0 .. N - 1 :
           g[k] = IF k >= p /\ k - p - from(k) < 4 THEN x(k - p - from(k)) ELSE o[k]
  BY Zenon DEF CopySample
<1> HIDE DEF g
<1>2. ASSUME NEW k \in 0 .. (p + n) - 1 PROVE g[k] = At(w, k)
  <2>0. k \in 0 .. N - 1
    OBVIOUS
  <2>1. CASE k < p
    <3>1. k \in 0 .. p - 1 /\ ~ (k >= p)
      BY <2>1
    <3>2. g[k] = o[k]
      BY <1>1, <2>0, <3>1, Zenon
    <3>3. o[k] = At(w, k)
      BY <3>1, Zenon DEF Restored
    <3> QED BY <3>2, <3>3
  <2>2. CASE k >= p
    <3> DEFINE i == k - p
               r == i % dis
    <3>1. i \in 0 .. n - 1 /\ i \in Nat /\ p + i = k
      BY <2>2
    <3>2. Small(i \div dis, n \div dis) = i \div dis
      <4>1. i \div dis <= n \div dis /\ i \div dis \in Nat /\ n \div dis \in Nat
        BY <3>1
      <4> QED BY <4>1 DEF Small
    <3>3. from(k) = (i \div dis) * dis
      BY <3>2
    <3>4. k - p - from(k) = r /\ r \in Nat /\ r < dis
      <4>1. i - (i \div dis) * dis = r /\ r \in Nat /\ r < dis
        BY <3>1
      <4> QED BY <3>3, <4>1
    <3>5. r < 4 /\ p - dis + r \in 0 .. N - 1 /\ p - dis + r \in 0 .. p - 1
      BY <2>0, <2>2, <3>4
    <3>11. i % dis = r
      OBVIOUS
    <3> HIDE DEF r
    <3>6. g[k] = x(r)
      <4>1. g[k] = IF k >= p /\ k - p - from(k) < 4 THEN x(k - p - from(k)) ELSE o[k]
        BY <1>1, <2>0, Zenon
      <4> QED BY <2>2, <3>4, <3>5, <4>1, Zenon
    <3>7. g[k] = o[p - dis + r]
      BY <3>5, <3>6, Zenon
    <3>8. o[p - dis + r] = At(w, p - dis + r)
      BY <3>5, Zenon DEF Restored
    <3>9. At(w, p + i) = At(w, p - dis + (i % dis))
      BY <1>0, <3>1, Zenon DEF Periodic
    <3>10. g[k] = At(w, p - dis + (i % dis))
      <4> HIDE DEF i
      <4> QED BY <3>7, <3>8, <3>11, Zenon
    <3> HIDE DEF i
    <3> QED BY <3>1, <3>9, <3>10, Zenon
  <2> QED BY <2>1, <2>2
<1>3. Restored(w, g, p + n)
  BY <1>2, Zenon DEF Restored
<1> QED BY <1>1, <1>3 DEF g

\* f[i] is the output after i of the fours.
Steps(f, o, to, from, b) == f = [i \in 0 .. b |-> IF i = 0 THEN o ELSE CopyQuad(f[i - 1], to, from, i)]

LEMMA StepsAre ==
  ASSUME NEW f, NEW o, NEW to, NEW from, NEW b \in Nat, Steps(f, o, to, from, b)
  PROVE  f[0] = o /\ \A i \in 1 .. b : f[i] = CopyQuad(f[i - 1], to, from, i)
<1>1. \A i \in 0 .. b : f[i] = IF i = 0 THEN o ELSE CopyQuad(f[i - 1], to, from, i)
  BY Zenon DEF Steps
<1>2. 0 \in 0 .. b
  OBVIOUS
<1>3. f[0] = o
  BY <1>1, <1>2
<1>4. ASSUME NEW i \in 1 .. b PROVE f[i] = CopyQuad(f[i - 1], to, from, i)
  <2>1. i \in 0 .. b /\ i # 0
    OBVIOUS
  <2> QED BY <1>1, <2>1, Zenon
<1> QED BY <1>3, <1>4

LEMMA StepsStart ==
  ASSUME NEW o, NEW to, NEW from
  PROVE  \E f : Steps(f, o, to, from, 0)
<1> DEFINE f == [i \in 0 .. 0 |-> o]
<1>1. f = [i \in 0 .. 0 |-> IF i = 0 THEN o ELSE CopyQuad(f[i - 1], to, from, i)]
  <2>1. \A i \in 0 .. 0 : i = 0
    OBVIOUS
  <2>2. \A i \in 0 .. 0 : o = IF i = 0 THEN o ELSE CopyQuad(f[i - 1], to, from, i)
    BY <2>1, Zenon
  <2> QED BY <2>2, Zenon
<1> QED BY <1>1, Zenon DEF Steps

LEMMA StepsGrow ==
  ASSUME NEW o, NEW to, NEW from, NEW b \in Nat, NEW f, Steps(f, o, to, from, b)
  PROVE  \E h : Steps(h, o, to, from, b + 1)
<1> DEFINE V(h, i) == IF i = 0 THEN o ELSE CopyQuad(h[i - 1], to, from, i)
           h == [i \in 0 .. b + 1 |-> IF i = b + 1 THEN CopyQuad(f[b], to, from, b + 1) ELSE f[i]]
<1>1. f[0] = o /\ \A i \in 1 .. b : f[i] = CopyQuad(f[i - 1], to, from, i)
  BY StepsAre
<1>2. \A i \in 0 .. b : h[i] = f[i]
  <2> TAKE i \in 0 .. b
  <2>1. i \in 0 .. b + 1 /\ i # b + 1
    OBVIOUS
  <2> QED BY <2>1, Zenon
<1>3. h[b + 1] = CopyQuad(f[b], to, from, b + 1)
  <2>1. b + 1 \in 0 .. b + 1
    OBVIOUS
  <2> QED BY <2>1, Zenon
<1>4. h = [i \in 0 .. b + 1 |-> h[i]]
  BY Zenon
<1> HIDE DEF h
<1>5. ASSUME NEW i \in 0 .. b + 1 PROVE h[i] = V(h, i)
  <2>1. CASE i = 0
    <3>1. i \in 0 .. b
      BY <2>1
    <3> QED BY <1>1, <1>2, <2>1, <3>1, Zenon
  <2>2. CASE i # 0 /\ i # b + 1
    <3>1. i \in 0 .. b /\ i \in 1 .. b /\ i - 1 \in 0 .. b
      BY <2>2
    <3> QED BY <1>1, <1>2, <2>2, <3>1, Zenon
  <2>3. CASE i = b + 1
    <3>1. i # 0 /\ i - 1 \in 0 .. b /\ i - 1 = b
      BY <2>3
    <3> QED BY <1>2, <1>3, <2>3, <3>1, Zenon
  <2> QED BY <2>1, <2>2, <2>3
<1>6. h = [i \in 0 .. b + 1 |-> V(h, i)]
  BY <1>4, <1>5, Zenon
<1> QED BY <1>6, Zenon DEF Steps

LEMMA StepsExist ==
  ASSUME NEW o, NEW to, NEW from, NEW b \in Nat
  PROVE  \E f : Steps(f, o, to, from, b)
<1> DEFINE S == {i \in Nat : ~ \E f : Steps(f, o, to, from, i)}
<1> SUFFICES ASSUME S # {} PROVE FALSE
  BY Zenon
<1>1. S \subseteq Nat
  OBVIOUS
<1>2. PICK x \in S : \A y \in S : x <= y
  BY <1>1, Least
<1>3. x \in Nat /\ ~ \E f : Steps(f, o, to, from, x)
  BY <1>2, Zenon
<1>4. x # 0
  BY <1>3, StepsStart, Zenon
<1>5. x - 1 \in Nat /\ ~ (x <= x - 1) /\ (x - 1) + 1 = x
  BY <1>3, <1>4
<1>6. ~ (x - 1 \in S)
  BY <1>2, <1>5, Zenon
<1>7. PICK f : Steps(f, o, to, from, x - 1)
  BY <1>5, <1>6, Zenon
<1>8. \E h : Steps(h, o, to, from, (x - 1) + 1)
  BY <1>5, <1>7, StepsGrow, Zenon
<1> QED BY <1>3, <1>5, <1>8, Zenon

LEMMA CopyQuadsIs ==
  ASSUME NEW o, NEW to, NEW from, NEW n, Quads(n) \in Nat
  PROVE  \E f : Steps(f, o, to, from, Quads(n)) /\ CopyQuads(o, to, from, n) = f[Quads(n)]
<1>1. \E f : f = [i \in 0 .. Quads(n) |-> IF i = 0 THEN o ELSE CopyQuad(f[i - 1], to, from, i)]
  <2>1. \E f : Steps(f, o, to, from, Quads(n))
    BY StepsExist, Zenon
  <2> QED BY <2>1, Zenon DEF Steps
<1>2. \E f : /\ f = [i \in 0 .. Quads(n) |-> IF i = 0 THEN o ELSE CopyQuad(f[i - 1], to, from, i)]
             /\ CopyQuads(o, to, from, n) = f[Quads(n)]
  BY <1>1, Zenon DEF CopyQuads
<1> QED BY <1>2, Zenon DEF Steps

\* What o is after i of the fours of n words at p.
After(w, o, N, p, n, i) == /\ DOMAIN o = 0 .. N - 1
                           /\ \A j \in 0 .. p + 4 * i - 1 : j < p + n => o[j] = At(w, j)

\* Four words are read where they are restored, since dis is more than three.
LEMMA QuadCopied ==
  ASSUME NEW N \in Nat, NEW o, NEW p \in Nat, NEW dis \in Nat, dis > 3, dis <= p,
         NEW from, from = p - dis,
         NEW n \in Nat, p + n <= N, NEW w, Repeats(w, p, dis, n), NEW i \in Nat, i >= 1,
         After(w, o, N, p, n, i - 1)
  PROVE  After(w, CopyQuad(o, p, from, i), N, p, n, i)
<1> DEFINE g == CopyQuad(o, p, from, i)
<1>0. DOMAIN o = 0 .. N - 1 /\ \A j \in 0 .. p + 4 * (i - 1) - 1 : j < p + n => o[j] = At(w, j)
  BY Zenon DEF After
<1>1. /\ DOMAIN g = 0 .. N - 1
      /\ \A k \in 0 .. N - 1 :
           g[k] = IF k - p \in 4 * (i - 1) .. 4 * i - 1 THEN o[k - p + from] ELSE o[k]
  BY <1>0, Zenon DEF CopyQuad
<1> HIDE DEF g
<1>2. ASSUME NEW k \in 0 .. p + 4 * i - 1, k < p + n PROVE g[k] = At(w, k)
  <2>0. k \in 0 .. N - 1
    BY <1>2
  <2>1. CASE k < p + 4 * (i - 1)
    <3>1. ~ (k - p \in 4 * (i - 1) .. 4 * i - 1) /\ k \in 0 .. p + 4 * (i - 1) - 1
      BY <2>1
    <3>2. g[k] = o[k]
      BY <1>1, <2>0, <3>1, Zenon
    <3>3. o[k] = At(w, k)
      BY <1>0, <1>2, <3>1, Zenon
    <3> QED BY <3>2, <3>3
  <2>2. CASE k >= p + 4 * (i - 1)
    <3> DEFINE j == k - p
               b == k - p + from
    <3>1. /\ k - p \in 4 * (i - 1) .. 4 * i - 1 /\ j \in 0 .. n - 1
          /\ p + j = k /\ (p + j) - dis = b
          /\ b \in 0 .. p + 4 * (i - 1) - 1 /\ b < p + n
      BY <1>2, <2>2
    <3>2. g[k] = o[b]
      BY <1>1, <2>0, <3>1, Zenon
    <3>3. At(w, p + j) = At(w, (p + j) - dis)
      BY <3>1, Zenon DEF Repeats
    <3> HIDE DEF j, b
    <3>4. o[b] = At(w, b)
      BY <1>0, <3>1, Zenon
    <3> QED BY <3>1, <3>2, <3>3, <3>4, Zenon
  <2> QED BY <2>1, <2>2
<1>3. \A j \in 0 .. p + 4 * i - 1 : j < p + n => g[j] = At(w, j)
  BY <1>2, Zenon
<1> QED BY <1>1, <1>3, Zenon DEF g, After

LEMMA QuadsCopied ==
  ASSUME NEW N \in Nat, NEW o, DOMAIN o = 0 .. N - 1, NEW p \in Nat, NEW dis \in Nat, dis > 3, dis <= p,
         NEW n \in Nat, p + n <= N, NEW w, Restored(w, o, p), Repeats(w, p, dis, n)
  PROVE  /\ DOMAIN CopyQuads(o, p, p - dis, n) = 0 .. N - 1
         /\ Restored(w, CopyQuads(o, p, p - dis, n), p + n)
<1>1. Quads(n) \in Nat /\ n <= 4 * Quads(n)
  BY DEF Quads
<1> DEFINE from == p - dis
<1>0. from = p - dis
  OBVIOUS
<1> HIDE DEF from
<1>2. PICK f : Steps(f, o, p, from, Quads(n)) /\ CopyQuads(o, p, from, n) = f[Quads(n)]
  BY <1>1, CopyQuadsIs
<1>3. f[0] = o /\ \A i \in 1 .. Quads(n) : f[i] = CopyQuad(f[i - 1], p, from, i)
  BY <1>1, <1>2, StepsAre
<1> DEFINE Good(i) == After(w, f[i], N, p, n, i)
           S == {i \in 0 .. Quads(n) : ~ Good(i)}
<1>4. Good(0)
  <2>1. \A j \in 0 .. p - 1 : o[j] = At(w, j)
    BY Zenon DEF Restored
  <2>2. p + 4 * 0 - 1 = p - 1
    OBVIOUS
  <2> QED BY <1>3, <2>1, <2>2, Zenon DEF After
<1>5. ASSUME NEW i \in 1 .. Quads(n), Good(i - 1) PROVE Good(i)
  <2> DEFINE e == f[i - 1]
  <2>1. After(w, e, N, p, n, i - 1)
    BY <1>5, Zenon
  <2>2. f[i] = CopyQuad(e, p, from, i)
    BY <1>3, Zenon
  <2>3. i \in Nat /\ i >= 1
    BY <1>1
  <2> HIDE DEF e
  <2>4. After(w, CopyQuad(e, p, from, i), N, p, n, i)
    BY <1>0, <2>1, <2>3, QuadCopied
  <2> QED BY <2>2, <2>4, Zenon
<1> HIDE DEF Good
<1>6. S = {}
  <2> SUFFICES ASSUME S # {} PROVE FALSE
    OBVIOUS
  <2>1. S \subseteq Nat
    BY <1>1
  <2>2. PICK x \in S : \A y \in S : x <= y
    BY <2>1, Least
  <2>3. x \in 0 .. Quads(n) /\ ~ Good(x)
    BY <2>2, Zenon
  <2>4. x # 0
    BY <1>4, <2>3, Zenon
  <2>5. x \in 1 .. Quads(n) /\ x - 1 \in 0 .. Quads(n) /\ ~ (x <= x - 1)
    BY <1>1, <2>3, <2>4
  <2>6. Good(x - 1)
    BY <2>2, <2>5, Zenon
  <2> QED BY <1>5, <2>3, <2>5, <2>6, Zenon
<1>7. Good(Quads(n))
  <2>1. Quads(n) \in 0 .. Quads(n)
    BY <1>1
  <2> QED BY <1>6, <2>1, Zenon
<1> DEFINE g == f[Quads(n)]
<1>8. DOMAIN g = 0 .. N - 1 /\ \A j \in 0 .. p + 4 * Quads(n) - 1 : j < p + n => g[j] = At(w, j)
  BY <1>7, Zenon DEF Good, After
<1> HIDE DEF g
<1>9. ASSUME NEW j \in 0 .. (p + n) - 1 PROVE g[j] = At(w, j)
  <2>1. j \in 0 .. p + 4 * Quads(n) - 1 /\ j < p + n
    BY <1>1
  <2> QED BY <1>8, <2>1, Zenon
<1>10. Restored(w, g, p + n)
  BY <1>9, Zenon DEF Restored
<1> QED BY <1>0, <1>2, <1>8, <1>10, Zenon DEF g

-----------------------------------------------------------------------------
(* The decoder.                                                            *)

\* The words behind a token that the encoder leaves to the last block are room
\* enough for what the decoder stores ahead.
LEMMA StoreEndIs ==
  ASSUME po \in Nat, NEW t \in TokenSet, NEW lim \in Nat, t.matchdistance >= 1,
         2 * (po + t.charlen + (t.matchlen + 2)) + 8 <= lim
  PROVE  StoreEnd(t) \in Nat /\ 2 * StoreEnd(t) <= lim
<1> DEFINE p == po + t.charlen
           n == t.matchlen + 2
           d == t.matchdistance
           a == po + 4 * Quads(t.charlen)
           b == IF t.matchlen = 0 THEN p + 2
                ELSE IF ByQuads(d) THEN p + 4 * Quads(n) ELSE p + (n \div d) * d + 4
<1>1. t.charlen \in Nat /\ t.matchlen \in Nat /\ d \in Nat
  BY TokenParts
<1>2. StoreEnd(t) = Max({a, b})
  <2>1. {a} \cup {b} = {a, b}
    OBVIOUS
  <2> QED BY <2>1, Zenon DEF StoreEnd
<1>3. a \in Nat /\ a <= p + 3
  BY <1>1 DEF Quads
<1>4. (n \div d) * d \in Nat /\ (n \div d) * d <= n
  BY <1>1
<1>5. Quads(n) \in Nat /\ 4 * Quads(n) <= n + 3
  BY <1>1 DEF Quads
<1>6. p \in Nat /\ n \in Nat /\ n >= 2 /\ 2 * (p + n) + 8 <= lim
  BY <1>1
<1>7. b \in Nat /\ b <= p + n + 4
  <2> DEFINE x == (n \div d) * d
             y == 4 * Quads(n)
  <2>1. x \in Nat /\ x <= n /\ y \in Nat /\ y <= n + 3
    BY <1>4, <1>5
  <2>2. b = p + 2 \/ b = p + y \/ b = p + x + 4
    OBVIOUS
  <2> HIDE DEF x, y, b, p, n
  <2> QED BY <1>6, <2>1, <2>2
<1> HIDE DEF a, b, p, n
<1>8. Max({a, b}) \in Nat /\ (Max({a, b}) = a \/ Max({a, b}) = b)
  BY <1>3, <1>7, MaxOfTwo
<1> QED BY <1>2, <1>3, <1>6, <1>7, <1>8

LEMMA NotRefused ==
  ASSUME po \in Nat, NEW t \in TokenSet, in.inlen \in Nat,
         t.matchdistance >= 1, t.matchdistance <= po + t.charlen,
         2 * (po + t.charlen + (t.matchlen + 2)) + 8 <= in.inlen
  PROVE  Refusal(t) = 0
<1>1. t.charlen \in Nat /\ t.matchlen \in Nat /\ t.matchdistance \in Nat
  BY TokenParts
<1>2. /\ ~ (2 * (po + t.charlen) > in.inlen)
      /\ ~ (t.matchdistance > po + t.charlen)
      /\ ~ (2 * (po + t.charlen + (t.matchlen + 2)) > in.inlen)
      /\ ~ (t.matchdistance = 0)
  BY <1>1
<1> QED BY <1>2 DEF Refusal

\* The output of a round that is not refused.
Stored(t) ==
  LET p == po + t.charlen
      o == CopyLiterals(out, po, t.charlen)
  IN  IF t.matchlen = 0 THEN CopyTwo(o, p, t.matchdistance)
      ELSE IF ByQuads(t.matchdistance) THEN CopyQuads(o, p, p - t.matchdistance, t.matchlen + 2)
      ELSE CopySample(o, p, t.matchlen + 2, t.matchdistance)

LEMMA StoredIs ==
  ASSUME NEW N \in Nat, DOMAIN out = 0 .. N - 1, po \in Nat, nchar \in Nat, NEW t \in TokenSet, NEW w,
         Restored(w, out, po), Literals(w, pchar, po, nchar, t.charlen),
         1 <= t.matchdistance, t.matchdistance <= po + t.charlen,
         Repeats(w, po + t.charlen, t.matchdistance, t.matchlen + 2),
         po + t.charlen + (t.matchlen + 2) <= N
  PROVE  /\ DOMAIN Stored(t) = 0 .. N - 1
         /\ Restored(w, Stored(t), po + t.charlen + (t.matchlen + 2))
<1> DEFINE p == po + t.charlen
           n == t.matchlen + 2
           d == t.matchdistance
           o == CopyLiterals(out, po, t.charlen)
<1>1. t.charlen \in Nat /\ t.matchlen \in Nat /\ d \in Nat
  BY TokenParts
<1>2. p \in Nat /\ n \in Nat /\ p <= N /\ p + n <= N /\ 1 <= d /\ d <= p /\ Repeats(w, p, d, n)
  <2>1. p \in Nat /\ n \in Nat /\ p + n <= N
    BY <1>1
  <2>2. 1 <= d /\ d <= p /\ Repeats(w, p, d, n)
    OBVIOUS
  <2> HIDE DEF p, n, d
  <2> QED BY <2>1, <2>2
<1>3. DOMAIN o = 0 .. N - 1 /\ Restored(w, o, p)
  BY <1>1, <1>2, LiteralsCopied
<1>4. Stored(t) = IF t.matchlen = 0 THEN CopyTwo(o, p, d)
                  ELSE IF ByQuads(d) THEN CopyQuads(o, p, p - d, n) ELSE CopySample(o, p, n, d)
  BY DEF Stored
<1>5. t.matchlen = 0 => n = 2
  OBVIOUS
<1> HIDE DEF p, n, d, o
<1>6. CASE t.matchlen = 0
  <2>1. DOMAIN CopyTwo(o, p, d) = 0 .. N - 1 /\ Restored(w, CopyTwo(o, p, d), p + 2)
    BY <1>1, <1>2, <1>3, <1>5, <1>6, PairCopied
  <2> QED BY <1>4, <1>5, <1>6, <2>1 DEF p, n
<1>7. CASE t.matchlen # 0 /\ ByQuads(d)
  <2>1. d > 3
    BY <1>7 DEF ByQuads
  <2>2. DOMAIN CopyQuads(o, p, p - d, n) = 0 .. N - 1 /\ Restored(w, CopyQuads(o, p, p - d, n), p + n)
    BY <1>1, <1>2, <1>3, <2>1, QuadsCopied
  <2> QED BY <1>4, <1>7, <2>2 DEF p, n
<1>8. CASE t.matchlen # 0 /\ ~ ByQuads(d)
  <2>1. d \in 1 .. 3
    BY <1>1, <1>2, <1>8 DEF ByQuads
  <2>2. DOMAIN CopySample(o, p, n, d) = 0 .. N - 1 /\ Restored(w, CopySample(o, p, n, d), p + n)
    BY <1>2, <1>3, <2>1, SampleCopied
  <2> QED BY <1>4, <1>8, <2>2 DEF p, n
<1> QED BY <1>6, <1>7, <1>8

\* A token restores its words; none of the encoder's is refused.
LEMMA DecodeTokenKeeps ==
  ASSUME BlockInv, decode_token
  PROVE  BlockInv'
<1>1. pc = "decode" /\ MoreTokens(sec, reader)
  BY DEF decode_token
<1>2. /\ in' = in /\ level' = level
      /\ pmyht' = pmyht /\ pcdll' = pcdll /\ pi' = pi /\ charlen' = charlen /\ pchar' = pchar
      /\ sec' = sec /\ read' = read
  BY DEF decode_token, encvars
<1>3. TypeInv /\ Decoding
  BY <1>1 DEF BlockInv
<1>4. /\ in \in Inputs /\ charlen \in Nat /\ pchar \in Seq(Nat) /\ sec \in SectionSet
      /\ read \in Nat /\ read <= 2 * NWords
      /\ written \in Nat /\ written <= in.inlen /\ DOMAIN out = 0 .. NWords - 1
  BY <1>3 DEF TypeInv
<1>5. /\ charlen >= 4 /\ ret = 0 /\ po \in Nat /\ Restored(in.word, out, po)
  BY <1>3, Zenon DEF Decoding, Restored, In
<1>6. in.inlen \in Nat /\ NWords \in Nat /\ in.inlen <= 2 * NWords
  BY <1>4, InputIs
<1>7. PICK ts, P, N, Q : \E k \in 0 .. Len(ts) :
        /\ Story(in.word, in.inlen, pchar, ts, P, N)
        /\ Path(Q, UsesMc, ts, sec) /\ Ends(Q[Len(ts)], sec, charlen)
        /\ NWords = P[Len(ts)] + charlen
        /\ Len(pchar) = N[Len(ts)] + charlen
        /\ Literals(in.word, pchar, P[Len(ts)], N[Len(ts)], charlen)
        /\ reader = Q[k] /\ po = P[k] /\ nchar = N[k]
  BY <1>3, Zenon DEF Decoding
<1>8. PICK k \in 0 .. Len(ts) :
        /\ Story(in.word, in.inlen, pchar, ts, P, N)
        /\ Path(Q, UsesMc, ts, sec) /\ Ends(Q[Len(ts)], sec, charlen)
        /\ NWords = P[Len(ts)] + charlen
        /\ Len(pchar) = N[Len(ts)] + charlen
        /\ Literals(in.word, pchar, P[Len(ts)], N[Len(ts)], charlen)
        /\ reader = Q[k] /\ po = P[k] /\ nchar = N[k]
  BY <1>7, Zenon
<1>9. /\ ts \in Seq(TokenSet)
      /\ P \in [0 .. Len(ts) -> Nat] /\ N \in [0 .. Len(ts) -> Nat]
      /\ \A j \in 1 .. Len(ts) : Tells(in.word, in.inlen, pchar, ts[j], P[j - 1], N[j - 1], P[j], N[j])
  BY <1>8, Zenon DEF Story
<1>10. k < Len(ts)
  BY <1>1, <1>8, <1>9, PathCounts
<1>11. k \in 0 .. Len(ts) - 1 /\ k + 1 \in 1 .. Len(ts) /\ k + 1 \in 0 .. Len(ts) /\ (k + 1) - 1 = k
  BY <1>9, <1>10
<1> DEFINE t == ts[k + 1]
           q == P[k + 1]
           m == N[k + 1]
           e == Q[k + 1]
<1>12. t \in TokenSet /\ q \in Nat /\ m \in Nat /\ nchar \in Nat
  <2>1. t \in TokenSet
    BY <1>9, <1>11
  <2>2. q \in Nat /\ m \in Nat /\ N[k] \in Nat
    BY <1>9, <1>11
  <2>3. nchar = N[k]
    BY <1>8
  <2> QED BY <2>1, <2>2, <2>3, Zenon
<1>13. ReadToken(UsesMc, sec, reader) = [token |-> t, reader |-> e]
  <2>1. ReadToken(UsesMc, sec, Q[k]) = [token |-> t, reader |-> e]
    BY <1>4, <1>8, <1>9, <1>11, McIs, PathReads
  <2> QED BY <1>8, <2>1, Zenon
<1>14. Tells(in.word, in.inlen, pchar, t, po, nchar, q, m)
  <2>1. Tells(in.word, in.inlen, pchar, t, P[(k + 1) - 1], N[(k + 1) - 1], q, m)
    BY <1>9, <1>11, Zenon
  <2> QED BY <1>8, <1>11, <2>1, Zenon
<1> HIDE DEF t, q, m, e
<1>15. /\ t.charlen \in Nat /\ t.matchlen \in Nat /\ t.matchdistance \in Nat
  BY <1>12, TokenParts
<1>16. /\ m = nchar + t.charlen /\ q = po + t.charlen + (t.matchlen + 2) /\ 2 * q + 8 <= in.inlen
       /\ Literals(in.word, pchar, po, nchar, t.charlen)
       /\ 1 <= t.matchdistance /\ t.matchdistance <= po + t.charlen
       /\ Repeats(in.word, po + t.charlen, t.matchdistance, t.matchlen + 2)
  BY <1>14, Zenon DEF Tells
<1>17. Refusal(t) = 0
  <2>1. t.matchdistance >= 1 /\ 2 * (po + t.charlen + (t.matchlen + 2)) + 8 <= in.inlen
    BY <1>15, <1>16
  <2> QED BY <1>5, <1>6, <1>12, <1>16, <2>1, NotRefused
<1>18. /\ out' = Stored(t) /\ written' = Max({written, 2 * StoreEnd(t)}) /\ po' = po + t.charlen + t.matchlen + 2
       /\ nchar' = nchar + t.charlen /\ reader' = e /\ ret' = ret /\ pc' = pc
  <2> DEFINE r == ReadToken(UsesMc, sec, reader)
  <2>1. r.token = t /\ r.reader = e
    BY <1>13
  <2> HIDE DEF r
  <2>2. IF Refusal(r.token) # 0
        THEN ret' = Refusal(r.token) /\ pc' = "done" /\ UNCHANGED <<reader, nchar, out, po, written>>
        ELSE /\ out' = Stored(r.token)
             /\ written' = Max({written, 2 * StoreEnd(r.token)})
             /\ po' = po + r.token.charlen + r.token.matchlen + 2
             /\ nchar' = nchar + r.token.charlen
             /\ reader' = r.reader
             /\ UNCHANGED <<ret, pc>>
    BY DEF decode_token, Stored, r
  <2>3. /\ out' = Stored(r.token) /\ written' = Max({written, 2 * StoreEnd(r.token)})
        /\ po' = po + r.token.charlen + r.token.matchlen + 2
        /\ nchar' = nchar + r.token.charlen /\ reader' = r.reader /\ UNCHANGED <<ret, pc>>
    BY <1>17, <2>1, <2>2
  <2> QED BY <2>1, <2>3
<1>19. DOMAIN Stored(t) = 0 .. NWords - 1 /\ Restored(in.word, Stored(t), q)
  <2>0. 2 * q + 8 <= in.inlen /\ q = po + t.charlen + (t.matchlen + 2)
    BY <1>16
  <2>1. po + t.charlen + (t.matchlen + 2) <= NWords
    <3>1. q <= NWords
      BY <1>6, <1>12, <2>0
    <3> QED BY <2>0, <3>1, Zenon
  <2>2. /\ DOMAIN Stored(t) = 0 .. NWords - 1
        /\ Restored(in.word, Stored(t), po + t.charlen + (t.matchlen + 2))
    BY <1>4, <1>5, <1>6, <1>12, <1>16, <2>1, StoredIs
  <2> QED BY <1>16, <2>2
<1>20. written' \in Nat /\ written' <= in.inlen
  <2>1. t.matchdistance >= 1 /\ 2 * (po + t.charlen + (t.matchlen + 2)) + 8 <= in.inlen
    BY <1>15, <1>16
  <2>2. StoreEnd(t) \in Nat /\ 2 * StoreEnd(t) <= in.inlen
    BY <1>5, <1>6, <1>12, <2>1, StoreEndIs
  <2>3. written' \in Nat /\ (written' = written \/ written' = 2 * StoreEnd(t))
    <3>1. 2 * StoreEnd(t) \in Nat
      BY <2>2
    <3> QED BY <1>4, <1>18, <3>1, MaxOfTwo
  <2> QED BY <1>4, <2>2, <2>3
<1>21. po' = q /\ nchar' = m
  BY <1>5, <1>15, <1>16, <1>18
<1>22. NWords' = NWords /\ UsesMc' = UsesMc
  BY <1>2 DEF NWords, UsesMc
<1>23. TypeInv'
  BY <1>1, <1>2, <1>4, <1>18, <1>19, <1>20, <1>22 DEF TypeInv
<1>24. Decoding'
  <2>1. charlen' >= 4 /\ ret' = 0 /\ po' \in Nat
    BY <1>2, <1>5, <1>12, <1>18, <1>21
  <2>2. \A j \in 0 .. po' - 1 : out'[j] = At(in'.word, j)
    BY <1>2, <1>18, <1>19, <1>21, Zenon DEF Restored
  <2>3. /\ Story(in'.word, in'.inlen, pchar', ts, P, N)
        /\ Path(Q, UsesMc', ts, sec') /\ Ends(Q[Len(ts)], sec', charlen')
        /\ NWords' = P[Len(ts)] + charlen'
        /\ Len(pchar') = N[Len(ts)] + charlen'
        /\ Literals(in'.word, pchar', P[Len(ts)], N[Len(ts)], charlen')
    BY <1>2, <1>8, <1>22, Zenon
  <2>4. reader' = Q[k + 1] /\ po' = P[k + 1] /\ nchar' = N[k + 1]
    BY <1>18, <1>21 DEF q, m, e
  <2> QED BY <1>11, <2>1, <2>2, <2>3, <2>4, Zenon DEF Decoding, In
<1> QED BY <1>1, <1>18, <1>23, <1>24 DEF BlockInv

LEMMA LastWord ==
  ASSUME NEW x \in Nat, x > 8, NEW v, v = (x + 1) \div 2
  PROVE  ~ (2 * (v - 1) >= x) /\ 2 * (v - 1) + 1 + (IF x % 2 = 0 THEN 1 ELSE 0) = x
OBVIOUS

\* The last block restores the rest, the last byte of an odd input on its own.
LEMMA DecodeLastKeeps ==
  ASSUME BlockInv, decode_last
  PROVE  BlockInv'
<1>1. pc = "decode" /\ ~ MoreTokens(sec, reader) /\ pc' = "done"
  BY DEF decode_last
<1>2. /\ in' = in /\ charlen' = charlen /\ pchar' = pchar /\ sec' = sec /\ read' = read
  BY DEF decode_last, encvars
<1>3. TypeInv /\ Decoding
  BY <1>1 DEF BlockInv
<1>4. /\ in \in Inputs /\ charlen \in Nat /\ pchar \in Seq(Nat) /\ sec \in SectionSet
      /\ read \in Nat /\ read <= 2 * NWords
      /\ written \in Nat /\ written <= in.inlen /\ DOMAIN out = 0 .. NWords - 1
  BY <1>3 DEF TypeInv
<1>5. charlen >= 4 /\ po \in Nat /\ Restored(in.word, out, po)
  BY <1>3, Zenon DEF Decoding, Restored, In
<1>6. PICK ts, P, N, Q : \E k \in 0 .. Len(ts) :
        /\ Story(in.word, in.inlen, pchar, ts, P, N)
        /\ Path(Q, UsesMc, ts, sec) /\ Ends(Q[Len(ts)], sec, charlen)
        /\ NWords = P[Len(ts)] + charlen
        /\ Len(pchar) = N[Len(ts)] + charlen
        /\ Literals(in.word, pchar, P[Len(ts)], N[Len(ts)], charlen)
        /\ reader = Q[k] /\ po = P[k] /\ nchar = N[k]
  BY <1>3, Zenon DEF Decoding
<1>7. PICK k \in 0 .. Len(ts) :
        /\ Story(in.word, in.inlen, pchar, ts, P, N)
        /\ Path(Q, UsesMc, ts, sec) /\ Ends(Q[Len(ts)], sec, charlen)
        /\ NWords = P[Len(ts)] + charlen
        /\ Len(pchar) = N[Len(ts)] + charlen
        /\ Literals(in.word, pchar, P[Len(ts)], N[Len(ts)], charlen)
        /\ reader = Q[k] /\ po = P[k] /\ nchar = N[k]
  BY <1>6, Zenon
<1>8. ts \in Seq(TokenSet) /\ P \in [0 .. Len(ts) -> Nat] /\ N \in [0 .. Len(ts) -> Nat]
  BY <1>7, Zenon DEF Story
<1>9. ~ (k < Len(ts))
  BY <1>1, <1>7, <1>8, PathCounts
<1>10. k = Len(ts)
  BY <1>8, <1>9
<1>11. /\ NWords = po + charlen /\ Len(pchar) = nchar + charlen /\ nchar \in Nat
       /\ Literals(in.word, pchar, po, nchar, charlen)
       /\ Ends(reader, sec, charlen) /\ reader \in ReaderSet
  <2>1. Q[k] \in ReaderSet /\ N[k] \in Nat
    BY <1>7, <1>8 DEF Path
  <2> QED BY <1>7, <1>10, <2>1, Zenon
<1> DEFINE n == charlen - 1
           w == At(pchar, nchar + n)
           last == IF in.inlen % 2 = 1 THEN w % 256 ELSE w
<1>12. ReadLast(sec, reader).charlen = charlen
  <2>1. Holds(sec.pflag, reader.pflag, LastBytes(charlen))
    BY <1>11, Zenon DEF Ends
  <2>2. ReadLast(sec, reader) =
          [charlen |-> charlen, reader |-> [reader EXCEPT !.pflag = reader.pflag + Len(LastBytes(charlen))]]
    BY <1>4, <1>5, <1>11, <2>1, LastReads
  <2> QED BY <2>2
<1>13. n \in Nat /\ po + n = NWords - 1 /\ ~ (2 * (po + n) >= in.inlen)
       /\ 2 * (po + n) + 1 + (IF in.inlen % 2 = 0 THEN 1 ELSE 0) = in.inlen
  <2>1. in.inlen \in Nat /\ in.inlen > 8 /\ NWords = (in.inlen + 1) \div 2
    BY <1>4, InputIs DEF NWords
  <2>2. NWords = po + charlen
    BY <1>11
  <2>3. n \in Nat /\ po + n = NWords - 1
    BY <1>4, <1>5, <2>2
  <2>4. /\ ~ (2 * (NWords - 1) >= in.inlen)
        /\ 2 * (NWords - 1) + 1 + (IF in.inlen % 2 = 0 THEN 1 ELSE 0) = in.inlen
    BY <2>1, LastWord
  <2> QED BY <2>3, <2>4
<1>14. /\ out' = [j \in DOMAIN out |->
                    IF j - po \in 0 .. n - 1 THEN At(pchar, nchar + j - po)
                    ELSE IF j = po + n THEN last ELSE out[j]]
       /\ po' = po + n /\ ret' = 2 * (po + n) + 1 + (IF in.inlen % 2 = 0 THEN 1 ELSE 0)
       /\ nchar' = nchar + charlen /\ written' = Max({written, ret'})
  BY <1>12, <1>13 DEF decode_last
<1>15. w = At(in.word, po + n)
  <2>1. n \in 0 .. charlen - 1
    BY <1>4, <1>5
  <2> QED BY <1>11, <2>1, Zenon DEF Literals
<1>16. /\ DOMAIN out' = 0 .. NWords - 1
       /\ \A j \in 0 .. NWords - 1 :
            out'[j] = IF j - po \in 0 .. n - 1 THEN At(pchar, nchar + j - po)
                      ELSE IF j = po + n THEN last ELSE out[j]
  <2> HIDE DEF n, last
  <2> QED BY <1>4, <1>14, Zenon
<1>17. NWords \in Nat /\ in.inlen \in Nat
  BY <1>4, InputIs
<1> HIDE DEF w, last
<1>18. out'[po + n] = last
  <2>1. po + n \in 0 .. NWords - 1 /\ ~ ((po + n) - po \in 0 .. n - 1)
    <3>1. n \in Nat /\ po + n = NWords - 1 /\ po \in Nat /\ NWords \in Nat
      BY <1>5, <1>13, <1>17
    <3> HIDE DEF n
    <3> QED BY <3>1
  <2> HIDE DEF n
  <2> QED BY <1>16, <2>1, Zenon
<1>19. ASSUME NEW j \in 0 .. (po + n) - 1 PROVE out'[j] = At(in.word, j)
  <2>0. j \in 0 .. NWords - 1 /\ j # po + n /\ n \in Nat
    BY <1>5, <1>13, <1>17
  <2>1. CASE j < po
    <3>1. ~ (j - po \in 0 .. n - 1) /\ j \in 0 .. po - 1
      BY <1>5, <2>0, <2>1
    <3>2. out'[j] = out[j]
      <4> HIDE DEF n
      <4> QED BY <1>16, <2>0, <3>1, Zenon
    <3>3. out[j] = At(in.word, j)
      BY <1>5, <3>1, Zenon DEF Restored
    <3> QED BY <3>2, <3>3
  <2>2. CASE j >= po
    <3>1. /\ j - po \in 0 .. n - 1 /\ j - po \in 0 .. charlen - 1 /\ po + (j - po) = j
          /\ nchar + j - po = nchar + (j - po)
      BY <1>4, <1>5, <1>11, <2>0, <2>2
    <3>2. out'[j] = At(pchar, nchar + j - po)
      <4> HIDE DEF n
      <4> QED BY <1>16, <2>0, <3>1, Zenon
    <3>3. At(pchar, nchar + (j - po)) = At(in.word, po + (j - po))
      BY <1>11, <3>1, Zenon DEF Literals
    <3> QED BY <3>1, <3>2, <3>3
  <2> QED BY <1>5, <2>1, <2>2
<1>20. NWords' = NWords
  BY <1>2 DEF NWords
<1>21. TypeInv'
  <2>1. ret' = in.inlen
    BY <1>13, <1>14
  <2>2. written' \in Nat /\ (written' = written \/ written' = in.inlen)
    BY <1>4, <1>14, <1>17, <2>1, MaxOfTwo
  <2>3. written' \in Nat /\ written' <= in.inlen
    BY <1>4, <1>17, <2>2
  <2> QED BY <1>1, <1>2, <1>4, <1>16, <1>20, <2>3 DEF TypeInv
<1>22. BlockLossless'
  <2>1. \A j \in 0 .. po' - 1 : out'[j] = At(in'.word, j)
    BY <1>2, <1>14, <1>19, Zenon
  <2>2. ret' = in'.inlen /\ po' = NWords' - 1 /\ nchar' = Len(pchar')
    BY <1>2, <1>11, <1>13, <1>14, <1>20
  <2>3. out'[po'] = IF in'.inlen % 2 = 1 THEN At(in'.word, po') % 256 ELSE At(in'.word, po')
    <3>1. last = IF in.inlen % 2 = 1 THEN At(in.word, po + n) % 256 ELSE At(in.word, po + n)
      BY <1>15 DEF last
    <3> HIDE DEF n
    <3> QED BY <1>2, <1>14, <1>18, <3>1
  <2> QED BY <2>1, <2>2, <2>3, Zenon DEF BlockLossless, In
<1> QED BY <1>1, <1>21, <1>22 DEF BlockInv

-----------------------------------------------------------------------------
(* The theorems.                                                           *)

LEMMA StepKeeps == BlockInv /\ [Next]_vars => BlockInv'
<1> SUFFICES ASSUME BlockInv, [Next]_vars PROVE BlockInv'
  OBVIOUS
<1>1. CASE no_match
  BY <1>1, NoMatchKeeps
<1>2. CASE too_far
  BY <1>2, TooFarKeeps
<1>3. CASE match
  BY <1>3, MatchKeeps
<1>4. CASE last_block
  BY <1>4, LastBlockKeeps
<1>5. CASE decode_token
  BY <1>5, DecodeTokenKeeps
<1>6. CASE decode_last
  BY <1>6, DecodeLastKeeps
<1>7. CASE UNCHANGED vars
  <2>1. /\ in' = in /\ level' = level /\ size' = size /\ pc' = pc
        /\ pmyht' = pmyht /\ pcdll' = pcdll /\ pi' = pi /\ charlen' = charlen /\ pchar' = pchar
        /\ sec' = sec /\ read' = read /\ reader' = reader /\ nchar' = nchar /\ out' = out
        /\ po' = po /\ ret' = ret /\ written' = written
    BY <1>7 DEF vars, encvars, decvars
  <2>2. NWords' = NWords /\ UsesMc' = UsesMc
    BY <2>1 DEF NWords, UsesMc
  <2>3. TypeInv' <=> TypeInv
    BY <2>1, <2>2 DEF TypeInv
  <2>4. Searching' <=> Searching
    <3>1. Told' <=> Told
      BY <2>1, <2>2, Zenon DEF Told
    <3> QED BY <2>1, <2>2, <3>1 DEF Searching
  <2>5. Decoding' <=> Decoding
    BY <2>1, <2>2 DEF Decoding, In
  <2>6. BlockLossless' <=> BlockLossless
    BY <2>1, <2>2, Zenon DEF BlockLossless, In
  <2> QED BY <2>1, <2>3, <2>4, <2>5, <2>6 DEF BlockInv
<1> QED BY <1>1, <1>2, <1>3, <1>4, <1>5, <1>6, <1>7 DEF Next

\* For inputs of any length above 8 bytes, any hash and any largest distance that the
\* token format has room for, the tokens that an encoder has written and the literals
\* in pchar tell the input up to pi, and the decoder stands in front of one of them
\* with the words behind it restored.
THEOREM BlockInvariant == Spec => []BlockInv
BY InitBlock, StepKeeps, PTL DEF Spec

\* TablesBehind: neither hash table of lz16ENhashm, mc, Dm or Dmc ever holds the position
\* of the search or one ahead of it.
THEOREM TablesStayBehind == Spec => []TablesBehind
<1>1. BlockInv => TablesBehind
  <2> SUFFICES ASSUME BlockInv, pc = "search" PROVE TablesBehind
    BY DEF TablesBehind
  <2>1. Searching
    BY DEF BlockInv
  <2>2. Before(pmyht, pi) /\ Before(pcdll, pi)
    BY <2>1 DEF Searching
  <2> QED BY <2>2 DEF Before, TablesBehind
<1> QED BY <1>1, BlockInvariant, PTL

\* InsideBuffers: the search reads nothing behind the input, mylz16ENtailEndEx one byte
\* behind an input of odd length and none behind one of even length, and what the
\* decoder stores ahead of the position it has reached stays in the output.
THEOREM StaysInside == Spec => []InsideBuffers
<1>1. BlockInv => InsideBuffers
  <2> SUFFICES ASSUME BlockInv PROVE InsideBuffers
    OBVIOUS
  <2>1. /\ in \in Inputs /\ read \in Nat /\ read <= 2 * NWords
        /\ written <= in.inlen /\ (pc = "search" => read <= in.inlen)
    BY DEF BlockInv, TypeInv, Searching
  <2>2. 2 * NWords = in.inlen + (in.inlen % 2)
    <3> DEFINE x == in.inlen
    <3>1. x \in Nat
      BY <2>1, InputIs
    <3>2. NWords = (x + 1) \div 2
      BY DEF NWords
    <3> HIDE DEF x
    <3>3. 2 * NWords = x + (x % 2)
      BY <3>1, <3>2
    <3> QED BY <3>3 DEF x
  <2> QED BY <2>1, <2>2 DEF InsideBuffers
<1> QED BY <1>1, BlockInvariant, PTL

\* BlockLossless: lz16DEm and lz16DEmc refuse no block of the encoders, and restore the
\* input word by word to its last byte.
THEOREM RestoresBlock == Spec => []BlockLossless
<1>1. BlockInv => BlockLossless
  <2> SUFFICES ASSUME BlockInv PROVE BlockLossless
    OBVIOUS
  <2>1. pc \in {"search", "decode", "done"}
    BY DEF BlockInv, TypeInv
  <2>2. CASE pc = "search"
    <3>1. po = 0
      BY <2>2 DEF BlockInv, Searching
    <3>2. 0 .. po - 1 = {} /\ pc # "done"
      BY <2>2, <3>1
    <3> QED BY <3>2 DEF BlockLossless
  <2>3. CASE pc = "decode"
    <3>1. \A j \in 0 .. po - 1 : out[j] = In(j)
      BY <2>3, Zenon DEF BlockInv, Decoding
    <3>2. pc # "done"
      BY <2>3
    <3> QED BY <3>1, <3>2 DEF BlockLossless
  <2>4. CASE pc = "done"
    BY <2>4 DEF BlockInv
  <2> QED BY <2>1, <2>2, <2>3, <2>4
<1> QED BY <1>1, BlockInvariant, PTL
=============================================================================
