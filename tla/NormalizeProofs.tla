-------------------------- MODULE NormalizeProofs --------------------------
(***************************************************************************)
(* Proofs about NormalizeFreqs, for every alphabet, every target_total     *)
(* that fits in 16 bits and every table of counts.  What holds for all     *)
(* symbols of a table is proved by a smallest symbol for which it fails.   *)
(***************************************************************************)
EXTENDS NormalizeFreqs, WellFoundedInduction, SequenceTheorems, TLAPS

-----------------------------------------------------------------------------
(* Natural numbers.                                                        *)

\* Induction, in a form without an operator as a parameter.
LEMMA Least ==
  ASSUME NEW S, S \subseteq Nat, S # {}
  PROVE  \E x \in S : \A y \in S : x <= y
<1> DEFINE R == OpToRel(<, Nat)
<1>1. IsWellFoundedOn(R, Nat)
  BY NatLessThanWellFounded
<1>2. \A x, y \in Nat : y < x => <<y, x>> \in R
  BY DEF OpToRel
<1> HIDE DEF R
<1>3. PICK x \in S : \A y \in S : ~ (<<y, x>> \in R)
  BY <1>1, WFMin
<1>4. \A y \in S : ~ (y < x)
  BY <1>2, <1>3
<1> QED BY <1>4

\* Scaling keeps the order ...
LEMMA ScaleMonotone ==
  ASSUME NEW t \in Nat, NEW a \in Nat, NEW b \in Nat, a <= b, NEW n \in Nat, n > 0
  PROVE  /\ (t * a) \div n \in Nat
         /\ (t * a) \div n <= (t * b) \div n
<1>1. t * a <= t * b /\ t * a \in Nat /\ t * b \in Nat
  OBVIOUS
<1> DEFINE x == t * a
           y == t * b
<1>2. x <= y /\ x \in Nat /\ y \in Nat
  BY <1>1
<1> HIDE DEF x, y
<1>3. x \div n \in Nat /\ x \div n <= y \div n
  BY <1>2
<1> QED BY <1>3 DEF x, y

\* ... and is exact at the total.
LEMMA ScaleExact ==
  ASSUME NEW t \in Nat, NEW n \in Nat, n > 0
  PROVE  (t * n) \div n = t /\ (n * t) \div n = t
<1>1. t * n = n * t
  OBVIOUS
<1>2. (t * n) \div n = t
  OBVIOUS
<1> QED BY <1>1, <1>2

-----------------------------------------------------------------------------
(* Cumulative tables.                                                      *)

Rises(c, n) == \A s \in Symbols : s < n => c[s] <= c[s + 1]

\* Boundaries in order are in order at any distance.
LEMMA RisesFar ==
  ASSUME NEW c \in [Bounds -> Nat], NEW n \in Bounds, Rises(c, n),
         NEW a \in 0 .. n, NEW b \in 0 .. n, a <= b
  PROVE  c[a] <= c[b]
<1> SUFFICES ASSUME c[b] < c[a] PROVE FALSE
  BY SizeAssumption DEF Bounds
<1> DEFINE S == {s \in 0 .. n : a <= s /\ c[s] < c[a]}
<1>1. S \subseteq Nat /\ b \in S
  BY SizeAssumption DEF Bounds
<1>2. PICK x \in S : \A y \in S : x <= y
  BY <1>1, Least
<1>3. x \in 0 .. n /\ a <= x /\ c[x] < c[a]
  BY <1>2
<1>4. x # a
  BY <1>3, SizeAssumption DEF Bounds
<1>5. x - 1 \in 0 .. n /\ x - 1 \in Symbols /\ a <= x - 1 /\ x - 1 < n
  BY <1>3, <1>4, SizeAssumption DEF Bounds, Symbols
<1>6. x - 1 \notin S
  BY <1>2, <1>5
<1>7. ~ (c[x - 1] < c[a])
  BY <1>5, <1>6
<1>8. c[x - 1] <= c[x]
  <2>1. c[x - 1] <= c[x - 1 + 1]
    BY <1>5 DEF Rises
  <2>2. x - 1 + 1 = x
    BY <1>3
  <2> QED BY <2>1, <2>2
<1>9. c[a] \in Nat /\ c[x] \in Nat /\ c[x - 1] \in Nat
  BY <1>3, <1>5, SizeAssumption DEF Bounds
<1> QED BY <1>3, <1>7, <1>8, <1>9

\* A table of symbols f has the cumulative table c: it covers target_total, and
\* symbols that do not occur have no share.
Fits(f, c) ==
  /\ c \in [Bounds -> Nat] /\ c[0] = 0 /\ c[SymbolCount] = target_total
  /\ Rises(c, SymbolCount)
  /\ \A s \in Symbols : f[s] = 0 => c[s + 1] = c[s]

\* Where target_total >= SymbolCount and a symbol has nothing, another has two
\* units or more: with one unit each the boundaries c[s] would stay at most s,
\* and below s behind that symbol.
LEMMA GiverExists ==
  ASSUME NEW f, NEW c, Fits(f, c), NEW k \in Symbols, Width(c, k) = 0
  PROVE  Givers(c) # {}
<1> SUFFICES ASSUME Givers(c) = {} PROVE FALSE
  OBVIOUS
<1>1. \A s \in Symbols : c[s] \in Nat /\ c[s + 1] \in Nat /\ c[s + 1] <= c[s] + 1
  <2> TAKE s \in Symbols
  <2>1. s \in Bounds /\ s + 1 \in Bounds
    BY SizeAssumption DEF Bounds, Symbols
  <2>2. c[s] \in Nat /\ c[s + 1] \in Nat
    BY <2>1 DEF Fits
  <2>3. ~ (Width(c, s) > 1)
    BY DEF Givers
  <2> QED BY <2>2, <2>3 DEF Width
<1> DEFINE S == {s \in Bounds : c[s] > s \/ (s > k /\ c[s] > s - 1)}
<1>2. SymbolCount \in S
  BY SizeAssumption DEF Fits, Bounds, Symbols
<1>3. S \subseteq Nat
  BY SizeAssumption DEF Bounds
<1>4. PICK x \in S : \A y \in S : x <= y
  BY <1>2, <1>3, Least
<1>5. x # 0
  BY <1>4, SizeAssumption DEF Fits, Bounds, Symbols
<1>6. x - 1 \in Symbols /\ x - 1 \in Bounds /\ x - 1 \notin S
  BY <1>4, <1>5, SizeAssumption DEF Bounds, Symbols
<1>7. c[x - 1] \in Nat /\ c[x] \in Nat /\ c[x] <= c[x - 1] + 1
  BY <1>1, <1>6, <1>4, SizeAssumption DEF Bounds
<1> DEFINE a == c[x - 1]
           b == c[x]
<1>8. x \in Nat /\ k \in Nat /\ (b > x \/ (x > k /\ b > x - 1))
  BY <1>4, SizeAssumption DEF Bounds, Symbols
<1>9. ~ (a > x - 1) /\ ~ (x - 1 > k /\ a > (x - 1) - 1)
  BY <1>6
<1>10. a \in Nat /\ b \in Nat /\ b <= a + 1
  BY <1>7
<1>11. x - 1 = k => b - a = 0
  <2>1. (x - 1) + 1 = x
    BY <1>8
  <2> QED BY <2>1 DEF Width
<1> HIDE DEF S, a, b
<1> QED BY <1>8, <1>9, <1>10, <1>11

\* The search for the giver finds one.
LEMMA BestGiver ==
  ASSUME NEW c \in [Bounds -> Nat], Givers(c) # {}
  PROVE  \E s \in Givers(c) : \A r \in Givers(c) :
            \/ Width(c, s) < Width(c, r)
            \/ Width(c, s) = Width(c, r) /\ s <= r
<1>1. \A s \in Givers(c) : s \in Nat /\ Width(c, s) \in Nat
  <2> TAKE s \in Givers(c)
  <2>1. s \in Symbols /\ Width(c, s) > 1
    BY DEF Givers
  <2>2. s \in Nat /\ s \in Bounds /\ s + 1 \in Bounds
    BY <2>1, SizeAssumption DEF Bounds, Symbols
  <2>3. c[s] \in Nat /\ c[s + 1] \in Nat
    BY <2>2
  <2> QED BY <2>1, <2>2, <2>3 DEF Width
<1> DEFINE W == {Width(c, s) : s \in Givers(c)}
<1>2. PICK x \in W : \A y \in W : x <= y
  <2>1. W \subseteq Nat /\ W # {}
    BY <1>1, Zenon
  <2> HIDE DEF W
  <2> QED BY <2>1, Least
<1> DEFINE S == {s \in Givers(c) : Width(c, s) = x}
<1>3. PICK s \in S : \A r \in S : s <= r
  BY <1>1, <1>2, Least
<1>4. s \in Givers(c) /\ Width(c, s) = x
  BY <1>3
<1>5. ASSUME NEW r \in Givers(c)
      PROVE  \/ Width(c, s) < Width(c, r)
             \/ Width(c, s) = Width(c, r) /\ s <= r
  <2>1. x <= Width(c, r)
    BY <1>2
  <2>2. Width(c, r) = x => s <= r
    BY <1>3
  <2> QED BY <1>1, <1>4, <2>1, <2>2
<1> QED BY <1>4, <1>5

\* Moving the boundaries takes one unit from the giver g and gives it to i; all
\* other shares stay.
LEMMA StolenShares ==
  ASSUME NEW f, Fits(f, cum_freqs), i \in Symbols, Width(cum_freqs, i) = 0,
         NEW g \in Givers(cum_freqs)
  PROVE  /\ Stolen(g) \in [Bounds -> Nat]
         /\ Stolen(g)[0] = 0 /\ Stolen(g)[SymbolCount] = target_total
         /\ \A s \in Symbols : Width(Stolen(g), s) =
              IF s = i THEN 1
              ELSE IF s = g THEN Width(cum_freqs, s) - 1 ELSE Width(cum_freqs, s)
<1> DEFINE c == cum_freqs
           d == Stolen(g)
<1>1. c \in [Bounds -> Nat] /\ c[0] = 0 /\ c[SymbolCount] = target_total
  BY DEF Fits
<1>2. g \in Symbols /\ c[g + 1] - c[g] > 1 /\ c[i + 1] - c[i] = 0 /\ g # i
  BY DEF Givers, Width
<1>3. i \in 0 .. SymbolCount - 1 /\ g \in 0 .. SymbolCount - 1 /\ SymbolCount \in Nat
  BY <1>2, SizeAssumption DEF Symbols
<1>4. \A s \in Bounds : s \in g + 1 .. i => c[s] >= 1
  <2> SUFFICES ASSUME NEW s \in Bounds, s \in g + 1 .. i PROVE c[s] >= 1
    OBVIOUS
  <2>1. g + 1 \in 0 .. SymbolCount /\ s \in 0 .. SymbolCount /\ g + 1 <= s /\ SymbolCount \in Bounds
    BY <1>3 DEF Bounds
  <2>2. c[g + 1] <= c[s]
    BY <1>1, <2>1, RisesFar DEF Fits
  <2>3. c[g + 1] \in Nat /\ c[g] \in Nat /\ c[s] \in Nat
    BY <1>1, <1>3 DEF Bounds
  <2> QED BY <1>2, <2>2, <2>3
<1>5. \A s \in Bounds : c[s] \in Nat
  BY <1>1
<1>6. \A s \in Symbols : s \in Bounds /\ s + 1 \in Bounds /\ s \in Nat
  BY <1>3 DEF Bounds, Symbols
<1>7. 0 \in Bounds /\ SymbolCount \in Bounds
  BY <1>3 DEF Bounds
<1>8. CASE g < i
  <2>1. d = [s \in Bounds |-> IF s \in g + 1 .. i THEN c[s] - 1 ELSE c[s]]
    BY <1>8 DEF Stolen
  <2> HIDE DEF c, d
  <2>2. d \in [Bounds -> Nat]
    <3>1. \A s \in Bounds : (IF s \in g + 1 .. i THEN c[s] - 1 ELSE c[s]) \in Nat
      BY <1>4, <1>5
    <3> QED BY <2>1, <3>1
  <2>3. d[0] = c[0] /\ d[SymbolCount] = c[SymbolCount]
    BY <2>1, <1>3, <1>7
  <2>4. ASSUME NEW s \in Symbols
        PROVE  d[s + 1] - d[s] = IF s = i THEN 1
                 ELSE IF s = g THEN (c[s + 1] - c[s]) - 1 ELSE c[s + 1] - c[s]
    <3>1. d[s] = (IF s \in g + 1 .. i THEN c[s] - 1 ELSE c[s])
      BY <2>1, <1>6
    <3>2. d[s + 1] = (IF s + 1 \in g + 1 .. i THEN c[s + 1] - 1 ELSE c[s + 1])
      BY <2>1, <1>6
    <3>3. c[s] \in Nat /\ c[s + 1] \in Nat /\ s \in Nat
      BY <1>5, <1>6
    <3> QED BY <3>1, <3>2, <3>3, <1>2, <1>3, <1>8
  <2> QED BY <1>1, <2>2, <2>3, <2>4 DEF Width, c, d
<1>9. CASE i < g
  <2>1. d = [s \in Bounds |-> IF s \in i + 1 .. g THEN c[s] + 1 ELSE c[s]]
    BY <1>9, <1>3 DEF Stolen
  <2> HIDE DEF c, d
  <2>2. d \in [Bounds -> Nat]
    <3>1. \A s \in Bounds : (IF s \in i + 1 .. g THEN c[s] + 1 ELSE c[s]) \in Nat
      BY <1>5
    <3> QED BY <2>1, <3>1
  <2>3. d[0] = c[0] /\ d[SymbolCount] = c[SymbolCount]
    BY <2>1, <1>3, <1>7
  <2>4. ASSUME NEW s \in Symbols
        PROVE  d[s + 1] - d[s] = IF s = i THEN 1
                 ELSE IF s = g THEN (c[s + 1] - c[s]) - 1 ELSE c[s + 1] - c[s]
    <3>1. d[s] = (IF s \in i + 1 .. g THEN c[s] + 1 ELSE c[s])
      BY <2>1, <1>6
    <3>2. d[s + 1] = (IF s + 1 \in i + 1 .. g THEN c[s + 1] + 1 ELSE c[s + 1])
      BY <2>1, <1>6
    <3>3. c[s] \in Nat /\ c[s + 1] \in Nat /\ s \in Nat
      BY <1>5, <1>6
    <3> QED BY <3>1, <3>2, <3>3, <1>2, <1>3, <1>9
  <2> QED BY <1>1, <2>2, <2>3, <2>4 DEF Width, c, d
<1> QED BY <1>2, <1>3, <1>8, <1>9

-----------------------------------------------------------------------------
(* Entries of the table in front of a stream.                              *)

\* The bytes of an entry, by its width.
LEMMA OneByte ==
  ASSUME NEW f \in Nat, f <= 63
  PROVE  \E b \in Nat : Entry(f) = <<b>> /\ b % 4 = 0 /\ b \div 4 = f
<1> DEFINE b == (f * 4) % 256
<1>1. b \in Nat /\ b % 4 = 0 /\ b \div 4 = f
  OBVIOUS
<1>2. Entry(f) = <<b>>
  BY DEF Entry, BYTEof
<1> HIDE DEF b
<1> QED BY <1>1, <1>2

LEMMA TwoBytes ==
  ASSUME NEW f \in Nat, f > 63, f <= 16383
  PROVE  \E a, b \in Nat : Entry(f) = <<a, b>> /\ a % 4 = 1 /\ (a + b * 256) \div 4 = f
<1> DEFINE a == (f * 4 + 1) % 256
           b == ((f * 4 + 1) \div 256) % 256
<1>1. a \in Nat /\ b \in Nat /\ a % 4 = 1 /\ (a + b * 256) \div 4 = f
  OBVIOUS
<1>2. Entry(f) = WORDof(f * 4 + 1)
  BY DEF Entry
<1>3. WORDof(f * 4 + 1) = <<a, b>>
  BY DEF WORDof
<1> HIDE DEF a, b
<1> QED BY <1>1, <1>2, <1>3

LEMMA Triple ==
  ASSUME NEW a \in Nat, NEW b \in Nat, NEW c \in Nat
  PROVE  <<c>> \o <<a, b>> = <<c, a, b>>
<1> DEFINE u == <<c>>
           v == <<a, b>>
           w == <<c, a, b>>
           x == u \o v
<1>1. /\ u \in Seq(Nat) /\ v \in Seq(Nat) /\ w \in Seq(Nat)
      /\ Len(u) = 1 /\ Len(v) = 2 /\ Len(w) = 3
  OBVIOUS
<1>2. u[1] = c /\ v[1] = a /\ v[2] = b /\ w[1] = c /\ w[2] = a /\ w[3] = b
  OBVIOUS
<1> HIDE DEF u, v, w
<1>3. /\ x \in Seq(Nat) /\ Len(x) = Len(u) + Len(v)
      /\ \A k \in 1 .. Len(u) + Len(v) : x[k] = IF k <= Len(u) THEN u[k] ELSE v[k - Len(u)]
  BY <1>1, ConcatProperties, Zenon
<1> HIDE DEF x
<1>4. x[1] = c /\ x[2] = a /\ x[3] = b
  BY <1>1, <1>2, <1>3
<1>5. Len(x) = Len(w) /\ \A k \in 1 .. Len(x) : x[k] = w[k]
  BY <1>1, <1>2, <1>3, <1>4
<1>6. x = w
  BY <1>1, <1>3, <1>5, SeqEqual
<1> QED BY <1>6, Zenon DEF u, v, w, x

IsWide(f) == Entry(f) = <<2>> \o WORDof(f)

LEMMA WideBytes ==
  ASSUME NEW f \in Nat, IsWide(f)
  PROVE  Entry(f) = <<2, f % 256, (f \div 256) % 256>>
<1> DEFINE a == f % 256
           b == (f \div 256) % 256
<1>1. a \in Nat /\ b \in Nat /\ 2 \in Nat
  OBVIOUS
<1>2. WORDof(f) = <<a, b>>
  BY DEF WORDof
<1> HIDE DEF a, b
<1>3. <<2>> \o <<a, b>> = <<2, a, b>>
  BY <1>1, Triple, Zenon
<1>4. Entry(f) = <<2, a, b>>
  BY <1>2, <1>3, Zenon DEF IsWide
<1> QED BY <1>4, Zenon DEF a, b

LEMMA ThreeBytes ==
  ASSUME NEW f \in Nat, f > 16383, f < WORDs
  PROVE  \E a, b \in Nat : Entry(f) = <<2, a, b>> /\ a + b * 256 = f
<1> DEFINE a == f % 256
           b == (f \div 256) % 256
<1>1. a \in Nat /\ b \in Nat /\ a + b * 256 = f
  BY DEF WORDs
<1>2. IsWide(f)
  BY DEF IsWide, Entry, WORDs
<1>3. Entry(f) = <<2, a, b>>
  BY <1>2, WideBytes
<1> HIDE DEF a, b
<1> QED BY <1>1, <1>3

\* read_entry takes f from s and goes on at w.
Reads(s, f, w) == /\ s \in Seq(Nat)
                  /\ EntryAt(s) = f
                  /\ SubSeq(s, EntryWidth(s) + 1, Len(s)) = w

\* What write_entry put in front of w is read back.
LEMMA EntryReads ==
  ASSUME NEW f \in Nat, f < WORDs, NEW w \in Seq(Nat)
  PROVE  Reads(Entry(f) \o w, f, w)
<1> DEFINE s == Entry(f) \o w
<1>1. CASE f <= 63
  <2>1. PICK b \in Nat : Entry(f) = <<b>> /\ b % 4 = 0 /\ b \div 4 = f
    BY <1>1, OneByte
  <2>2. s = <<b>> \o w
    BY <2>1, Zenon
  <2> HIDE DEF s
  <2>3. s \in Seq(Nat) /\ s[1] = b /\ SubSeq(s, 2, Len(s)) = w
    BY <2>2
  <2>4. EntryWidth(s) = 1
    BY <2>1, <2>3 DEF EntryWidth
  <2>5. EntryAt(s) = s[1] \div 4
    BY <2>4 DEF EntryAt
  <2>6. EntryAt(s) = f
    BY <2>1, <2>3, <2>5, Zenon
  <2>7. EntryWidth(s) + 1 = 2
    BY <2>4
  <2>8. Reads(s, f, w)
    BY <2>3, <2>6, <2>7, Zenon DEF Reads
  <2> QED BY <2>8, Zenon DEF s
<1>2. CASE f > 63 /\ f <= 16383
  <2>1. PICK a, b \in Nat : Entry(f) = <<a, b>> /\ a % 4 = 1 /\ (a + b * 256) \div 4 = f
    BY <1>2, TwoBytes
  <2>2. s = <<a, b>> \o w
    BY <2>1, Zenon
  <2> HIDE DEF s
  <2>3. s \in Seq(Nat) /\ s[1] = a /\ s[2] = b /\ SubSeq(s, 3, Len(s)) = w
    BY <2>2
  <2>4. EntryWidth(s) = 2
    BY <2>1, <2>3 DEF EntryWidth
  <2>5. EntryAt(s) = WORDat(s) \div 4
    BY <2>4 DEF EntryAt
  <2>6. EntryAt(s) = f
    BY <2>1, <2>3, <2>5, Zenon DEF WORDat
  <2>7. EntryWidth(s) + 1 = 3
    BY <2>4
  <2>8. Reads(s, f, w)
    BY <2>3, <2>6, <2>7, Zenon DEF Reads
  <2> QED BY <2>8, Zenon DEF s
<1>3. CASE f > 16383
  <2>1. PICK a, b \in Nat : Entry(f) = <<2, a, b>> /\ a + b * 256 = f
    BY <1>3, ThreeBytes
  <2>2. s = <<2, a, b>> \o w
    BY <2>1, Zenon
  <2> HIDE DEF s
  <2>3. /\ s \in Seq(Nat) /\ s[1] = 2 /\ Tail(s)[1] = a /\ Tail(s)[2] = b
        /\ SubSeq(s, 4, Len(s)) = w
    BY <2>2
  <2>4. EntryWidth(s) = 3
    BY <2>3 DEF EntryWidth
  <2>5. EntryAt(s) = (s[1] \div 4) * WORDs + WORDat(Tail(s))
    BY <2>4 DEF EntryAt
  <2>6. WORDat(Tail(s)) = f
    BY <2>1, <2>3, Zenon DEF WORDat
  <2>7. EntryAt(s) = f
    BY <2>3, <2>5, <2>6 DEF WORDs
  <2>8. EntryWidth(s) + 1 = 4
    BY <2>4
  <2>9. Reads(s, f, w)
    BY <2>3, <2>7, <2>8, Zenon DEF Reads
  <2> QED BY <2>9, Zenon DEF s
<1>4. f <= 63 \/ (f > 63 /\ f <= 16383) \/ f > 16383
  OBVIOUS
<1> QED BY <1>1, <1>2, <1>3, <1>4

-----------------------------------------------------------------------------
(* The inductive invariant, a part for each phase.                         *)

\* f is a normalised table, and c its cumulative table.
IsTable(f, c) == /\ c \in [Bounds -> Nat] /\ c[0] = 0 /\ c[SymbolCount] = target_total
                 /\ Rises(c, SymbolCount)
                 /\ f = [s \in Symbols |-> Width(c, s)]

\* w[s] is the memory from the entry of symbol s on, in a header written down to n.
IsHeader(f, w, n) == /\ w \in [Bounds -> Seq(Nat)] /\ w[SymbolCount] = <<>>
                     /\ \A s \in Symbols : s >= n => w[s] = Entry(f[s]) \o w[s + 1]

Sums(f, c, n) == /\ c \in [Bounds -> Nat] /\ c[0] = 0
                 /\ \A s \in Symbols : s < n => c[s + 1] = c[s] + f[s]

\* Symbols before n that occur have a share.
Served(f, c, n) == \A s \in Symbols : s < n /\ f[s] # 0 => c[s] < c[s + 1]

ShapeInv == /\ counts \in Counts
            /\ i \in Bounds
            /\ pc \in {"encoder", "steal", "write", "read", "decoder", "steal_again", "done"}

EncoderInv == pc = "encoder" => /\ freqs = counts
                                /\ bytes = <<>>
                                /\ Sums(freqs, cum_freqs, i)

StealInv == pc = "steal" => /\ freqs = counts
                            /\ bytes = <<>>
                            /\ Fits(freqs, cum_freqs)
                            /\ Served(freqs, cum_freqs, i)

WriteInv == pc = "write" => /\ freqs = table
                            /\ \E c : IsTable(table, c)
                            /\ \E w : IsHeader(table, w, i) /\ bytes = w[i]

ReadInv == pc = "read" => /\ i # SymbolCount
                          /\ freqs \in [Symbols -> Nat]
                          /\ \A s \in Symbols : s < i => freqs[s] = table[s]
                          /\ cum_freqs = [s \in Bounds |-> 0]
                          /\ \E c : IsTable(table, c)
                          /\ \E w : IsHeader(table, w, 0) /\ bytes = w[i]

DecoderInv == pc = "decoder" => /\ freqs = table
                                /\ bytes = <<>>
                                /\ Sums(freqs, cum_freqs, i)
                                /\ \E c : IsTable(table, c)

AgainInv == pc = "steal_again" => /\ freqs = table
                                  /\ bytes = <<>>
                                  /\ IsTable(table, cum_freqs)

DoneInv == pc = "done" => freqs = table

NormInv == /\ ShapeInv /\ EncoderInv /\ StealInv /\ WriteInv
           /\ ReadInv /\ DecoderInv /\ AgainInv /\ DoneInv

-----------------------------------------------------------------------------
(* Summing and resampling.                                                 *)

LEMMA IndexFacts ==
  /\ SymbolCount \in Nat /\ SymbolCount > 0 /\ target_total \in Nat /\ target_total >= SymbolCount
  /\ target_total > 0 /\ target_total < WORDs
  /\ 0 \in Bounds /\ SymbolCount \in Bounds /\ Bounds \subseteq Nat
  /\ \A s \in Symbols : s \in Nat /\ s \in Bounds /\ s + 1 \in Bounds /\ s < SymbolCount
  /\ \A s \in Bounds : s < SymbolCount => s \in Symbols
BY SizeAssumption DEF Bounds, Symbols

LEMMA SumsStep ==
  ASSUME NEW f \in [Symbols -> Nat], NEW c, NEW n \in Symbols, Sums(f, c, n)
  PROVE  Sums(f, [c EXCEPT ![n + 1] = c[n] + f[n]], n + 1)
<1> DEFINE d == [c EXCEPT ![n + 1] = c[n] + f[n]]
<1>1. c \in [Bounds -> Nat] /\ c[0] = 0
  BY DEF Sums
<1>2. n \in Nat /\ n \in Bounds /\ n + 1 \in Bounds /\ n + 1 # 0 /\ 0 \in Bounds
  BY IndexFacts
<1>3. c[n] \in Nat /\ f[n] \in Nat
  BY <1>1, <1>2
<1>4. d \in [Bounds -> Nat] /\ d[0] = 0 /\ d[n + 1] = c[n] + f[n]
  BY <1>1, <1>2, <1>3
<1>5. \A s \in Bounds : s # n + 1 => d[s] = c[s]
  BY <1>1
<1>6. ASSUME NEW s \in Symbols, s < n + 1 PROVE d[s + 1] = d[s] + f[s]
  <2>1. s \in Nat /\ s \in Bounds /\ s + 1 \in Bounds
    BY IndexFacts
  <2>2. s # n + 1
    BY <2>1, <1>2, <1>6
  <2>3. CASE s = n
    BY <2>1, <2>2, <2>3, <1>4, <1>5
  <2>4. CASE s # n
    <3>1. s < n /\ s + 1 # n + 1
      BY <2>1, <2>4, <1>2, <1>6
    <3>2. c[s + 1] = c[s] + f[s]
      BY <3>1 DEF Sums
    <3> QED BY <3>1, <3>2, <2>1, <2>2, <1>5
  <2> QED BY <2>3, <2>4
<1> QED BY <1>4, <1>6 DEF Sums

\* The total of counts is not zero, and resampled boundaries cover target_total.
LEMMA ResampleFits ==
  ASSUME NEW f \in [Symbols -> Nat], \E s \in Symbols : f[s] # 0,
         NEW c, Sums(f, c, SymbolCount)
  PROVE  Fits(f, [s \in Bounds |-> (target_total * c[s]) \div c[SymbolCount]])
<1> DEFINE d == [s \in Bounds |-> (target_total * c[s]) \div c[SymbolCount]]
<1>1. c \in [Bounds -> Nat] /\ c[0] = 0
  BY DEF Sums
<1>2. \A s \in Symbols : c[s + 1] = c[s] + f[s] /\ c[s] \in Nat /\ c[s + 1] \in Nat /\ f[s] \in Nat
  BY <1>1, IndexFacts DEF Sums
<1>3. Rises(c, SymbolCount)
  BY <1>2 DEF Rises
<1>4. c[SymbolCount] \in Nat /\ c[SymbolCount] > 0
  <2>1. PICK s \in Symbols : f[s] # 0
    OBVIOUS
  <2>2. s + 1 \in 0 .. SymbolCount /\ SymbolCount \in 0 .. SymbolCount /\ s + 1 <= SymbolCount
    BY IndexFacts
  <2>3. c[s + 1] <= c[SymbolCount]
    BY <2>2, <1>1, <1>3, IndexFacts, RisesFar
  <2>4. c[SymbolCount] \in Nat
    BY <1>1, IndexFacts
  <2> QED BY <2>1, <2>3, <2>4, <1>2
<1> DEFINE t == c[SymbolCount]
<1>5. d \in [Bounds -> Nat]
  <2>1. \A s \in Bounds : (target_total * c[s]) \div t \in Nat
    <3> TAKE s \in Bounds
    <3>1. c[s] \in Nat /\ c[s] <= c[s]
      BY <1>1
    <3> QED BY <3>1, <1>4, IndexFacts, ScaleMonotone
  <2> QED BY <2>1
<1>6. d[0] = 0 /\ d[SymbolCount] = target_total
  <2>1. d[SymbolCount] = (target_total * t) \div t
    BY IndexFacts
  <2>2. d[SymbolCount] = target_total
    BY <2>1, <1>4, IndexFacts, ScaleExact
  <2>3. d[0] = (target_total * 0) \div t
    BY <1>1, IndexFacts
  <2>4. target_total * 0 = 0
    BY IndexFacts
  <2>5. 0 \div t = 0
    BY <1>4
  <2> QED BY <2>2, <2>3, <2>4, <2>5
<1>7. ASSUME NEW s \in Symbols
      PROVE  d[s] <= d[s + 1] /\ (f[s] = 0 => d[s + 1] = d[s])
  <2>1. d[s] = (target_total * c[s]) \div t /\ d[s + 1] = (target_total * c[s + 1]) \div t
    BY IndexFacts
  <2>2. c[s] \in Nat /\ c[s + 1] \in Nat /\ c[s] <= c[s + 1]
    BY <1>2
  <2>3. d[s] <= d[s + 1]
    BY <2>1, <2>2, <1>4, IndexFacts, ScaleMonotone
  <2>4. f[s] = 0 => c[s + 1] = c[s]
    BY <1>2
  <2> QED BY <2>1, <2>3, <2>4
<1> HIDE DEF d
<1>8. Fits(f, d)
  BY <1>5, <1>6, <1>7 DEF Fits, Rises
<1> QED BY <1>8 DEF d

\* The sums of a normalised table are its cumulative table ...
LEMMA SumsOfTable ==
  ASSUME NEW f, NEW e, IsTable(f, e), NEW c, Sums(f, c, SymbolCount)
  PROVE  c = e
<1>1. /\ c \in [Bounds -> Nat] /\ c[0] = 0 /\ e \in [Bounds -> Nat] /\ e[0] = 0
      /\ \A s \in Symbols : c[s + 1] = c[s] + Width(e, s)
  BY IndexFacts DEF Sums, IsTable
<1> DEFINE S == {s \in Bounds : c[s] # e[s]}
<1>2. ASSUME S # {} PROVE FALSE
  <2>1. PICK x \in S : \A y \in S : x <= y
    BY <1>2, IndexFacts, Least
  <2>2. x \in Nat /\ x # 0 /\ x \in Bounds /\ x <= SymbolCount /\ c[x] # e[x]
    BY <1>1, <2>1, IndexFacts DEF Bounds
  <2>3. x - 1 \in Symbols /\ x - 1 \in Bounds /\ x - 1 \notin S /\ x - 1 + 1 = x
    BY <2>1, <2>2, IndexFacts DEF Bounds, Symbols
  <2>4. c[x - 1] = e[x - 1] /\ e[x - 1] \in Nat /\ e[x] \in Nat
    BY <1>1, <2>2, <2>3
  <2>5. c[x] = c[x - 1] + (e[x] - e[x - 1])
    BY <1>1, <2>3 DEF Width
  <2> QED BY <2>2, <2>4, <2>5
<1>3. \A s \in Bounds : c[s] = e[s]
  BY <1>2
<1> QED BY <1>1, <1>3

\* ... which resampling leaves as it is.
LEMMA ResampleSame ==
  ASSUME NEW f, NEW c, IsTable(f, c)
  PROVE  [s \in Bounds |-> (target_total * c[s]) \div c[SymbolCount]] = c
<1>1. c \in [Bounds -> Nat] /\ c[SymbolCount] = target_total
  BY DEF IsTable
<1>2. \A s \in Bounds : (target_total * c[s]) \div target_total = c[s]
  <2> TAKE s \in Bounds
  <2>1. c[s] \in Nat
    BY <1>1
  <2> QED BY <2>1, IndexFacts, ScaleExact
<1> QED BY <1>1, <1>2

\* No entry is wider than target_total.
LEMMA TableBound ==
  ASSUME NEW f, NEW c, IsTable(f, c), NEW s \in Symbols
  PROVE  f[s] \in Nat /\ f[s] < WORDs
<1>1. c \in [Bounds -> Nat] /\ c[0] = 0 /\ c[SymbolCount] = target_total /\ Rises(c, SymbolCount)
      /\ f[s] = c[s + 1] - c[s]
  BY DEF IsTable, Width
<1>2. c[s] \in Nat /\ c[s + 1] \in Nat /\ c[s] <= c[s + 1]
  BY <1>1, IndexFacts DEF Rises
<1>3. s + 1 \in 0 .. SymbolCount /\ SymbolCount \in 0 .. SymbolCount /\ s + 1 <= SymbolCount
  BY IndexFacts
<1>4. c[s + 1] <= c[SymbolCount]
  BY <1>1, <1>3, IndexFacts, RisesFar
<1>5. WORDs \in Nat
  BY DEF WORDs
<1> QED BY <1>1, <1>2, <1>4, <1>5, IndexFacts

-----------------------------------------------------------------------------
(* Stealing.                                                               *)

LEMMA BestStealGives ==
  ASSUME cum_freqs \in [Bounds -> Nat], Givers(cum_freqs) # {}
  PROVE  best_steal \in Givers(cum_freqs)
<1>1. \E s \in Givers(cum_freqs) : \A r \in Givers(cum_freqs) :
          \/ Width(cum_freqs, s) < Width(cum_freqs, r)
          \/ Width(cum_freqs, s) = Width(cum_freqs, r) /\ s <= r
  BY BestGiver
<1> QED BY <1>1, Zenon DEF best_steal

\* One round with a giver g: the table still fits, and the symbols that had a
\* share, and now i, have one.
LEMMA StolenFits ==
  ASSUME NEW f, Fits(f, cum_freqs), Served(f, cum_freqs, i), i \in Symbols,
         f[i] # 0, Width(cum_freqs, i) = 0, NEW g \in Givers(cum_freqs)
  PROVE  Fits(f, Stolen(g)) /\ Served(f, Stolen(g), i + 1)
<1> DEFINE c == cum_freqs
           d == Stolen(g)
<1>1. /\ d \in [Bounds -> Nat] /\ d[0] = 0 /\ d[SymbolCount] = target_total
      /\ \A s \in Symbols : Width(d, s) =
           IF s = i THEN 1 ELSE IF s = g THEN Width(c, s) - 1 ELSE Width(c, s)
  BY StolenShares
<1>2. c \in [Bounds -> Nat] /\ Width(c, g) > 1 /\ g \in Symbols
  BY DEF Fits, Givers
<1> HIDE DEF c, d
<1>3. ASSUME NEW s \in Symbols
      PROVE  /\ d[s] <= d[s + 1]
             /\ f[s] = 0 => d[s + 1] = d[s]
             /\ s < i + 1 /\ f[s] # 0 => d[s] < d[s + 1]
  <2>1. s \in Nat /\ i \in Nat /\ d[s] \in Nat /\ d[s + 1] \in Nat /\ c[s] \in Nat /\ c[s + 1] \in Nat
    BY <1>1, <1>2, IndexFacts
  <2>2. d[s + 1] - d[s] = IF s = i THEN 1
          ELSE IF s = g THEN (c[s + 1] - c[s]) - 1 ELSE c[s + 1] - c[s]
    BY <1>1 DEF Width
  <2>3. c[s] <= c[s + 1] /\ (f[s] = 0 => c[s + 1] = c[s])
    BY IndexFacts DEF Fits, Rises, c
  <2>4. s < i /\ f[s] # 0 => c[s] < c[s + 1]
    BY DEF Served, c
  <2>5. s = g => c[s + 1] - c[s] > 1
    BY <1>2 DEF Width
  <2>6. CASE s = i
    BY <2>1, <2>2, <2>6
  <2>7. CASE s # i /\ s = g
    BY <2>1, <2>2, <2>3, <2>5, <2>7
  <2>8. CASE s # i /\ s # g
    <3>1. d[s + 1] - d[s] = c[s + 1] - c[s]
      BY <2>2, <2>8
    <3>2. s < i + 1 => s < i
      BY <2>1, <2>8
    <3> QED BY <2>1, <2>3, <2>4, <3>1, <3>2
  <2> QED BY <2>6, <2>7, <2>8
<1>4. Fits(f, d)
  BY <1>1, <1>3 DEF Fits, Rises
<1>5. Served(f, d, i + 1)
  BY <1>3 DEF Served
<1> QED BY <1>4, <1>5 DEF d

-----------------------------------------------------------------------------
(* Every step keeps the invariant.                                         *)

LEMMA CountsOccur ==
  ASSUME counts \in Counts
  PROVE  counts \in [Symbols -> Nat] /\ \E s \in Symbols : counts[s] # 0
BY SizeAssumption

LEMMA calc_cum_freqs_Inv ==
  ASSUME NormInv, calc_cum_freqs
  PROVE  NormInv'
<1> USE DEF NormInv, ShapeInv
<1>1. i \in Symbols /\ i' = i + 1 /\ i' \in Bounds /\ pc' = pc /\ Summing
  BY IndexFacts DEF calc_cum_freqs
<1>2. cum_freqs' = [cum_freqs EXCEPT ![i + 1] = cum_freqs[i] + freqs[i]]
  BY DEF calc_cum_freqs
<1>3. UNCHANGED <<counts, freqs, table, bytes, pc>>
  BY DEF calc_cum_freqs
<1>4. ShapeInv'
  BY <1>1, <1>3
<1>5. CASE pc = "encoder"
  <2>1. freqs \in [Symbols -> Nat] /\ Sums(freqs, cum_freqs, i)
    BY <1>5, CountsOccur DEF EncoderInv
  <2>2. Sums(freqs, cum_freqs', i')
    BY <2>1, <1>1, <1>2, SumsStep
  <2>3. EncoderInv'
    BY <2>2, <1>1, <1>3, <1>5 DEF EncoderInv
  <2> QED BY <2>3, <1>1, <1>4, <1>5
      DEF StealInv, WriteInv, ReadInv, DecoderInv, AgainInv, DoneInv
<1>6. CASE pc = "decoder"
  <2>1. PICK c : IsTable(table, c)
    BY <1>6 DEF DecoderInv
  <2>2. freqs = table /\ bytes = <<>> /\ Sums(freqs, cum_freqs, i)
    BY <1>6 DEF DecoderInv
  <2>3. freqs \in [Symbols -> Nat]
    <3>1. table = [s \in Symbols |-> Width(c, s)]
      BY <2>1 DEF IsTable
    <3>2. \A s \in Symbols : table[s] \in Nat
      BY <2>1, TableBound
    <3> QED BY <2>2, <3>1, <3>2
  <2>4. Sums(freqs, cum_freqs', i')
    BY <2>2, <2>3, <1>1, <1>2, SumsStep
  <2>5. DecoderInv'
    BY <2>1, <2>2, <2>4, <1>3 DEF DecoderInv
  <2> QED BY <2>5, <1>1, <1>4, <1>6
      DEF EncoderInv, StealInv, WriteInv, ReadInv, AgainInv, DoneInv
<1> QED BY <1>1, <1>5, <1>6 DEF Summing

LEMMA resample_Inv ==
  ASSUME NormInv, resample
  PROVE  NormInv'
<1> USE DEF NormInv, ShapeInv
<1>1. i = SymbolCount /\ i' = 0 /\ i' \in Bounds /\ Summing
  BY IndexFacts DEF resample
<1>2. cum_freqs' = [s \in Bounds |-> (target_total * cum_freqs[s]) \div cum_freqs[SymbolCount]]
  BY DEF resample
<1>3. UNCHANGED <<counts, freqs, table, bytes>>
  BY DEF resample
<1>4. CASE pc = "encoder"
  <2>1. pc' = "steal"
    BY <1>4 DEF resample
  <2>2. freqs = counts /\ bytes = <<>> /\ Sums(freqs, cum_freqs, SymbolCount)
    BY <1>1, <1>4 DEF EncoderInv
  <2>3. freqs \in [Symbols -> Nat] /\ \E s \in Symbols : freqs[s] # 0
    BY <2>2, CountsOccur
  <2>4. Fits(freqs, cum_freqs')
    BY <2>2, <2>3, <1>2, ResampleFits
  <2>5. Served(freqs, cum_freqs', 0)
    BY IndexFacts DEF Served
  <2>6. StealInv'
    BY <2>2, <2>4, <2>5, <1>1, <1>3 DEF StealInv
  <2> QED BY <2>1, <2>6, <1>1, <1>3
      DEF EncoderInv, WriteInv, ReadInv, DecoderInv, AgainInv, DoneInv
<1>5. CASE pc = "decoder"
  <2>1. pc' = "steal_again"
    BY <1>5 DEF resample
  <2>2. PICK c : IsTable(table, c)
    BY <1>5 DEF DecoderInv
  <2>3. freqs = table /\ bytes = <<>> /\ Sums(table, cum_freqs, SymbolCount)
    BY <1>1, <1>5 DEF DecoderInv
  <2>4. cum_freqs = c
    BY <2>2, <2>3, SumsOfTable
  <2>5. IsTable(table, cum_freqs)
    BY <2>2, <2>4
  <2>6. cum_freqs' = cum_freqs
    BY <2>5, <1>2, ResampleSame
  <2>7. AgainInv'
    BY <2>3, <2>5, <2>6, <1>3 DEF AgainInv
  <2> QED BY <2>1, <2>7, <1>1, <1>3
      DEF EncoderInv, StealInv, WriteInv, ReadInv, DecoderInv, DoneInv
<1> QED BY <1>1, <1>4, <1>5 DEF Summing

\* In the encoder somebody can give; in the decoder nobody asks.
LEMMA NukedFindsGiver ==
  ASSUME NormInv, Stealing, i \in Symbols, Nuked
  PROVE  /\ pc = "steal" /\ Givers(cum_freqs) # {}
         /\ best_steal \in Givers(cum_freqs) /\ best_steal # i
<1> USE DEF NormInv
<1>1. freqs[i] # 0 /\ Width(cum_freqs, i) = 0
  BY DEF Nuked
<1>2. pc # "steal_again"
  <2> SUFFICES ASSUME pc = "steal_again" PROVE FALSE
    OBVIOUS
  <2>1. freqs = [s \in Symbols |-> Width(cum_freqs, s)]
    BY DEF AgainInv, IsTable
  <2> QED BY <1>1, <2>1
<1>3. pc = "steal"
  BY <1>2 DEF Stealing
<1>4. Fits(freqs, cum_freqs)
  BY <1>3 DEF StealInv
<1>5. Givers(cum_freqs) # {}
  BY <1>1, <1>4, GiverExists
<1>6. best_steal \in Givers(cum_freqs)
  BY <1>4, <1>5, BestStealGives DEF Fits
<1>7. best_steal # i
  <2>1. Width(cum_freqs, best_steal) > 1
    BY <1>6 DEF Givers
  <2> QED BY <1>1, <2>1
<1> QED BY <1>3, <1>5, <1>6, <1>7

LEMMA steal_Inv ==
  ASSUME NormInv, steal
  PROVE  NormInv'
<1> USE DEF NormInv, ShapeInv
<1>1. i \in Symbols /\ i' = i + 1 /\ i' \in Bounds /\ pc' = pc /\ Stealing
  BY IndexFacts DEF steal
<1>2. UNCHANGED <<counts, freqs, table, bytes, pc>>
  BY DEF steal
<1>3. CASE pc = "steal"
  <2>1. freqs = counts /\ bytes = <<>> /\ Fits(freqs, cum_freqs) /\ Served(freqs, cum_freqs, i)
    BY <1>3 DEF StealInv
  <2>2. Fits(freqs, cum_freqs') /\ Served(freqs, cum_freqs', i')
    <3>1. CASE Nuked
      <4>1. cum_freqs' = Stolen(best_steal)
        BY <3>1 DEF steal
      <4>2. best_steal \in Givers(cum_freqs)
        BY <1>1, <3>1, NukedFindsGiver
      <4>3. freqs[i] # 0 /\ Width(cum_freqs, i) = 0
        BY <3>1 DEF Nuked
      <4> QED BY <4>1, <4>2, <4>3, <2>1, <1>1, StolenFits
    <3>2. CASE ~ Nuked
      <4>1. cum_freqs' = cum_freqs
        BY <3>2 DEF steal
      <4>2. freqs[i] # 0 => cum_freqs[i] < cum_freqs[i + 1]
        <5>1. freqs[i] # 0 => cum_freqs[i + 1] - cum_freqs[i] # 0
          BY <3>2 DEF Nuked, Width
        <5>2. cum_freqs[i] \in Nat /\ cum_freqs[i + 1] \in Nat /\ cum_freqs[i] <= cum_freqs[i + 1]
          BY <1>1, <2>1, IndexFacts DEF Fits, Rises
        <5> QED BY <5>1, <5>2
      <4>3. \A s \in Symbols : s < i + 1 => s < i \/ s = i
        BY <1>1, IndexFacts
      <4>4. Served(freqs, cum_freqs, i + 1)
        BY <2>1, <4>2, <4>3 DEF Served
      <4> QED BY <4>1, <4>4, <2>1, <1>1
    <3> QED BY <3>1, <3>2
  <2>3. StealInv'
    BY <2>1, <2>2, <1>2 DEF StealInv
  <2> QED BY <2>3, <1>1, <1>2, <1>3
      DEF EncoderInv, WriteInv, ReadInv, DecoderInv, AgainInv, DoneInv
<1>4. CASE pc = "steal_again"
  <2>1. ~ Nuked
    BY <1>1, <1>4, NukedFindsGiver
  <2>2. cum_freqs' = cum_freqs
    BY <2>1 DEF steal
  <2>3. AgainInv'
    BY <2>2, <1>2, <1>4 DEF AgainInv
  <2> QED BY <2>3, <1>1, <1>2, <1>4
      DEF EncoderInv, StealInv, WriteInv, ReadInv, DecoderInv, DoneInv
<1> QED BY <1>1, <1>3, <1>4 DEF Stealing

LEMMA update_Inv ==
  ASSUME NormInv, update
  PROVE  NormInv'
<1> USE DEF NormInv, ShapeInv
<1>1. i = SymbolCount /\ i' = i /\ Stealing
  BY DEF update
<1>2. freqs' = [s \in Symbols |-> Width(cum_freqs, s)]
  BY DEF update
<1>3. UNCHANGED <<counts, cum_freqs, bytes, i>>
  BY DEF update
<1>4. CASE pc = "steal"
  <2>1. pc' = "write" /\ table' = freqs'
    BY <1>4 DEF update
  <2>2. IsTable(freqs', cum_freqs)
    BY <1>2, <1>4 DEF StealInv, Fits, IsTable
  <2>3. WriteInv'
    <3> DEFINE w == [s \in Bounds |-> <<>>]
    <3>1. w \in [Bounds -> Seq(Nat)] /\ w[SymbolCount] = <<>>
      BY IndexFacts
    <3>2. \A s \in Symbols : ~ (s >= SymbolCount)
      BY IndexFacts
    <3>3. \A f : IsHeader(f, w, SymbolCount)
      BY <3>1, <3>2 DEF IsHeader
    <3>4. bytes' = w[SymbolCount] /\ i' = SymbolCount
      BY <3>1, <1>1, <1>3, <1>4 DEF StealInv
    <3> HIDE DEF w
    <3>5. IsHeader(table', w, i') /\ bytes' = w[i'] /\ IsTable(table', cum_freqs)
      BY <3>3, <3>4, <2>1, <2>2
    <3> QED BY <3>5, <2>1 DEF WriteInv
  <2> QED BY <2>1, <2>3, <1>1, <1>3
      DEF EncoderInv, StealInv, ReadInv, DecoderInv, AgainInv, DoneInv
<1>5. CASE pc = "steal_again"
  <2>1. pc' = "done" /\ table' = table
    BY <1>5 DEF update
  <2>2. freqs' = table
    BY <1>2, <1>5 DEF AgainInv, IsTable
  <2>3. DoneInv'
    BY <2>1, <2>2 DEF DoneInv
  <2> QED BY <2>1, <2>3, <1>1, <1>3
      DEF EncoderInv, StealInv, WriteInv, ReadInv, DecoderInv, AgainInv
<1> QED BY <1>1, <1>4, <1>5 DEF Stealing

LEMMA write_entry_Inv ==
  ASSUME NormInv, write_entry
  PROVE  NormInv'
<1> USE DEF NormInv, ShapeInv
<1>1. pc = "write" /\ pc' = "write" /\ i \in Bounds /\ i > 0 /\ i' = i - 1
  BY DEF write_entry
<1>2. UNCHANGED <<counts, freqs, cum_freqs, table, pc>>
  BY DEF write_entry
<1>3. freqs = table /\ \E c : IsTable(table, c)
  BY <1>1 DEF WriteInv
<1>4. PICK w : IsHeader(table, w, i) /\ bytes = w[i]
  BY <1>1 DEF WriteInv
<1> DEFINE k == i - 1
           e == Entry(table[k]) \o w[i]
           v == [w EXCEPT ![k] = e]
<1>5. k \in Symbols /\ k \in Bounds /\ k + 1 = i /\ k # SymbolCount /\ k # i
  BY <1>1, IndexFacts DEF Bounds, Symbols
<1>6. w \in [Bounds -> Seq(Nat)] /\ w[SymbolCount] = <<>> /\ w[i] \in Seq(Nat)
  BY <1>1, <1>4 DEF IsHeader
<1>7. bytes' = e /\ i' = k
  BY <1>1, <1>3, <1>4 DEF write_entry
<1>8. e \in Seq(Nat)
  <2>1. PICK c : IsTable(table, c)
    BY <1>3
  <2>2. table[k] \in Nat /\ table[k] < WORDs
    BY <2>1, <1>5, TableBound
  <2> HIDE DEF k
  <2>3. Reads(Entry(table[k]) \o w[i], table[k], w[i])
    BY <2>2, <1>6, EntryReads
  <2> QED BY <2>3, Zenon DEF Reads
<1> HIDE DEF e
<1>9. v \in [Bounds -> Seq(Nat)] /\ v[SymbolCount] = <<>> /\ v[k] = e
  BY <1>5, <1>6, <1>8, IndexFacts
<1>10. \A s \in Bounds : s # k => v[s] = w[s]
  BY <1>6
<1>11. ASSUME NEW s \in Symbols, s >= k PROVE v[s] = Entry(table[s]) \o v[s + 1]
  <2>1. s \in Nat /\ s \in Bounds /\ s + 1 \in Bounds /\ k \in Nat /\ i \in Nat
    BY <1>5, IndexFacts
  <2>2. s + 1 # k
    BY <2>1, <1>11
  <2>3. v[s + 1] = w[s + 1]
    BY <2>1, <2>2, <1>10
  <2>4. CASE s = k
    <3>1. s + 1 = i
      BY <2>4, <1>5
    <3>2. v[s] = e /\ v[s + 1] = w[i] /\ e = Entry(table[s]) \o w[i]
      BY <2>3, <2>4, <3>1, <1>9 DEF e
    <3> QED BY <3>2, Zenon
  <2>5. CASE s # k
    <3>1. s >= i
      BY <2>1, <2>5, <1>5, <1>11
    <3>2. w[s] = Entry(table[s]) \o w[s + 1]
      BY <3>1, <1>4, Zenon DEF IsHeader
    <3>3. v[s] = w[s]
      BY <2>1, <2>5, <1>10
    <3> QED BY <2>3, <3>2, <3>3, Zenon
  <2> QED BY <2>4, <2>5
<1>12. IsHeader(table, v, k)
  BY <1>9, <1>11, Zenon DEF IsHeader
<1> HIDE DEF v, k
<1>13. WriteInv'
  BY <1>2, <1>3, <1>7, <1>9, <1>12, Zenon DEF WriteInv
<1>14. i' \in Bounds
  BY <1>5, <1>7
<1> QED BY <1>1, <1>2, <1>13, <1>14
    DEF EncoderInv, StealInv, ReadInv, DecoderInv, AgainInv, DoneInv

LEMMA start_reading_Inv ==
  ASSUME NormInv, start_reading
  PROVE  NormInv'
<1> USE DEF NormInv, ShapeInv
<1>1. pc = "write" /\ pc' = "read" /\ i = 0
  BY DEF start_reading
<1>2. UNCHANGED <<counts, table, bytes, i>>
  BY DEF start_reading
<1>3. freqs' = [s \in Symbols |-> 0] /\ cum_freqs' = [s \in Bounds |-> 0]
  BY DEF start_reading
<1>4. freqs' \in [Symbols -> Nat] /\ i' # SymbolCount /\ i' = 0 /\ i' \in Bounds
  BY <1>1, <1>2, <1>3, IndexFacts
<1>5. \A s \in Symbols : ~ (s < 0)
  BY IndexFacts
<1>6. \E c : IsTable(table, c)
  BY <1>1 DEF WriteInv
<1>7. \E w : IsHeader(table, w, 0) /\ bytes = w[0]
  BY <1>1 DEF WriteInv
<1>8. ReadInv'
  BY <1>2, <1>3, <1>4, <1>5, <1>6, <1>7 DEF ReadInv
<1> QED BY <1>1, <1>2, <1>4, <1>8
    DEF EncoderInv, StealInv, WriteInv, DecoderInv, AgainInv, DoneInv

LEMMA read_entry_Inv ==
  ASSUME NormInv, read_entry
  PROVE  NormInv'
<1> USE DEF NormInv, ShapeInv
<1>1. pc = "read" /\ i \in Bounds /\ i # SymbolCount
  BY DEF read_entry, ReadInv
<1>2. i \in Symbols /\ i + 1 \in Bounds /\ i \in Nat /\ ~ (i < 0)
  BY <1>1, IndexFacts DEF Bounds, Symbols
<1>3. UNCHANGED <<counts, cum_freqs, table>>
  BY DEF read_entry
<1>4. PICK c : IsTable(table, c)
  BY <1>1 DEF ReadInv
<1>5. PICK w : IsHeader(table, w, 0) /\ bytes = w[i]
  BY <1>1 DEF ReadInv
<1>6. Reads(bytes, table[i], w[i + 1])
  <2>1. w[i + 1] \in Seq(Nat)
    BY <1>2, <1>5 DEF IsHeader
  <2>2. table[i] \in Nat /\ table[i] < WORDs
    BY <1>2, <1>4, TableBound
  <2>3. Reads(Entry(table[i]) \o w[i + 1], table[i], w[i + 1])
    BY <2>1, <2>2, EntryReads
  <2>4. i >= 0
    BY <1>2
  <2>5. bytes = Entry(table[i]) \o w[i + 1]
    BY <2>4, <1>2, <1>5, Zenon DEF IsHeader
  <2> QED BY <2>3, <2>5, Zenon
<1>7. bytes' = w[i + 1] /\ EntryAt(bytes) = table[i]
  BY <1>6, Zenon DEF Reads, read_entry
<1>8. table[i] \in Nat
  BY <1>2, <1>4, TableBound
<1>9. freqs \in [Symbols -> Nat] /\ \A s \in Symbols : s < i => freqs[s] = table[s]
  BY <1>1 DEF ReadInv
<1>10. freqs' = [freqs EXCEPT ![i] = table[i]]
  BY <1>7 DEF read_entry
<1>11. freqs' \in [Symbols -> Nat] /\ \A s \in Symbols : s < i + 1 => freqs'[s] = table[s]
  <2>1. freqs' \in [Symbols -> Nat]
    BY <1>8, <1>9, <1>10
  <2>2. ASSUME NEW s \in Symbols, s < i + 1 PROVE freqs'[s] = table[s]
    <3>1. s = i \/ s < i
      BY <1>2, <2>2, IndexFacts
    <3>2. CASE s = i
      BY <3>2, <1>9, <1>10
    <3>3. CASE s # i
      BY <3>1, <3>3, <1>9, <1>10
    <3> QED BY <3>2, <3>3
  <2> QED BY <2>1, <2>2
<1>12. CASE i + 1 # SymbolCount
  <2>1. i' = i + 1 /\ pc' = "read"
    BY <1>1, <1>12 DEF read_entry
  <2>2. cum_freqs' = [s \in Bounds |-> 0]
    BY <1>1, <1>3 DEF ReadInv
  <2>3. ReadInv'
    BY <2>1, <2>2, <1>3, <1>4, <1>5, <1>7, <1>11, <1>12 DEF ReadInv
  <2> QED BY <2>1, <2>3, <1>2, <1>3
      DEF EncoderInv, StealInv, WriteInv, DecoderInv, AgainInv, DoneInv
<1>13. CASE i + 1 = SymbolCount
  <2>1. i' = 0 /\ pc' = "decoder" /\ i' \in Bounds
    BY <1>13, IndexFacts DEF read_entry
  <2>2. bytes' = <<>>
    BY <1>5, <1>7, <1>13 DEF IsHeader
  <2>3. freqs' = table
    <3>1. table = [s \in Symbols |-> Width(c, s)]
      BY <1>4 DEF IsTable
    <3>2. \A s \in Symbols : freqs'[s] = table[s]
      BY <1>11, <1>13, IndexFacts
    <3> QED BY <3>1, <3>2, <1>11
  <2>4. cum_freqs = [s \in Bounds |-> 0]
    BY <1>1 DEF ReadInv
  <2>5. \A f : Sums(f, cum_freqs, 0)
    BY <2>4, IndexFacts DEF Sums
  <2>6. DecoderInv'
    BY <2>1, <2>2, <2>3, <2>5, <1>3, <1>4 DEF DecoderInv
  <2> QED BY <2>1, <2>6, <1>3
      DEF EncoderInv, StealInv, WriteInv, ReadInv, AgainInv, DoneInv
<1> QED BY <1>12, <1>13

-----------------------------------------------------------------------------
(* Theorems.                                                               *)

LEMMA NormInit == Init => NormInv
<1> SUFFICES ASSUME Init PROVE NormInv
  OBVIOUS
<1>1. counts \in Counts /\ i = 0 /\ pc = "encoder" /\ freqs = counts /\ bytes = <<>>
  BY DEF Init
<1>2. Sums(freqs, cum_freqs, 0)
  BY IndexFacts DEF Init, Sums
<1> QED BY <1>1, <1>2, IndexFacts
    DEF NormInv, ShapeInv, EncoderInv, StealInv, WriteInv, ReadInv, DecoderInv, AgainInv, DoneInv

LEMMA NormStep == NormInv /\ [Next]_vars => NormInv'
<1> SUFFICES ASSUME NormInv, [Next]_vars PROVE NormInv'
  OBVIOUS
<1>1. CASE Next
  BY <1>1, calc_cum_freqs_Inv, resample_Inv, steal_Inv, update_Inv,
     write_entry_Inv, start_reading_Inv, read_entry_Inv DEF Next
<1>2. CASE UNCHANGED vars
  BY <1>2 DEF vars, NormInv, ShapeInv, EncoderInv, StealInv, WriteInv, ReadInv,
              DecoderInv, AgainInv, DoneInv
<1> QED BY <1>1, <1>2

\* The invariant of the phases holds, for every alphabet and every counts.
THEOREM TableInvariant == Spec => []NormInv
BY NormInit, NormStep, PTL DEF Spec

\* The two assertions about best_steal never fail: whoever was rounded to
\* nothing finds another symbol that can give.
THEOREM StealFindsGiver == Spec => []StealSucceeds
<1>1. NormInv => StealSucceeds
  <2> SUFFICES ASSUME NormInv, Stealing, i < SymbolCount, Nuked
               PROVE  Givers(cum_freqs) # {} /\ best_steal # i
    BY DEF StealSucceeds
  <2>1. i \in Symbols
    BY IndexFacts DEF NormInv, ShapeInv
  <2> QED BY <2>1, NukedFindsGiver
<1> QED BY <1>1, TableInvariant, PTL

\* The assertions at the end of normalize_freqs hold: the table sums to
\* target_total and gives a share to the symbols that occur, and only to them.
THEOREM TableIsSound == Spec => []TableSound
<1>1. NormInv => TableSound
  <2> SUFFICES ASSUME NormInv, pc = "steal", i = SymbolCount
               PROVE  /\ cum_freqs[0] = 0 /\ cum_freqs[SymbolCount] = target_total
                      /\ \A s \in Symbols : IF counts[s] = 0
                                            THEN cum_freqs[s + 1] = cum_freqs[s]
                                            ELSE cum_freqs[s + 1] > cum_freqs[s]
    BY DEF TableSound
  <2>1. /\ freqs = counts /\ Fits(freqs, cum_freqs)
        /\ Served(freqs, cum_freqs, SymbolCount)
    BY DEF NormInv, StealInv
  <2>2. ASSUME NEW s \in Symbols
        PROVE  /\ counts[s] = 0 => cum_freqs[s + 1] = cum_freqs[s]
               /\ counts[s] # 0 => cum_freqs[s + 1] > cum_freqs[s]
    <3>1. s < SymbolCount /\ cum_freqs[s] \in Nat /\ cum_freqs[s + 1] \in Nat
      BY <2>1, IndexFacts DEF Fits
    <3> QED BY <2>1, <3>1 DEF Fits, Served
  <2> QED BY <2>1, <2>2 DEF Fits
<1> QED BY <1>1, TableInvariant, PTL

\* The decoder reads the table back entry by entry, to its last byte, and
\* normalising it again changes nothing.
THEOREM TablesAgree == Spec => []SameTable
<1>1. NormInv => SameTable
  BY DEF NormInv, DecoderInv, DoneInv, SameTable
<1> QED BY <1>1, TableInvariant, PTL
=============================================================================
