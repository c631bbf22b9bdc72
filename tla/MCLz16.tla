------------------------------- MODULE MCLz16 -------------------------------
(* Lz16 for TLC: inputs that repeat with every short period, with a word      *)
(* changed somewhere, with one period beyond MYMATCHOFFSET_MAX, pairs of      *)
(* words in any order, which give matches of two words in a row, and inputs   *)
(* too short for a search, or with one or two rounds of it.                   *)
EXTENDS Lz16

\* n words of period p, but for the word at position f.
Periodic(n, p, f) == [k \in 1 .. n |-> IF k = f THEN p ELSE (k - 1) % p]

\* Of an odd number of bytes the last word has a stray upper byte.
Odd(n, w) == [inlen |-> 2 * n - 1, word |-> [w EXCEPT ![n] = @ + 256]]
Even(n, w) == [inlen |-> 2 * n, word |-> w]

\* 22 words: the pairs 0, 1, 2, then four of them in any order, then rest.
Pairs(q) == [k \in 1 .. 22 |-> LET j == (k + 1) \div 2
                                   c == IF j <= 3 THEN j - 1 ELSE IF j <= 7 THEN q[j - 3] ELSE 0
                               IN  2 * c + (k % 2)]

MCInputs ==
  UNION {UNION {{Even(n, Periodic(n, p, f)), Odd(n, Periodic(n, p, f))} : f \in 0 .. n - 8}
           : n \in {13, 22, 29}, p \in 1 .. 5}
    \cup UNION {{Even(n, Periodic(n, p, 0)), Odd(n, Periodic(n, p, 0))} : n \in 5 .. 11, p \in 1 .. 2}
    \cup {Even(62, Periodic(62, p, f)) : p \in {1, 2, 4, 22, 26}, f \in {0, 3, 28, 40}}
    \cup {Even(22, Pairs(q)) : q \in [1 .. 4 -> 0 .. 2]}

MCHash(a, b) == a + 31 * b
=============================================================================
