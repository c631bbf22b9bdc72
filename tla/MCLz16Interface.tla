-------------------------- MODULE MCLz16Interface ---------------------------
(* Lz16Interface for TLC. *)
EXTENDS Lz16Interface, FiniteSetsExt

Shape(a, b, c, d, e) == [s \in Sections |-> CASE s = 0 -> a [] s = 1 -> b [] s = 2 -> c [] s = 3 -> d [] s = 4 -> e]

\* Sections around the 4096 bytes of mylz16torans64 ...
PackShapes == {Shape(a, b, c, d, e) : a \in {10, 100, 4094, 4096}, b \in {2, 100, 4095, 4096},
                 c \in {0, 1, 100, 4095, 4096}, d \in {1, 100, 4095, 4096}, e \in {1, 100, 4095, 4096}}

\* ... of the shortest input that can have them and is still made smaller.
Shortest(l) == Max({HeadLen + Total(l) + 1, l[0] + 4 * (l[1] - 1), 4 * l[4]})

PackCalls ==
  {c \in {[inlen |-> Shortest(l), outlen |-> Max({1024, 2 * Shortest(l)}), level |-> 2,
           zeroed |-> TRUE, keep |-> "buffer", len |-> l] : l \in PackShapes} :
     Feasible(c.inlen, c.len)}

\* Inputs without a match, with few words in matches (pchar over its capacity), with
\* as many tokens as there can be (not made smaller), and nearly one long match.
Shapes(n) ==
  LET lit == 2 * ((3 * n) \div 8)
      t == (Words(n) - lit \div 2) \div 2
  IN  {l \in {Shape(2 * Words(n), 1, 0, 2 + n \div 510, 1),
              Shape(2 * ((9 * n) \div 20), 2, 0, 2, 1),
              Shape(lit, t + 1, 2 * t, t + 2, Words(n) \div 2),
              Shape(10, 2, 1, 2, 2)} : Feasible(n, l)}

Outlens(n) == {2 * n - 1, 2 * n, 1023, 1024, (5 * n + 1) \div 2, (5 * n) \div 2 + 90}

EdgeCalls ==
  UNION {{[inlen |-> n, outlen |-> o, level |-> v, zeroed |-> z, keep |-> k, len |-> l] :
            o \in Outlens(n), v \in 1 .. 4, z \in BOOLEAN, k \in {"buffer", "returned"},
            l \in Shapes(n)} : n \in {8, 9, 20, 409, 410, 511, 512, 5001, 40000}}

\* ranscompress at its best and at its worst.
MCEncodedLengths(n) == {280, 540 + n + n \div 128}

MCCalls == PackCalls \cup EdgeCalls

\* Literals for the most part, in a clear buffer of the length that is asked for.
RetryCalls == {c \in EdgeCalls : /\ c.inlen = 40000 /\ c.outlen = 2 * c.inlen /\ c.zeroed
                                 /\ c.level = 1 /\ c.keep = "buffer"
                                 /\ c.len[0] = 36000}
\* No distance needs a byte of its own, and a later section is long.
EmptyCalls == {c \in PackCalls : c.len[2] = 0 /\ c.len[4] = 4096}
=============================================================================
