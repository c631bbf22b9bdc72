----------------------------- MODULE MCLz16Codec ----------------------------
(* Lz16Codec for TLC: tokens at the limits of every field. *)
EXTENDS Lz16Codec

Token(c, m, d) == [charlen |-> c, matchlen |-> m, matchdistance |-> d]

\* 3, 3 + 15, 3 + 30, 3 + 30 + 255 and the same without the 3, and around.
Charlens  == {0, 1, 3, 4, 15, 16, 18, 19, 30, 31, 33, 34, 285, 286, 288, 289}
\* 7, 7 + 15, 7 + 30, 7 + 30 + 255, 7 + 30 + 510.
Matchlens == {0, 1, 7, 8, 22, 23, 37, 38, 292, 293, 548}
\* 2^3, 2^5, 2^6, 2^8; 2^5 behind each of them; the limits of one and of two bytes.
Distances == UNION {{(2^k) - 1, 2^k, (2^k) + 1} : k \in {3, 5, 6, 8, 10, 11, 12, 13, 15, 17, 18}}
               \cup {1, 2, MYMATCHOFFSET_MAX - 1}

MCTokens == {Token(c, m, d) : c \in Charlens, m \in Matchlens, d \in {1, MYMATCHOFFSET_MAX - 1}}
              \cup {Token(c, m, d) : c \in {0, 5}, m \in {0, 2}, d \in Distances}
\* An odd and an even number of half bytes, at both kinds of level.
MCFirstTokens == {Token(1, 1, 1), Token(1, 0, 2^19), Token(5, 0, 1), Token(5, 8, 300)}
MCLastLens == {4, 5, 14, 15, 16, 269, 270, 525}
=============================================================================
