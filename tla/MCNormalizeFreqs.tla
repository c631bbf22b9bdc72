-------------------------- MODULE MCNormalizeFreqs --------------------------
(* NormalizeFreqs for TLC. *)
EXTENDS NormalizeFreqs, Functions

CONSTANTS Lengths,   \* the section lengths used (inlen)
          Edges      \* counts to combine with what is left of the length

\* At most one count is not in Edges.
MCCounts ==
  UNION {{[r \in Symbols |-> IF r = s THEN inlen - FoldFunction(+, 0, f) ELSE f[r]] :
            f \in {g \in [Symbols \ {s} -> Edges] : FoldFunction(+, 0, g) <= inlen}} :
         inlen \in Lengths, s \in Symbols}
=============================================================================
