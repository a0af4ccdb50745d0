---------------------------- MODULE MCActiveRuns ----------------------------
(* Model-checking instances of ActiveRuns.                                  *)
EXTENDS ActiveRuns, TLC

CONSTANTS x1, x2, x3, c1, d1, d2

Symmetry == Permutations({x1, x2, x3} \cap Externals)
=============================================================================
