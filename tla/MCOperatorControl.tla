--------------------------- MODULE MCOperatorControl ---------------------------
(***************************************************************************)
(* Instances of OperatorControl: two calls that overlap, one submission    *)
(* that runs and two that cancel, each of which may be sent again, and     *)
(* enough keys for a retry to be minted under the old key or a new one.    *)
(***************************************************************************)
EXTENDS OperatorControl, TLC

CONSTANTS k1, k2, r1, r2, c1, c2, go, halt, halt2

MCWants == [s \in Submission |-> IF s = go THEN "run" ELSE "cancel"]

Symmetry == Permutations(Key) \cup Permutations(Run) \cup Permutations(Call)
                \cup Permutations(Submission \ {go})
===============================================================================
