------------------------ MODULE MCPhasicGeneration ------------------------
(* Instances of PhasicGeneration for TLC. *)
EXTENDS PhasicGeneration, TLC

CONSTANTS r1, r2, p1, p2

OneRequest  == {r1}
TwoRequests == {r1, r2}
OneName     == {p1}
TwoNames    == {p1, p2}

RequestSymmetry == Permutations(Requests)
===========================================================================
