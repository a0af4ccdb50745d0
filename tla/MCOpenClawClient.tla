------------------------- MODULE MCOpenClawClient ---------------------------
(* Model-checking instances of OpenClawClient.                              *)
EXTENDS OpenClawClient, TLC

CONSTANTS main, knob, serial, r1, r2, r3, e1

AllTasks == {main, knob, serial}
TwoRequests == {r1, r2}
ThreeRequests == {r1, r2, r3}

Symmetry == Permutations(Requests) \cup Permutations(Tasks)
=============================================================================
