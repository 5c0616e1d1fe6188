---------------------------- MODULE MCCycleWalk -----------------------------
(* CycleWalk.tla at model-checking size. *)
EXTENDS CycleWalk

CONSTANTS a, b, c

Ids == {a, b, c}
Len1 == [id \in Id |-> 1]
Zero == {0}
None == {}
NoEval(f, inputs) == 0
=============================================================================
