--------------------------- MODULE MCEngineLinks ----------------------------
(* EngineLinks.tla at model-checking size: value cells only, since links    *)
(* and evaluations have nothing to do with each other.                     *)
EXTENDS EngineLinks, TLC

CONSTANTS a, b, c, d

Ids == {a, b, c, d}
Len1 == [id \in Id |-> 1]
Zero == {0}
None == {}
NoEval(f, inputs) == 0

IdSymmetry == Permutations(Id)
=============================================================================
