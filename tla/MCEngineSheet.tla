--------------------------- MODULE MCEngineSheet ----------------------------
(* EngineSheet.tla at model-checking size: three cells that may each be a   *)
(* formula, registered in any order, before or after the cell they read.   *)
EXTENDS EngineSheet

CONSTANTS a, b, c, nan

Ids == {a, b, c}
Len1 == [id \in Id |-> 1]
BitsAndNaN == {0, 1, nan}
NaN == {nan}
Not == {"not"}

MCEval(f, inputs) ==
  IF inputs = << >> THEN 0 ELSE IF inputs[1] = nan THEN nan ELSE 1 - inputs[1]

(* c = not b, b = not a, and a either has no reads or closes the circle. *)
Chain == {[id |-> c, eval |-> "not", reads |-> <<b>>],
          [id |-> b, eval |-> "not", reads |-> <<a>>],
          [id |-> a, eval |-> "not", reads |-> << >>],
          [id |-> a, eval |-> "not", reads |-> <<c>>]}
=============================================================================
