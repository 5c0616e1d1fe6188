------------------------------ MODULE MCEngine ------------------------------
(* Engine.tla at model-checking size: one formula cell, which reads a value *)
(* cell and itself.                                                        *)
EXTENDS Engine

CONSTANTS a, b

Ids == {a, b}
Len1 == [id \in Id |-> 1]
Bits == {0, 1}
None == {}

Sum == {"sum"}
MCEval(f, inputs) ==
  IF Len(inputs) = 2 THEN (inputs[1] + inputs[2]) % 2 ELSE 0

SelfReading == {[id |-> b, eval |-> "sum", reads |-> <<a, b>>]}
=============================================================================
