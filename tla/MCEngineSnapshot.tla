-------------------------- MODULE MCEngineSnapshot --------------------------
(* EngineSnapshot.tla at model-checking size. *)
EXTENDS EngineSnapshot, TLC

CONSTANTS a, b

Ids == {a, b}
Len1 == [id \in Id |-> 1]
None == {}
NoEval(f, inputs) == [t |-> "NULL", u |-> 0]

(* With Half = 2: beyond 16 bits, beyond minus one, one, a text. *)
Values4 ==
  {[t |-> "INT", u |-> 2], [t |-> "FLOAT", u |-> -6], [t |-> "FLOAT", u |-> 4],
   [t |-> "STR", u |-> 1]}

Values == Values4 \cup {DialToValue(r) : r \in UNION {DialFromValue(v) : v \in Values4}}

IdSymmetry == Permutations(Id)
=============================================================================
