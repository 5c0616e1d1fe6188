---------------------------- MODULE MCCollections ---------------------------
(* MVRegister.tla and ORSet.tla at model-checking size.  The two hold no    *)
(* state in common: in each behaviour one moves and the other stays as it   *)
(* was initialised.                                                        *)
EXTENDS MVRegister, ORSet, TLC

CONSTANTS p, q, r3, u, v

VARIABLE moving    \* the collection that moves

(* Three and two interchangeable values serve both modules, which keeps the *)
(* symmetry group small.                                                   *)
Writers == {p, q, r3}
Elems == {p, q, r3}
Values == {u, v}
Replicas == {u, v}

CollectionsSymmetry == Permutations(Writer) \cup Permutations(Value)

-----------------------------------------------------------------------------
CollectionsInit ==
  /\ RegisterInit /\ SetInit
  /\ moving \in {"register", "set"}

CollectionsNext ==
  /\ \/ moving = "register" /\ RegisterNext /\ UNCHANGED setVars
     \/ moving = "set" /\ SetNext /\ UNCHANGED regVars
  /\ UNCHANGED moving

CollectionsSpec ==
  CollectionsInit /\ [][CollectionsNext]_<<regVars, setVars, moving>>
=============================================================================
