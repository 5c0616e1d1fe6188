----------------------------- MODULE CellStore ------------------------------
(***************************************************************************)
(* What the engine of src/engine.c promises to a caller that only sees     *)
(* ids: a store of versioned values with a tick.  A value never changes    *)
(* without its version going up by exactly one, FORGET removes one id and  *)
(* touches no other, and the tick moves in steps of one.                   *)
(***************************************************************************)
EXTENDS Integers

CONSTANTS Id, Value, Incomparable

VARIABLES store, tick

EmptyStore == [id \in {} |-> {}]

Init == store = EmptyStore /\ tick = 0

(* A BIND of a new id starts at version 1, a registered formula at 0. *)
Create(id, v, version) ==
  /\ id \notin DOMAIN store
  /\ store' = [x \in DOMAIN store \cup {id} |->
                 IF x = id THEN [value |-> v, version |-> version] ELSE store[x]]
  /\ UNCHANGED tick

(* BIND or EFFECT with a value that is not quilt_v_eq to the old one. *)
Update(id, v) ==
  /\ store[id].value # v \/ v \in Incomparable
  /\ store' = [store EXCEPT ![id] = [value |-> v, version |-> store[id].version + 1]]
  /\ UNCHANGED tick

Remove(id) ==
  /\ store' = [x \in DOMAIN store \ {id} |-> store[x]]
  /\ UNCHANGED tick

Advance == tick' = tick + 1 /\ UNCHANGED store

Next ==
  \/ \E id \in Id, v \in Value, version \in {0, 1} : Create(id, v, version)
  \/ \E id \in DOMAIN store, v \in Value : Update(id, v)
  \/ \E id \in DOMAIN store : Remove(id)
  \/ Advance

Spec == Init /\ [][Next]_<<store, tick>>
=============================================================================
