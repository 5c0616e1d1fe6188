------------------------------- MODULE ORSet --------------------------------
(***************************************************************************)
(* The add-only OR-set of src/crdt.c, replicated: each peer adds to its    *)
(* own replica and merges copies other peers sent, at any time, in any     *)
(* order, any number of times, or never.  A replica holds at most SetMax   *)
(* elements, and the allocation of a new one may fail.                     *)
(***************************************************************************)
EXTENDS Integers, Sequences, SequencesExt

CONSTANTS
  Replica,     \* the replicas
  Elem,        \* the strings added
  SetMax,      \* QUILT_OR_SET_MAX
  MallocFails, \* whether malloc may return NULL
  MaxMail      \* bound on the copies on their way, for model checking

ASSUME SetAssumption == SetMax \in Nat /\ MallocFails \in BOOLEAN /\ MaxMail \in Nat

VARIABLES
  adds,        \* [Replica -> Seq(Elem)]: the live prefix of each replica's array
  mail,        \* the copies that may still arrive
  heard,       \* history: [Replica -> SUBSET Elem], the elements added to a replica
               \* or merged into it since it was last freed
  refused      \* history: [Replica -> SUBSET Elem], the elements a merge had no
               \* memory or no room for, there or on their way there, and that
               \* were not taken since

setVars == <<adds, mail, heard, refused>>

-----------------------------------------------------------------------------
(* quilt_or_set_add, when malloc fails exactly for the elements of lost.    *)
(* It returns -1 when it leaves the set without e.                         *)
Added(s, e, lost) ==
  IF e \in ToSet(s) \cup lost \/ Len(s) >= SetMax THEN s ELSE Append(s, e)

(* A mutated form of the next definition: the loop ends one element early.  *)
UnionButLast(dst, src, lost) ==
  FoldLeft(LAMBDA s, e : Added(s, e, lost), dst,
           SubSeq(src, 1, Len(src) - 1))

(* A mutated form of the next definition: it ends at the first failure.      *)
UnionUpToFailure(dst, src, lost) ==
  LET before == {k \in DOMAIN src : \A j \in 1 .. k : src[j] \notin lost \/ src[j] \in ToSet(dst)}
  IN  FoldLeft(LAMBDA s, e : Added(s, e, lost), dst, SubSeq(src, 1, Cardinality(before)))

(* quilt_or_set_merge adds the elements of src in order and does not look   *)
(* at what quilt_or_set_add returns.                                       *)
UnionOf(dst, src, lost) == FoldLeft(LAMBDA s, e : Added(s, e, lost), dst, src)

Lost == IF MallocFails THEN SUBSET Elem ELSE {{}}

SetInit ==
  /\ adds = [r \in Replica |-> << >>]
  /\ mail = {}
  /\ heard = [r \in Replica |-> {}]
  /\ refused = [r \in Replica |-> {}]

(* An add that is refused changes nothing. *)
Add(r, e) ==
  /\ e \in ToSet(adds[r]) \/ Len(adds[r]) < SetMax
  /\ adds' = [adds EXCEPT ![r] = Added(adds[r], e, {})]
  /\ heard' = [heard EXCEPT ![r] = @ \cup {e}]
  /\ refused' = [refused EXCEPT ![r] = @ \ {e}]
  /\ UNCHANGED mail

(* The transport, which src/ leaves to the caller. *)
SendSet(r) ==
  /\ Cardinality(mail) < MaxMail
  /\ mail' = mail \cup {[adds |-> adds[r], heard |-> heard[r], refused |-> refused[r]]}
  /\ UNCHANGED <<adds, heard, refused>>

LoseSet(m) ==
  /\ mail' = mail \ {m}
  /\ UNCHANGED <<adds, heard, refused>>

(* A merge loses the new elements for which malloc fails, and any of them   *)
(* when the others do not all fit.                                         *)
Refused(r, m, lost) ==
  LET new == ToSet(m.adds) \ ToSet(adds[r])
  IN  IF Len(adds[r]) + Cardinality(new \ lost) > SetMax THEN new ELSE new \cap lost

MergeSet(r, m, lost) ==
  /\ adds' = [adds EXCEPT ![r] = UnionOf(adds[r], m.adds, lost)]
  /\ heard' = [heard EXCEPT ![r] = @ \cup m.heard]
  /\ refused' =
       [refused EXCEPT ![r] = (@ \cup m.refused \cup Refused(r, m, lost)) \ ToSet(adds'[r])]
  /\ UNCHANGED mail

FreeSet(r) ==
  /\ adds' = [adds EXCEPT ![r] = << >>]
  /\ heard' = [heard EXCEPT ![r] = {}]
  /\ refused' = [refused EXCEPT ![r] = {}]
  /\ UNCHANGED mail

SetNext ==
  \/ \E r \in Replica, e \in Elem : Add(r, e)
  \/ \E r \in Replica : SendSet(r)
  \/ \E m \in mail : LoseSet(m)
  \/ \E r \in Replica, m \in mail, lost \in Lost : MergeSet(r, m, lost)
  \/ \E r \in Replica : FreeSet(r)

SetSpec == SetInit /\ [][SetNext]_setVars

-----------------------------------------------------------------------------
(* A replica never outgrows its array nor keeps an element twice; it holds  *)
(* only elements it has heard of, and each of them unless a merge found no  *)
(* room or no memory for this very one: a merge does not stop at the first  *)
(* it cannot take.                                                         *)
HoldsTheSeen ==
  \A r \in Replica :
    /\ Len(adds[r]) <= SetMax /\ IsInjective(adds[r])
    /\ ToSet(adds[r]) \subseteq heard[r]
    /\ heard[r] \ refused[r] \subseteq ToSet(adds[r])
=============================================================================
