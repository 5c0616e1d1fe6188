----------------------------- MODULE PNCounter ------------------------------
(***************************************************************************)
(* The PN-counter of src/crdt.c, replicated: every peer counts in its own  *)
(* slot of its own replica and merges copies other peers sent, at any      *)
(* time, in any order, any number of times, or never.                      *)
(***************************************************************************)
EXTENDS Integers, Sequences, FiniteSets, Functions

CONSTANTS
  Slots,       \* the 256 slots of a counter; slot i belongs to peer i
  MaxInt,      \* INT64_MAX, where a slot saturates
  LamportMax,    \* QUILT_LAMPORT_MAX, where the clock saturates
  MaxOps,      \* bound on the operations of all peers, for model checking
  MaxSent      \* bound on the copies on their way, for model checking

Peer == 0 .. Slots - 1

ASSUME CounterAssumption ==
  Slots \in Nat /\ MaxInt \in Nat /\ LamportMax \in Nat /\ MaxOps \in Nat /\ MaxSent \in Nat

VARIABLES
  counter,     \* [Peer -> Counter]: each peer's replica
  sent,        \* the copies that may still arrive
  made,        \* history: made[r][k], peer r's own slot after its k-th operation
  known        \* history: known[r][s], how many operations of s peer r has seen

counterVars == <<counter, sent, made, known>>

Counter == [p : [Peer -> 0 .. MaxInt], n : [Peer -> 0 .. MaxInt], clock : 0 .. LamportMax]

Op == [kind : {"inc", "dec"}, p : 0 .. MaxInt, n : 0 .. MaxInt, clock : 0 .. LamportMax]

Copy == [counter : Counter, known : [Peer -> Nat]]

(* One type invariant for the replicas, the wire and the histories. *)
CounterTypeOK ==
  /\ counter \in [Peer -> Counter]
  /\ sent \subseteq Copy
  /\ made \in [Peer -> Seq(Op)]
  /\ known \in [Peer -> [Peer -> Nat]]

-----------------------------------------------------------------------------
(* A mutated form of the next definition: the addition may overflow. *)
Unsaturated(x, max) == x + 1

Saturated(x, max) == IF x < max THEN x + 1 ELSE x

Larger(x, y) == IF y > x THEN y ELSE x

Incremented(c, peer) ==
  [p     |-> [c.p EXCEPT ![peer] = Saturated(c.p[peer], MaxInt)],
   n     |-> c.n,
   clock |-> Saturated(c.clock, LamportMax)]

Decremented(c, peer) ==
  [p     |-> c.p,
   n     |-> [c.n EXCEPT ![peer] = Saturated(c.n[peer], MaxInt)],
   clock |-> Saturated(c.clock, LamportMax)]

(* Mutated forms of the next definition: the clock is not merged, and the   *)
(* increments are added up.                                                *)
MergedKeepsClock(dst, src) ==
  [p     |-> [s \in Peer |-> Larger(dst.p[s], src.p[s])],
   n     |-> [s \in Peer |-> Larger(dst.n[s], src.n[s])],
   clock |-> dst.clock]

MergedBySum(dst, src) ==
  [p     |-> [s \in Peer |-> dst.p[s] + src.p[s]],
   n     |-> [s \in Peer |-> Larger(dst.n[s], src.n[s])],
   clock |-> Larger(dst.clock, src.clock)]

Merged(dst, src) ==
  [p     |-> [s \in Peer |-> Larger(dst.p[s], src.p[s])],
   n     |-> [s \in Peer |-> Larger(dst.n[s], src.n[s])],
   clock |-> Larger(dst.clock, src.clock)]

(* quilt_pn_counter_value adds up the slots in order; once a partial sum    *)
(* leaves int64 the result is undefined and may be anything.               *)
Int64 == -MaxInt - 1 .. MaxInt

PartialSums(c) ==
  LET sum[i \in 0 .. Slots] == IF i = 0 THEN 0 ELSE sum[i - 1] + c.p[i - 1] - c.n[i - 1]
  IN  sum

Fits(c) == \A i \in 1 .. Slots : {PartialSums(c)[i - 1] + c.p[i - 1], PartialSums(c)[i]} \subseteq Int64

Values(c) == IF Fits(c) THEN {PartialSums(c)[Slots]} ELSE Int64

CounterInit ==
  /\ counter = [r \in Peer |-> [p |-> [s \in Peer |-> 0], n |-> [s \in Peer |-> 0], clock |-> 0]]
  /\ sent = {}
  /\ made = [r \in Peer |-> << >>]
  /\ known = [r \in Peer |-> [s \in Peer |-> 0]]

(* Peer r turns its replica into c by one operation of its own. *)
Operate(r, kind, c) ==
  /\ SumFunction([s \in Peer |-> Len(made[s])]) < MaxOps
  /\ counter' = [counter EXCEPT ![r] = c]
  /\ made' = [made EXCEPT ![r] =
       Append(made[r], [kind |-> kind, p |-> c.p[r], n |-> c.n[r], clock |-> c.clock])]
  /\ known' = [known EXCEPT ![r] = [known[r] EXCEPT ![r] = Len(made[r]) + 1]]
  /\ UNCHANGED sent

Inc(r) == Operate(r, "inc", Incremented(counter[r], r))

Dec(r) == Operate(r, "dec", Decremented(counter[r], r))

(* The transport, which src/ leaves to the caller. *)
SendCopy(r) ==
  /\ Cardinality(sent) < MaxSent
  /\ sent' = sent \cup {[counter |-> counter[r], known |-> known[r]]}
  /\ UNCHANGED <<counter, made, known>>

LoseCopy(m) ==
  /\ sent' = sent \ {m}
  /\ UNCHANGED <<counter, made, known>>

Merge(r, m) ==
  /\ counter' = [counter EXCEPT ![r] = Merged(counter[r], m.counter)]
  /\ known' = [known EXCEPT ![r] = [s \in Peer |-> Larger(known[r][s], m.known[s])]]
  /\ UNCHANGED <<sent, made>>

CounterNext ==
  \/ \E r \in Peer : Inc(r)
  \/ \E r \in Peer : Dec(r)
  \/ \E r \in Peer : SendCopy(r)
  \/ \E m \in sent : LoseCopy(m)
  \/ \E r \in Peer, m \in sent : Merge(r, m)

CounterSpec == CounterInit /\ [][CounterNext]_counterVars

-----------------------------------------------------------------------------
(* Replicas that have seen the same operations are equal, in both counts of *)
(* every slot and in the clock, whatever order the copies came in.         *)
CounterConverges ==
  \A r, s \in Peer : known[r] = known[s] => counter[r] = counter[s]

(* As long as a replica has seen at most MaxInt increments and at most      *)
(* MaxInt decrements, its value is the difference: no merge loses, repeats  *)
(* or invents one, and the sum does not leave int64 half way, in whatever   *)
(* slots they are.  Only behind that limit are counts lost, or the sum      *)
(* undefined although its result would fit.                                 *)
Seen(r, kind) ==
  {op \in UNION {{s} \X (1 .. known[r][s]) : s \in Peer} : made[op[1]][op[2]].kind = kind}

ValueCountsTheSeen ==
  \A r \in Peer :
    LET incs == Cardinality(Seen(r, "inc"))
        decs == Cardinality(Seen(r, "dec"))
    IN  incs <= MaxInt /\ decs <= MaxInt => Values(counter[r]) = {incs - decs}
=============================================================================
