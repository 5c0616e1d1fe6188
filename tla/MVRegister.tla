---------------------------- MODULE MVRegister ------------------------------
(***************************************************************************)
(* The MV-register of src/crdt.c, replicated: each peer writes to its own  *)
(* replica and merges copies other peers sent, at any time, in any order,  *)
(* any number of times, or never.  A register keeps at most RegMax writes. *)
(***************************************************************************)
EXTENDS Integers, Sequences, SequencesExt

CONSTANTS
  Writer,      \* the replicas and the peer numbers they write under
  Value,       \* values written
  RegMax,      \* QUILT_MV_REG_MAX
  MaxClock,    \* bound on the clocks callers pass, for model checking
  MaxWrites,   \* bound on the different writes, for model checking
  MaxPosted    \* bound on the copies on their way, for model checking

ASSUME RegisterAssumption ==
  /\ RegMax \in Nat \ {0} /\ MaxClock \in Nat
  /\ MaxWrites \in Nat /\ MaxPosted \in Nat

VARIABLES
  reg,         \* [Writer -> Seq(Write)]: the live prefix of each replica
  posted,      \* the copies that may still arrive
  seen,        \* history: [Writer -> SUBSET Write], the writes each peer has seen
  advancing,   \* history: no peer has written at a clock that was not ahead of
               \* all its clocks before
  rising       \* history: no peer has written at a clock behind one of its own

regVars == <<reg, posted, seen, advancing, rising>>

Write == [value : Value, clock : 1 .. MaxClock, peer : Writer]

-----------------------------------------------------------------------------
(* quilt_mv_register_set first drops the older writes of the same peer: a   *)
(* scan that moves the last write into the slot it frees and looks at that  *)
(* slot again.                                                             *)
Older(w, x) == w.peer = x.peer /\ w.clock < x.clock

(* A mutated form of the next definition: the scan goes on to the next slot. *)
ScanOnward(x, s) ==
  IF s.at > Len(s.ws) \/ ~Older(s.ws[s.at], x) THEN [s EXCEPT !.at = s.at + 1]
  ELSE [at |-> s.at + 1, ws |-> SubSeq([s.ws EXCEPT ![s.at] = Last(s.ws)], 1, Len(s.ws) - 1)]

Scan(x, s) ==   \* s.at: the slot looked at, s.ws: the writes left
  IF ~Older(s.ws[s.at], x) THEN [s EXCEPT !.at = s.at + 1]
  ELSE [s EXCEPT !.ws = SubSeq([s.ws EXCEPT ![s.at] = Last(s.ws)], 1, Len(s.ws) - 1)]

WithoutOlder(ws, x) ==
  FoldLeft(LAMBDA s, w : Scan(x, s), [at |-> 1, ws |-> ws], ws).ws

(* quilt_mv_register_merge takes the writes of src in order: a newer one    *)
(* replaces the first write of its peer, an unknown peer's is appended, and *)
(* it is dropped without a word when there is no room for it.              *)
FirstOf(ws, peer) ==
  {j \in DOMAIN ws : ws[j].peer = peer /\ \A i \in 1 .. j - 1 : ws[i].peer # peer}

(* Mutated forms of the next definition: a tie replaces, and a newer write  *)
(* is not taken.                                                           *)
AbsorbedOnTie(ws, w) ==
  IF FirstOf(ws, w.peer) # {}
  THEN [j \in DOMAIN ws |->
          IF j \in FirstOf(ws, w.peer) /\ w.clock >= ws[j].clock THEN w ELSE ws[j]]
  ELSE IF Len(ws) < RegMax THEN Append(ws, w) ELSE ws

AbsorbedUnlessKnown(ws, w) ==
  IF FirstOf(ws, w.peer) = {} /\ Len(ws) < RegMax THEN Append(ws, w) ELSE ws

Absorbed(ws, w) ==
  IF FirstOf(ws, w.peer) # {}
  THEN [j \in DOMAIN ws |->
          IF j \in FirstOf(ws, w.peer) /\ w.clock > ws[j].clock THEN w ELSE ws[j]]
  ELSE IF Len(ws) < RegMax THEN Append(ws, w) ELSE ws

MergedWrites(dst, src) == FoldLeft(Absorbed, dst, src)

RegisterInit ==
  /\ reg = [r \in Writer |-> << >>]
  /\ posted = {}
  /\ seen = [r \in Writer |-> {}] /\ advancing = TRUE /\ rising = TRUE

Set(r, w) ==
  /\ w.peer = r
  /\ Cardinality(UNION {seen[s] : s \in Writer} \cup {w}) <= MaxWrites
  /\ Len(WithoutOlder(reg[r], w)) < RegMax
  /\ reg' = [reg EXCEPT ![r] = Append(WithoutOlder(reg[r], w), w)]
  /\ seen' = [seen EXCEPT ![r] = @ \cup {w}]
  /\ advancing' = (advancing /\ \A x \in seen[r] : x.peer = r => x.clock < w.clock)
  /\ rising' = (rising /\ \A x \in seen[r] : x.peer = r => x.clock <= w.clock)
  /\ UNCHANGED posted

(* The transport, which src/ leaves to the caller. *)
SendRegister(r) ==
  /\ Cardinality(posted) < MaxPosted
  /\ posted' = posted \cup {[reg |-> reg[r], seen |-> seen[r]]}
  /\ UNCHANGED <<reg, seen, advancing, rising>>

LoseRegister(m) ==
  /\ posted' = posted \ {m}
  /\ UNCHANGED <<reg, seen, advancing, rising>>

MergeRegister(r, m) ==
  /\ reg' = [reg EXCEPT ![r] = MergedWrites(reg[r], m.reg)]
  /\ seen' = [seen EXCEPT ![r] = @ \cup m.seen]
  /\ UNCHANGED <<posted, advancing, rising>>

RegisterNext ==
  \/ \E r \in Writer, w \in Write : Set(r, w)
  \/ \E r \in Writer : SendRegister(r)
  \/ \E m \in posted : LoseRegister(m)
  \/ \E r \in Writer, m \in posted : MergeRegister(r, m)

RegisterSpec == RegisterInit /\ [][RegisterNext]_regVars

-----------------------------------------------------------------------------
Latest(ws) == {w \in ws : \A x \in ws : x.peer = w.peer => x.clock <= w.clock}

PeersOf(ws) == {w.peer : w \in ws}

(* While the callers' clocks advance, a replica with room for every writer   *)
(* it has heard of holds the latest write of each, and nothing else: so two *)
(* such replicas that have seen the same writes hold the same writes.       *)
HoldsTheLatest ==
  \A r \in Writer :
    advancing /\ Cardinality(PeersOf(seen[r])) <= RegMax =>
      /\ ToSet(reg[r]) = Latest(seen[r])
      /\ Len(reg[r]) = Cardinality(PeersOf(seen[r]))

(* Whatever the clocks and however full the register: it keeps inside its   *)
(* arrays, and a peer keeps the writes of its own latest clock, several if   *)
(* it wrote several there, however often they are merged back.  While no     *)
(* peer's clock goes back, no older write of its own is left beside them:    *)
(* set has found them all, and no merge brought one back.                   *)
OwnLatestSurvives ==
  \A r \in Writer :
    /\ Len(reg[r]) <= RegMax
    /\ {w \in Latest(seen[r]) : w.peer = r} \subseteq ToSet(reg[r])
    /\ rising => {w \in ToSet(reg[r]) : w.peer = r} \subseteq Latest(seen[r])
=============================================================================
