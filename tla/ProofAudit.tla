----------------------------- MODULE ProofAudit -----------------------------
(***************************************************************************)
(* What the ring of ProofRing.tla is worth as an audit trail: a history    *)
(* variable records what callers really appended, and faults overwrite     *)
(* live entries behind the ring's back, with anything but a signature      *)
(* nobody ever made under a key.                                           *)
(***************************************************************************)
EXTENDS ProofRing, Sequences, FiniteSets

CONSTANTS
  Stamp,       \* pairs of a tick and a version callers pass to append
  MaxFaults,   \* bound on the faults of one life of the ring
  MaxKept      \* bound on the entries of ended lives that survive as copies

ASSUME FaultAssumption ==
  Stamp \subseteq Tick \X Version /\ MaxFaults \in Nat /\ MaxKept \in Nat

VARIABLES
  log,         \* history: every append since init, with the key in use
  faults,      \* history: live entries changed by a fault since init
  laundered,   \* history: an append linked itself to a damaged newest entry
  earlier      \* entries of lives ended by a free or an init, of which a copy survives

auditVars == <<ringVars, log, faults, laundered, earlier>>

(* The log index of the k-th live entry. *)
Logged(k) == log[Len(log) - count + 1 + k]

Intact(k) == ring[At(k)].state = Logged(k).state

Genuine(k) ==
  /\ Intact(k)
  /\ ring[At(k)].prev = Logged(k).prev
  /\ ring[At(k)].tick = Logged(k).tick
  /\ ring[At(k)].version = Logged(k).version

(* The entry the n-th append since init wrote. *)
Written(n) ==
  [prev |-> log[n].prev, state |-> log[n].state,
   tick |-> log[n].tick, version |-> log[n].version,
   sig |-> ComputeSig(log[n].key, log[n].prev, log[n].state, log[n].tick, log[n].version, n)]

Made == {Written(n) : n \in DOMAIN log}

Record(state, tick, version) ==
  /\ AppendEntry(state, tick, version)
  /\ log' = Append(log, [prev |-> ComputePrevHash, state |-> state, tick |-> tick,
                         version |-> version, key |-> sec])
  /\ laundered' = (laundered \/ (count > 0 /\ ~Intact(count - 1)))
  /\ UNCHANGED <<faults, earlier>>

(* What an ended life wrote may survive elsewhere: in a backup, in memory   *)
(* the next ring does not use, in the ring's own slots beyond count.       *)
Restart ==
  /\ FreeRing \/ InitRing
  /\ \E kept \in SUBSET (earlier \cup Made) :
       Cardinality(kept) <= MaxKept /\ earlier' = kept
  /\ log' = << >> /\ faults' = 0 /\ laundered' = FALSE

Copies == {ring[At(m)] : m \in 0 .. count - 1} \cup Made \cup earlier

(* What a fault may make of the k-th live entry: any one of its fields has  *)
(* another value, a signature being one that was made at some time or none, *)
(* or the whole of it is a copy of another entry, live, overwritten or of   *)
(* an earlier life.                                                        *)
Damaged(k) ==
  LET e == ring[At(k)]
  IN  {[e EXCEPT !.state = s] : s \in State} \cup {[e EXCEPT !.prev = h] : h \in Hash}
        \cup {[e EXCEPT !.tick = t] : t \in Tick}
        \cup {[e EXCEPT !.version = v] : v \in Version}
        \cup {[e EXCEPT !.sig = NoSig]} \cup {[e EXCEPT !.sig = c.sig] : c \in Copies}
        \cup Copies

Fault(k, e) ==
  /\ attached /\ faults < MaxFaults
  /\ ring' = [ring EXCEPT ![At(k)] = e]
  /\ faults' = faults + 1
  /\ UNCHANGED <<attached, head, count, sec, nonce, log, laundered, earlier>>

AuditInit == RingInit /\ log = << >> /\ faults = 0 /\ laundered = FALSE /\ earlier = {}

AuditNext ==
  \/ \E state \in State, stamp \in Stamp : Record(state, stamp[1], stamp[2])
  \/ \E key \in Key : SetSecret(key) /\ UNCHANGED <<log, faults, laundered, earlier>>
  \/ Restart
  \/ \E k \in 0 .. count - 1 : \E e \in Damaged(k) : Fault(k, e)

AuditSpec == AuditInit /\ [][AuditNext]_auditVars

-----------------------------------------------------------------------------
(* An undamaged ring holds exactly the last Cap appends, oldest at Start,   *)
(* and its links verify, however often head has wrapped.                   *)
RingHoldsTheLatest ==
  attached /\ faults = 0 =>
    /\ count = IF Len(log) < Cap THEN Len(log) ELSE Cap
    /\ \A k \in 0 .. count - 1 : Genuine(k)
    /\ Verify

(* With a key set, every entry of a ring that passes verify_full says what  *)
(* was appended there, whatever was done to the entries: no field can       *)
(* change, and no entry of this life can be moved or put back, because each *)
(* signature carries its nonce.  The one exception is what the code allows: *)
(* quilt_proof_init starts the nonces again (proof.c:100), so an entry of   *)
(* an earlier life passes where a copy of it survives.                     *)
SignedTrailIsGenuine ==
  VerifyFull /\ sec # NoSecret =>
    \A k \in 0 .. count - 1 : Genuine(k) \/ ring[At(k)] \in earlier

(* An undamaged ring passes verify_full exactly when every live entry was   *)
(* signed with the key now set: changing the key makes verify_full fail     *)
(* until the entries signed before it have been overwritten.               *)
KeyEpoch ==
  attached /\ faults = 0 =>
    (VerifyFull <=> \A k \in 0 .. count - 1 : Logged(k).key = sec)

(* Links alone show a single fault in any state hash but the newest one's,  *)
(* unless a later append has already linked itself to the damaged hash.     *)
LinksShowOneFault ==
  Verify /\ faults <= 1 /\ ~laundered => \A k \in 0 .. count - 2 : Intact(k)

(* locate returns the oldest live entry of the tick, and fails only when no *)
(* live entry has it.                                                      *)
LocateIsOldest ==
  attached /\ faults = 0 =>
    \A t \in Tick, k \in 0 .. count - 1 :
      k \in Located(t) <=>
        Logged(k).tick = t /\ \A m \in 0 .. k - 1 : Logged(m).tick # t
=============================================================================
