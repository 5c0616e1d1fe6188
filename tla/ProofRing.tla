----------------------------- MODULE ProofRing ------------------------------
(***************************************************************************)
(* The PROOF opcode of src/proof.c: a ring of Cap entries in memory the    *)
(* caller owns, each linked to the one before it by that entry's state     *)
(* hash and signed with a nonce that counts appends.                       *)
(*                                                                         *)
(* A state stands for its 32-byte digest, so two states hash_state cannot  *)
(* tell apart are one.  A signature is ideal: it is the tuple it signs.    *)
(***************************************************************************)
EXTENDS Integers

CONSTANTS
  State,       \* digests hash_state returns
  ZeroHash,    \* the all-zero prev_hash of the first entry
  Secret,      \* keys other than the all-zero one
  NoSecret,    \* the all-zero key: test mode, signatures stay zero
  NoSig,       \* the all-zero signature
  Unwritten,   \* ring memory no append has written
  Tick,        \* values of an entry's tick
  Version,     \* values of an entry's version
  Cap,         \* QUILT_PROOF_RING_CAP
  MaxNonce     \* bound on the appends of one life of the ring

Pos    == 0 .. Cap - 1
Hash   == State \cup {ZeroHash}
Key    == Secret \cup {NoSecret}
Signed == [key : Secret, prev : Hash, state : State, tick : Tick,
           version : Version, nonce : Nat \ {0}]
Entry  == [prev : Hash, state : State, tick : Tick, version : Version,
           sig : Signed \cup {NoSig}]

ASSUME RingAssumption ==
  /\ Cap \in Nat \ {0} /\ MaxNonce \in Nat
  /\ ZeroHash \notin State /\ NoSecret \notin Secret /\ NoSig \notin Signed

VARIABLES
  attached,    \* p->ring is not NULL
  ring,        \* the memory behind p->ring, whether attached or not
  head,        \* next write position
  count,       \* live entries, at most Cap
  sec,         \* the key
  nonce        \* appends since init

ringVars == <<attached, ring, head, count, sec, nonce>>

Start == (head + Cap - count) % Cap

(* The ring position of the k-th live entry, oldest first, from 0. *)
At(k) == (Start + k) % Cap

(* One type invariant for the ring: the cursor stays inside it, there are   *)
(* never more live entries than appends, and all of them have been written. *)
RingTypeOK ==
  /\ attached \in BOOLEAN
  /\ ring \in [Pos -> Entry \cup {Unwritten}]
  /\ head \in Pos
  /\ count \in 0 .. Cap /\ count <= nonce
  /\ sec \in Key
  /\ nonce \in Nat
  /\ \A k \in 0 .. count - 1 : ring[At(k)] \in Entry

-----------------------------------------------------------------------------
(* A mutated form of the next definition: the nonce is not signed. *)
SigWithoutNonce(key, prev, state, tick, version, n) ==
  IF key = NoSecret THEN NoSig
  ELSE [key |-> key, prev |-> prev, state |-> state, tick |-> tick,
        version |-> version, nonce |-> 1]

ComputeSig(key, prev, state, tick, version, n) ==
  IF key = NoSecret THEN NoSig
  ELSE [key |-> key, prev |-> prev, state |-> state, tick |-> tick,
        version |-> version, nonce |-> n]

(* A mutated form of the next definition: it reads the oldest live entry.   *)
PrevHashOfOldest == IF count = 0 THEN ZeroHash ELSE ring[Start].state

ComputePrevHash ==
  IF count = 0 THEN ZeroHash ELSE ring[(head + Cap - 1) % Cap].state

AppendEntry(state, tick, version) ==
  /\ attached /\ nonce < MaxNonce
  /\ nonce' = nonce + 1
  /\ ring' = [ring EXCEPT ![head] =
                [prev |-> ComputePrevHash, state |-> state,
                 tick |-> tick, version |-> version,
                 sig |-> ComputeSig(sec, ComputePrevHash, state, tick, version, nonce + 1)]]
  /\ head' = (head + 1) % Cap
  /\ count' = IF count < Cap THEN count + 1 ELSE count
  /\ UNCHANGED <<attached, sec>>

SetSecret(key) ==
  /\ sec' = key
  /\ UNCHANGED <<attached, ring, head, count, nonce>>

(* quilt_proof_free keeps the key and the nonce; every call before the next *)
(* quilt_proof_init then fails.                                            *)
FreeRing ==
  /\ attached' = FALSE /\ head' = 0 /\ count' = 0
  /\ UNCHANGED <<ring, sec, nonce>>

(* A mutated form of the next definition: count is not reset. *)
InitKeepsCount ==
  /\ attached' = TRUE /\ head' = 0
  /\ sec' = NoSecret /\ nonce' = 0
  /\ UNCHANGED <<ring, count>>

InitRing ==
  /\ attached' = TRUE /\ head' = 0 /\ count' = 0
  /\ sec' = NoSecret /\ nonce' = 0
  /\ UNCHANGED ring

(* After the first quilt_proof_init. *)
RingInit ==
  /\ attached = TRUE /\ ring = [p \in Pos |-> Unwritten]
  /\ head = 0 /\ count = 0
  /\ sec = NoSecret /\ nonce = 0

-----------------------------------------------------------------------------
(* A mutated form of the next definition: the walk stops one entry early.   *)
VerifySkipsNewest ==
  /\ attached
  /\ \A k \in 1 .. count - 2 : ring[At(k)].prev = ring[At(k - 1)].state

(* quilt_proof_verify *)
Verify ==
  /\ attached
  /\ \A k \in 1 .. count - 1 : ring[At(k)].prev = ring[At(k - 1)].state

(* A mutated form of the next definition: the oldest nonce is off by one.   *)
VerifyFullShifted ==
  /\ Verify
  /\ count <= nonce
  /\ \A k \in 0 .. count - 1 :
       LET e == ring[At(k)]
       IN  e.sig = ComputeSig(sec, e.prev, e.state, e.tick, e.version,
                              nonce - count + k)

(* quilt_proof_verify_full: the oldest live entry was signed with nonce     *)
(* p->nonce - count + 1.                                                   *)
VerifyFull ==
  /\ Verify
  /\ count <= nonce
  /\ \A k \in 0 .. count - 1 :
       LET e == ring[At(k)]
       IN  e.sig = ComputeSig(sec, e.prev, e.state, e.tick, e.version,
                              nonce - count + 1 + k)

(* A mutated form of the next definition: the walk starts at the newest.    *)
LocatedNewest(t) ==
  {k \in 0 .. count - 1 : /\ attached
                          /\ ring[At(k)].tick = t
                          /\ \A m \in k + 1 .. count - 1 : ring[At(m)].tick # t}

(* quilt_proof_locate: the live entries it may return for tick t. *)
Located(t) ==
  {k \in 0 .. count - 1 : /\ attached
                          /\ ring[At(k)].tick = t
                          /\ \A m \in 0 .. k - 1 : ring[At(m)].tick # t}
=============================================================================
