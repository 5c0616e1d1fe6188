-------------------------- MODULE ProofAuditProofs --------------------------
(***************************************************************************)
(* Proofs about ProofAudit.tla for every ring size, key set and number of  *)
(* faults.                                                                 *)
(***************************************************************************)
EXTENDS ProofAudit, SequenceTheorems, TLAPS

-----------------------------------------------------------------------------
(* Ring arithmetic: the cursor sums never reach 2 * Cap.                    *)
Wrapped(x) == IF x < Cap THEN x ELSE x - Cap

LEMMA Wrap == \A x \in 0 .. 2 * Cap - 1 : x % Cap = Wrapped(x)
BY RingAssumption DEF Wrapped

(* The position of the k-th live entry of a ring with cursor h and c live   *)
(* entries, without the modulus.                                           *)
Place(h, c, k) == IF c < Cap THEN k ELSE Wrapped(h + k)

LEMMA Positions ==
  \A h, c \in 0 .. Cap : \A k \in 0 .. Cap - 1 :
    h < Cap /\ (c < Cap => h = c) =>
      (((h + Cap - c) % Cap) + k) % Cap = Place(h, c, k)
<1> SUFFICES ASSUME NEW h \in 0 .. Cap, NEW c \in 0 .. Cap, NEW k \in 0 .. Cap - 1,
                    h < Cap, c < Cap => h = c
             PROVE  (((h + Cap - c) % Cap) + k) % Cap = Place(h, c, k)
  OBVIOUS
<1>1. Cap \in Nat \ {0}
  BY RingAssumption
<1> DEFINE x == h + Cap - c
           s == IF c < Cap THEN 0 ELSE h
           y == s + k
<1>2. x \in 0 .. 2 * Cap - 1 /\ y \in 0 .. 2 * Cap - 1 /\ Wrapped(x) = s
  BY <1>1 DEF Wrapped
<1>3. Wrapped(y) = Place(h, c, k)
  BY <1>1 DEF Wrapped, Place
<1> HIDE DEF x, s, y
<1>4. x % Cap = s /\ y % Cap = Wrapped(y)
  BY <1>2, Wrap, Zenon
<1>5. ((x % Cap) + k) % Cap = Wrapped(y)
  BY <1>4, Zenon DEF y
<1> QED BY <1>3, <1>5, Zenon DEF x

-----------------------------------------------------------------------------
LogEntry == [prev : Hash, state : State, tick : Tick, version : Version, key : Key]

(* The state hash the n-th append links itself to, while nothing is damaged. *)
Prev(n) == IF n = 1 THEN ZeroHash ELSE log[n - 1].state

(* The fields of the entry x are those of the signature or log record y. *)
SameFields(x, y) ==
  x.prev = y.prev /\ x.state = y.state /\ x.tick = y.tick /\ x.version = y.version

(* A signature found in the ring was made by the append its nonce names, or *)
(* is that of an entry of an earlier life.                                 *)
FromLog(sig) == sig.nonce \in DOMAIN log /\ SameFields(sig, log[sig.nonce])

SigKnown(sig) ==
  sig \in Signed => FromLog(sig) \/ \E x \in earlier : x.sig = sig

(* An entry an append wrote: what is signed is what it says. *)
Sincere(x) == x \in Entry /\ (x.sig \in Signed => SameFields(x, x.sig))

(* The ring and the log are in step: count live entries for the last count  *)
(* appends, and a ring that is not full has never wrapped.                 *)
InStep ==
  /\ log \in Seq(LogEntry) /\ faults \in Nat
  /\ attached => nonce = Len(log)
  /\ ~attached => Len(log) = 0
  /\ count = IF Len(log) < Cap THEN Len(log) ELSE Cap
  /\ count < Cap => head = count

SigsKnown == \A k \in 0 .. count - 1 : SigKnown(ring[At(k)].sig)

EarlierSincere == \A x \in earlier : Sincere(x)

AsWritten ==
  faults = 0 =>
    /\ \A k \in 0 .. count - 1 : ring[At(k)] = Written(Len(log) - count + 1 + k)
    /\ \A n \in DOMAIN log : log[n].prev = Prev(n)

AuditInv == RingTypeOK /\ InStep /\ SigsKnown /\ EarlierSincere /\ AsWritten

LEMMA LivePlaces ==
  ASSUME head \in Pos, count \in 0 .. Cap, count < Cap => head = count
  PROVE  \A k \in 0 .. Cap - 1 : At(k) = Place(head, count, k)
<1>1. head \in 0 .. Cap /\ head < Cap
  BY RingAssumption DEF Pos
<1> QED BY <1>1, Positions DEF At, Start

-----------------------------------------------------------------------------
(* An append moves the live entries one place along when the ring is full,  *)
(* leaves them where they are when it is not, and writes the newest.        *)
Older(k) == IF count < Cap THEN k ELSE k + 1

LEMMA AppendMoves ==
  ASSUME RingTypeOK, InStep, NEW state \in State, NEW tick \in Tick, NEW version \in Version,
         AppendEntry(state, tick, version)
  PROVE  /\ head' \in Pos /\ count' \in 1 .. Cap /\ (count' < Cap => head' = count')
         /\ At(count - 1)' = head
         /\ \A k \in 0 .. count' - 2 :
              /\ Older(k) \in 0 .. count - 1
              /\ At(k)' = At(Older(k)) /\ At(Older(k)) # head
<1>1. Cap \in Nat \ {0} /\ head \in 0 .. Cap - 1 /\ count \in 0 .. Cap
      /\ (count < Cap => head = count)
  BY RingAssumption DEF Pos, RingTypeOK, InStep
<1>2. head' = Wrapped(head + 1)
  <2>1. head + 1 \in 0 .. 2 * Cap - 1 /\ head' = (head + 1) % Cap
    BY <1>1 DEF AppendEntry
  <2> QED BY <2>1, Wrap, Zenon
<1>3. count' = IF count < Cap THEN count + 1 ELSE Cap
  BY <1>1 DEF AppendEntry
<1>4. head' \in 0 .. Cap - 1 /\ count' \in 1 .. Cap /\ (count' < Cap => head' = count')
  BY <1>1, <1>2, <1>3 DEF Wrapped
<1>5. \A k \in 0 .. Cap - 1 : At(k) = Place(head, count, k)
  BY <1>1, LivePlaces DEF Pos
<1>6. \A k \in 0 .. Cap - 1 : At(k)' = Place(head', count', k)
  <2>1. head' \in 0 .. Cap /\ head' < Cap /\ count' \in 0 .. Cap
    BY <1>1, <1>4
  <2> QED BY <1>4, <2>1, Positions DEF At, Start
<1>7. At(count - 1)' = head
  <2>1. count' - 1 \in 0 .. Cap - 1
    BY <1>1, <1>3
  <2>0. head' \in 0 .. Cap /\ head' < Cap /\ count' \in 0 .. Cap
    BY <1>1, <1>4
  <2>2. Place(head', count', count' - 1) = head
    BY <1>1, <1>2, <1>3, <1>4 DEF Place, Wrapped
  <2> QED BY <1>4, <2>0, <2>1, <2>2, Positions DEF At, Start
<1>8. ASSUME NEW k \in 0 .. count' - 2
      PROVE  /\ Older(k) \in 0 .. count - 1
             /\ At(k)' = At(Older(k)) /\ At(Older(k)) # head
  <2>1. Older(k) \in 0 .. count - 1 /\ k \in 0 .. Cap - 1 /\ Older(k) \in 0 .. Cap - 1
    BY <1>1, <1>3 DEF Older
  <2>2. At(k)' = Place(head', count', k) /\ At(Older(k)) = Place(head, count, Older(k))
    BY <1>5, <1>6, <2>1, Zenon
  <2>3. Place(head', count', k) = Place(head, count, Older(k))
    BY <1>1, <1>2, <1>3, <1>4, <2>1 DEF Place, Wrapped, Older
  <2>4. Place(head, count, Older(k)) # head
    BY <1>1, <1>3, <2>1 DEF Place, Wrapped, Older
  <2> QED BY <2>1, <2>2, <2>3, <2>4, Zenon
<1>9. head' \in Pos
  BY <1>4 DEF Pos
<1> QED BY <1>4, <1>7, <1>8, <1>9, Zenon

-----------------------------------------------------------------------------
(* What an append writes.                                                  *)
LEMMA LiveAt ==
  ASSUME RingTypeOK, InStep, NEW k \in 0 .. count - 1
  PROVE  At(k) \in Pos /\ ring[At(k)] \in Entry
<1>1. Cap \in Nat \ {0} /\ head \in 0 .. Cap - 1 /\ count \in 0 .. Cap
      /\ (count < Cap => head = count) /\ k \in 0 .. Cap - 1
  BY RingAssumption DEF Pos, RingTypeOK, InStep
<1>2. At(k) = Place(head, count, k)
  BY <1>1, LivePlaces DEF Pos
<1>3. Place(head, count, k) \in 0 .. Cap - 1
  BY <1>1 DEF Place, Wrapped
<1> QED BY <1>2, <1>3 DEF RingTypeOK, Pos

LEMMA NewestAt ==
  ASSUME RingTypeOK, InStep, count > 0
  PROVE  (head + Cap - 1) % Cap = At(count - 1)
<1>1. Cap \in Nat \ {0} /\ head \in 0 .. Cap - 1 /\ count \in 1 .. Cap
      /\ (count < Cap => head = count)
  BY RingAssumption DEF Pos, RingTypeOK, InStep
<1>2. At(count - 1) = Place(head, count, count - 1)
  BY <1>1, LivePlaces DEF Pos
<1>3. (head + Cap - 1) % Cap = Wrapped(head + Cap - 1)
  <2> DEFINE x == head + Cap - 1
  <2>1. x \in 0 .. 2 * Cap - 1
    BY <1>1
  <2> HIDE DEF x
  <2>2. x % Cap = Wrapped(x)
    BY <2>1, Wrap, Zenon
  <2> QED BY <2>2, Zenon DEF x
<1>4. Wrapped(head + Cap - 1) = Place(head, count, count - 1)
  BY <1>1 DEF Place, Wrapped
<1> QED BY <1>2, <1>3, <1>4, Zenon

LEMMA PrevHashType ==
  ASSUME RingTypeOK, InStep
  PROVE  ComputePrevHash \in Hash
<1>1. CASE count = 0
  BY <1>1 DEF ComputePrevHash, Hash
<1>2. CASE count > 0
  <2>1. count - 1 \in 0 .. count - 1
    BY <1>2 DEF RingTypeOK
  <2>2. ring[At(count - 1)].state \in State
    BY <2>1, LiveAt DEF Entry
  <2> QED BY <1>2, <2>2, NewestAt DEF ComputePrevHash, Hash
<1> QED BY <1>1, <1>2 DEF RingTypeOK

LEMMA SigType ==
  ASSUME NEW key \in Key, NEW prev \in Hash, NEW state \in State, NEW tick \in Tick,
         NEW version \in Version, NEW n \in Nat \ {0}
  PROVE  /\ ComputeSig(key, prev, state, tick, version, n) \in Signed \cup {NoSig}
         /\ key # NoSecret => ComputeSig(key, prev, state, tick, version, n) \in Signed
BY DEF ComputeSig, Signed, Key

-----------------------------------------------------------------------------
(* The invariant holds at the start and after each action.                 *)
LEMMA InitAudit == AuditInit => AuditInv
<1> SUFFICES ASSUME AuditInit PROVE AuditInv
  OBVIOUS
<1>1. RingTypeOK
  BY RingAssumption DEF AuditInit, RingInit, RingTypeOK, Pos, Key
<1>2. InStep
  BY RingAssumption DEF AuditInit, RingInit, InStep
<1>3. SigsKnown /\ EarlierSincere /\ AsWritten
  BY DEF AuditInit, RingInit, SigsKnown, EarlierSincere, AsWritten
<1> QED BY <1>1, <1>2, <1>3 DEF AuditInv

(* Every entry an append of this life wrote says what it signed. *)
LEMMA MadeSincere ==
  ASSUME InStep, NEW x \in Made
  PROVE  Sincere(x) /\ SigKnown(x.sig)
<1>1. PICK n \in DOMAIN log : x = Written(n)
  BY DEF Made
<1>2. log[n] \in LogEntry /\ n \in Nat \ {0}
  BY DEF InStep
<1> DEFINE i == log[n]
           sig == ComputeSig(i.key, i.prev, i.state, i.tick, i.version, n)
<1>3. i.key \in Key /\ i.prev \in Hash /\ i.state \in State /\ i.tick \in Tick /\ i.version \in Version
  BY <1>2 DEF LogEntry
<1>4. sig \in Signed \cup {NoSig}
  BY <1>2, <1>3, SigType
<1>5. x \in Entry /\ x.sig = sig /\ SameFields(x, i)
  BY <1>1, <1>3, <1>4 DEF Written, Entry, SameFields
<1>6. sig \in Signed => sig.nonce = n /\ SameFields(sig, i)
  BY RingAssumption DEF ComputeSig, SameFields
<1> HIDE DEF sig
<1>7. Sincere(x)
  BY <1>5, <1>6 DEF Sincere, SameFields
<1>8. SigKnown(x.sig)
  BY <1>5, <1>6 DEF SigKnown, FromLog
<1> QED BY <1>7, <1>8

LEMMA RestartAudit == AuditInv /\ Restart => AuditInv'
<1> SUFFICES ASSUME AuditInv, Restart PROVE AuditInv'
  OBVIOUS
<1>1. /\ head' = 0 /\ count' = 0 /\ ring' = ring /\ log' = << >> /\ faults' = 0
      /\ sec' \in Key /\ nonce' \in Nat /\ attached' \in BOOLEAN
      /\ attached' => nonce' = 0
  <2>1. CASE FreeRing
    BY <2>1 DEF Restart, FreeRing, AuditInv, RingTypeOK
  <2>2. CASE InitRing
    BY <2>2 DEF Restart, InitRing, Key
  <2> QED BY <2>1, <2>2 DEF Restart
<1>2. RingTypeOK'
  BY <1>1, RingAssumption DEF AuditInv, RingTypeOK, Pos
<1>3. InStep'
  BY <1>1, RingAssumption DEF AuditInv, InStep
<1>4. SigsKnown' /\ AsWritten'
  BY <1>1 DEF SigsKnown, AsWritten
<1>5. EarlierSincere'
  <2>1. \A x \in earlier' : x \in earlier \/ x \in Made
    BY DEF Restart
  <2> QED BY <2>1, MadeSincere DEF AuditInv, EarlierSincere, Sincere
<1> QED BY <1>2, <1>3, <1>4, <1>5 DEF AuditInv

LEMMA SetSecretAudit ==
  ASSUME AuditInv, NEW key \in Key, SetSecret(key), UNCHANGED <<log, faults, laundered, earlier>>
  PROVE  AuditInv'
<1>1. RingTypeOK'
  BY DEF SetSecret, AuditInv, RingTypeOK, At, Start
<1>2. InStep'
  BY DEF SetSecret, AuditInv, InStep
<1>3. SigsKnown' /\ EarlierSincere'
  BY DEF SetSecret, AuditInv, SigsKnown, SigKnown, FromLog, EarlierSincere, At, Start
<1>4. AsWritten'
  BY DEF SetSecret, AuditInv, AsWritten, Written, Prev, At, Start
<1> QED BY <1>1, <1>2, <1>3, <1>4 DEF AuditInv

LEMMA FaultAudit ==
  ASSUME AuditInv, NEW k \in 0 .. count - 1, NEW e \in Damaged(k), Fault(k, e)
  PROVE  AuditInv'
<1>1. \A m \in 0 .. count - 1 : /\ At(m) \in Pos /\ ring[At(m)] \in Entry
                                /\ At(m)' = At(m)
  BY LiveAt DEF AuditInv, Fault, At, Start
<1>2. /\ ring' = [ring EXCEPT ![At(k)] = e]
      /\ UNCHANGED <<attached, head, count, sec, nonce, log, earlier>> /\ faults' = faults + 1
  BY DEF Fault
<1>3. e \in Entry /\ SigKnown(e.sig)
  <2> DEFINE old == ring[At(k)]
  <2>1. old \in Entry /\ SigKnown(old.sig)
    BY <1>1 DEF AuditInv, SigsKnown
  <2>2. \A c \in Copies : c \in Entry /\ SigKnown(c.sig)
    <3>1. \A c \in earlier : c \in Entry /\ SigKnown(c.sig)
      BY DEF AuditInv, EarlierSincere, Sincere, SigKnown
    <3>2. \A c \in Made : c \in Entry /\ SigKnown(c.sig)
      BY MadeSincere DEF AuditInv, Sincere
    <3> QED BY <1>1, <3>1, <3>2 DEF Copies, AuditInv, SigsKnown
  <2>3. CASE \E s \in State : e = [old EXCEPT !.state = s]
    BY <2>1, <2>3 DEF Entry
  <2>4. CASE \E h \in Hash : e = [old EXCEPT !.prev = h]
    BY <2>1, <2>4 DEF Entry
  <2>5. CASE \E t \in Tick : e = [old EXCEPT !.tick = t]
    BY <2>1, <2>5 DEF Entry
  <2>6. CASE \E v \in Version : e = [old EXCEPT !.version = v]
    BY <2>1, <2>6 DEF Entry
  <2>7. CASE e = [old EXCEPT !.sig = NoSig]
    <3>1. e \in Entry /\ e.sig = NoSig
      BY <2>1, <2>7 DEF Entry
    <3> QED BY <3>1, RingAssumption DEF SigKnown
  <2>8. CASE \E c \in Copies : e = [old EXCEPT !.sig = c.sig]
    BY <2>1, <2>2, <2>8 DEF Entry
  <2>9. CASE e \in Copies
    BY <2>2, <2>9
  <2> QED BY <2>3, <2>4, <2>5, <2>6, <2>7, <2>8, <2>9 DEF Damaged
<1>4. \A m \in 0 .. count - 1 : ring'[At(m)] = e \/ ring'[At(m)] = ring[At(m)]
  BY <1>1, <1>2 DEF AuditInv, RingTypeOK
<1>5. RingTypeOK'
  <2>1. ring' \in [Pos -> Entry \cup {Unwritten}]
    BY <1>2, <1>3 DEF AuditInv, RingTypeOK
  <2>2. \A m \in 0 .. count' - 1 : ring'[At(m)'] \in Entry
    BY <1>1, <1>2, <1>3, <1>4
  <2> QED BY <1>2, <2>1, <2>2 DEF AuditInv, RingTypeOK
<1>6. InStep'
  BY <1>2 DEF AuditInv, InStep
<1>7. SigsKnown' /\ EarlierSincere'
  <2>1. \A m \in 0 .. count - 1 : SigKnown(ring'[At(m)].sig)
    BY <1>3, <1>4 DEF AuditInv, SigsKnown
  <2> QED BY <1>1, <1>2, <2>1 DEF SigsKnown, SigKnown, FromLog, AuditInv, EarlierSincere
<1>8. AsWritten'
  BY <1>2 DEF AuditInv, InStep, AsWritten
<1> QED BY <1>5, <1>6, <1>7, <1>8 DEF AuditInv

NewEntry(state, tick, version) ==
  [prev |-> ComputePrevHash, state |-> state, tick |-> tick, version |-> version,
   sig |-> ComputeSig(sec, ComputePrevHash, state, tick, version, nonce + 1)]

(* The live entries after an append: the newest is the new one, the others  *)
(* are what they were.                                                     *)
LEMMA AppendedEntries ==
  ASSUME RingTypeOK, InStep, NEW state \in State, NEW tick \in Tick, NEW version \in Version,
         AppendEntry(state, tick, version)
  PROVE  /\ \A k \in 0 .. count' - 1 :
              k = count' - 1 => ring'[At(k)'] = NewEntry(state, tick, version)
         /\ \A k \in 0 .. count' - 2 :
              Older(k) \in 0 .. count - 1 /\ ring'[At(k)'] = ring[At(Older(k))]
<1> DEFINE new == NewEntry(state, tick, version)
<1>1. /\ ring' = [ring EXCEPT ![head] = new] /\ head \in Pos
      /\ count' = IF count < Cap THEN count + 1 ELSE count
  BY DEF AppendEntry, NewEntry, RingTypeOK
<1> HIDE DEF new
<1>2. /\ At(count - 1)' = head
      /\ \A k \in 0 .. count' - 2 :
           /\ Older(k) \in 0 .. count - 1
           /\ At(k)' = At(Older(k)) /\ At(Older(k)) # head
  BY AppendMoves
<1>3. \A k \in 0 .. count' - 1 : k = count' - 1 => ring'[At(k)'] = new
  <2>1. \A k : k = count' - 1 => At(k)' = At(count - 1)'
    BY Zenon DEF At, Start
  <2> QED BY <1>1, <1>2, <2>1 DEF RingTypeOK
<1>4. \A k \in 0 .. count' - 2 :
        Older(k) \in 0 .. count - 1 /\ ring'[At(k)'] = ring[At(Older(k))]
  <2> SUFFICES ASSUME NEW k \in 0 .. count' - 2
               PROVE  Older(k) \in 0 .. count - 1 /\ ring'[At(k)'] = ring[At(Older(k))]
    OBVIOUS
  <2>1. Older(k) \in 0 .. count - 1 /\ At(k)' = At(Older(k)) /\ At(Older(k)) # head
    BY <1>2
  <2>2. At(Older(k)) \in Pos
    BY <2>1, LiveAt
  <2> QED BY <1>1, <2>1, <2>2 DEF RingTypeOK
<1> QED BY <1>3, <1>4 DEF new

LEMMA RecordAudit ==
  ASSUME AuditInv, NEW state \in State, NEW tick \in Tick, NEW version \in Version,
         Record(state, tick, version)
  PROVE  AuditInv'
<1> DEFINE L == Len(log)
           new == [prev |-> ComputePrevHash, state |-> state,
                   tick |-> tick, version |-> version,
                   sig |-> ComputeSig(sec, ComputePrevHash, state, tick, version, nonce + 1)]
           item == [prev |-> ComputePrevHash, state |-> state, tick |-> tick,
                    version |-> version, key |-> sec]
<1>0. RingTypeOK /\ InStep /\ SigsKnown /\ AsWritten /\ AppendEntry(state, tick, version)
  BY DEF AuditInv, Record
<1>1. /\ attached /\ nonce = L /\ nonce' = L + 1 /\ L \in Nat
      /\ ring' = [ring EXCEPT ![head] = new] /\ log' = Append(log, item)
      /\ count' = IF count < Cap THEN count + 1 ELSE count
      /\ UNCHANGED <<attached, sec, faults, earlier>>
  BY <1>0 DEF Record, AppendEntry, InStep
<1>2. Cap \in Nat \ {0} /\ count \in 0 .. Cap /\ count <= L /\ head \in Pos /\ sec \in Key
      /\ count = (IF L < Cap THEN L ELSE Cap)
  BY <1>0, <1>1, RingAssumption DEF RingTypeOK, InStep
<1>3. item \in LogEntry /\ log \in Seq(LogEntry) /\ faults \in Nat
  BY <1>0, <1>2, PrevHashType DEF LogEntry, InStep
<1>4. /\ Len(log') = L + 1 /\ log' \in Seq(LogEntry) /\ log'[L + 1] = item
      /\ \A n \in 1 .. L : log'[n] = log[n]
  BY <1>1, <1>3
<1>13. Len(log') = L + 1
  BY <1>4
<1>16. L \in Nat /\ Cap \in Nat \ {0} /\ count \in 0 .. Cap /\ count <= L
  BY <1>1, <1>2
<1>14. count' = (IF count < Cap THEN count + 1 ELSE count) /\ count' \in 1 .. Cap
  BY <1>1, <1>2
<1>15. \A k \in 0 .. count' - 1 : k = count' - 1 \/ k \in 0 .. count' - 2
  BY <1>14
<1>5. new \in Entry
  <2>1. ComputeSig(sec, ComputePrevHash, state, tick, version, nonce + 1) \in Signed \cup {NoSig}
    BY <1>0, <1>1, <1>2, PrevHashType, SigType
  <2> QED BY <1>0, <2>1, PrevHashType DEF Entry
<1>6. head' \in Pos /\ (count' < Cap => head' = count')
  BY <1>0, AppendMoves
<1>7. \A k \in 0 .. count' - 1 : k = count' - 1 => ring'[At(k)'] = new
  BY <1>0, AppendedEntries DEF NewEntry
<1>8. \A k \in 0 .. count' - 2 :
        Older(k) \in 0 .. count - 1 /\ ring'[At(k)'] = ring[At(Older(k))]
  BY <1>0, AppendedEntries
<1>9. RingTypeOK'
  <2>1. ring' \in [Pos -> Entry \cup {Unwritten}]
    BY <1>0, <1>1, <1>5 DEF RingTypeOK
  <2>2. ASSUME NEW k \in 0 .. count' - 1 PROVE ring'[At(k)'] \in Entry
    <3>1. CASE k = count' - 1
      BY <1>5, <1>7, <3>1
    <3>2. CASE k \in 0 .. count' - 2
      BY <1>0, <1>8, <3>2, LiveAt
    <3> QED BY <1>15, <3>1, <3>2
  <2>3. attached' \in BOOLEAN /\ head' \in Pos /\ sec' \in Key
    BY <1>0, <1>1, <1>6 DEF RingTypeOK
  <2>4. nonce' \in Nat /\ count' \in 0 .. Cap /\ count' <= nonce'
    BY <1>1, <1>2
  <2> QED BY <2>1, <2>2, <2>3, <2>4 DEF RingTypeOK
<1>10. InStep'
  <2>1. count' = IF Len(log') < Cap THEN Len(log') ELSE Cap
    BY <1>1, <1>2, <1>4
  <2> QED BY <1>1, <1>3, <1>4, <1>6, <2>1 DEF InStep
<1>11. SigsKnown' /\ EarlierSincere'
  <2>0. \A n \in DOMAIN log : n \in DOMAIN log' /\ log'[n] = log[n]
    BY <1>1, <1>4
  <2>1. ASSUME NEW sig, sig = new.sig PROVE SigKnown(sig)'
    <3>1. CASE sec = NoSecret
      BY <2>1, <3>1, RingAssumption DEF SigKnown, ComputeSig
    <3>2. CASE sec # NoSecret
      <4>1. sig.nonce = L + 1 /\ SameFields(sig, item)
        BY <1>1, <2>1, <3>2 DEF ComputeSig, SameFields
      <4>2. L + 1 \in DOMAIN log'
        BY <1>1, <1>4
      <4>3. FromLog(sig)'
        BY <1>4, <4>1, <4>2 DEF FromLog, SameFields
      <4> QED BY <4>3 DEF SigKnown
    <3> QED BY <3>1, <3>2
  <2>2. ASSUME NEW k \in 0 .. count' - 1 PROVE SigKnown(ring[At(k)].sig)'
    <3>1. CASE k = count' - 1
      BY <1>7, <2>1, <3>1, Zenon
    <3>2. CASE k \in 0 .. count' - 2
      <4>1. SigKnown(ring[At(Older(k))].sig)
        BY <1>0, <1>8, <3>2 DEF SigsKnown
      <4>2. \A sig : SigKnown(sig) => SigKnown(sig)'
        BY <1>1, <2>0 DEF SigKnown, FromLog, SameFields
      <4> QED BY <1>8, <3>2, <4>1, <4>2
    <3> QED BY <1>15, <3>1, <3>2
  <2>3. EarlierSincere'
    BY <1>1 DEF AuditInv, EarlierSincere, Sincere, SameFields
  <2> QED BY <2>2, <2>3 DEF SigsKnown
<1>12. AsWritten'
  <2> SUFFICES ASSUME faults = 0
               PROVE  /\ \A k \in 0 .. count' - 1 :
                           ring'[At(k)'] = Written(Len(log) - count + 1 + k)'
                      /\ \A n \in DOMAIN log' : log'[n].prev = Prev(n)'
    BY <1>1 DEF AsWritten
  <2>1. ComputePrevHash = IF L = 0 THEN ZeroHash ELSE log[L].state
    <3>1. CASE L = 0
      BY <1>2, <3>1 DEF ComputePrevHash
    <3>2. CASE L # 0
      <4>1. count > 0 /\ count - 1 \in 0 .. count - 1 /\ L - count + 1 + (count - 1) = L
        BY <1>1, <1>2, <3>2
      <4>2. ring[At(count - 1)] = Written(L)
        BY <1>0, <4>1 DEF AsWritten
      <4> QED BY <1>0, <3>2, <4>1, <4>2, NewestAt DEF ComputePrevHash, Written
    <3> QED BY <3>1, <3>2
  <2>2. ASSUME NEW k \in 0 .. count' - 1
        PROVE  ring'[At(k)'] = Written(Len(log) - count + 1 + k)'
    <3>2. CASE k = count' - 1
      <4>1. Len(log') - count' + 1 + k = L + 1
        BY <1>13, <1>14, <1>1, <3>2
      <4>2. ASSUME NEW n, n = L + 1 PROVE new = Written(n)'
        BY <1>1, <1>4, <4>2 DEF Written
      <4>3. new = Written(Len(log) - count + 1 + k)'
        BY <4>1, <4>2 DEF Written
      <4> QED BY <1>7, <3>2, <4>3
    <3>3. CASE k \in 0 .. count' - 2
      <4>1. /\ Len(log') - count' + 1 + k = L - count + 1 + Older(k)
            /\ L - count + 1 + Older(k) \in 1 .. L
        <5>1. CASE count < Cap
          BY <1>13, <1>14, <1>16, <3>3, <5>1 DEF Older
        <5>2. CASE count = Cap
          BY <1>13, <1>14, <1>16, <3>3, <5>2 DEF Older
        <5> QED BY <1>16, <5>1, <5>2
      <4>2. ring[At(Older(k))] = Written(L - count + 1 + Older(k))
        BY <1>0, <1>8, <3>3 DEF AsWritten
      <4>3. ASSUME NEW n \in 1 .. L PROVE Written(n)' = Written(n)
        BY <1>1, <1>4 DEF Written, Prev
      <4> QED BY <1>8, <3>3, <4>1, <4>2, <4>3
    <3> QED BY <1>15, <3>2, <3>3
  <2>3. ASSUME NEW n \in DOMAIN log' PROVE log'[n].prev = Prev(n)'
    <3>1. CASE n = L + 1
      <4>1. Prev(n)' = ComputePrevHash
        BY <1>1, <1>4, <2>1, <3>1 DEF Prev
      <4> QED BY <1>4, <3>1, <4>1
    <3>2. CASE n \in 1 .. L
      <4>1. log[n].prev = Prev(n) /\ log'[n] = log[n] /\ (n # 1 => log'[n - 1] = log[n - 1])
        BY <1>0, <1>1, <1>4, <3>2 DEF AsWritten
      <4> QED BY <4>1 DEF Prev
    <3> QED BY <1>1, <1>4, <3>1, <3>2
  <2> QED BY <2>2, <2>3
<1> QED BY <1>9, <1>10, <1>11, <1>12 DEF AuditInv

LEMMA AuditInvariant == AuditSpec => []AuditInv
<1>1. AuditInv /\ [AuditNext]_auditVars => AuditInv'
  <2> SUFFICES ASSUME AuditInv, [AuditNext]_auditVars PROVE AuditInv'
    OBVIOUS
  <2>1. CASE \E state \in State, stamp \in Stamp : Record(state, stamp[1], stamp[2])
    <3>1. \A stamp \in Stamp : stamp[1] \in Tick /\ stamp[2] \in Version
      BY FaultAssumption
    <3> QED BY <2>1, <3>1, RecordAudit
  <2>2. CASE \E key \in Key : SetSecret(key) /\ UNCHANGED <<log, faults, laundered, earlier>>
    BY <2>2, SetSecretAudit
  <2>3. CASE Restart
    BY <2>3, RestartAudit
  <2>4. CASE \E k \in 0 .. count - 1 : \E e \in Damaged(k) : Fault(k, e)
    BY <2>4, FaultAudit
  <2>5. CASE UNCHANGED auditVars
    <3>1. UNCHANGED <<attached, ring, head, count, sec, nonce, log, faults, laundered, earlier>>
      BY <2>5 DEF auditVars, ringVars
    <3>2. RingTypeOK' /\ InStep'
      BY <3>1 DEF AuditInv, RingTypeOK, InStep, At, Start
    <3>3. SigsKnown' /\ EarlierSincere' /\ AsWritten'
      BY <3>1 DEF AuditInv, SigsKnown, SigKnown, FromLog, EarlierSincere, AsWritten, Written, Prev, At, Start
    <3> QED BY <3>2, <3>3 DEF AuditInv
  <2> QED BY <2>1, <2>2, <2>3, <2>4, <2>5 DEF AuditNext
<1> QED BY InitAudit, <1>1, PTL DEF AuditSpec

-----------------------------------------------------------------------------
(* The ring's cursor, count and live entries keep their types whatever is   *)
(* appended, re-keyed, freed or damaged (src/proof.c).                      *)
THEOREM RingTypeCorrect == AuditSpec => []RingTypeOK
<1>1. AuditInv => RingTypeOK
  BY DEF AuditInv
<1> QED BY <1>1, AuditInvariant, PTL

(* The k-th live entry of an undamaged ring is the append Logged(k) names.  *)
LEMMA UndamagedEntry ==
  ASSUME AuditInv, faults = 0, NEW k \in 0 .. count - 1, NEW n, n = Len(log) - count + 1 + k
  PROVE  /\ n \in 1 .. Len(log) /\ ring[At(k)] = Written(n)
         /\ Logged(k) = log[n] /\ log[n] \in LogEntry
         /\ log[n].prev = Prev(n)
<1>1. Len(log) \in Nat /\ count \in 0 .. Cap /\ count <= Len(log) /\ Cap \in Nat
  BY RingAssumption DEF AuditInv, RingTypeOK, InStep
<1>2. n \in 1 .. Len(log)
  BY <1>1
<1>3. ring[At(k)] = Written(n)
  BY DEF AuditInv, AsWritten
<1>4. Logged(k) = log[n] /\ log[n] \in LogEntry
  BY <1>2 DEF Logged, AuditInv, InStep
<1>5. log[n].prev = Prev(n)
  BY <1>2 DEF AuditInv, AsWritten
<1> QED BY <1>2, <1>3, <1>4, <1>5

LEMMA UndamagedIsGenuine ==
  ASSUME AuditInv, faults = 0, NEW k \in 0 .. count - 1
  PROVE  Genuine(k)
<1> DEFINE n == Len(log) - count + 1 + k
<1>1. ring[At(k)] = Written(n) /\ Logged(k) = log[n]
  BY UndamagedEntry
<1> HIDE DEF n
<1> QED BY <1>1 DEF Genuine, Intact, Written

LEMMA UndamagedRing == AuditInv => RingHoldsTheLatest
<1> SUFFICES ASSUME AuditInv, attached, faults = 0
             PROVE  /\ count = IF Len(log) < Cap THEN Len(log) ELSE Cap
                    /\ \A k \in 0 .. count - 1 : Genuine(k)
                    /\ Verify
  BY DEF RingHoldsTheLatest
<1>1. count = IF Len(log) < Cap THEN Len(log) ELSE Cap
  BY DEF AuditInv, InStep
<1>2. \A k \in 0 .. count - 1 : Genuine(k)
  BY UndamagedIsGenuine
<1>3. ASSUME NEW k \in 1 .. count - 1
      PROVE  ring[At(k)].prev = ring[At(k - 1)].state
  <2>1. /\ k \in 0 .. count - 1 /\ k - 1 \in 0 .. count - 1 /\ count \in Nat
        /\ Len(log) \in Nat /\ count <= Len(log)
    BY RingAssumption DEF AuditInv, RingTypeOK, InStep
  <2> DEFINE n == Len(log) - count + 1 + k
  <2>2. n - 1 = Len(log) - count + 1 + (k - 1) /\ n # 1
    BY <2>1
  <2>3. ring[At(k)] = Written(n) /\ log[n].prev = Prev(n)
    BY <2>1, UndamagedEntry
  <2>4. ring[At(k - 1)] = Written(n - 1)
    BY <2>1, <2>2, UndamagedEntry
  <2> QED BY <2>2, <2>3, <2>4 DEF Written, Prev
<1> QED BY <1>1, <1>2, <1>3 DEF Verify

(* An undamaged ring holds exactly the last Cap appends, oldest first, and  *)
(* quilt_proof_verify accepts it, at every wrap of the cursor.              *)
THEOREM RingHoldsTheLatestCorrect == AuditSpec => []RingHoldsTheLatest
BY UndamagedRing, AuditInvariant, PTL

(* A ring that passes quilt_proof_verify_full under a key says what was     *)
(* appended, however many of its entries faults change and in whatever      *)
(* field, except where an entry of an earlier life was put back: its nonce  *)
(* was counted from the same start (proof.c:100).                          *)
THEOREM SignedTrailIsGenuineCorrect == AuditSpec => []SignedTrailIsGenuine
<1>1. AuditInv => SignedTrailIsGenuine
  <2> SUFFICES ASSUME AuditInv, VerifyFull, sec # NoSecret, NEW k \in 0 .. count - 1
               PROVE  Genuine(k) \/ ring[At(k)] \in earlier
    BY DEF SignedTrailIsGenuine
  <2> DEFINE e == ring[At(k)]
             n == nonce - count + 1 + k
  <2>1. e \in Entry /\ SigKnown(e.sig)
    BY LiveAt DEF AuditInv, SigsKnown
  <2>2. e.sig = ComputeSig(sec, e.prev, e.state, e.tick, e.version, n)
    BY DEF VerifyFull
  <2>3. nonce = Len(log) /\ nonce \in Nat /\ count \in Nat /\ count <= nonce /\ sec \in Key
    BY RingAssumption DEF VerifyFull, Verify, AuditInv, InStep, RingTypeOK
  <2>4. n \in Nat \ {0}
    BY <2>3
  <2>5. e.sig \in Signed
    BY <2>1, <2>2, <2>3, <2>4, SigType DEF Entry
  <2>6. e.sig.nonce = n /\ SameFields(e.sig, e)
    BY <2>2 DEF ComputeSig, SameFields
  <2>7. Logged(k) = log[n]
    BY <2>3 DEF Logged
  <2>8. CASE FromLog(e.sig)
    BY <2>6, <2>7, <2>8 DEF FromLog, SameFields, Genuine, Intact
  <2>9. CASE \E x \in earlier : x.sig = e.sig
    <3>1. PICK x \in earlier : x.sig = e.sig
      BY <2>9
    <3>2. x \in Entry /\ SameFields(x, x.sig)
      BY <2>5, <3>1 DEF AuditInv, EarlierSincere, Sincere
    <3>3. x = e
      BY <2>1, <2>6, <3>1, <3>2 DEF Entry, SameFields
    <3> QED BY <3>1, <3>3
  <2> QED BY <2>1, <2>5, <2>8, <2>9 DEF SigKnown
<1> QED BY <1>1, AuditInvariant, PTL

(* An undamaged ring passes quilt_proof_verify_full exactly when every live *)
(* entry was signed with the key now set, so a new key takes Cap appends to *)
(* be accepted.                                                            *)
THEOREM KeyEpochCorrect == AuditSpec => []KeyEpoch
<1>1. AuditInv => KeyEpoch
  <2> SUFFICES ASSUME AuditInv, attached, faults = 0
               PROVE  VerifyFull <=> \A k \in 0 .. count - 1 : Logged(k).key = sec
    BY DEF KeyEpoch
  <2>1. /\ nonce = Len(log) /\ nonce \in Nat /\ count \in Nat /\ count <= nonce
        /\ sec \in Key
    BY RingAssumption DEF AuditInv, InStep, RingTypeOK
  <2>2. Verify
    BY UndamagedRing DEF RingHoldsTheLatest
  <2>3. ASSUME NEW k \in 0 .. count - 1
        PROVE  LET e == ring[At(k)]
               IN  e.sig = ComputeSig(sec, e.prev, e.state, e.tick, e.version,
                                      nonce - count + 1 + k)
                   <=> Logged(k).key = sec
    <3> DEFINE n == Len(log) - count + 1 + k
    <3>1. /\ n \in 1 .. Len(log) /\ ring[At(k)] = Written(n)
          /\ Logged(k) = log[n] /\ log[n] \in LogEntry
      BY UndamagedEntry
    <3>2. n = nonce - count + 1 + k /\ n \in Nat \ {0}
      BY <2>1, <3>1
    <3> HIDE DEF n
    <3> DEFINE i == log[n]
               own == ComputeSig(i.key, i.prev, i.state, i.tick, i.version, n)
               now == ComputeSig(sec, i.prev, i.state, i.tick, i.version, n)
    <3>3. i.key \in Key /\ i.prev \in Hash /\ i.state \in State /\ i.tick \in Tick
          /\ i.version \in Version
      BY <3>1 DEF LogEntry
    <3>4. own = now <=> i.key = sec
      <4>2. CASE i.key # NoSecret /\ sec # NoSecret
        <5>1. own.key = i.key /\ now.key = sec
          BY <4>2 DEF ComputeSig
        <5> QED BY <5>1
      <4>3. CASE i.key = NoSecret /\ sec # NoSecret
        <5>1. own = NoSig
          BY <4>3 DEF ComputeSig
        <5>2. now \in Signed
          BY <2>1, <3>1, <3>2, <3>3, <4>3, SigType
        <5> QED BY <4>3, <5>1, <5>2, RingAssumption
      <4>4. CASE i.key # NoSecret /\ sec = NoSecret
        <5>1. now = NoSig
          BY <4>4 DEF ComputeSig
        <5>2. own \in Signed
          BY <3>1, <3>2, <3>3, <4>4, SigType
        <5> QED BY <4>4, <5>1, <5>2, RingAssumption
      <4>5. CASE i.key = NoSecret /\ sec = NoSecret
        BY <4>5
      <4> QED BY <4>2, <4>3, <4>4, <4>5
    <3>5. /\ ring[At(k)].sig = own /\ ring[At(k)].prev = i.prev
          /\ ring[At(k)].state = i.state /\ ring[At(k)].tick = i.tick
          /\ ring[At(k)].version = i.version
      BY <3>1 DEF Written
    <3> QED BY <3>1, <3>2, <3>4, <3>5, Zenon
  <2> QED BY <2>1, <2>2, <2>3 DEF VerifyFull
<1> QED BY <1>1, AuditInvariant, PTL

(* quilt_proof_locate on an undamaged ring answers with the oldest live     *)
(* append of that tick, and fails only when there is none.                 *)
THEOREM LocateIsOldestCorrect == AuditSpec => []LocateIsOldest
<1>1. AuditInv => LocateIsOldest
  <2> SUFFICES ASSUME AuditInv, attached, faults = 0, NEW t \in Tick, NEW k \in 0 .. count - 1
               PROVE  k \in Located(t) <=>
                        /\ Logged(k).tick = t
                        /\ \A m \in 0 .. k - 1 : Logged(m).tick # t
    BY DEF LocateIsOldest
  <2>1. \A m \in 0 .. count - 1 : ring[At(m)].tick = Logged(m).tick
    BY UndamagedIsGenuine DEF Genuine
  <2>2. \A m \in 0 .. k - 1 : m \in 0 .. count - 1
    BY RingAssumption DEF AuditInv, RingTypeOK
  <2> QED BY <2>1, <2>2 DEF Located
<1> QED BY <1>1, AuditInvariant, PTL

-----------------------------------------------------------------------------
(* LinksShowOneFault.  Until a damaged hash is covered by an append, a      *)
(* single fault leaves every live entry but one saying what was appended,   *)
(* also what its predecessor's hash was.                                   *)
Agrees(e, n) == e.state = log[n].state /\ (n > 1 => e.prev = log[n - 1].state)

AllAgreeBut(d) ==
  \A k \in 0 .. count - 1 : k # d => Agrees(ring[At(k)], Len(log) - count + 1 + k)

OneDamaged == faults <= 1 /\ ~laundered => \E d \in Int : AllAgreeBut(d)

LEMMA LiveDistinct ==
  ASSUME RingTypeOK, InStep, NEW k \in 0 .. count - 1, NEW m \in 0 .. count - 1, k # m
  PROVE  At(k) # At(m)
<1>1. Cap \in Nat \ {0} /\ head \in 0 .. Cap - 1 /\ count \in 0 .. Cap
      /\ (count < Cap => head = count) /\ k \in 0 .. Cap - 1 /\ m \in 0 .. Cap - 1
  BY RingAssumption DEF Pos, RingTypeOK, InStep
<1>2. At(k) = Place(head, count, k) /\ At(m) = Place(head, count, m)
  BY <1>1, LivePlaces DEF Pos
<1>3. Place(head, count, k) # Place(head, count, m)
  BY <1>1 DEF Place, Wrapped
<1> QED BY <1>2, <1>3, Zenon

LEMMA FaultDamagesOne ==
  ASSUME AuditInv, NEW k \in 0 .. count - 1, NEW e \in Damaged(k), Fault(k, e)
  PROVE  OneDamaged'
<1>1. /\ ring' = [ring EXCEPT ![At(k)] = e]
      /\ UNCHANGED <<head, count, log>> /\ faults' = faults + 1 /\ faults \in Nat
  BY DEF Fault, AuditInv, InStep
<1> SUFFICES ASSUME faults = 0 PROVE AllAgreeBut(k)'
  <2>1. k \in Int /\ (faults' <= 1 => faults = 0)
    BY <1>1
  <2> QED BY <2>1 DEF OneDamaged
<1> SUFFICES ASSUME NEW m \in 0 .. count - 1, m # k
             PROVE  Agrees(ring'[At(m)], Len(log) - count + 1 + m)
  BY <1>1 DEF AllAgreeBut, Agrees, At, Start
<1> DEFINE n == Len(log) - count + 1 + m
<1>2. At(m) # At(k) /\ At(m) \in Pos
  BY LiveAt, LiveDistinct DEF AuditInv
<1>3. ring'[At(m)] = ring[At(m)]
  BY <1>1, <1>2 DEF AuditInv, RingTypeOK
<1>4. ring[At(m)] = Written(n) /\ n \in 1 .. Len(log) /\ log[n].prev = Prev(n)
  BY UndamagedEntry
<1> HIDE DEF n
<1>5. Agrees(Written(n), n)
  BY <1>4 DEF Agrees, Written, Prev
<1> QED BY <1>3, <1>4, <1>5 DEF n

LEMMA RecordKeepsOneDamaged ==
  ASSUME AuditInv, OneDamaged, NEW state \in State, NEW tick \in Tick, NEW version \in Version,
         Record(state, tick, version), faults <= 1, ~laundered'
  PROVE  \E d \in Int : AllAgreeBut(d)'
<1> DEFINE L == Len(log)
           new == NewEntry(state, tick, version)
<1>1. RingTypeOK /\ InStep /\ AppendEntry(state, tick, version)
  BY DEF AuditInv, Record
<1>2. /\ ~laundered /\ (count > 0 => Intact(count - 1))
      /\ log' = Append(log, [prev |-> ComputePrevHash, state |-> state, tick |-> tick,
                             version |-> version, key |-> sec])
      /\ count' = IF count < Cap THEN count + 1 ELSE count
  BY <1>1 DEF Record, AppendEntry
<1>3. /\ log \in Seq(LogEntry) /\ L \in Nat /\ Cap \in Nat \ {0} /\ count \in 0 .. Cap
      /\ count = IF L < Cap THEN L ELSE Cap
  BY <1>1, RingAssumption DEF RingTypeOK, InStep
<1>4. /\ Len(log') = L + 1 /\ log'[L + 1].state = state
      /\ \A n \in 1 .. L : log'[n] = log[n]
  BY <1>2, <1>3
<1>5. Len(log') = L + 1
  BY <1>4
<1>6. /\ \A k \in 0 .. count' - 1 : k = count' - 1 => ring'[At(k)'] = new
      /\ \A k \in 0 .. count' - 2 :
           Older(k) \in 0 .. count - 1 /\ ring'[At(k)'] = ring[At(Older(k))]
  BY <1>1, AppendedEntries
<1>7. new.state = state /\ new.prev = ComputePrevHash
  BY DEF NewEntry
<1>8. L > 0 => ComputePrevHash = log[L].state
  <2> SUFFICES ASSUME L > 0 PROVE ComputePrevHash = log[L].state
    OBVIOUS
  <2>1. count > 0 /\ L - count + 1 + (count - 1) = L
    BY <1>3
  <2>2. ring[At(count - 1)].state = log[L].state
    BY <1>2, <2>1 DEF Intact, Logged
  <2>3. count # 0
    BY <2>1
  <2> QED BY <1>1, <2>1, <2>2, <2>3, NewestAt DEF ComputePrevHash
<1> HIDE DEF new
<1>9. PICK d \in Int : AllAgreeBut(d)
  BY <1>2 DEF OneDamaged
<1>10. PICK c \in Int : c = IF count < Cap THEN d ELSE d - 1
  OBVIOUS
<1>11. /\ L \in Nat /\ Cap \in Nat \ {0} /\ count \in 0 .. Cap /\ count <= L
       /\ count' = IF count < Cap THEN count + 1 ELSE count
  BY <1>2, <1>3
<1>12. ASSUME NEW k \in 0 .. count' - 1, k # c
       PROVE  Agrees(ring[At(k)], Len(log) - count + 1 + k)'
  <2>1. CASE k = count' - 1
    <3>1. Len(log') - count' + 1 + k = L + 1
      BY <1>5, <1>11, <2>1
    <3>2. L + 1 > 1 => L > 0 /\ log'[L] = log[L] /\ (L + 1) - 1 = L
      BY <1>3, <1>4
    <3>3. ring'[At(k)'] = new
      BY <1>6, <2>1
    <3>4. \A m : m = L + 1 =>
            new.state = log'[m].state /\ (m > 1 => new.prev = log'[m - 1].state)
      BY <1>4, <1>7, <1>8, <3>2
    <3> QED BY <3>1, <3>3, <3>4 DEF Agrees
  <2>2. CASE k \in 0 .. count' - 2
    <3>1. Older(k) \in 0 .. count - 1 /\ ring'[At(k)'] = ring[At(Older(k))]
      BY <1>6, <2>2
    <3>2. /\ Len(log') - count' + 1 + k = L - count + 1 + Older(k)
          /\ L - count + 1 + Older(k) \in 1 .. L /\ Older(k) # d
      <4>1. CASE count < Cap
        BY <1>5, <1>10, <1>11, <1>12, <2>2, <4>1 DEF Older
      <4>2. CASE count = Cap
        BY <1>5, <1>10, <1>11, <1>12, <2>2, <4>2 DEF Older
      <4> QED BY <1>11, <4>1, <4>2
    <3>3. Agrees(ring[At(Older(k))], L - count + 1 + Older(k))
      BY <1>9, <3>1, <3>2 DEF AllAgreeBut
    <3>4. ASSUME NEW n \in 1 .. L, NEW e, Agrees(e, n)
          PROVE  e.state = log'[n].state /\ (n > 1 => e.prev = log'[n - 1].state)
      BY <1>3, <1>4, <3>4 DEF Agrees
    <3> QED BY <3>1, <3>2, <3>3, <3>4 DEF Agrees
  <2>3. k = count' - 1 \/ k \in 0 .. count' - 2
    BY <1>11
  <2> QED BY <2>1, <2>2, <2>3
<1> QED BY <1>12 DEF AllAgreeBut

LEMMA OneDamagedStep ==
  ASSUME AuditInv, OneDamaged, [AuditNext]_auditVars
  PROVE  OneDamaged'
<1>1. ASSUME NEW state \in State, NEW tick \in Tick, NEW version \in Version,
             Record(state, tick, version)
      PROVE  OneDamaged'
  <2>1. faults' = faults
    BY <1>1 DEF Record
  <2> QED BY <1>1, <2>1, RecordKeepsOneDamaged DEF OneDamaged
<1>2. ASSUME UNCHANGED <<ring, head, count, log, faults, laundered>> PROVE OneDamaged'
  BY <1>2 DEF OneDamaged, AllAgreeBut, Agrees, At, Start
<1>3. CASE \E key \in Key : SetSecret(key) /\ UNCHANGED <<log, faults, laundered, earlier>>
  BY <1>2, <1>3 DEF SetSecret
<1>4. CASE Restart
  <2>1. count' = 0
    BY <1>4 DEF Restart, FreeRing, InitRing
  <2>2. AllAgreeBut(0)'
    BY <2>1 DEF AllAgreeBut
  <2> QED BY <2>2 DEF OneDamaged
<1>5. CASE \E k \in 0 .. count - 1 : \E e \in Damaged(k) : Fault(k, e)
  BY <1>5, FaultDamagesOne
<1>6. CASE UNCHANGED auditVars
  BY <1>2, <1>6 DEF auditVars, ringVars
<1>7. \A stamp \in Stamp : stamp[1] \in Tick /\ stamp[2] \in Version
  BY FaultAssumption
<1> QED BY <1>1, <1>3, <1>4, <1>5, <1>6, <1>7 DEF AuditNext

LEMMA OneDamagedShows ==
  ASSUME AuditInv, OneDamaged
  PROVE  LinksShowOneFault
<1> SUFFICES ASSUME Verify, faults <= 1, ~laundered, NEW k \in 0 .. count - 2
             PROVE  Intact(k)
  BY DEF LinksShowOneFault
<1>1. PICK d \in Int : AllAgreeBut(d)
  BY DEF OneDamaged
<1>2. Len(log) \in Nat /\ count \in Nat /\ count <= Len(log)
  BY RingAssumption DEF AuditInv, RingTypeOK, InStep
<1> DEFINE n == Len(log) - count + 1 + k
<1>3. /\ k \in 0 .. count - 1 /\ k + 1 \in 0 .. count - 1 /\ k + 1 \in 1 .. count - 1
      /\ (k + 1) - 1 = k /\ n + 1 > 1 /\ (n + 1) - 1 = n
      /\ Len(log) - count + 1 + (k + 1) = n + 1
  BY <1>2
<1>4. k # d => Agrees(ring[At(k)], n)
  BY <1>1, <1>3 DEF AllAgreeBut
<1>5. k + 1 # d => Agrees(ring[At(k + 1)], n + 1)
  BY <1>1, <1>3 DEF AllAgreeBut
<1>6. ring[At(k + 1)].prev = ring[At(k)].state
  BY <1>3 DEF Verify
<1>7. k # d \/ k + 1 # d
  OBVIOUS
<1>8. Logged(k) = log[n]
  BY DEF Logged
<1> HIDE DEF n
<1> QED BY <1>3, <1>4, <1>5, <1>6, <1>7, <1>8 DEF Agrees, Intact

(* quilt_proof_verify alone finds any one fault in a state hash that a      *)
(* later entry covers, unless the damage was covered before it was looked   *)
(* for.                                                                    *)
THEOREM LinksShowOneFaultCorrect == AuditSpec => []LinksShowOneFault
<1>1. AuditInit => OneDamaged
  <2> SUFFICES ASSUME AuditInit PROVE AllAgreeBut(0)
    BY DEF OneDamaged
  <2>1. count = 0
    BY DEF AuditInit, RingInit
  <2> QED BY <2>1 DEF AllAgreeBut
<1> QED BY <1>1, AuditInvariant, OneDamagedStep, OneDamagedShows, PTL DEF AuditSpec
=============================================================================
