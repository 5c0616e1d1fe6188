# quilt-c: specifications and proofs

TLA+ models of the C runtime of quilt-c (`src/src/*.c` with its headers under
`src/include/quilt/`), of its Python cell API (`src/cell_api.py`) and of the
citation walk (`src/live_canon.c`), TLC configurations that check them on small instances,
and TLAPS proofs, for every value of the constants, of all the safety properties
the runs check.
`PROJECT.json` lists components, runs, mutants, the source lines every
definition stands for, findings, hazards and theorems.

    tlc -workers 2 -config EngineLinks.cfg MCEngineLinks.tla   # one run
    tlapm EngineProofs.tla                                     # one set of proofs

## 1. The system

quilt-c is a library. It starts no thread, has no event loop and owns almost no
memory: the caller passes in the cell array, the link table, the journal, the
PROOF ring and the snapshot buffer, and calls one function at a time. So the
hard behaviours are not races between threads. They are long sequences of legal
calls whose effects meet later (indices, capacities, hashes and verdicts that
were true when they were taken), limits (full arrays, saturated counters, wrapped
rings, an allocation that fails half way, a Python call that raises half way),
replicas that exchange copies at any time, and stored bytes that come back
damaged.

| Component | State | Operations | What makes it correct |
|---|---|---|---|
| cell graph engine (`engine.c`) | cells in array order, link slots `link_from/link_to`, tick, journal bytes | BIND, LINK, EFFECT, TICK, FORGET, VIEW; registration of formula cells by the caller | ids unique; a value changes only with its version; links acyclic and between live cells; the journal replays; formulas catch up |
| PROOF ring (`proof.c`) | ring of signed entries, head, count, nonce, key | init, set_secret, append, free, verify, verify_full, locate | the ring is a window on the appends; a signed ring that verifies is genuine, within one life of the ring |
| PN-counter, MV-register, OR-set (`crdt.c`) | one fixed-size replica per peer | inc/dec/value, set, add, merge | replicas that saw the same operations agree |
| ROUTE (`route.c`) | five counters, a total, the preferred kind | init, record, pick, policy | the preferred kind is the one recorded most, the first of several |
| physical.world (`world.c`) | program text in a growing buffer, two hashes, a verdict | set, propose, refine, execute, verify, free, init | a verdict belongs to its text; the hashes chain the texts; text and NUL fit |
| time.cell (`time.c`) | context and covariate buffers, horizon, forecast arrays | bind (3), set_horizon, forecast, reads, free, init | reads return the current forecast; copies fit their buffers |
| QUF snapshot (`quf.c`) | pointers to caller arrays or into a loaded buffer | sizeof, serialize, deserialize, seal, dial conversions, op_bind | what is written is what is read; what is accepted lies inside the file; what is bound back is what was saved |
| A2A cell API (`cell_api.py`) | Python dict of cells in order of BIND, tick, receipt chain | BIND, LINK, EFFECT, VIEW, TICK; laws | BIND is idempotent; a version key tells its age; a digest is lost only through a number no digest can hold |
| citation walk (`live_canon.c`) | table of papers, their hash | add, NAVIGATE; lineage, ghosts | NAVIGATE is breadth-first and complete; the hash forgets the order |
| trace grammar (`trace_gram2.c`) | counters of a random schedule | stand-alone program | – |
| tools (`verify.py`, `release_verify.mjs`, Makefile, CI) | files and processes | – | – |

How they interact: every component is reached only through its caller. A
snapshot borrows the dial rows of cells and the entries of a PROOF ring, and its
`op_bind` writes into the cell array of an engine without the engine; a
PROOF entry records the hash, tick and version a caller took from a cell; CRDT
replicas meet only when a caller passes one to another's `merge`. There are no
callbacks but an evaluator `eval(inputs)` of a formula cell, which the engine
calls in EFFECT and TICK and which is a pure function.

## 2. Modules and how they correspond to the code

All errors and early returns of the code that leave the state alone are
stuttering steps: an action's guard is the conjunction of the conditions under
which the C function gets as far as changing something. VIEW and the law
helpers change nothing. Every parameter is a CONSTANT with a named assumption.

| Module | Models | State ↔ code |
|---|---|---|
| `Engine` | `engine.c` | `cells` is the live prefix of `e->cells` (1-based), `links[k]` the pair of `link_from/link_to` in slot k, `journal`/`journal_len` the bytes written, `pos` TICK's loop variable |
| `EngineLinks` | link table under FORGET | adds the history `stacked`: all FORGETs so far took the last cell |
| `EngineSheet` | TICK as a spreadsheet pass | adds the history `passes` |
| `CycleWalk` | LINK with the walk of `has_cycle` step by step | `from`, `to`, `stack`, `visited`, `cur` as in the C function, `scan` the slot the two nested loops are at |
| `EngineSnapshot` | an engine, its dial rows and `quilt_quf_op_bind` | `rows` is `q->dials`; histories of what was saved, restored and not journaled |
| `CellStore`, `Fabric` | abstract specifications: a versioned store; an acyclic graph of ids | refined by `Engine` and, under `stacked`, by `EngineLinks` |
| `EngineProofs` | theorems about `Engine`, its journal and `EngineSheet` | |
| `EngineLinksProofs` | theorems about `EngineLinks` and `CycleWalk` | |
| `ProofRing` | `proof.c` | `ring`, `head`, `count`, `nonce`, `sec`; hashes and the keyed FNV are injective constructors |
| `ProofAudit` | the ring as an audit trail | adds the log of appends, faults in ring memory, whether an append covered a damaged entry, and the entries of ended lives of which a copy survives (`earlier`) |
| `ProofAuditProofs` | theorems about `ProofAudit` | |
| `PNCounter`, `MVRegister`, `ORSet` | `crdt.c`, replicated | one replica per peer, copies on their way, and histories of what was done and seen |
| `CrdtProofs` | theorems about `PNCounter`, `MVRegister` and `ORSet` | |
| `World` | `world.c` | text, capacity, both hashes, verdict; histories of texts set and of the last verify |
| `Time` | `time.c` | what is allocated against what the cell believes (`context_len`, `n_past_*_cov`), forecast arrays with their size, tagged with what they were made from; a history of a forecast that failed in its first allocation (`starved`) |
| `Quf` | `quf.c`, files | a buffer of blocks written by `serialize`, damaged in storage, read by `deserialize`; a reader keeps as history the sizes and the length it was told |
| `QufDial` | `quf.c`, dial rows | Q1.15 conversions between a cell's value and its saved row, used by `EngineSnapshot` |
| `SnapshotProofs` | theorems about `EngineSnapshot`, `QufDial` and `Quf` | |
| `Route` | `route.c` | `count`, `total`, `preferred`; a history of the events recorded |
| `Canon` | `live_canon.c` | `papers` and `canon_hash`; `queue`, `marked`, `out` of the running NAVIGATE |
| `StandaloneProofs` | theorems about `World`, `Time`, `Route` and `Canon` | |
| `CellApi` | `cell_api.py` | `order` and `cells` are the dict, `tick` the counter; histories of cells torn by a raising call, of the BIND sealed last, and of the negative numbers BINDs were given |
| `CellApiProofs` | theorems about `CellApi` | |
| `Induction` | lemmas: induction, recursive functions, folds | |
| `MC*` | model-checking sizes | |

Choices worth knowing:

* **TICK is not atomic.** TICK evaluates cells in array order against values the
  same pass has already changed, so it is modelled cell by cell (`TickBegin`,
  `TickCell`, `TickEnd`); no other operation runs in between (`pos = 0` guards).
* **`has_cycle`** is modelled twice. In `Engine` it is the set its walk visits,
  restricted to the slots it scans (the first `n_cells * max_links` of the table),
  inside an atomic LINK. In `CycleWalk` it is the loop itself, one step per pop
  and per slot, with its explicit stack; `WalkImplementsLink` proves that the
  second does what the first says.
* **Values** are taken up to `quilt_v_eq`; `Incomparable` holds the values that
  differ from themselves (NaN, a STR whose pointer is NULL).
* **Registration** follows the tests: the caller fills `cells[n_cells]` and
  increments `n_cells`, at version 0, without a journal entry.
* **CRDT transport** is outside `src/`: copies are sent at any time, arrive any
  number of times in any order, or are lost. Clocks of the MV-register come from
  callers, so they may repeat or go back.
* **Faults in a ring**: `ProofAudit!Fault` changes one live entry: any one of its
  fields (`prev_hash`, `state_hash`, `tick`, `version`), its signature, which
  becomes none or one that was made at some time, or the whole of it, which becomes
  a copy of a live entry, of one that was overwritten, or of one of an earlier life
  of the ring. `Restart` chooses which entries of an ended life survive as copies.
  Faults in the ring's own struct (`head`, `count`, `nonce`, the key) are not
  considered, nor entries another ring signed with the same key.
* **Faults in a file**: `Quf!Damage` changes one header field to any number of its
  width (`Garbage`), cuts the section table or lets it grow by an entry read out of
  zeros; `Deserialize` is called with any length. Several such faults in one
  header, allowed by the theorems, are what a misread length amounts to.
* **Reads of the forecast** are followed to the end: a read past the array, or
  behind a NULL array, is `Outside`, and `NeverStale` says when that can happen.
* **Allocation failure** is a nondeterministic outcome wherever the code calls
  `malloc` or `realloc` and handles NULL (`ORSet`, `World`, `Time`).
* **Raising calls**: a Python opcode may raise half way (a dial that is no number,
  a number over 32 bits or below zero, neither of which BIND looks at). Nothing catches it: what the call had changed stays, no
  receipt is sealed. `CellApi!Raise` is that outcome.
* **Outside the array**: `live_canon.c` indexes `visited[256]` with paper numbers.
  The model does not follow the memory this overwrites: the result is then `Lost`,
  and `NavigateIsBFS` says from which tables that can happen.
* **Undefined sums**: `quilt_pn_counter_value` may leave int64 half way; then
  `Values` is every int64.

## 3. Runs

Twelve runs; eleven find no error, one shows a divergence. Deadlock is checked
in all.

**Fairness.** Nothing in this code is scheduled: every function runs only when a
caller calls it, so nothing obliges a next call and no operation is fair. What is
fair is the inside of a call: a C function that has been entered runs on. The one
loop whose end is not evident, `has_cycle` over a table that FORGET may have left
cyclic, is therefore checked under `WF_walkVars(WalkStep)`, and `WalkEnds` says
that it ends. The other "eventually" of the code, that repeated TICKs bring
formulas up to date, depends on the caller and is stated with a count of passes
(`SettlesInTime`) instead.

**Sums.** `Standalone` and `Collections` each check components that hold no state
in common and never call each other: in a behaviour one of them moves (`moving`)
and the others stay as they were initialised, so the states are the sum and not
the product of theirs.

| Run | Properties | Bounds, and why they are enough |
|---|---|---|
| `EngineLinks` | `Acyclic`, `StackLeavesNoResidue`, `StackIsFabric` | 4 cells, one slot per cell (the code's default is 4; only `n_cells * max_links` matters, and one slot makes the window tightest): three-edge cycles, stale indices after FORGET, slots reused. Values, journal and ticks play no part and are fixed |
| `EngineCycle` (violation) | `Acyclic` | as above without the discipline |
| `EngineJournal` | `TypeOK`, `JournalReplays` | 2 cells, versions to 2, one tick, 60 bytes: five entries and a partly usable rest, so the hole case (a long entry dropped, a short one written) occurs |
| `EngineSheet` | `UniqueIds`, `SettlesInTime`, `ImplementsStore` | 3 cells, any of them a formula, any registration order, NaN, circular reads, FORGET; 3 ticks, since at most two formulas can be read early |
| `ProofAudit` | `RingTypeOK`, `RingHoldsTheLatest`, `SignedTrailIsGenuine`, `KeyEpoch`, `LinksShowOneFault`, `LocateIsOldest` | capacity 2 and 3 appends in each life: the ring wraps and a full turn of it has been overwritten; 2 keys and none; 2 ticks, each appended with its own version, so that a fault can part the two; one fault of any kind in each life; one entry of earlier lives kept |
| `PNCounter` | `CounterTypeOK`, `CounterConverges`, `ValueCountsTheSeen` | 3 peers (so that a copy can be relayed), 4 operations, int64 saturating at 2 and the clock at 3: both limits are passed |
| `Collections` | `HoldsTheLatest`, `OwnLatestSurvives`, `HoldsTheSeen` | MV-register: 3 peers with room for 2 writes, clocks 0..2 in any order, 4 writes: full registers, ties, clocks going back. OR-set: 3 elements with room for 2, failing allocations, 2 copies on their way |
| `Standalone` | `WorldTypeOK`, `ChainFollowsTexts`, `VerdictIsAboutTheText`; `NeverStale`, `BufferIsLargeEnough`, `ReadsAreTheForecast`; `PreferredIsMostRecorded`; `NavigateIsBFS`, `HashIgnoresOrder` | World: texts of up to 4 parts over capacity 2: two doublings, each of which may fail; negative tolerance. Time: tensors up to 3 by 2, horizon up to 2, first capacity 1: up to three doublings; one covariate buffer stands for the two, which the same code serves. Route: counters full at 3, 4 events of each kind, so a full counter is passed. Canon: 3 papers with circles, repeated and missing references, numbers that share `dial[0]` and numbers outside `visited[]`; depth up to 3 |
| `Quf` | `WrittenIsAccepted`, `ReaderSeesWritten`, `RowsAreInside` | three shapes (empty; sections that end inside a block; a proof longer than a block), one header fault; the numbers of a damaged field are small ones, one aligned inside the file, two beyond the width of a count or of `k` (264 is cut to the right `k`, 256 to none) and the last aligned one of the address space, from where a section wraps into the buffer; any number of blocks passed in, or a byte less |
| `EngineSnapshot` | `RestoresTheSaved`, `JournalTrailsRestores` | 2 cells, versions to 3, 36 bytes of journal, Q1.15 scaled to 4 steps: beyond 16 bits, beyond minus one, one itself, a text; snapshots bound to more cells than they hold, to other cells, and twice |
| `CycleWalk` | `WalkDecides`, `StackFits`, `WalkEnds` | 3 cells and 4 slots: cycles through slots no scan saw, two edges to one cell, slots beyond the live rows. No symmetry, because `WalkEnds` is a liveness property |
| `CellApi` | `KeyTellsAge`, `LostDigestHasACause`, `BindIsIdempotent` | 2 cells, versions to 4, 2 TICKs, digests of 2 dials with numbers up to 2: dials beyond the digest, at its top and over it, a negative one that one TICK does not bring up to zero, dials that are no numbers, self-links; addresses are symmetric |

Symmetry is used where the model only compares the permuted values (ids, addresses, states,
keys, peers, elements, tensor data), never with a temporal property other than
`[][A]_v`.

**Disciplines.** Some properties hold only for callers that keep to a discipline
the code does not enforce. They are stated with a history variable rather than
hidden in a restricted next-state relation, so every run still explores the
undisciplined calls:

* `stacked` – FORGET took the newest cell each time. FORGET of another cell
  shifts the array and leaves stale indices in the link table.
* `careful` – tensors have rows and columns, a freed time.cell is initialised
  before tensors are bound again, the horizon is set only while there is no
  forecast.
* `advancing` – a peer's MV-register clock grows with each of its writes; `rising` –
  it never goes back.
* `steady` – no cell was forgotten since the snapshot was saved; op_bind goes by
  position.
* `torn` – cells a raising call of the cell API changed and no later version
  covered.
* `WithinWindow` (in `WindowSpec` and `LinksWindowSpec`) is the exception: it
  restricts steps, because one step outside it may already close a cycle. The
  run `EngineCycle` shows what happens without it.

**Mutants.** Every property of a passing run has a mutated form of a mapped
definition (`VisitedOneStep`, `StrictAppend`, `PrevHashOfOldest`,
`MergedKeepsClock`, ...), kept next to the definition, that TLC shows to break
it.

## 4. Proofs

All constants are arbitrary values that satisfy the named assumptions; the bounds
that exist for model checking (`MaxTick`, `MaxNonce`, `MaxFaults`, `MaxOps`,
`Bindable`, ...) only remove steps, so the theorems hold for every value of them
too. Each invariant named here was first checked by TLC on the run of its module.
The assumptions say what the C types say (an id is not the missing id, a tensor
not NULL, a table has at least one slot, an evaluator returns a value); the few
that say more are named with the theorems that use them.

**Induction** (`Induction`). What the code computes in a loop, the models compute
with a recursive function or a fold, and to know its value takes an induction. The
prover takes no predicate as a parameter, so induction is stated on sets
(`SetInduction`: a set with 0 and the successor of each of its numbers holds
`Nat`), proved from the pigeonhole principle, and used by naming the set of the
numbers at which something holds. `RecursionExists` builds the function that a
recursive definition describes out of finite approximations; `IterationExists`
does it for folds, whose definition recurs over sets by their largest element.

**Engine** (`EngineProofs`, from `ConstantsAssumption` and `EvalAssumption`:
evaluators return values).

* `TypeCorrect`: `Spec => []TypeOK`, and `UniqueIdsCorrect`: `Spec => []UniqueIds`.
  They are proved together as `EngineInv`: that FORGET and the rewriting of a cell
  keep the array well formed needs the lemmas `AppendCell`, `UpdateCell`,
  `RemoveCell` on sequences, and that a found index is the only one needs unique
  ids.
* `AcyclicCorrect`: `WindowSpec => []Acyclic`. The argument is on sets: when LINK
  adds `<<i, j>>` and `i` is not visited from `j`, a set without a source in the
  new table would, cut with the visited cells, give a set without a source in the
  old one (`LinkKeepsAcyclic`). It needs every used slot to be scanned, which is
  what the discipline says and FORGET breaks. `IdsFormDagCorrect`
  (`EngineLinksProofs`) carries it over to the links as a caller reads them,
  through the ids of the cells that live now.
* `StoreImplemented`: `Spec => ImplementsStore`, step by step: BIND and
  registration create, BIND, EFFECT and TICK update value and version together,
  FORGET removes one id and leaves the others, all else stutters.
  `VersionsTellCorrect` reads off it what a caller may cache: while an id lives,
  its value changes only in a step that raises its version, and by one.
* `JournalReplaysCorrect`: `Spec => []JournalReplays`. No
  induction over the journal is needed, because the property speaks of the last
  entry about an id (`LastSays`). `RoomTaken`: when the longest entry would still
  fit after an append, it fitted before, so the append was not the dropped one.
  `AppendedReplay`: the new entry becomes the last about its own id and leaves the
  others. That it carries the new version is read off the refinement: the step is
  a `Create`, `Update` or `Remove` of `CellStore`.
* `SettlesInTimeCorrect`: `SheetSpec => []SettlesInTime`. `SheetInv` says that some
  set of formulas is *settled*: closed under reads of other formulas, and each equal
  to what its evaluator returns on the values at hand. Neither EFFECT nor TICK
  ever changes a settled formula. While a pass runs, a visited formula whose late
  reads (of cells not before it) are settled is current too
  (`VisitedAreCurrent`); and each whole pass settles one more formula that somebody
  reads early, or all there are (`PassesCounted`). That a pass makes this progress
  (`PassSettles`) is shown with the union of all settled sets: formulas left over
  would, without circular reads, include one that depends on none of the others,
  and it would be current. So the pass is counted against the formulas read early,
  with no induction along the order of reads.
* `StackLeavesNoResidueCorrect` (`EngineLinksProofs`): with `stacked`, links join
  live indices only. Inductive together with `EngineInv`: LINK is given live indices,
  and forgetting the last cell severs the one index that stops being live.
* `StackIsFabricCorrect` (`EngineLinksProofs`): with the window, every step that
  leaves `stacked` true is a step of `Fabric` on the links read through the ids of
  the cells, or changes nothing in them. No link dangles and ids are unique, so a
  path of indices is a path of ids, and what LINK's walk lets pass `Reaches` lets
  pass (`LinkMapsToConnect`); the severed slots are exactly the edges of
  the forgotten id (`ForgetMapsToDrop`).

**The cycle walk** (`EngineLinksProofs`, from the assumptions of `Engine`). The
invariant `WalkInv` is `EngineInv`, `pos = 0`, and while a LINK runs `Walking`: every
cell met (marked or on the stack) is reachable from `to` over scanned edges; `to`
is met; `from` is not marked; and every edge that leaves a marked cell leads to a
cell met, except that of the cell at hand only the slots already scanned count.
When the stack is empty the marked cells are therefore closed under edges and
contain all that is reachable, which does not include `from`
(`WalkDecidesCorrect`). `StackFitsCorrect` counts: each entry but the first was
pushed by a slot that belongs to a cell marked at that time, a cell is scanned
once, so the entries never outnumber the used slots scanned (`FollowedSlots`,
with the library's facts about cardinalities). For tables of up to 256 slots the
256 entries of the C stack are enough; beyond that nothing in the code says so.
`WalkImplementsLink` combines the two levels: the walk's last step is `Engine`'s
atomic LINK, every other step of it a stutter, so `WalkSpec => Spec` and the
theorems about `Engine` hold of the real loop. `WalkUsesFuel` is the ranking
argument behind `WalkEnds`: an unmarked cell is worth a scan of all slots and what
it may push, a slot to scan two, an entry on the stack one; every turn of the
loops lowers that sum, which starts at `Cap * (2 * Rows + 1) + 1` at most.

**Snapshots** (`SnapshotProofs`).

* `RestoresTheSavedCorrect` rests on the Q1.15 lemmas (`FloatRoundTrip`,
  `RoundTrip`): a row converts to a value that is saved as the same row, and the
  value is off by less than one step inside the range and clamped beyond it. The
  invariant `SnapInv` says that rows are those of the saved values, that a restored
  cell holds what some row gave, and, while `steady`, that rows and cells stand in
  the same places. `SnapshotAssumption` closes the values under conversion, as the
  C type does; the run therefore binds only the values of `Bindable`.
* `JournalTrailsRestoresCorrect` reuses the lemmas of `JournalReplaysCorrect`: an
  op_bind adds one to a version and one to the number of op_binds not journaled.
* `RowsAreInsideCorrect`, `WrittenIsAcceptedCorrect` and `ReaderSeesWrittenCorrect`
  share `QufInv`: while undamaged, the file is block by block what the writer
  wrote; a damaged header is still a header, of whatever numbers; what the last
  reader found is inside the bytes it was given, or was announced past the end of
  the address space (`AcceptedSection`: the check of a section is sound only if
  `offset + size` does not wrap). The offsets are a
  running sum of aligned sizes (`Offsets`, by `RecursionExists`), increasing and
  disjoint (`SectionPlaces`). `QufAssumption` keeps the buffer, and the bytes
  of as many rows as a metadata value can announce, below the width of an offset,
  so no sum of an intact header wraps; it says nothing of the offsets and sizes a
  damaged one holds. `ReaderSeesWrittenCorrect`
  has a hypothesis of its own, that no shape has rows with fewer buckets than the
  struct through which a reader looks at them (`KDefault`): with smaller rows a
  reader runs into the next ones, as section 6 says of `edge_k`. The writer
  accepts such a shape and the other two theorems cover it.

**PROOF ring** (`ProofAuditProofs`, from `RingAssumption` and `FaultAssumption`).
The inductive invariant `AuditInv` is the conjunction of
`RingTypeOK`; `InStep` (nonce is the length of the log, count is the smaller of that
and the capacity, head is count until the ring is full); `SigsKnown` (every
signature in the ring, wherever a fault took it from, is none, or the one the append
its nonce names really made, or that of an entry of an earlier life);
`EarlierSincere` (an entry of an earlier life has the fields its signature signs);
`AsWritten` (as long as no fault happened, the k-th live entry is what the
corresponding append wrote). None of the stated properties is inductive alone:
`SignedTrailIsGenuine` needs to know where signatures come from: one that verifies
at place k carries the nonce of place k, so it is that of the append there, or it
was made in an earlier life and its entry is that very entry, the one exception the
property names; `KeyEpoch` and `LocateIsOldest` need to know which append an entry is. The arithmetic of wrapping is isolated in
`Positions`, which turns `(head - count + k) % Cap` into cases.
From `AuditInv` follow `RingTypeCorrect`, `RingHoldsTheLatestCorrect`,
`SignedTrailIsGenuineCorrect`, `KeyEpochCorrect` and `LocateIsOldestCorrect`.
`LinksShowOneFaultCorrect` adds the invariant `OneDamaged`: after at most one
fault, and unless an append has covered the damaged entry, at most one live entry
differs from the log. Then the successor of a damaged entry is sound and its
`prev_hash` gives the damage away; only the newest entry has no successor.

**Replicated values** (`CrdtProofs`).

* PN-counter. `CounterInv` says that every
  replica, and every copy on its way, is `Faithful` to the histories: for each peer
  its counts are the ones that peer itself had at the operation last seen, its clock
  is neither behind nor ahead of the stamps of the operations seen; and that each
  peer's own counts and stamps never go down, which is where saturation at int64
  matters. A merge takes the larger count of each peer, so of two prefixes of one
  history it gives the longer (`MergeIsFaithful`), whatever the order, loss or
  repetition of copies. `CounterTypeCorrect` and `CounterConvergesCorrect` (replicas
  that have seen the same are the same) follow. `ValueCountsTheSeenCorrect`, whose only
  hypothesis is that neither kind of operation was seen more often than int64 holds, adds
  that each history step adds one to one count (`Stepwise`), and an induction over
  the slots that `quilt_pn_counter_value` sums up. `MergeIsJoin` is about merge alone: it is
  commutative, associative and idempotent, for replicas that no peer can have too.
* OR-set. The merge is a fold over the other replica, an iteration of `Added`
  (`UnionLoop`); `UnionHolds` is its invariant. `SetInv` says the same of replicas and
  copies on their way: no element twice, never longer than the array, nothing that
  was not heard, and all that was but the elements refused. The fold takes every
  element malloc has memory for as long as there is room (`Taken`), so what is
  missing after it was refused by it.
* MV-register. `OwnLatestSurvivesCorrect` needs no discipline but for its last part: `RegInv` says that all
  that is in a register was written by its peer, which therefore has seen it, so
  nothing that arrives from elsewhere can be newer than the peer's own latest
  writes, and a merge drops only what is older, whatever fits. `RisingInv` adds the
  other direction while no clock goes back: the scan of set has left none of the
  peer's older writes, and a merge brings a write of the peer only if it is newer than
  the one there, which nobody else can have.
  `HoldsTheLatestCorrect`: while clocks advance, a register whose peers fit
  `Represents` the latest writes it saw. The inner loop of merge, over the writes
  already there, and the outer one, over those that arrive, are each an induction
  (`AbsorbedRepresents`); a merge never has to drop a write, since there is one per
  peer seen.

**World, time, ROUTE and citation walk** (`StandaloneProofs`).

* `ChainFollowsTexts` is inductive, since a set that fails saves the same hash again;
  `VerdictIsAboutTheText` needs it, because verify judges the text in the buffer and
  the verdict is held against the hash. `WorldTypeCorrect` is about the doubling of the
  buffer, a recursive function that reaches any length or fails on its way.
* `NeverStale` is strengthened by `FreshArrays`: an array that is there is made
  from the tensor that is bound, or zeroed, and as long as the horizon it was made
  with and the number of variates require, whichever of the two allocations failed;
  and a length without an array was left by a first allocation that failed. A read
  past an array has an index of at least that length, so the horizon is a larger one. `BuffersHold` (for a careful caller a capacity never exceeds its
  allocation, but for covariates that were freed) gives `BufferIsLargeEnoughCorrect`;
  `ForecastIsCurrent`, with the arithmetic of rows, columns and quantiles, gives
  `ReadsAreTheForecastCorrect`.
* `PreferredIsMostRecordedCorrect`: `CountsRecorded` says that each counter is the number of
  events recorded up to its limit, and that `preferred` is what the loop of
  `quilt_route_pick`, an induction over the kinds, gives for them.
* `NavigateIsBFSCorrect`: `Walked` is the loop invariant of breadth-first search.
  What was queued, visited or not, is in order of depth and spans two depths at
  most, each number stands once and at its shortest distance, and all that a
  visited one cites is there. With the queue empty, an induction over the depth
  gives completeness. Only a number outside `visited[]` ends the walk otherwise, as
  `Lost`, which `CanonAssumption` says is no list of nodes.
* `HashIgnoresOrderCorrect`: sorting rows with different keys gives one order whatever
  order they come in (`OneSortedOrder`).

**The cell API** (`CellApiProofs`, from `ApiAssumption`). `KeyTellsAge` is
strengthened by `KeyInTime`: no key is of a version to come. Then every call
treats a cell in one of five ways (`Treated`: left alone, given a newer version,
given a key, created without a key, torn) and each way keeps the invariant
(`TreatedKeeps`). `BindIsIdempotentCorrect` rests on `BoundInv`: the cell a BIND
left has its dials and a key of its present version and digest, so the same BIND
finds equal digests before and after. `LostDigestHasACauseCorrect` needs that
a negative number in a dial was given to some BIND (`DialsInv`): EFFECT hands numbers
on as they are, and TICK's clamp makes no negative one.

## 5. Only model-checked

`WalkEnds`, since liveness under fairness is beyond the prover. What can be proved
of it is: `WalkUsesFuel` says that a walk has no infinite sequence of turns, so it
ends if, as `WF_walkVars(WalkStep)` says, it goes on while it can. That it can, that
is, that no walk is stuck, is checked by the run (deadlock and `WalkEnds`).

The theorems about several components at once are those of `EngineSnapshot`
(engine, rows, op_bind). That a file read back by `Quf` carries these very rows is
not composed with them; see section 8.

## 6. Where the code differs from what it says

Run `EngineCycle` shows a LINK that closes a cycle (`engine.c:55` against
`cell.h:113-114`, "Cycles are rejected"). Other differences met while reading
the code; the models follow the code in each of them:

* FORGET shifts the cells behind the forgotten one and leaves their indices in
  the link table (`engine.c:217`), against "no residue the laws can see"
  (`cell.h:130-132`). `StackLeavesNoResidue` says when it does not matter.
* FORGET removes nothing from the journal and appends to it (`engine.c:221`),
  against "clear its journal entries" (`cell.h:130-131`).
* Rebinding a NaN, or a STR with a NULL pointer, raises the version each time
  (`engine.c:264-265`), against "a no-op" (`cell.h:108-109`).
* `link_count` of a cell is never lowered by FORGET and never read.
* Without a key `verify_full` still compares signatures, with zeros
  (`proof.c:243-251`), against "checks only the prev_hash links"
  (`proof.h:85-88`): a sound ring signed before the key was cleared fails.
  `KeyEpoch` states what does hold.
* The CRDT merges drop what does not fit (`crdt.c:127`, `179`), and of two writes
  of one peer at one clock a merge keeps the first where the writer keeps both
  (`crdt.c:116`), against "will reach the same state" (`crdt.c:3-5`) and
  "Concurrent writes keep both values" (`crdt.c:73-74`). `HoldsTheLatest` and
  `HoldsTheSeen` state when replicas do agree.
* `quilt_world_execute` reports the verdict reached without inputs for any inputs
  (`world.c:134`, `world.h:57`); `quilt_world_refine` returns 1 for a program it
  has just made unverified (`world.c:176`, `world.h:92-93`).
* `quilt_proof_init` starts the nonces again (`proof.c:100`) and a signature says
  nothing of the life of the ring it was made in, so an entry of an earlier life, put
  back at its old place under the same key, passes `verify_full`
  (`proof.c:255-273`). `SignedTrailIsGenuine` names this exception.
* `quilt_time_set_horizon` keeps a forecast that reads then address with the new
  horizon (`time.c:168`, `226`, `244`): after it has grown they leave the arrays. A
  forecast whose first allocation fails after an earlier one succeeded leaves
  `point` NULL and `point_len` as it was (`time.c:180-182`), and
  `quilt_time_read_point`, which looks only at the length (`222`), then reads
  through NULL (`226`). `NeverStale` says that these are the only two ways; `ensure_capacity` is given the number of steps
  or columns for a capacity (`time.c:106`, `128`, `147`, `160`).
* `quilt_quf_op_bind` copies by position whatever the ids are (`quf.c:457`),
  raises every version even when the value is the same, and tells the journal
  nothing, unlike the engine's own operations. `RestoresTheSaved` and
  `JournalTrailsRestores` say what is left.
* In `cell_api.py` an opcode that raises leaves what it had changed without a
  receipt (`cell_api.py:196`, `134`), against "every mutation returns a receipt"
  (`cell_api.py:20`) and "fail-closed everywhere" (`cell_api.py:23`). TICK clamps
  at zero but not at the top (`cell_api.py:202`). BIND takes a number of any size and
  sign (`117`), on which the digest raises (`73`): the cell stays in the graph without
  one, and EFFECT hands the number on. `LostDigestHasACause` says that nothing else
  costs a cell its digest. VIEW's purity guard fingerprints
  the viewed cell once for every cell of the graph (`cell_api.py:173`). LINK looks
  for no cycle, unlike the C engine. `version_key` is refreshed only by BIND.
* ROUTE prefers TEXT_LOG after init, but `quilt_route_pick` of the same counters
  gives DENSE_VEC (`route.c:16`, `40`); `total` is called the "sum of count[]"
  (`route.h:51`) and counts on when a counter is full (`route.c:26-27`).
* `live_canon.c` sizes `visited[]` by the number of papers and indexes it by paper
  number (`140`, `156`); its own `main` starts at 425. The hash sorted "for
  determinism" (`96`) depends on the order of papers above 500, which share
  `dial[0]`.
* `quilt_quf_deserialize` adds offset and size of a section modulo 2^64
  (`quf.c:390`): one damaged offset just below 2^64 makes the sum small, and the file
  is accepted with a pointer far outside of it. `RowsAreInside` names this
  exception; all other rows an accepted header announces are inside.
* With `edge_k` other than 8 the file's edge rows are not the size of the struct
  a reader points at them (`quf.c:157-160`); `sizeof` of an empty snapshot is one
  block more than is written (`quf.c:187`); a FLOAT of one or more may be saved as
  -1.0, since 1.0 * 32768 does not fit int16 (`quf.c:42`).

## 7. Not modelled

* `quilt_engine_free`, wrap-around of versions and ticks at 2^64, NULL arguments,
  and the life of strings that cells borrow from the caller.
* Collisions of FNV hashes: the ring's hashes and signatures are ideal. Faults in the
  struct of a ring, and a second ring under the same key.
* Call counters `n_*`, `model_version`, the arithmetic of the forecast, text
  formats of RENDER.
* QUF: key-value parsing beyond "sound or not" and the values it yields; serializing a
  loaded view into its own buffer; `seal` (it is `serialize`); the section stubs;
  `route_count`, which loading does not restore.
* Receipts of `cell_api.py`: sealed once for each call that returns, chained by
  hash, read by nothing else. Dials that are floats, which the digest truncates or, for
  NaN, raises on. The kind of a cell, which nothing changes; the law
  helpers and the self-test, which call the opcodes; FNV collisions.
* `live_canon.c`: lineage, cosine similarity, ghosts and tick compute something
  from the table that no other function reads (`canon_ghost` ignores its bound `k`
  and writes one entry per paper); `main` prints.
* `trace_gram2.c` prints telemetry of random schedules; its phases are calls of
  components modelled here, and nothing reads what it measures.
* Tools, benchmarks, build and packaging: process and file I/O.

## 8. Plan

Order of work, the most important behaviour first.

1. *Done.* `Engine` with `CellStore` and `Fabric`, `EngineLinks`, `EngineSheet`,
   `EngineProofs`, `EngineLinksProofs`.
2. *Done.* `ProofRing`, `ProofAudit`, `ProofAuditProofs`.
3. *Done.* `PNCounter`, `MVRegister`, `ORSet`, `CrdtProofs`.
4. *Done.* `World`, `Time`, `Quf`, `QufDial`.
5. *Done.* `CycleWalk`: the explicit stack of `has_cycle`, its end and its agreement
   with `Engine`.
6. *Done.* `CellApi` and `CellApiProofs`: the opcodes of `cell_api.py`.
7. *Done.* Composition: `EngineSnapshot`, the dial rows of a live engine bound
   back; `Route`; the breadth-first walk of `live_canon.c` in `Canon`.
8. Composition of a whole snapshot: rows and PROOF entries through `Quf`'s file
   into `EngineSnapshot` and `ProofAudit`.
9. *Done.* `StandaloneProofs`: `World`, `Time`, `Route`, `Canon`.
10. *Done.* `SnapshotProofs`: `EngineSnapshot`, `Quf`; `SettlesInTime` of
    `EngineSheet`; `Induction`, on which the proofs about loops rest.
11. Proofs still worth having: that no walk of `CycleWalk` is stuck, stated without
    ENABLED (every state with a walk under way has a successor); the rows of a file
    read back are those of a snapshot (with step 8).
