-------------------------------- MODULE Time --------------------------------
(***************************************************************************)
(* The time.cell of src/time.c: a context tensor, two covariate tensors, a *)
(* horizon, and the forecast made from them, each in memory of its own.    *)
(*                                                                         *)
(* Sizes are counted in doubles; a buffer of size 0 is a NULL pointer.  A  *)
(* tensor's data stands for its hash.  A forecast value is the tensor,     *)
(* horizon, quantile, variate and step it was made for.  The counters n_*  *)
(* and model_version are left out: no operation depends on them.           *)
(***************************************************************************)
EXTENDS Integers

CONSTANTS
  Data,            \* contents of a tensor
  Covariate,       \* the covariate buffers: past_only and past_future
  MaxLen,          \* bound on the time steps of a tensor
  MaxVariates,     \* bound on its columns
  MaxHorizon,      \* bound on the horizon
  MinCap,          \* the capacity of a first allocation
  MallocFails,     \* whether an allocation may return NULL
  ZeroHash,        \* the all-zero hash
  Null             \* a NULL forecast array

NumQuantiles == 9

Tensor == [data : Data, len : 0 .. MaxLen, nv : 0 .. MaxVariates]
Buffer == {"context"} \cup Covariate

NoTensor == [data |-> ZeroHash, len |-> 0, nv |-> 0]

(* A forecast array of size doubles: made from a tensor, or all zeros. *)
Array == [size : Nat, of : Tensor \cup {NoTensor, Null}, horizon : Nat]

Size(t) == t.len * t.nv
Hash(t) == <<t.data, Size(t)>>

ASSUME TimeAssumption ==
  /\ MaxLen \in Nat /\ MaxVariates \in Nat /\ MaxHorizon \in Nat
  /\ MinCap \in Nat \ {0} /\ MallocFails \in BOOLEAN
  /\ "context" \notin Covariate /\ Null \notin Tensor /\ Null \notin Array

VARIABLES
  alloc,           \* [Buffer -> Nat]: the doubles allocated
  cap,             \* [Buffer -> Nat]: what the cell takes for the capacity:
                   \* context_len, n_past_only_cov, n_past_future_cov
  need,            \* history: [Buffer -> Nat], the doubles copied in last
  tensor,          \* what the context buffer holds
  n_variates, horizon,
  prev_hash, state_hash,
  point, point_len, quantiles,     \* c->forecast
  starved,         \* history: the last forecast failed in its first allocation
  careful          \* history: callers have kept to the discipline below

timeVars == <<alloc, cap, need, tensor, n_variates, horizon,
              prev_hash, state_hash, point, point_len, quantiles, starved, careful>>

forecast == <<point, point_len, quantiles, starved>>
hashes == <<prev_hash, state_hash>>

-----------------------------------------------------------------------------
TimeInit ==
  /\ alloc = [b \in Buffer |-> 0] /\ cap = [b \in Buffer |-> 0]
  /\ need = [b \in Buffer |-> 0]
  /\ tensor = NoTensor /\ n_variates = 0 /\ horizon = 0
  /\ prev_hash = ZeroHash /\ state_hash = ZeroHash
  /\ point = Null /\ point_len = 0 /\ quantiles = Null
  /\ starved = FALSE /\ careful = TRUE

(* A mutated form of the next definition: the loop stops a size too early.  *)
GrownOnce(c, n) == 2 * (IF c = 0 THEN MinCap ELSE c)

Grown(c, n) ==
  LET doubled[x \in Nat] == IF x < n THEN doubled[2 * x] ELSE x
  IN  doubled[IF c = 0 THEN MinCap ELSE c]

(* ensure_capacity trusts cap, not alloc. *)
EnsureCapacity(b, n) ==
  IF cap[b] >= n THEN {[ok |-> TRUE, alloc |-> alloc[b]]}
  ELSE {[ok |-> TRUE, alloc |-> Grown(cap[b], n)]}
         \cup (IF MallocFails THEN {[ok |-> FALSE, alloc |-> alloc[b]]} ELSE {})

(* A mutated form of the next definition: the quantiles survive. *)
FreePointOnly ==
  point' = Null /\ point_len' = 0 /\ UNCHANGED quantiles /\ starved' = FALSE

FreeForecast ==
  point' = Null /\ point_len' = 0 /\ quantiles' = Null /\ starved' = FALSE

(* quilt_time_bind_context: context_len becomes the number of steps, not    *)
(* the capacity; a success frees the forecast.                             *)
BindContext(t) ==
  \E e \in EnsureCapacity("context", Size(t)) :
    /\ prev_hash' = state_hash
    /\ IF e.ok
       THEN /\ alloc' = [alloc EXCEPT !["context"] = e.alloc]
            /\ cap' = [cap EXCEPT !["context"] = t.len]
            /\ need' = [need EXCEPT !["context"] = Size(t)]
            /\ tensor' = t /\ n_variates' = t.nv /\ state_hash' = Hash(t)
            /\ FreeForecast
       ELSE UNCHANGED <<alloc, cap, need, tensor, n_variates, state_hash, forecast>>
    /\ UNCHANGED horizon

(* quilt_time_bind_past_only_covariate, .._past_future_covariate: what is   *)
(* kept is the number of columns.                                          *)
BindCovariate(b, cov_len, n_cov) ==
  \E e \in EnsureCapacity(b, cov_len * n_cov) :
    /\ e.ok
    /\ alloc' = [alloc EXCEPT ![b] = e.alloc]
    /\ cap' = [cap EXCEPT ![b] = n_cov]
    /\ need' = [need EXCEPT ![b] = cov_len * n_cov]
    /\ UNCHANGED <<tensor, n_variates, horizon, hashes, forecast>>

SetHorizon(h) ==
  /\ horizon' = h
  /\ UNCHANGED <<alloc, cap, need, tensor, n_variates, hashes, forecast>>

(* quilt_time_forecast: two allocations, the values only after both. *)
OutLen == horizon * n_variates

Filled(size) == [size |-> size, of |-> tensor, horizon |-> horizon]
Zeros(size) == [size |-> size, of |-> Null, horizon |-> horizon]

(* The old point forecast is freed before its length is set (time.c:181).   *)
PointFails == point' = Null /\ UNCHANGED <<point_len, quantiles>> /\ starved' = TRUE

QuantilesFail ==
  point' = Zeros(OutLen) /\ quantiles' = Null /\ point_len' = OutLen /\ starved' = FALSE

Forecast ==
  /\ cap["context"] # 0 /\ horizon # 0
  /\ \/ /\ point' = Filled(OutLen) /\ point_len' = OutLen
        /\ quantiles' = Filled(NumQuantiles * OutLen) /\ starved' = FALSE
     \/ MallocFails /\ PointFails
     \/ MallocFails /\ QuantilesFail
  /\ UNCHANGED <<alloc, cap, need, tensor, n_variates, horizon, hashes>>

(* quilt_time_cell_free keeps the hashes and the covariate counts. *)
FreeCell ==
  /\ alloc' = [b \in Buffer |-> 0]
  /\ cap' = [cap EXCEPT !["context"] = 0]
  /\ need' = [b \in Buffer |-> 0]
  /\ tensor' = NoTensor /\ n_variates' = 0 /\ horizon' = 0
  /\ FreeForecast
  /\ UNCHANGED hashes

(* quilt_time_cell_init of a cell that owns no memory. *)
InitAgain ==
  /\ alloc = [b \in Buffer |-> 0] /\ point = Null /\ quantiles = Null
  /\ alloc' = alloc
  /\ cap' = [b \in Buffer |-> 0]
  /\ need' = need
  /\ tensor' = NoTensor /\ n_variates' = 0 /\ horizon' = 0
  /\ prev_hash' = ZeroHash /\ state_hash' = ZeroHash
  /\ FreeForecast

(***************************************************************************)
(* What the code leaves to its callers: tensors have rows and columns, a   *)
(* freed cell is initialised before tensors are bound to it, and the       *)
(* horizon is set only while there is no forecast.                         *)
(***************************************************************************)
Freed == \E b \in Covariate : cap[b] # 0 /\ alloc[b] = 0

NoForecast == point = Null /\ quantiles = Null

Keeps(discipline) == careful' = (careful /\ discipline)

TimeNext ==
  \/ \E t \in Tensor : BindContext(t) /\ Keeps(~Freed /\ Size(t) > 0)
  \/ \E b \in Covariate, n \in 0 .. MaxLen, c \in 0 .. MaxVariates :
       BindCovariate(b, n, c) /\ Keeps(~Freed /\ n * c > 0)
  \/ \E h \in 0 .. MaxHorizon : SetHorizon(h) /\ Keeps(NoForecast)
  \/ Forecast /\ UNCHANGED careful
  \/ FreeCell /\ UNCHANGED careful
  \/ InitAgain /\ UNCHANGED careful

TimeSpec == TimeInit /\ [][TimeNext]_timeVars

-----------------------------------------------------------------------------
(* quilt_time_read_point and quilt_time_read_quantile, into a buffer of at  *)
(* least horizon doubles: whether they succeed, and what out[step] is.      *)
Zero == [of |-> Null]
Outside == [outside |-> TRUE]  \* undefined: past the array, or behind NULL

At(array, i) ==
  IF array = Null THEN Outside
  ELSE IF i >= array.size THEN Outside
  ELSE IF array.of = Null THEN Zero
  ELSE LET row == array.horizon * array.of.nv
       IN  [of |-> array.of, horizon |-> array.horizon, q |-> i \div row,
            variate |-> (i % row) \div array.horizon, step |-> (i % row) % array.horizon]

CanReadPoint(v) == point_len # 0 /\ v < n_variates

(* A mutated form of the next definition: steps and variates swapped. *)
PointTransposed(v, step) == At(point, step * n_variates + v)

ReadPoint(v, step) == At(point, v * horizon + step)

CanReadQuantile(v) == quantiles # Null /\ v < n_variates

(* q in tenths: (int)(q * 10 - 0.5), cut off at 0 and 8. *)
QuantileIndex(tenths) ==
  IF tenths = 0 THEN 0 ELSE IF tenths > NumQuantiles THEN NumQuantiles - 1 ELSE tenths - 1

ReadQuantile(tenths, v, step) ==
  At(quantiles, QuantileIndex(tenths) * (horizon * n_variates) + v * horizon + step)

PointReads ==
  {ReadPoint(v, step) : v \in {v \in 0 .. MaxVariates : CanReadPoint(v)},
                        step \in 0 .. horizon - 1}

QuantileReads ==
  {ReadQuantile(q, v, step) :
     q \in 0 .. 10, v \in {v \in 0 .. MaxVariates : CanReadQuantile(v)},
     step \in 0 .. horizon - 1}

-----------------------------------------------------------------------------
(* A buffer is large enough for the tensor that was copied into it. *)
BufferIsLargeEnough == careful => \A b \in Buffer : need[b] <= alloc[b]

(* What a read may return that no caller asked for.  A value read inside    *)
(* the arrays was forecast from the context now bound, whatever was bound   *)
(* before, or is a zero of a forecast that failed half way.  A read that    *)
(* succeeds leaves the arrays in two ways only: the horizon has grown since *)
(* the forecast, or, for the point, the last forecast failed in its first   *)
(* allocation and an earlier one has left its length (time.c:181-182, 225). *)
NeverStale ==
  /\ point # Null => point.size = point_len
  /\ point # Null /\ quantiles # Null => quantiles.size = NumQuantiles * point.size
  /\ \A x \in PointReads :
       IF x = Outside THEN starved \/ horizon > point.horizon
       ELSE x.of = tensor \/ (x.of = Null /\ quantiles = Null)
  /\ \A x \in QuantileReads :
       IF x = Outside THEN horizon > quantiles.horizon ELSE x.of = tensor

(* A read that succeeds returns, step by step, the forecast of the current  *)
(* context for the variate and the quantile asked for, unless the last      *)
(* forecast ran out of memory.                                             *)
ReadsAreTheForecast ==
  careful /\ point # Null /\ quantiles # Null =>
    \A v \in 0 .. MaxVariates, step \in 0 .. horizon - 1 :
      /\ CanReadPoint(v) =>
           ReadPoint(v, step) = [of |-> tensor, horizon |-> horizon, q |-> 0,
                                 variate |-> v, step |-> step]
      /\ CanReadQuantile(v) => \A q \in 1 .. NumQuantiles :
           ReadQuantile(q, v, step) = [of |-> tensor, horizon |-> horizon, q |-> q - 1,
                                       variate |-> v, step |-> step]
=============================================================================
