------------------------- MODULE StandaloneProofs ---------------------------
(***************************************************************************)
(* Proofs about World.tla, Time.tla, Route.tla and Canon.tla for every      *)
(* value of their constants: any texts, predictions and tolerances, any    *)
(* tensors, any sizes and any allocation failing, counters of any width,   *)
(* any papers that cite each other in whatever way.                        *)
(***************************************************************************)
EXTENDS World, Time, Route, Canon, Induction, SequenceTheorems, FunctionTheorems, TLAPS

-----------------------------------------------------------------------------
(* A capacity that is doubled until it is large enough.  Doubling 0 never   *)
(* ends; the code starts from more.                                        *)
Doubles(n, f) == f = [c \in Nat |-> IF c < n THEN f[2 * c] ELSE c]

LEMMA DoublingExists ==
  ASSUME NEW n \in Nat
  PROVE  \E f : Doubles(n, f)
<1> DEFINE From(m, f) == \A c \in Nat : c >= n - m => f[c] = IF c < n THEN f[2 * c] ELSE c
           S == {m \in 0 .. n : \E f \in [Nat -> Nat] : From(m, f)}
<1>1. 0 \in S
  <2> DEFINE f == [c \in Nat |-> c]
  <2>1. f \in [Nat -> Nat] /\ From(0, f)
    OBVIOUS
  <2> HIDE DEF f, From
  <2> QED BY <2>1
<1>2. ASSUME NEW m \in 0 .. n - 1, m \in S PROVE m + 1 \in S
  <2>1. PICK f \in [Nat -> Nat] : From(m, f)
    BY <1>2
  <2> DEFINE a == n - (m + 1)
             g == [f EXCEPT ![a] = f[2 * a]]
  <2>2. a \in Nat /\ a < n /\ 2 * a \in Nat
    OBVIOUS
  <2>3. g \in [Nat -> Nat] /\ g[a] = f[2 * a] /\ \A c \in Nat \ {a} : g[c] = f[c]
    BY <2>2
  <2> HIDE DEF g
  <2>4. ASSUME NEW c \in Nat, c >= a PROVE g[c] = IF c < n THEN g[2 * c] ELSE c
    <3>1. CASE c = a
      <4>1. CASE a = 0
        BY <2>2, <2>3, <3>1, <4>1
      <4>2. CASE a # 0
        <5>1. 2 * a # a
          BY <2>2, <4>2
        <5> HIDE DEF a
        <5> QED BY <2>2, <2>3, <3>1, <5>1
      <4> QED BY <4>1, <4>2
    <3>2. CASE c # a
      <4>1. f[c] = IF c < n THEN f[2 * c] ELSE c
        BY <2>1, <2>4, <3>2
      <4>2. 2 * c \in Nat /\ 2 * c # a
        BY <2>2, <2>4, <3>2
      <4> HIDE DEF a
      <4> QED BY <2>3, <3>2, <4>1, <4>2
    <3> QED BY <3>1, <3>2
  <2>5. From(m + 1, g)
    BY <2>4
  <2> HIDE DEF From
  <2> QED BY <2>3, <2>5
<1>3. n \in S
  <2> HIDE DEF S
  <2>1. \A m \in 0 .. n - 1 : m \in S => m + 1 \in S
    BY <1>2
  <2>2. 0 .. n \subseteq S
    BY <1>1, <2>1, BoundedInduction
  <2> QED BY <2>2
<1>4. PICK f \in [Nat -> Nat] : From(n, f)
  BY <1>3
<1> DEFINE h == [c \in Nat |-> IF c < n THEN f[2 * c] ELSE c]
<1>5. \A c \in Nat : f[c] = h[c]
  BY <1>4
<1>6. f = h
  <2> HIDE DEF From
  <2> QED BY <1>4, <1>5
<1> QED BY <1>6 DEF Doubles

LEMMA DoublingReaches ==
  ASSUME NEW n \in Nat, NEW f, Doubles(n, f), NEW c \in Nat \ {0}
  PROVE  f[c] \in Nat /\ f[c] >= n
<1>1. \A d \in Nat : f[d] = IF d < n THEN f[2 * d] ELSE d
  BY DEF Doubles
<1> DEFINE S == {m \in 0 .. n : \A d \in Nat \ {0} : d >= n - m => f[d] \in Nat /\ f[d] >= n}
<1>2. 0 \in S
  BY <1>1
<1>3. ASSUME NEW m \in 0 .. n - 1, m \in S PROVE m + 1 \in S
  <2> SUFFICES ASSUME NEW d \in Nat \ {0}, d >= n - (m + 1)
               PROVE  f[d] \in Nat /\ f[d] >= n
    OBVIOUS
  <2>1. CASE d >= n - m
    BY <1>3, <2>1
  <2>2. CASE ~(d >= n - m)
    <3>1. d < n /\ 2 * d \in Nat \ {0} /\ 2 * d >= n - m
      BY <2>2
    <3>2. f[2 * d] \in Nat /\ f[2 * d] >= n
      BY <1>3, <3>1
    <3> QED BY <1>1, <3>1, <3>2
  <2> QED BY <2>1, <2>2
<1>4. n \in S
  <2> HIDE DEF S
  <2>1. \A m \in 0 .. n - 1 : m \in S => m + 1 \in S
    BY <1>3
  <2>2. 0 .. n \subseteq S
    BY <1>2, <2>1, BoundedInduction
  <2> QED BY <2>2
<1> QED BY <1>4

-----------------------------------------------------------------------------
(* The text and its NUL fit the allocation. *)
LEMMA GrownTextFits ==
  ASSUME NEW size \in Nat, NEW n \in Nat
  PROVE  GrownText(size, n) \in Nat /\ n < GrownText(size, n)
<1> DEFINE D == CHOOSE f : Doubles(n + 1, f)
           c == IF size = 0 THEN MinTextCap ELSE size
<1>1. Doubles(n + 1, D)
  <2>1. n + 1 \in Nat
    OBVIOUS
  <2> QED BY <2>1, DoublingExists
<1>2. GrownText(size, n) = IF n + 1 <= size THEN size ELSE D[c]
  BY DEF GrownText, Doubles
<1>3. c \in Nat \ {0}
  BY WorldAssumption
<1>4. D[c] \in Nat /\ D[c] >= n + 1
  <2> HIDE DEF D, c
  <2>1. n + 1 \in Nat
    OBVIOUS
  <2> QED BY <1>1, <1>3, <2>1, DoublingReaches
<1> HIDE DEF D, c
<1> QED BY <1>2, <1>4

LEMMA LengthType ==
  ASSUME NEW t \in Seq(Code \cup Hint)
  PROVE  Length(t) \in Nat
<1> DEFINE n == Len(t)
           step == [i \in 1 .. n |-> [x \in Nat |-> x + Bytes[t[i]]]]
           Sums(f) == f = [i \in 0 .. n |-> IF i = 0 THEN 0 ELSE f[i - 1] + Bytes[t[i]]]
           L == CHOOSE f : Sums(f)
<1>1. n \in Nat /\ \A i \in 1 .. n : Bytes[t[i]] \in Nat
  BY WorldAssumption
<1>2. step \in [1 .. n -> [Nat -> Nat]]
  BY <1>1
<1>3. \E f : Sums(f)
  <2> HIDE DEF step, n
  <2>1. PICK f \in [0 .. n -> Nat] : Recurs(n, 0, step, f)
    BY <1>1, <1>2, RecursionExists
  <2>2. \A i \in 1 .. n : i - 1 \in 0 .. n /\ f[i - 1] \in Nat
    BY <1>1
  <2>3. \A i \in 1 .. n : step[i][f[i - 1]] = f[i - 1] + Bytes[t[i]]
    BY <2>2 DEF step
  <2>4. \A i \in 0 .. n : i = 0 \/ i \in 1 .. n
    BY <1>1
  <2>5. Sums(f)
    BY <2>1, <2>3, <2>4 DEF Recurs
  <2> QED BY <2>5
<1>4. Sums(L)
  <2> HIDE DEF Sums
  <2> QED BY <1>3
<1>5. Length(t) = L[n]
  BY DEF Length
<1> DEFINE S == {i \in 0 .. n : L[i] \in Nat}
<1> HIDE DEF L, n
<1>6. 0 \in S
  BY <1>1, <1>4
<1>7. ASSUME NEW i \in 0 .. n - 1, i \in S PROVE i + 1 \in S
  <2>1. i + 1 \in 0 .. n /\ i + 1 # 0 /\ (i + 1) - 1 = i /\ i + 1 \in 1 .. n
    BY <1>1
  <2>2. L[i + 1] = L[i] + Bytes[t[i + 1]]
    BY <1>4, <2>1
  <2>3. Bytes[t[i + 1]] \in Nat
    BY <1>1, <2>1
  <2> QED BY <1>7, <2>1, <2>2, <2>3
<1>8. n \in S
  <2> HIDE DEF S
  <2>1. \A i \in 0 .. n - 1 : i \in S => i + 1 \in S
    BY <1>7
  <2>2. 0 .. n \subseteq S
    BY <1>1, <1>6, <2>1, BoundedInduction
  <2> QED BY <1>1, <2>2
<1> QED BY <1>5, <1>8

LEMMA SetIsTyped ==
  ASSUME WorldTypeOK, NEW t \in Text, SetText(t) \/ SetFails(t)
  PROVE  WorldTypeOK'
<1>1. CASE SetText(t)
  <2>1. Length(t) \in Nat
    BY LengthType DEF Text
  <2>2. GrownText(code_cap, Length(t)) \in Nat /\ Length(t) < GrownText(code_cap, Length(t))
    BY <2>1, GrownTextFits DEF WorldTypeOK
  <2>3. /\ code' = t /\ code_cap' = GrownText(code_cap, Length(t))
        /\ prev_text_hash' = text_hash /\ text_hash' = t /\ verified' = FALSE
    BY <1>1 DEF SetText
  <2> QED BY <2>2, <2>3 DEF WorldTypeOK
<1>2. CASE SetFails(t)
  BY <1>2 DEF SetFails, WorldTypeOK
<1> QED BY <1>1, <1>2

LEMMA WorldTypeStep == WorldTypeOK /\ [WorldNext]_worldVars => WorldTypeOK'
<1> SUFFICES ASSUME WorldTypeOK, [WorldNext]_worldVars PROVE WorldTypeOK'
  OBVIOUS
<1>1. ASSUME NEW c \in Code, Propose(c) PROVE WorldTypeOK'
  <2>1. <<c>> \in Text
    BY DEF Text
  <2> QED BY <1>1, <2>1, SetIsTyped DEF Propose
<1>2. ASSUME NEW h \in Hint, Refined(h) \/ RefineFails(h) PROVE WorldTypeOK'
  <2>1. code \in Text
    BY <1>2 DEF Refined, RefineFails, WorldTypeOK
  <2>2. Append(code, h) \in Text
    <3>1. code \in Seq(Code \cup Hint) /\ code # << >> /\ code[1] \in Code /\ h \in Code \cup Hint
      BY <2>1 DEF Text
    <3>2. Append(code, h) \in Seq(Code \cup Hint) /\ Append(code, h) # << >>
          /\ Append(code, h)[1] = code[1]
      BY <3>1
    <3> QED BY <3>1, <3>2 DEF Text
  <2> QED BY <1>2, <2>2, SetIsTyped DEF Refined, RefineFails
<1>3. ASSUME NEW observed, NEW tolerance, Verify(observed, tolerance) PROVE WorldTypeOK'
  <2>1. Within(code, observed, tolerance) \in BOOLEAN
    BY DEF Within
  <2> QED BY <1>3, <2>1 DEF Verify, WorldTypeOK
<1>4. CASE FreeProgram
  BY <1>4, WorldAssumption DEF FreeProgram, WorldTypeOK
<1>5. CASE InitProgram
  BY <1>5, WorldAssumption DEF InitProgram, WorldTypeOK
<1>6. CASE UNCHANGED worldVars
  BY <1>6 DEF worldVars, WorldTypeOK
<1> QED BY <1>1, <1>2, <1>3, <1>4, <1>5, <1>6 DEF WorldNext

(* However a text grows, it and its NUL fit the bytes allocated for it. *)
THEOREM WorldTypeCorrect == WorldSpec => []WorldTypeOK
<1>1. WorldInit => WorldTypeOK
  <2> SUFFICES ASSUME WorldInit PROVE WorldTypeOK
    OBVIOUS
  <2>1. /\ code = NoCode /\ code_cap = 0 /\ verified = FALSE
        /\ prev_text_hash = NoHash /\ text_hash = NoHash
    BY DEF WorldInit
  <2>2. code \notin Text /\ code \in Text \cup {NoCode} /\ code_cap \in Nat
    BY <2>1, WorldAssumption
  <2>3. {prev_text_hash, text_hash} \subseteq Text \cup {NoHash}
    BY <2>1
  <2>4. verified \in BOOLEAN
    BY <2>1
  <2> QED BY <2>2, <2>3, <2>4 DEF WorldTypeOK
<1> QED BY <1>1, WorldTypeStep, PTL DEF WorldSpec

-----------------------------------------------------------------------------
(* The chain of hashes is inductive; the verdict needs it, because verify   *)
(* judges the text in the buffer and the verdict is about the hashed one.   *)
LEMMA SetKeepsChain ==
  ASSUME ChainFollowsTexts, NEW t, SetText(t) \/ SetFails(t)
  PROVE  /\ ChainFollowsTexts'
         /\ UNCHANGED judged /\ VerdictIsAboutTheText => VerdictIsAboutTheText'
<1>1. CASE SetText(t)
  BY <1>1 DEF SetText, ChainFollowsTexts, VerdictIsAboutTheText
<1>2. CASE SetFails(t)
  <2>1. ChainFollowsTexts'
    BY <1>2 DEF SetFails, ChainFollowsTexts
  <2>2. text_hash' = text_hash /\ verified' = verified
    BY <1>2 DEF SetFails
  <2>3. UNCHANGED judged /\ VerdictIsAboutTheText => VerdictIsAboutTheText'
    BY <2>2 DEF VerdictIsAboutTheText
  <2> QED BY <2>1, <2>3
<1> QED BY <1>1, <1>2

LEMMA WorldStep ==
  ASSUME ChainFollowsTexts, VerdictIsAboutTheText, [WorldNext]_worldVars
  PROVE  ChainFollowsTexts' /\ VerdictIsAboutTheText'
<1>1. ASSUME NEW c, Propose(c) PROVE ChainFollowsTexts' /\ VerdictIsAboutTheText'
  BY <1>1, SetKeepsChain DEF Propose
<1>2. ASSUME NEW h, Refined(h) \/ RefineFails(h)
      PROVE  ChainFollowsTexts' /\ VerdictIsAboutTheText'
  BY <1>2, SetKeepsChain DEF Refined, RefineFails
<1>3. ASSUME NEW observed, NEW tolerance, Verify(observed, tolerance)
      PROVE  ChainFollowsTexts' /\ VerdictIsAboutTheText'
  <2>1. ChainFollowsTexts' /\ text_hash' = code
    BY <1>3 DEF Verify, ChainFollowsTexts
  <2>2. /\ judged' = [text |-> code, observed |-> observed, tolerance |-> tolerance]
        /\ verified' = Within(code, observed, tolerance)
    BY <1>3 DEF Verify
  <2>3. /\ judged'.text = code /\ judged'.observed = observed
        /\ judged'.tolerance = tolerance
    BY <2>2
  <2>4. verified' => Within(judged'.text, judged'.observed, judged'.tolerance)
    BY <2>2, <2>3
  <2> QED BY <2>1, <2>3, <2>4 DEF VerdictIsAboutTheText
<1>4. CASE FreeProgram
  BY <1>4 DEF FreeProgram, ChainFollowsTexts, VerdictIsAboutTheText
<1>5. CASE InitProgram
  BY <1>5 DEF InitProgram, ChainFollowsTexts, VerdictIsAboutTheText
<1>6. CASE UNCHANGED worldVars
  BY <1>6 DEF worldVars, ChainFollowsTexts, VerdictIsAboutTheText
<1> QED BY <1>1, <1>2, <1>3, <1>4, <1>5, <1>6 DEF WorldNext

LEMMA WorldStart == WorldInit => ChainFollowsTexts /\ VerdictIsAboutTheText
BY DEF WorldInit, ChainFollowsTexts, VerdictIsAboutTheText

(* For any texts and whichever reallocation fails, the two hashes chain the *)
(* texts that were set.                                                    *)
THEOREM ChainFollowsTextsCorrect == WorldSpec => []ChainFollowsTexts
BY WorldStart, WorldStep, PTL DEF WorldSpec

(* For any prediction and tolerance, a verdict never outlives its text. *)
THEOREM VerdictIsAboutTheTextCorrect == WorldSpec => []VerdictIsAboutTheText
BY WorldStart, WorldStep, PTL DEF WorldSpec

-----------------------------------------------------------------------------
LEMMA GrownIsEnough ==
  ASSUME NEW c \in Nat, NEW n \in Nat
  PROVE  Grown(c, n) \in Nat /\ n <= Grown(c, n)
<1> DEFINE D == CHOOSE f : Doubles(n, f)
           first == IF c = 0 THEN MinCap ELSE c
<1>1. Doubles(n, D)
  BY DoublingExists
<1>2. Grown(c, n) = D[first]
  BY DEF Grown, Doubles
<1>3. first \in Nat \ {0}
  BY TimeAssumption
<1> HIDE DEF D, first
<1> QED BY <1>1, <1>2, <1>3, DoublingReaches

(* A product that is not 0 is at least each of its factors. *)
LEMMA FactorsAreSmaller ==
  ASSUME NEW a \in Nat, NEW b \in Nat
  PROVE  /\ a * b \in Nat
         /\ a * b > 0 => a <= a * b /\ b <= a * b
<1>1. a * b \in Nat /\ a * 0 = 0 /\ 0 * b = 0
  OBVIOUS
<1>2. CASE a = 0 \/ b = 0
  BY <1>1, <1>2
<1>3. CASE a # 0 /\ b # 0
  <2> DEFINE c == a - 1
             d == b - 1
  <2>1. c \in Nat /\ d \in Nat /\ a = c + 1 /\ b = d + 1
    BY <1>3
  <2>2. a * d \in Nat /\ c * b \in Nat
    BY <2>1
  <2>3. a * b = a * d + a /\ a * b = c * b + b
    <3> HIDE DEF c, d
    <3>1. a * (d + 1) = a * d + a /\ (c + 1) * b = c * b + b
      BY <2>1
    <3> QED BY <2>1, <3>1
  <2> HIDE DEF c, d
  <2> QED BY <2>2, <2>3
<1> QED BY <1>2, <1>3

(* For a careful caller the capacity the cell believes in never exceeds the *)
(* allocation, but for covariates that were freed.                         *)
BuffersHold ==
  /\ alloc \in [Buffer -> Nat] /\ cap \in [Buffer -> Nat] /\ need \in [Buffer -> Nat]
  /\ careful => \A b \in Buffer :
       /\ need[b] <= alloc[b]
       /\ cap[b] <= alloc[b] \/ (b \in Covariate /\ alloc[b] = 0)

(* A bind of n doubles, whatever count from 0 to n is kept as capacity. *)
LEMMA BindHolds ==
  ASSUME BuffersHold, NEW b \in Buffer, NEW n \in Nat, NEW k \in Nat,
         NEW e \in EnsureCapacity(b, n), e.ok, careful' => careful /\ ~Freed /\ k <= n,
         alloc' = [alloc EXCEPT ![b] = e.alloc], cap' = [cap EXCEPT ![b] = k],
         need' = [need EXCEPT ![b] = n]
  PROVE  BuffersHold'
<1>1. alloc[b] \in Nat /\ cap[b] \in Nat
  BY DEF BuffersHold
<1>2. e.alloc \in Nat /\ ((cap[b] >= n /\ e.alloc = alloc[b]) \/ n <= e.alloc)
  <2>1. CASE cap[b] >= n
    BY <1>1, <2>1 DEF EnsureCapacity
  <2>2. CASE ~(cap[b] >= n)
    <3>1. e.alloc = Grown(cap[b], n)
      BY <2>2 DEF EnsureCapacity
    <3> QED BY <1>1, <3>1, GrownIsEnough
  <2> QED BY <2>1, <2>2
<1> DEFINE x == e.alloc
<1> HIDE DEF x
<1>3. /\ alloc' \in [Buffer -> Nat] /\ cap' \in [Buffer -> Nat] /\ need' \in [Buffer -> Nat]
      /\ alloc'[b] = x /\ cap'[b] = k /\ need'[b] = n
      /\ \A c \in Buffer \ {b} : alloc'[c] = alloc[c] /\ cap'[c] = cap[c] /\ need'[c] = need[c]
  BY <1>2 DEF BuffersHold, x
<1>4. ASSUME careful', NEW c \in Buffer
      PROVE  /\ need'[c] <= alloc'[c]
             /\ cap'[c] <= alloc'[c] \/ (c \in Covariate /\ alloc'[c] = 0)
  <2>1. careful /\ ~Freed /\ k <= n
    BY <1>4
  <2>2. CASE c = b
    <3>1. cap[b] <= alloc[b]
      <4>1. cap[b] <= alloc[b] \/ (b \in Covariate /\ alloc[b] = 0)
        BY <2>1 DEF BuffersHold
      <4>2. b \in Covariate /\ alloc[b] = 0 => cap[b] = 0
        BY <2>1 DEF Freed
      <4> QED BY <1>1, <4>1, <4>2
    <3>2. x \in Nat /\ n <= x
      BY <1>1, <1>2, <3>1 DEF x
    <3> QED BY <1>3, <2>1, <2>2, <3>2
  <2>3. CASE c # b
    BY <1>3, <2>1, <2>3 DEF BuffersHold
  <2> QED BY <2>2, <2>3
<1> QED BY <1>3, <1>4 DEF BuffersHold

LEMMA BuffersStep == BuffersHold /\ [TimeNext]_timeVars => BuffersHold'
<1> SUFFICES ASSUME BuffersHold, [TimeNext]_timeVars PROVE BuffersHold'
  OBVIOUS
<1>1. ASSUME UNCHANGED <<alloc, cap, need, careful>> PROVE BuffersHold'
  BY <1>1 DEF BuffersHold
<1>2. ASSUME NEW t \in Tensor, BindContext(t), Keeps(~Freed /\ Size(t) > 0)
      PROVE  BuffersHold'
  <2>1. t.len \in Nat /\ t.nv \in Nat
    BY TimeAssumption DEF Tensor
  <2>2. Size(t) \in Nat /\ (Size(t) > 0 => t.len <= Size(t))
    BY <2>1, FactorsAreSmaller DEF Size
  <2>3. careful' => careful /\ ~Freed /\ Size(t) > 0
    BY <1>2 DEF Keeps
  <2>4. PICK e \in EnsureCapacity("context", Size(t)) :
          IF e.ok THEN /\ alloc' = [alloc EXCEPT !["context"] = e.alloc]
                       /\ cap' = [cap EXCEPT !["context"] = t.len]
                       /\ need' = [need EXCEPT !["context"] = Size(t)]
                  ELSE UNCHANGED <<alloc, cap, need>>
    BY <1>2 DEF BindContext
  <2>5. "context" \in Buffer
    BY DEF Buffer
  <2>6. CASE e.ok
    <3>1. careful' => careful /\ ~Freed /\ t.len <= Size(t)
      BY <2>2, <2>3
    <3> QED BY <2>1, <2>2, <2>4, <2>5, <2>6, <3>1, BindHolds
  <2>7. CASE ~e.ok
    BY <2>3, <2>4, <2>7 DEF BuffersHold
  <2> QED BY <2>6, <2>7
<1>3. ASSUME NEW b \in Covariate, NEW n \in 0 .. MaxLen, NEW c \in 0 .. MaxVariates,
             BindCovariate(b, n, c), Keeps(~Freed /\ n * c > 0)
      PROVE  BuffersHold'
  <2> DEFINE m == n * c
  <2>1. n \in Nat /\ c \in Nat /\ b \in Buffer
    BY TimeAssumption DEF Buffer
  <2>2. m \in Nat /\ (m > 0 => c <= m)
    BY <2>1, FactorsAreSmaller
  <2>3. careful' => careful /\ ~Freed /\ m > 0
    BY <1>3 DEF Keeps
  <2>4. PICK e \in EnsureCapacity(b, m) :
          /\ e.ok
          /\ alloc' = [alloc EXCEPT ![b] = e.alloc]
          /\ cap' = [cap EXCEPT ![b] = c]
          /\ need' = [need EXCEPT ![b] = m]
    BY <1>3 DEF BindCovariate
  <2> HIDE DEF m
  <2>5. careful' => careful /\ ~Freed /\ c <= m
    BY <2>2, <2>3
  <2> QED BY <2>1, <2>2, <2>4, <2>5, BindHolds
<1>4. ASSUME NEW h, SetHorizon(h), Keeps(NoForecast) PROVE BuffersHold'
  BY <1>4 DEF SetHorizon, Keeps, BuffersHold
<1>5. CASE Forecast /\ UNCHANGED careful
  BY <1>1, <1>5 DEF Forecast
<1>6. CASE FreeCell /\ UNCHANGED careful
  <2>1. "context" \in Buffer /\ \A b \in Buffer : b = "context" \/ b \in Covariate
    BY DEF Buffer
  <2>2. /\ alloc' = [b \in Buffer |-> 0] /\ need' = [b \in Buffer |-> 0]
        /\ cap' = [cap EXCEPT !["context"] = 0]
    BY <1>6 DEF FreeCell
  <2>3. cap' \in [Buffer -> Nat] /\ cap'["context"] = 0
    BY <2>1, <2>2 DEF BuffersHold
  <2> QED BY <2>1, <2>2, <2>3 DEF BuffersHold
<1>7. CASE InitAgain /\ UNCHANGED careful
  BY <1>7 DEF InitAgain, BuffersHold
<1>8. CASE UNCHANGED timeVars
  BY <1>1, <1>8 DEF timeVars
<1> QED BY <1>2, <1>3, <1>4, <1>5, <1>6, <1>7, <1>8 DEF TimeNext

(* For tensors of any size, and although the code keeps row and column      *)
(* counts where it should keep capacities, no careful caller makes it copy  *)
(* more doubles into a buffer than it allocated.                           *)
THEOREM BufferIsLargeEnoughCorrect == TimeSpec => []BufferIsLargeEnough
<1>1. TimeInit => BuffersHold
  BY DEF TimeInit, BuffersHold
<1>2. BuffersHold => BufferIsLargeEnough
  BY DEF BuffersHold, BufferIsLargeEnough
<1> QED BY <1>1, <1>2, BuffersStep, PTL DEF TimeSpec

-----------------------------------------------------------------------------
(* A row before another ends before that one does. *)
LEMMA ProductSplits ==
  ASSUME NEW a \in Nat, NEW b \in Nat, NEW d \in Nat, a < b
  PROVE  /\ a * d \in Nat /\ b * d \in Nat /\ d * a = a * d /\ d * b = b * d
         /\ a * d + d <= b * d
<1> DEFINE c == b - (a + 1)
<1>1. c \in Nat /\ b = a + 1 + c
  OBVIOUS
<1>2. c * d \in Nat /\ a * d \in Nat
  BY <1>1
<1>3. b * d = a * d + d + c * d
  <2> HIDE DEF c
  <2>1. (a + 1 + c) * d = a * d + d + c * d
    BY <1>1
  <2> QED BY <1>1, <2>1
<1>4. d * a = a * d /\ d * b = b * d
  OBVIOUS
<1> HIDE DEF c
<1> QED BY <1>2, <1>3, <1>4

(* The arrays of a forecast are of the horizon they were made for, as long  *)
(* as recorded, and hold the forecast of the context that is bound; a point *)
(* array of zeros has no quantiles beside it, and a length without an array *)
(* is what a forecast that failed at once has left.                        *)
PointFresh ==
  point # Null =>
    /\ point.horizon \in Nat /\ point.size = point_len
    /\ point_len = point.horizon * n_variates
    /\ point.of = tensor \/ (point.of = Null /\ quantiles = Null)

QuantilesFresh ==
  quantiles # Null =>
    /\ quantiles.horizon \in Nat
    /\ quantiles.size = NumQuantiles * (quantiles.horizon * n_variates)
    /\ quantiles.of = tensor
    /\ point # Null => quantiles.size = NumQuantiles * point.size

FreshArrays ==
  /\ tensor \in Tensor \cup {NoTensor} /\ n_variates \in Nat /\ horizon \in Nat
  /\ point = Null /\ point_len # 0 => starved
  /\ PointFresh /\ QuantilesFresh

LEMMA FreedIsFresh ==
  ASSUME FreeForecast, tensor' \in Tensor \cup {NoTensor}, n_variates' \in Nat, horizon' \in Nat
  PROVE  FreshArrays'
BY DEF FreeForecast, FreshArrays, PointFresh, QuantilesFresh

LEMMA FreshStep ==
  ASSUME FreshArrays, [TimeNext]_timeVars
  PROVE  FreshArrays'
<1>0. tensor \in Tensor \cup {NoTensor} /\ n_variates \in Nat /\ horizon \in Nat
  BY DEF FreshArrays
<1>1. ASSUME UNCHANGED <<tensor, n_variates, forecast>>, horizon' \in Nat PROVE FreshArrays'
  BY <1>1 DEF forecast, FreshArrays, PointFresh, QuantilesFresh
<1>2. ASSUME NEW t \in Tensor, BindContext(t) PROVE FreshArrays'
  <2>1. \/ FreeForecast /\ tensor' = t /\ n_variates' = t.nv
        \/ UNCHANGED <<tensor, n_variates, forecast>>
    BY <1>2 DEF BindContext
  <2>2. t.nv \in Nat /\ horizon' = horizon
    BY <1>2, TimeAssumption DEF Tensor, BindContext
  <2> QED BY <1>0, <1>1, <2>1, <2>2, FreedIsFresh
<1>3. ASSUME NEW b, NEW n, NEW c, BindCovariate(b, n, c) PROVE FreshArrays'
  <2>1. UNCHANGED <<tensor, n_variates, horizon, forecast>>
    BY <1>3 DEF BindCovariate
  <2> QED BY <1>0, <1>1, <2>1
<1>4. ASSUME NEW h \in 0 .. MaxHorizon, SetHorizon(h) PROVE FreshArrays'
  <2>1. UNCHANGED <<tensor, n_variates, forecast>> /\ horizon' \in Nat
    BY <1>4, TimeAssumption DEF SetHorizon
  <2> QED BY <1>1, <2>1
<1>5. CASE Forecast
  <2> DEFINE n == OutLen
             m == NumQuantiles * OutLen
  <2>0. n \in Nat
    BY <1>0 DEF OutLen
  <2>1. tensor' = tensor /\ n_variates' = n_variates /\ horizon' = horizon
    BY <1>5 DEF Forecast
  <2>2. CASE /\ point' = Filled(n) /\ point_len' = n /\ quantiles' = Filled(m)
    <3>1. /\ point'.size = n /\ point'.of = tensor /\ point'.horizon = horizon
          /\ quantiles'.size = m /\ quantiles'.of = tensor /\ quantiles'.horizon = horizon
      BY <2>2 DEF Filled
    <3>2. n = horizon * n_variates /\ m = NumQuantiles * (horizon * n_variates)
      BY DEF OutLen
    <3>3. point' # Null
      <4>1. Filled(n) \in Array
        BY <1>0, <2>0 DEF Filled, Array
      <4> QED BY <2>2, <4>1, TimeAssumption
    <3> QED BY <1>0, <2>1, <2>2, <3>1, <3>2, <3>3 DEF FreshArrays, PointFresh, QuantilesFresh
  <2>3. CASE PointFails
    BY <2>1, <2>3 DEF PointFails, FreshArrays, PointFresh, QuantilesFresh
  <2>4. CASE QuantilesFail
    <3>1. point' = Zeros(n) /\ point_len' = n /\ quantiles' = Null
      BY <2>4 DEF QuantilesFail
    <3>2. point'.size = n /\ point'.of = Null /\ point'.horizon = horizon
      BY <3>1 DEF Zeros
    <3>3. point' # Null
      <4>1. Zeros(n) \in Array
        BY <1>0, <2>0 DEF Zeros, Array
      <4> QED BY <3>1, <4>1, TimeAssumption
    <3> QED BY <1>0, <2>1, <3>1, <3>2, <3>3 DEF OutLen, FreshArrays, PointFresh, QuantilesFresh
  <2> QED BY <1>5, <2>2, <2>3, <2>4 DEF Forecast
<1>6. CASE FreeCell
  BY <1>6, FreedIsFresh DEF FreeCell, NoTensor
<1>7. CASE InitAgain
  BY <1>7, FreedIsFresh DEF InitAgain, NoTensor
<1>8. CASE UNCHANGED timeVars
  BY <1>0, <1>1, <1>8 DEF timeVars, forecast
<1> QED BY <1>2, <1>3, <1>4, <1>5, <1>6, <1>7, <1>8 DEF TimeNext

(* Only a horizon that has grown makes a row of a variate reach past an     *)
(* array of size = rows * (h * nv).                                        *)
LEMMA RowsFit ==
  ASSUME NEW hor \in Nat, NEW h \in Nat, NEW nv \in Nat, NEW rows \in Nat,
         NEW q \in Nat, q < rows, NEW v \in Nat, v < nv, NEW step \in 0 .. hor - 1,
         hor <= h
  PROVE  q * (hor * nv) + v * hor + step < rows * (h * nv)
<1> DEFINE row == hor * nv
           full == h * nv
<1>1. /\ v * hor \in Nat /\ nv * hor \in Nat /\ v * hor + hor <= nv * hor
      /\ nv * hor = row /\ row \in Nat
  BY ProductSplits
<1>2. full \in Nat /\ row <= full
  <2>1. CASE hor = h
    BY <1>1, <2>1
  <2>2. CASE hor < h
    BY <2>2, ProductSplits
  <2> QED BY <2>1, <2>2
<1> HIDE DEF row, full
<1>3. q * row \in Nat /\ rows * row \in Nat /\ q * row + row <= rows * row
  BY <1>1, ProductSplits
<1>4. rows * row <= rows * full /\ rows * full \in Nat
  <2>1. CASE row = full
    BY <1>2, <1>3, <2>1
  <2>2. CASE row < full
    <3>1. /\ row * rows \in Nat /\ full * rows \in Nat /\ row * rows + rows <= full * rows
          /\ rows * row = row * rows /\ rows * full = full * rows
      BY <1>1, <1>2, <2>2, ProductSplits
    <3> QED BY <3>1
  <2> QED BY <1>1, <1>2, <2>1, <2>2
<1>5. q * row + v * hor + step < rows * full
  <2> DEFINE a == q * row
             b == v * hor
             c == rows * row
             d == rows * full
             e == nv * hor
  <2>1. /\ a \in Nat /\ b \in Nat /\ c \in Nat /\ d \in Nat /\ e \in Nat
        /\ b + hor <= e /\ e = row /\ a + row <= c /\ c <= d
    BY <1>1, <1>3, <1>4
  <2>2. step < hor /\ step \in Nat
    OBVIOUS
  <2> HIDE DEF a, b, c, d, e
  <2>3. a + b + step < d
    BY <1>1, <2>1, <2>2
  <2> QED BY <2>3 DEF a, b, d
<1> QED BY <1>5 DEF row, full

(* What a read returns: nothing, or what its array is of. *)
LEMMA ReadOf ==
  ASSUME NEW array, NEW i
  PROVE  /\ At(array, i) = Outside => array = Null \/ i >= array.size
         /\ At(array, i) # Outside => array # Null /\ At(array, i).of = array.of
<1>1. CASE array = Null \/ i >= array.size
  BY <1>1 DEF At
<1>2. CASE ~(array = Null \/ i >= array.size)
  <2>1. At(array, i) # Outside
    BY <1>2 DEF At, Outside, Zero
  <2>2. At(array, i).of = array.of
    BY <1>2 DEF At, Zero
  <2> QED BY <1>2, <2>1, <2>2
<1> QED BY <1>1, <1>2

(* For tensors of any size, whichever allocation fails and however the      *)
(* horizon moves: a value read inside the arrays is of the context bound or *)
(* a zero, and a read leaves them only after the horizon has grown, or      *)
(* after a forecast that failed in its first allocation.                   *)
THEOREM NeverStaleCorrect == TimeSpec => []NeverStale
<1>1. TimeInit => FreshArrays
  BY DEF TimeInit, FreshArrays, PointFresh, QuantilesFresh
<1>2. FreshArrays => NeverStale
  <2> SUFFICES ASSUME FreshArrays PROVE NeverStale
    OBVIOUS
  <2>1. /\ point # Null => point.size = point_len
        /\ point # Null /\ quantiles # Null => quantiles.size = NumQuantiles * point.size
    BY DEF FreshArrays, PointFresh, QuantilesFresh
  <2>2. ASSUME NEW v \in 0 .. MaxVariates, CanReadPoint(v), NEW step \in 0 .. horizon - 1
        PROVE  LET x == ReadPoint(v, step)
               IN  IF x = Outside THEN starved \/ horizon > point.horizon
                   ELSE x.of = tensor \/ (x.of = Null /\ quantiles = Null)
    <3> DEFINE i == v * horizon + step
               x == ReadPoint(v, step)
    <3>1. x = At(point, i)
      BY DEF ReadPoint
    <3>2. ASSUME x = Outside PROVE starved \/ horizon > point.horizon
      <4> SUFFICES ASSUME ~starved PROVE horizon > point.horizon
        OBVIOUS
      <4>1. point # Null
        BY <2>2 DEF FreshArrays, CanReadPoint
      <4>2. i >= point.size
        BY <3>1, <3>2, <4>1, ReadOf
      <4>3. /\ point.horizon \in Nat /\ point.size = point.horizon * n_variates
            /\ n_variates \in Nat /\ horizon \in Nat /\ v \in Nat /\ v < n_variates
        BY <2>2, <4>1 DEF FreshArrays, PointFresh, CanReadPoint
      <4>4. ASSUME horizon <= point.horizon PROVE FALSE
        <5>1. 0 * (horizon * n_variates) + v * horizon + step
                < 1 * (point.horizon * n_variates)
          BY <4>3, <4>4, RowsFit
        <5>2. /\ 0 * (horizon * n_variates) + v * horizon + step = i
              /\ 1 * (point.horizon * n_variates) = point.size /\ i \in Nat
          BY <4>3
        <5> HIDE DEF i
        <5> QED BY <4>2, <4>3, <5>1, <5>2
      <4> QED BY <4>3, <4>4
    <3>3. ASSUME x # Outside PROVE x.of = tensor \/ (x.of = Null /\ quantiles = Null)
      BY <3>1, <3>3, ReadOf DEF FreshArrays, PointFresh
    <3> QED BY <3>2, <3>3
  <2>3. ASSUME NEW q \in 0 .. 10, NEW v \in 0 .. MaxVariates, CanReadQuantile(v),
               NEW step \in 0 .. horizon - 1
        PROVE  LET x == ReadQuantile(q, v, step)
               IN  IF x = Outside THEN horizon > quantiles.horizon ELSE x.of = tensor
    <3> DEFINE k == QuantileIndex(q)
               i == k * (horizon * n_variates) + v * horizon + step
               x == ReadQuantile(q, v, step)
    <3>1. x = At(quantiles, i)
      BY DEF ReadQuantile
    <3>2. k \in Nat /\ k < NumQuantiles /\ NumQuantiles \in Nat
      BY DEF QuantileIndex, NumQuantiles
    <3>3. quantiles # Null
      BY <2>3 DEF CanReadQuantile
    <3>4. ASSUME x = Outside PROVE horizon > quantiles.horizon
      <4>1. i >= quantiles.size
        BY <3>1, <3>3, <3>4, ReadOf
      <4>2. /\ quantiles.horizon \in Nat
            /\ quantiles.size = NumQuantiles * (quantiles.horizon * n_variates)
            /\ n_variates \in Nat /\ horizon \in Nat /\ v \in Nat /\ v < n_variates
        BY <2>3, <3>3 DEF FreshArrays, QuantilesFresh, CanReadQuantile
      <4>3. ASSUME horizon <= quantiles.horizon PROVE FALSE
        <5> HIDE DEF k
        <5>1. i < quantiles.size
          BY <3>2, <4>2, <4>3, RowsFit
        <5>2. i \in Nat /\ quantiles.size \in Nat
          <6>1. horizon * n_variates \in Nat /\ quantiles.horizon * n_variates \in Nat
            BY <4>2
          <6>2. v * horizon \in Nat /\ step \in Nat
            BY <4>2
          <6> QED BY <3>2, <4>2, <6>1, <6>2
        <5> HIDE DEF i
        <5> QED BY <4>1, <5>1, <5>2
      <4> QED BY <4>2, <4>3
    <3>5. ASSUME x # Outside PROVE x.of = tensor
      BY <3>1, <3>3, <3>5, ReadOf DEF FreshArrays, QuantilesFresh
    <3> QED BY <3>4, <3>5
  <2> QED BY <2>1, <2>2, <2>3 DEF NeverStale, PointReads, QuantileReads
<1> QED BY <1>1, <1>2, FreshStep, PTL DEF TimeSpec

-----------------------------------------------------------------------------
(* A row and a place in it are recovered from the index they make. *)
LEMMA IndexSplits ==
  ASSUME NEW d \in Nat \ {0}, NEW q \in Nat, NEW r \in 0 .. d - 1
  PROVE  /\ (q * d + r) \div d = q
         /\ (q * d + r) % d = r
<1> DEFINE i == q * d + r
           k == i \div d
           m == i % d
<1>1. i \in Nat
  OBVIOUS
<1>2. k \in Nat /\ m \in 0 .. d - 1 /\ i = d * k + m
  <2> HIDE DEF i
  <2> QED BY <1>1
<1>3. i = q * d + r
  OBVIOUS
<1> HIDE DEF i, k, m
<1>4. ~(k < q)
  <2> SUFFICES ASSUME k < q PROVE FALSE
    OBVIOUS
  <2>1. /\ k * d \in Nat /\ q * d \in Nat /\ d * k = k * d
        /\ k * d + d <= q * d
    BY <1>2, ProductSplits
  <2> QED BY <1>2, <1>3, <2>1
<1>5. ~(q < k)
  <2> SUFFICES ASSUME q < k PROVE FALSE
    OBVIOUS
  <2>1. /\ k * d \in Nat /\ q * d \in Nat /\ d * k = k * d
        /\ q * d + d <= k * d
    BY <1>2, ProductSplits
  <2> QED BY <1>2, <1>3, <2>1
<1>6. k = q /\ d * k = q * d
  BY <1>2, <1>4, <1>5
<1>7. m = r
  BY <1>2, <1>3, <1>6
<1> QED BY <1>6, <1>7 DEF i, k, m

(* While the caller is careful, a complete forecast is that of the bound    *)
(* context and the horizon.                                                *)
ForecastIsCurrent ==
  /\ tensor \in Tensor \cup {NoTensor} /\ n_variates = tensor.nv /\ horizon \in Nat
  /\ careful /\ point # Null /\ quantiles # Null =>
       point = Filled(OutLen) /\ quantiles = Filled(NumQuantiles * OutLen)

LEMMA ForecastStep == ForecastIsCurrent /\ [TimeNext]_timeVars => ForecastIsCurrent'
<1> SUFFICES ASSUME ForecastIsCurrent, [TimeNext]_timeVars PROVE ForecastIsCurrent'
  OBVIOUS
<1>1. ASSUME UNCHANGED <<tensor, n_variates, horizon, forecast>>, careful' => careful
      PROVE  ForecastIsCurrent'
  BY <1>1 DEF forecast, ForecastIsCurrent, Filled, OutLen
<1>2. ASSUME NEW t \in Tensor, BindContext(t), Keeps(~Freed /\ Size(t) > 0)
      PROVE  ForecastIsCurrent'
  <2>1. /\ \/ tensor' = t /\ n_variates' = t.nv /\ point' = Null
           \/ UNCHANGED <<tensor, n_variates, forecast>>
        /\ UNCHANGED horizon
    BY <1>2 DEF BindContext, FreeForecast
  <2>2. careful' => careful
    BY <1>2 DEF Keeps
  <2>3. CASE tensor' = t /\ n_variates' = t.nv /\ point' = Null
    BY <2>1, <2>3 DEF ForecastIsCurrent
  <2> QED BY <1>1, <2>1, <2>2, <2>3
<1>3. ASSUME NEW b, NEW n, NEW c, BindCovariate(b, n, c), Keeps(~Freed /\ n * c > 0)
      PROVE  ForecastIsCurrent'
  BY <1>1, <1>3 DEF BindCovariate, Keeps
<1>4. ASSUME NEW h \in 0 .. MaxHorizon, SetHorizon(h), Keeps(NoForecast)
      PROVE  ForecastIsCurrent'
  <2>1. h \in Nat
    BY TimeAssumption
  <2> QED BY <1>4, <2>1 DEF SetHorizon, Keeps, NoForecast, forecast, ForecastIsCurrent
<1>5. CASE Forecast /\ UNCHANGED careful
  <2>1. UNCHANGED <<tensor, n_variates, horizon>>
    BY <1>5 DEF Forecast
  <2>2. \/ point' = Filled(OutLen) /\ quantiles' = Filled(NumQuantiles * OutLen)
        \/ point' = Null \/ quantiles' = Null
    BY <1>5 DEF Forecast, PointFails, QuantilesFail
  <2> QED BY <2>1, <2>2 DEF ForecastIsCurrent, Filled, OutLen
<1>6. CASE (FreeCell \/ InitAgain) /\ UNCHANGED careful
  <2>1. tensor' = NoTensor /\ n_variates' = 0 /\ horizon' = 0 /\ point' = Null
    BY <1>6 DEF FreeCell, InitAgain, FreeForecast
  <2> QED BY <2>1 DEF ForecastIsCurrent, NoTensor
<1>7. CASE UNCHANGED timeVars
  BY <1>1, <1>7 DEF timeVars, forecast
<1> QED BY <1>2, <1>3, <1>4, <1>5, <1>6, <1>7 DEF TimeNext

(* What a complete array of whole rows holds at a row, variate and step. *)
LEMMA FilledAt ==
  ASSUME tensor \in Tensor, horizon \in Nat, tensor.nv \in Nat,
         NEW size \in Nat, Filled(size) # Null, NEW rows \in Nat,
         size = rows * (horizon * tensor.nv),
         NEW q \in Nat, q < rows, NEW v \in Nat, v < tensor.nv,
         NEW step \in 0 .. horizon - 1
  PROVE  At(Filled(size), q * (horizon * tensor.nv) + v * horizon + step)
           = [of |-> tensor, horizon |-> horizon, q |-> q, variate |-> v, step |-> step]
<1> DEFINE row == horizon * tensor.nv
           r == v * horizon + step
           i == q * row + r
           array == Filled(size)
<1>1. horizon \in Nat \ {0} /\ step \in Nat /\ step < horizon
  OBVIOUS
<1>2. v * horizon \in Nat /\ v * horizon + horizon <= row
  BY ProductSplits
<1>3. r \in Nat /\ r < row /\ row \in Nat \ {0} /\ r \in 0 .. row - 1
  <2> DEFINE vh == v * horizon
  <2>1. vh \in Nat /\ vh + horizon <= row /\ row \in Nat /\ r = vh + step
    BY <1>2
  <2> HIDE DEF vh, row, r
  <2> QED BY <1>1, <2>1
<1>4. i \div row = q /\ i % row = r
  <2> HIDE DEF row, r
  <2> QED BY <1>3, IndexSplits
<1>5. r \div horizon = v /\ r % horizon = step
  BY <1>1, IndexSplits
<1>6. i \in Nat /\ i < size
  <2> HIDE DEF row, r
  <2>1. q * row \in Nat /\ q * row + row <= rows * row
    BY <1>3, ProductSplits
  <2> DEFINE qr == q * row
             all == rows * row
  <2>2. qr \in Nat /\ qr + row <= all /\ all = size /\ i = qr + r
    BY <2>1 DEF row
  <2> HIDE DEF qr, all, i
  <2> QED BY <1>3, <2>2
<1>7. /\ array.of = tensor /\ array.horizon = horizon /\ array.size = size
      /\ tensor # Null /\ array # Null
  BY TimeAssumption DEF Filled
<1>8. array.horizon * array.of.nv = row
  BY <1>7
<1>9. q * (horizon * tensor.nv) + v * horizon + step = i
  <2> DEFINE qr == q * row
             vh == v * horizon
  <2>1. qr \in Nat /\ vh \in Nat
    BY <1>2, <1>3
  <2>2. r = vh + step /\ i = qr + r
    OBVIOUS
  <2>3. q * (horizon * tensor.nv) + v * horizon + step = qr + vh + step
    OBVIOUS
  <2> HIDE DEF qr, vh, r, i, row
  <2> QED BY <1>1, <2>1, <2>2, <2>3
<1> HIDE DEF row, r, i, array
<1>10. At(array, i) = [of |-> tensor, horizon |-> horizon, q |-> i \div row,
                       variate |-> (i % row) \div horizon, step |-> (i % row) % horizon]
  <2>1. ~(i >= array.size)
    BY <1>6, <1>7
  <2>2. At(array, i) = [of |-> array.of, horizon |-> array.horizon,
                        q |-> i \div (array.horizon * array.of.nv),
                        variate |-> (i % (array.horizon * array.of.nv)) \div array.horizon,
                        step |-> (i % (array.horizon * array.of.nv)) % array.horizon]
    BY <1>7, <2>1, Zenon DEF At
  <2> QED BY <1>7, <1>8, <2>2, Zenon
<1>11. At(array, i) = [of |-> tensor, horizon |-> horizon, q |-> q,
                       variate |-> v, step |-> step]
  BY <1>4, <1>5, <1>10, Zenon
<1> QED BY <1>9, <1>11 DEF array

(* For any context, horizon and allocation failing, as long as the caller   *)
(* keeps to the discipline: every step, variate and quantile read is the    *)
(* one asked for, of the context that is bound.                            *)
THEOREM ReadsAreTheForecastCorrect == TimeSpec => []ReadsAreTheForecast
<1>1. TimeInit => ForecastIsCurrent
  BY DEF TimeInit, ForecastIsCurrent, NoTensor
<1>2. ForecastIsCurrent => ReadsAreTheForecast
  <2> SUFFICES ASSUME ForecastIsCurrent, careful, point # Null, quantiles # Null,
                      NEW v \in 0 .. MaxVariates, NEW step \in 0 .. horizon - 1,
                      v < n_variates
               PROVE  /\ ReadPoint(v, step) = [of |-> tensor, horizon |-> horizon, q |-> 0,
                                               variate |-> v, step |-> step]
                      /\ \A q \in 1 .. NumQuantiles :
                           ReadQuantile(q, v, step) = [of |-> tensor, horizon |-> horizon,
                                                       q |-> q - 1, variate |-> v, step |-> step]
    BY DEF ReadsAreTheForecast, CanReadPoint, CanReadQuantile
  <2>1. /\ tensor \in Tensor /\ tensor.nv \in Nat /\ n_variates = tensor.nv
        /\ horizon \in Nat /\ v \in Nat /\ v < tensor.nv
    BY TimeAssumption DEF ForecastIsCurrent, Tensor, NoTensor
  <2> DEFINE row == horizon * tensor.nv
  <2>2. row \in Nat /\ 1 * row = row /\ 0 * row = 0 /\ OutLen = row
    BY <2>1 DEF OutLen
  <2>3. point = Filled(row) /\ quantiles = Filled(NumQuantiles * row)
    BY <2>2 DEF ForecastIsCurrent
  <2>4. NumQuantiles * row \in Nat
    BY <2>2 DEF NumQuantiles
  <2>5. v * horizon \in Nat /\ step \in Nat
    BY <2>1
  <2>6. At(point, 0 * row + v * horizon + step)
          = [of |-> tensor, horizon |-> horizon, q |-> 0, variate |-> v, step |-> step]
    <3>1. row = 1 * (horizon * tensor.nv)
      BY <2>2
    <3> QED BY <2>1, <2>2, <2>3, <3>1, FilledAt
  <2>7. ASSUME NEW q \in 1 .. NumQuantiles
        PROVE  ReadQuantile(q, v, step) = [of |-> tensor, horizon |-> horizon,
                                           q |-> q - 1, variate |-> v, step |-> step]
    <3>1. /\ QuantileIndex(q) = q - 1 /\ q - 1 \in Nat /\ q - 1 < NumQuantiles
          /\ NumQuantiles \in Nat
      BY DEF QuantileIndex, NumQuantiles
    <3>2. At(quantiles, (q - 1) * (horizon * tensor.nv) + v * horizon + step)
            = [of |-> tensor, horizon |-> horizon, q |-> q - 1, variate |-> v, step |-> step]
      BY <2>1, <2>3, <2>4, <3>1, FilledAt
    <3> QED BY <2>1, <3>1, <3>2 DEF ReadQuantile
  <2>8. ReadPoint(v, step) = At(point, v * horizon + step)
    BY DEF ReadPoint
  <2>9. 0 * row + v * horizon + step = v * horizon + step
    BY <2>2, <2>5
  <2> HIDE DEF row
  <2> QED BY <2>6, <2>7, <2>8, <2>9
<1> QED BY <1>1, <1>2, ForecastStep, PTL DEF TimeSpec

-----------------------------------------------------------------------------
(* A total kept modulo its width is the count modulo that width. *)
LEMMA CountsOn ==
  ASSUME NEW n \in Nat, NEW d \in Nat \ {0}
  PROVE  ((n % d) + 1) % d = (n + 1) % d
<1> DEFINE q == n \div d
           m == n % d
<1>1. q \in Nat /\ m \in 0 .. d - 1 /\ n = d * q + m
  OBVIOUS
<1>2. d * q = q * d /\ q * d \in Nat
  BY <1>1
<1> HIDE DEF q, m
<1>3. CASE m + 1 < d
  <2>1. m + 1 \in 0 .. d - 1
    BY <1>1, <1>3
  <2>2. (q * d + (m + 1)) % d = m + 1 /\ (0 * d + (m + 1)) % d = m + 1
    BY <1>1, <2>1, IndexSplits
  <2>3. q * d + (m + 1) = n + 1 /\ 0 * d + (m + 1) = m + 1
    BY <1>1, <1>2
  <2> QED BY <2>2, <2>3 DEF m
<1>4. CASE m + 1 = d
  <2>1. 0 \in 0 .. d - 1 /\ q + 1 \in Nat
    BY <1>1
  <2>2. ((q + 1) * d + 0) % d = 0 /\ (1 * d + 0) % d = 0
    BY <2>1, IndexSplits
  <2>3. (q + 1) * d + 0 = n + 1
    <3>1. (q + 1) * d = q * d + d
      BY <1>1
    <3> QED BY <1>1, <1>2, <1>4, <3>1
  <2>4. 1 * d + 0 = m + 1
    BY <1>4
  <2> QED BY <2>2, <2>3, <2>4 DEF m
<1> QED BY <1>1, <1>3, <1>4

(* The sum over the kinds, in whatever order it is taken. *)
Summed(r) == MapThenSumSet(LAMBDA k : r[k], Kind)

LEMMA SumOverKinds ==
  ASSUME NEW r \in [Kind -> Nat]
  PROVE  Summed(r) = r[0] + r[1] + r[2] + r[3] + r[4]
<1> DEFINE pick(s) == CHOOSE x \in s : TRUE
           Folds(f) == f = [s \in SUBSET Kind |->
                              IF s = {} THEN 0 ELSE r[pick(s)] + f[s \ {pick(s)}]]
           part(s, k) == IF k \in s THEN r[k] ELSE 0
           W(s) == part(s, 0) + part(s, 1) + part(s, 2) + part(s, 3) + part(s, 4)
           F == CHOOSE f : Folds(f)
<1>1. Kind = {0, 1, 2, 3, 4} /\ \A k \in Kind : r[k] \in Nat
  BY DEF Kind, DENSE_VEC, PARAM_UPDATE
<1>2. \A s \in SUBSET Kind : s # {} => pick(s) \in s
  OBVIOUS
<1>3. ASSUME NEW s \in SUBSET Kind, NEW x \in s
      PROVE  W(s) = r[x] + W(s \ {x}) /\ W(s) \in Nat
  <2> DEFINE t == s \ {x}
  <2>1. \A k \in Kind : /\ k # x => part(s, k) = part(t, k)
                        /\ part(s, k) \in Nat /\ part(t, k) \in Nat
    BY <1>1
  <2>2. part(s, x) = r[x] /\ part(t, x) = 0
    OBVIOUS
  <2>3. x = 0 \/ x = 1 \/ x = 2 \/ x = 3 \/ x = 4
    BY <1>1
  <2>4. r[x] \in Nat
    BY <1>1
  <2> HIDE DEF part, t
  <2>5. W(s) = r[x] + W(t) /\ W(s) \in Nat
    BY <1>1, <2>1, <2>2, <2>3, <2>4
  <2> QED BY <2>5 DEF t
<1>4. W({}) = 0
  OBVIOUS
<1> HIDE DEF W, pick
<1>5. \E f : Folds(f)
  <2> DEFINE g == [s \in SUBSET Kind |-> W(s)]
  <2>1. \A s \in SUBSET Kind :
          g[s] = IF s = {} THEN 0 ELSE r[pick(s)] + g[s \ {pick(s)}]
    BY <1>2, <1>3, <1>4
  <2> DEFINE h == [s \in SUBSET Kind |->
                     IF s = {} THEN 0 ELSE r[pick(s)] + g[s \ {pick(s)}]]
  <2>2. \A s \in SUBSET Kind : g[s] = h[s]
    BY <2>1
  <2>3. g = h
    BY <2>2
  <2> QED BY <2>3
<1>6. Folds(F)
  <2> HIDE DEF Folds
  <2> QED BY <1>5
<1>7. Summed(r) = F[Kind]
  BY DEF Summed, MapThenSumSet, MapThenFoldSet, pick
<1> HIDE DEF F
<1>8. IsFiniteSet(Kind) /\ Cardinality(Kind) \in Nat
  <2>1. Kind = 0 .. 4
    BY DEF Kind, DENSE_VEC, PARAM_UPDATE
  <2>2. 0 \in Int /\ 4 \in Int
    OBVIOUS
  <2>3. IsFiniteSet(0 .. 4)
    BY <2>2, FS_Interval
  <2> QED BY <2>1, <2>3, FS_CardinalityType
<1> DEFINE n == Cardinality(Kind)
           S == {m \in 0 .. n : \A s \in SUBSET Kind : Cardinality(s) = m => F[s] = W(s)}
<1>9. 0 \in S
  <2> SUFFICES ASSUME NEW s \in SUBSET Kind, Cardinality(s) = 0 PROVE F[s] = W(s)
    BY <1>8
  <2>1. s = {}
    BY <1>8, FS_Subset, FS_EmptySet
  <2> QED BY <1>4, <1>6, <2>1
<1>10. ASSUME NEW m \in 0 .. n - 1, m \in S PROVE m + 1 \in S
  <2> SUFFICES ASSUME NEW s \in SUBSET Kind, Cardinality(s) = m + 1 PROVE F[s] = W(s)
    BY <1>8
  <2>1. IsFiniteSet(s) /\ s # {}
    <3>1. IsFiniteSet(s)
      BY <1>8, FS_Subset
    <3>2. Cardinality(s) # 0
      BY <1>8
    <3> QED BY <3>1, <3>2, FS_EmptySet
  <2> DEFINE x == pick(s)
             t == s \ {x}
  <2>2. x \in s /\ t \in SUBSET Kind
    BY <1>2, <2>1
  <2>3. Cardinality(t) = m
    <3>1. Cardinality(t) = Cardinality(s) - 1
      BY <2>1, <2>2, FS_RemoveElement
    <3>2. Cardinality(s) = m + 1 /\ m \in Int
      OBVIOUS
    <3> QED BY <3>1, <3>2
  <2>4. F[t] = W(t)
    BY <1>10, <2>2, <2>3
  <2>5. F[s] = r[x] + F[t]
    BY <1>6, <2>1
  <2>6. W(s) = r[x] + W(t)
    BY <1>3, <2>2
  <2> QED BY <2>4, <2>5, <2>6
<1>11. n \in S
  <2> HIDE DEF S
  <2>1. \A m \in 0 .. n - 1 : m \in S => m + 1 \in S
    BY <1>10
  <2>2. 0 .. n \subseteq S
    BY <1>8, <1>9, <2>1, BoundedInduction
  <2> QED BY <1>8, <2>2
<1>12. F[Kind] = W(Kind)
  BY <1>11
<1> QED BY <1>1, <1>7, <1>12 DEF W

(* Each counter is what was recorded, up to its limit. *)
CountsRecorded ==
  /\ count \in [Kind -> Nat] /\ recorded \in [Kind -> Nat]
  /\ \A k \in Kind : count[k] = IF recorded[k] < MaxCount THEN recorded[k] ELSE MaxCount
  /\ preferred = IF recorded = [k \in Kind |-> 0] THEN TEXT_LOG ELSE Pick(count)
  /\ total = Summed(recorded) % (MaxCount + 1)

LEMMA NothingRecorded ==
  LET none == [k \in Kind |-> 0]
  IN  Summed(none) = 0 /\ none \in [Kind -> Nat] /\ \A k \in Kind : none[k] = 0
<1> DEFINE none == [k \in Kind |-> 0]
<1>1. none \in [Kind -> Nat] /\ \A k \in Kind : none[k] = 0
  OBVIOUS
<1> HIDE DEF none
<1>2. 0 \in Kind /\ 1 \in Kind /\ 2 \in Kind /\ 3 \in Kind /\ 4 \in Kind
  BY DEF Kind, DENSE_VEC, PARAM_UPDATE
<1>3. Summed(none) = none[0] + none[1] + none[2] + none[3] + none[4]
  BY <1>1, SumOverKinds
<1>4. Summed(none) = 0
  BY <1>1, <1>2, <1>3
<1> QED BY <1>1, <1>4 DEF none

LEMMA RecordCounts ==
  ASSUME CountsRecorded, NEW kind \in Kind, Record(kind)
  PROVE  CountsRecorded'
<1>1. MaxCount \in Nat \ {0} /\ MaxCount + 1 \in Nat \ {0}
  BY RouteAssumption
<1>2. /\ count' \in [Kind -> Nat] /\ recorded' \in [Kind -> Nat]
      /\ recorded'[kind] = recorded[kind] + 1 /\ recorded[kind] \in Nat
      /\ count'[kind] = IF count[kind] < MaxCount THEN count[kind] + 1 ELSE count[kind]
      /\ \A k \in Kind \ {kind} : recorded'[k] = recorded[k] /\ count'[k] = count[k]
  BY DEF Record, CountsRecorded
<1>3. \A k \in Kind : count'[k] = IF recorded'[k] < MaxCount THEN recorded'[k] ELSE MaxCount
  BY <1>1, <1>2 DEF CountsRecorded
<1>4. recorded' # [k \in Kind |-> 0]
  BY <1>2
<1>5. Summed(recorded') = Summed(recorded) + 1 /\ Summed(recorded) \in Nat
  <2>1. Summed(recorded) = recorded[0] + recorded[1] + recorded[2] + recorded[3] + recorded[4]
    BY SumOverKinds DEF CountsRecorded
  <2>2. Summed(recorded') = recorded'[0] + recorded'[1] + recorded'[2]
                              + recorded'[3] + recorded'[4]
    BY <1>2, SumOverKinds
  <2>3. Kind = {0, 1, 2, 3, 4}
    BY DEF Kind, DENSE_VEC, PARAM_UPDATE
  <2>4. \A k \in {0, 1, 2, 3, 4} : recorded[k] \in Nat
    BY <2>3 DEF CountsRecorded
  <2> QED BY <1>2, <2>1, <2>2, <2>3, <2>4
<1>6. total' = Summed(recorded') % (MaxCount + 1)
  <2>1. total' = ((Summed(recorded) % (MaxCount + 1)) + 1) % (MaxCount + 1)
    BY DEF Record, CountsRecorded
  <2> QED BY <1>1, <1>5, <2>1, CountsOn
<1>7. preferred' = Pick(count')
  BY DEF Record
<1> QED BY <1>2, <1>3, <1>4, <1>6, <1>7 DEF CountsRecorded

(* With counters of any width and any number of events: the preferred kind  *)
(* is the first of those most often recorded until a counter is full, then  *)
(* the first that is full, and the total is the events modulo its width.    *)
THEOREM PreferredIsMostRecordedCorrect == RouteSpec => []PreferredIsMostRecorded
<1> DEFINE none == [k \in Kind |-> 0]
<1>1. /\ Summed(none) = 0 /\ none \in [Kind -> Nat] /\ \A k \in Kind : none[k] = 0
      /\ 0 % (MaxCount + 1) = 0 /\ 0 < MaxCount
  BY NothingRecorded, RouteAssumption
<1>2. RouteInit => CountsRecorded
  <2> HIDE DEF none
  <2> SUFFICES ASSUME RouteInit PROVE CountsRecorded
    OBVIOUS
  <2>1. count = none /\ total = 0 /\ preferred = TEXT_LOG /\ recorded = none
    BY DEF RouteInit, none
  <2>2. preferred = IF recorded = [k \in Kind |-> 0] THEN TEXT_LOG ELSE Pick(count)
    BY <2>1 DEF none
  <2> QED BY <1>1, <2>1, <2>2 DEF CountsRecorded
<1>3. CountsRecorded /\ [RouteNext]_routeVars => CountsRecorded'
  <2> SUFFICES ASSUME CountsRecorded, [RouteNext]_routeVars PROVE CountsRecorded'
    OBVIOUS
  <2>1. ASSUME NEW v \in Shape, Record(Policy(v)) PROVE CountsRecorded'
    <3>1. Policy(v) \in Kind
      <4>1. /\ Policy("NULL") = TEXT_LOG /\ Policy("BOOL") = PARAM_UPDATE
            /\ Policy("INT") = SPARSE_IDX /\ Policy("FLOAT") = DENSE_VEC
            /\ Policy("long STR") = DENSE_VEC /\ Policy("short STR") = HIER_STORE
        BY DEF Policy
      <4>2. {DENSE_VEC, SPARSE_IDX, TEXT_LOG, HIER_STORE, PARAM_UPDATE} \subseteq Kind
        BY DEF Kind, DENSE_VEC, SPARSE_IDX, TEXT_LOG, HIER_STORE, PARAM_UPDATE
      <4> QED BY <4>1, <4>2 DEF Shape
    <3> QED BY <2>1, <3>1, RecordCounts
  <2>2. CASE InitStats
    <3> HIDE DEF none
    <3>1. count' = none /\ total' = 0 /\ preferred' = TEXT_LOG /\ recorded' = none
      BY <2>2 DEF InitStats, none
    <3>2. preferred' = IF recorded' = [k \in Kind |-> 0] THEN TEXT_LOG ELSE Pick(count')
      BY <3>1 DEF none
    <3> QED BY <1>1, <3>1, <3>2 DEF CountsRecorded
  <2>3. CASE UNCHANGED routeVars
    BY <2>3 DEF routeVars, CountsRecorded
  <2> QED BY <2>1, <2>2, <2>3 DEF RouteNext
<1>4. CountsRecorded => PreferredIsMostRecorded
  <2> SUFFICES ASSUME CountsRecorded PROVE PreferredIsMostRecorded
    OBVIOUS
  <2> DEFINE full == {k \in Kind : recorded[k] >= MaxCount}
             first(n) == {k \in Kind : \A m \in Kind : n[m] <= n[k]}
  <2>1. \A k \in Kind : recorded[k] \in Nat /\ count[k] \in Nat
    BY DEF CountsRecorded
  <2>2. MaxCount \in Nat
    BY RouteAssumption
  <2>3. first(count) = IF full = {} THEN first(recorded) ELSE full
    <3>1. \A k \in Kind : count[k] = IF recorded[k] < MaxCount THEN recorded[k] ELSE MaxCount
      BY DEF CountsRecorded
    <3>2. CASE full = {}
      <4>1. \A k \in Kind : count[k] = recorded[k]
        BY <2>1, <2>2, <3>1, <3>2
      <4> QED BY <3>2, <4>1
    <3>3. CASE full # {}
      <4>1. PICK j \in Kind : recorded[j] >= MaxCount
        BY <3>3
      <4>2. count[j] = MaxCount /\ \A k \in Kind : count[k] <= MaxCount
        BY <2>1, <2>2, <3>1, <4>1
      <4>3. \A k \in Kind : (\A m \in Kind : count[m] <= count[k]) <=> recorded[k] >= MaxCount
        BY <2>1, <2>2, <3>1, <4>2
      <4> QED BY <3>3, <4>3
    <3> QED BY <3>2, <3>3
  <2>4. Pick(count) = Min(IF full = {} THEN first(recorded) ELSE full)
    <3>1. Pick(count) = Min(first(count))
      BY DEF Pick
    <3> HIDE DEF first, full
    <3> QED BY <2>3, <3>1
  <2>5. preferred = IF recorded = [k \in Kind |-> 0] THEN TEXT_LOG
                    ELSE Min(IF full = {} THEN first(recorded) ELSE full)
    <3> HIDE DEF first, full
    <3> QED BY <2>4 DEF CountsRecorded
  <2>6. total = MapThenSumSet(LAMBDA k : recorded[k], Kind) % (MaxCount + 1)
    BY DEF CountsRecorded, Summed
  <2> QED BY <2>5, <2>6, Zenon DEF PreferredIsMostRecorded
<1> QED BY <1>2, <1>3, <1>4, PTL DEF RouteSpec

-----------------------------------------------------------------------------
(* The orders in which qsort may leave the rows. *)
Sorted(n, key, g) == \A i \in 1 .. n - 1 : key[g[i]] <= key[g[i + 1]]

LEMMA SortedThroughout ==
  ASSUME NEW n \in Nat, NEW key \in [1 .. n -> Int], NEW g \in [1 .. n -> 1 .. n],
         Sorted(n, key, g), NEW i \in 1 .. n, NEW j \in 1 .. n, i <= j
  PROVE  key[g[i]] <= key[g[j]]
<1> DEFINE m == n - i
           S == {k \in 0 .. m : key[g[i]] <= key[g[i + k]]}
<1>1. m \in Nat /\ \A k \in 1 .. n : key[g[k]] \in Int
  OBVIOUS
<1>2. 0 \in S
  BY <1>1
<1>3. ASSUME NEW k \in 0 .. m - 1, k \in S PROVE k + 1 \in S
  <2>1. i + k \in 1 .. n - 1 /\ i + k \in 1 .. n /\ (i + k) + 1 \in 1 .. n
    OBVIOUS
  <2>2. key[g[i + k]] <= key[g[(i + k) + 1]]
    BY <2>1 DEF Sorted
  <2>3. key[g[i]] <= key[g[i + k]] /\ i + (k + 1) = (i + k) + 1
    BY <1>3
  <2> DEFINE a == key[g[i]]
             b == key[g[i + k]]
             c == key[g[(i + k) + 1]]
  <2>4. a \in Int /\ b \in Int /\ c \in Int /\ a <= b /\ b <= c
    BY <1>1, <2>1, <2>2, <2>3
  <2>5. a <= c
    <3> HIDE DEF a, b, c
    <3> QED BY <2>4
  <2> QED BY <2>3, <2>5
<1>4. m \in S
  <2> HIDE DEF S, m
  <2>1. \A k \in 0 .. m - 1 : k \in S => k + 1 \in S
    BY <1>3
  <2>2. 0 .. m \subseteq S
    BY <1>1, <1>2, <2>1, BoundedInduction
  <2> QED BY <1>1, <2>2
<1>5. j - i \in 0 .. m
  OBVIOUS
<1>6. \A k \in 0 .. m : key[g[i]] <= key[g[i + k]]
  <2> SUFFICES ASSUME NEW k \in 0 .. m PROVE k \in S
    OBVIOUS
  <2> HIDE DEF S, m
  <2>1. \A l \in 0 .. m - 1 : l \in S => l + 1 \in S
    BY <1>3
  <2> QED BY <1>1, <1>2, <2>1, BoundedInduction
<1>7. i + (j - i) = j
  OBVIOUS
<1> QED BY <1>5, <1>6, <1>7

LEMMA BijectionIs ==
  ASSUME NEW n \in Nat, NEW f \in Bijection(1 .. n, 1 .. n)
  PROVE  /\ f \in [1 .. n -> 1 .. n]
         /\ \A i, j \in 1 .. n : f[i] = f[j] => i = j
         /\ \A k \in 1 .. n : \E i \in 1 .. n : f[i] = k
BY Fun_BijectionProperties, Zenon

LEMMA Composed ==
  ASSUME NEW S, NEW F \in Bijection(S, S), NEW G \in Bijection(S, S)
  PROVE  [s \in S |-> G[F[s]]] \in Bijection(S, S)
BY Fun_BijTransitive

LEMMA Undone ==
  ASSUME NEW S, NEW F \in Bijection(S, S)
  PROVE  \A k \in S : Inverse(F, S, S)[k] \in S /\ F[Inverse(F, S, S)[k]] = k
<1>1. /\ Inverse(F, S, S) \in Bijection(S, S)
      /\ \A s \in S : Inverse(F, S, S)[F[s]] = s
  BY Fun_BijInverse
<1>2. Inverse(F, S, S) \in [S -> S] /\ \A k \in S : \E s \in S : F[s] = k
  BY <1>1, Fun_BijectionProperties
<1> QED BY <1>1, <1>2

(* With keys that are all different only one order is sorted. *)
LEMMA OneSortedOrder ==
  ASSUME NEW n \in Nat, NEW key \in [1 .. n -> Int],
         \A i, j \in 1 .. n : key[i] = key[j] => i = j,
         NEW f \in Bijection(1 .. n, 1 .. n), NEW g \in Bijection(1 .. n, 1 .. n),
         Sorted(n, key, f), Sorted(n, key, g)
  PROVE  f = g
<1>1. /\ f \in [1 .. n -> 1 .. n] /\ g \in [1 .. n -> 1 .. n]
      /\ \A i, j \in 1 .. n : f[i] = f[j] => i = j
      /\ \A i, j \in 1 .. n : g[i] = g[j] => i = j
      /\ \A k \in 1 .. n : \E i \in 1 .. n : f[i] = k
      /\ \A k \in 1 .. n : \E i \in 1 .. n : g[i] = k
  BY BijectionIs
<1> DEFINE S == {m \in 0 .. n : \A i \in 1 .. m : f[i] = g[i]}
<1>2. 0 \in S
  OBVIOUS
<1>3. ASSUME NEW m \in 0 .. n - 1, m \in S PROVE m + 1 \in S
  <2>1. m + 1 \in 1 .. n /\ \A i \in 1 .. m : i \in 1 .. n /\ f[i] = g[i]
    BY <1>3
  <2>2. PICK j \in 1 .. n : g[j] = f[m + 1]
    BY <1>1, <2>1
  <2>3. PICK k \in 1 .. n : f[k] = g[m + 1]
    BY <1>1, <2>1
  <2>4. ~(j \in 1 .. m) /\ ~(k \in 1 .. m)
    <3>1. m + 1 \notin 1 .. m
      OBVIOUS
    <3>2. j \in 1 .. m => f[j] = f[m + 1]
      BY <2>1, <2>2
    <3>3. k \in 1 .. m => g[k] = g[m + 1]
      BY <2>1, <2>3
    <3> QED BY <1>1, <2>1, <3>1, <3>2, <3>3
  <2>5. m + 1 <= j /\ m + 1 <= k
    BY <2>4
  <2>6. key[g[m + 1]] <= key[g[j]] /\ key[f[m + 1]] <= key[f[k]]
    BY <1>1, <2>1, <2>5, SortedThroughout
  <2> DEFINE a == f[m + 1]
             b == g[m + 1]
  <2>7. a \in 1 .. n /\ b \in 1 .. n /\ key[b] <= key[a] /\ key[a] <= key[b]
    BY <1>1, <2>1, <2>2, <2>3, <2>6
  <2>8. a = b
    <3> HIDE DEF a, b
    <3>1. key[a] \in Int /\ key[b] \in Int
      BY <2>7
    <3> QED BY <2>7, <3>1
  <2> QED BY <2>1, <2>8
<1>4. n \in S
  <2> HIDE DEF S
  <2>1. \A m \in 0 .. n - 1 : m \in S => m + 1 \in S
    BY <1>3
  <2>2. 0 .. n \subseteq S
    BY <1>2, <2>1, BoundedInduction
  <2> QED BY <2>2
<1> QED BY <1>1, <1>4

-----------------------------------------------------------------------------
Rows(ps) == [i \in DOMAIN ps |-> Dials(ps[i])]

Keys(ps) == [i \in DOMAIN ps |-> Dials(ps[i])[1]]

LEMMA KeysAreNumbers ==
  ASSUME NEW ps \in Seq(Paper)
  PROVE  /\ Keys(ps) \in [1 .. Len(ps) -> Int] /\ Len(ps) \in Nat
         /\ DOMAIN ps = 1 .. Len(ps)
         /\ \A i \in 1 .. Len(ps) : Keys(ps)[i] = Rows(ps)[i][1]
<1>1. Len(ps) \in Nat /\ DOMAIN ps = 1 .. Len(ps) /\ \A i \in 1 .. Len(ps) : ps[i] \in Paper
  OBVIOUS
<1>2. \A p \in Paper : Dials(p)[1] \in Int
  BY CanonAssumption DEF Dials
<1> QED BY <1>1, <1>2 DEF Keys, Rows

LEMMA HashesAre ==
  ASSUME NEW ps \in Seq(Paper), NEW h
  PROVE  h \in Hashes(ps) <=>
           \E f \in Bijection(1 .. Len(ps), 1 .. Len(ps)) :
             h = [i \in 1 .. Len(ps) |-> Rows(ps)[f[i]]] /\ Sorted(Len(ps), Keys(ps), f)
<1> DEFINE n == Len(ps)
           rows == Rows(ps)
           Of(f) == [i \in 1 .. n |-> rows[f[i]]]
<1>1. /\ Keys(ps) \in [1 .. n -> Int] /\ n \in Nat /\ DOMAIN ps = 1 .. n
      /\ \A i \in 1 .. n : Keys(ps)[i] = rows[i][1]
  BY KeysAreNumbers
<1>2. h \in Hashes(ps) <=> /\ \E f \in Bijection(1 .. n, 1 .. n) : h = Of(f)
                           /\ \A i \in 1 .. n - 1 : h[i][1] <= h[i + 1][1]
  <2> DEFINE D == DOMAIN ps
  <2>1. h \in Hashes(ps) <=> /\ \E f \in Bijection(D, D) : h = [i \in D |-> rows[f[i]]]
                             /\ \A i \in 1 .. n - 1 : h[i][1] <= h[i + 1][1]
    BY Zenon DEF Hashes, Rows
  <2> QED BY <1>1, <2>1, Zenon
<1>3. ASSUME NEW f \in Bijection(1 .. n, 1 .. n), h = Of(f)
      PROVE  (\A i \in 1 .. n - 1 : h[i][1] <= h[i + 1][1]) <=> Sorted(n, Keys(ps), f)
  <2>1. f \in [1 .. n -> 1 .. n]
    BY Fun_BijectionProperties
  <2>2. \A i \in 1 .. n : h[i] = rows[f[i]] /\ f[i] \in 1 .. n
    BY <1>3, <2>1
  <2> HIDE DEF rows
  <2>3. \A i \in 1 .. n : h[i][1] = Keys(ps)[f[i]]
    BY <1>1, <2>2
  <2>4. \A i \in 1 .. n - 1 : i \in 1 .. n /\ i + 1 \in 1 .. n
    BY <1>1
  <2> QED BY <2>3, <2>4 DEF Sorted
<1> HIDE DEF Of
<1>4. h \in Hashes(ps) <=> \E f \in Bijection(1 .. n, 1 .. n) : h = Of(f) /\ Sorted(n, Keys(ps), f)
  BY <1>2, <1>3
<1> QED BY <1>4 DEF Of

LEMMA HashesOfAnyOrder ==
  ASSUME NEW ps \in Seq(Paper), NEW h \in Hashes(ps),
         \A i, j \in DOMAIN ps : Dials(ps[i])[1] = Dials(ps[j])[1] => i = j,
         NEW f \in Bijection(DOMAIN ps, DOMAIN ps)
  PROVE  Hashes([i \in DOMAIN ps |-> ps[f[i]]]) = {h}
<1> DEFINE n == Len(ps)
           D == 1 .. n
           qs == [i \in D |-> ps[f[i]]]
           rows == Rows(ps)
           key == Keys(ps)
<1>1. /\ key \in [D -> Int] /\ n \in Nat /\ DOMAIN ps = D /\ \A i \in D : ps[i] \in Paper
      /\ f \in Bijection(D, D)
  BY KeysAreNumbers
<1>2. /\ f \in [D -> D]
      /\ \A i, j \in D : f[i] = f[j] => i = j
      /\ \A k \in D : \E i \in D : f[i] = k
  BY <1>1, BijectionIs
<1>3. qs \in Seq(Paper) /\ Len(qs) = n /\ DOMAIN qs = D
  <2>1. qs \in [1 .. n -> Paper]
    BY <1>1, <1>2
  <2> HIDE DEF n, qs
  <2>2. qs \in Seq(Paper)
    BY <1>1, <2>1, IsASeq
  <2>3. n >= 0 /\ DOMAIN qs = 1 .. n
    BY <1>1, <2>1
  <2> QED BY <1>1, <2>2, <2>3, LenProperties
<1>4. \A i \in D : Rows(qs)[i] = rows[f[i]] /\ Keys(qs)[i] = key[f[i]]
  BY <1>1, <1>2, <1>3 DEF Rows, Keys
<1>5. \A i, j \in D : key[i] = key[j] => i = j
  BY <1>1 DEF Keys
<1> HIDE DEF rows, key, qs
<1>6. PICK g \in Bijection(D, D) : h = [i \in D |-> rows[g[i]]] /\ Sorted(n, key, g)
  BY HashesAre DEF rows, key
<1>7. g \in [D -> D]
  BY <1>1, <1>6, BijectionIs
<1>8. h \in Hashes(qs)
  <2> DEFINE back == Inverse(f, D, D)
             e == [i \in D |-> back[g[i]]]
  <2>1. back \in Bijection(D, D)
    BY <1>1, Fun_BijInverse
  <2>2. \A k \in D : back[k] \in D /\ f[back[k]] = k
    <3> HIDE DEF D
    <3> QED BY <1>1, Undone
  <2>3. e \in Bijection(D, D)
    <3> HIDE DEF back, D
    <3> QED BY <1>6, <2>1, Composed
  <2> HIDE DEF back
  <2>4. \A i \in D : e[i] \in D /\ f[e[i]] = g[i]
    BY <1>7, <2>2
  <2> HIDE DEF e
  <2>5. \A i \in D : Rows(qs)[e[i]] = rows[g[i]] /\ Keys(qs)[e[i]] = key[g[i]]
    BY <1>4, <2>4
  <2>6. h = [i \in D |-> Rows(qs)[e[i]]]
    BY <1>6, <2>5
  <2>7. Sorted(n, Keys(qs), e)
    <3>1. \A i \in 1 .. n - 1 : i \in D /\ i + 1 \in D
      BY <1>1
    <3> QED BY <1>6, <2>5, <3>1 DEF Sorted
  <2> QED BY <1>3, <2>3, <2>6, <2>7, HashesAre
<1>9. ASSUME NEW x \in Hashes(qs) PROVE x = h
  <2>1. PICK e \in Bijection(D, D) :
          x = [i \in D |-> Rows(qs)[e[i]]] /\ Sorted(n, Keys(qs), e)
    BY <1>3, HashesAre
  <2>2. e \in [D -> D]
    BY <1>1, <2>1, BijectionIs
  <2> DEFINE k == [i \in D |-> f[e[i]]]
  <2>3. k \in Bijection(D, D)
    <3> HIDE DEF D
    <3> QED BY <1>1, <2>1, Composed
  <2>4. \A i \in D : Rows(qs)[e[i]] = rows[k[i]] /\ Keys(qs)[e[i]] = key[k[i]]
    BY <1>4, <2>2
  <2> HIDE DEF k
  <2>5. Sorted(n, key, k)
    <3>1. \A i \in 1 .. n - 1 : i \in D /\ i + 1 \in D
      BY <1>1
    <3> QED BY <2>1, <2>4, <3>1 DEF Sorted
  <2>6. k = g
    <3> HIDE DEF n
    <3> QED BY <1>1, <1>5, <1>6, <2>3, <2>5, OneSortedOrder
  <2> QED BY <1>6, <2>1, <2>4, <2>6
<1>10. Hashes(qs) = {h}
  BY <1>8, <1>9
<1> QED BY <1>1, <1>10 DEF qs

HashFits == papers \in Seq(Paper) /\ canon_hash \in Hashes(papers)

(* For any papers, however many: once no two share their first dial, every  *)
(* order of adding them gives the hash that this one gave.                 *)
THEOREM HashIgnoresOrderCorrect == CanonSpec => []HashIgnoresOrder
<1>1. CanonInit => HashFits
  <2> SUFFICES ASSUME CanonInit PROVE HashFits
    OBVIOUS
  <2>1. papers = << >> /\ canon_hash = << >>
    BY DEF CanonInit
  <2> DEFINE none == << >>
  <2>2. none \in Seq(Paper) /\ Len(none) = 0 /\ 1 .. 0 = {}
    OBVIOUS
  <2>3. [i \in 1 .. 0 |-> i] \in Bijection(1 .. 0, 1 .. 0)
    BY DEF Bijection, Injection, Surjection, IsInjective
  <2>4. none = [i \in 1 .. 0 |-> Rows(none)[[j \in 1 .. 0 |-> j][i]]]
    BY <2>2
  <2>5. Sorted(0, Keys(none), [i \in 1 .. 0 |-> i])
    BY DEF Sorted
  <2>6. none \in Hashes(none)
    <3> HIDE DEF none
    <3> QED BY <2>2, <2>3, <2>4, <2>5, HashesAre
  <2> QED BY <2>1, <2>2, <2>6 DEF HashFits
<1>2. HashFits /\ [CanonNext]_canonVars => HashFits'
  <2> SUFFICES ASSUME HashFits, [CanonNext]_canonVars PROVE HashFits'
    OBVIOUS
  <2>1. ASSUME NEW p \in Paper, AddPaper(p) PROVE HashFits'
    <3>1. Append(papers, p) \in Seq(Paper)
      BY DEF HashFits
    <3> QED BY <2>1, <3>1 DEF AddPaper, HashFits
  <2>2. ASSUME NEW n, NEW d, Navigate(n, d) PROVE HashFits'
    BY <2>2 DEF Navigate, HashFits
  <2>3. CASE Visit
    BY <2>3 DEF Visit, HashFits
  <2>4. CASE UNCHANGED canonVars
    BY <2>4 DEF canonVars, HashFits
  <2> QED BY <2>1, <2>2, <2>3, <2>4 DEF CanonNext
<1>3. HashFits => HashIgnoresOrder
  BY HashesOfAnyOrder DEF HashFits, HashIgnoresOrder
<1> QED BY <1>1, <1>2, <1>3, PTL DEF CanonSpec

-----------------------------------------------------------------------------
(* The walk, in terms of what each number cites, R, and of the numbers N[d] *)
(* at most d citations from the start s, for d up to D.                    *)
Node == [number : Nat, depth : Nat]

Numbers(nodes) == {nodes[i].number : i \in DOMAIN nodes}

Distances(R, N, s, D) ==
  /\ N[0] = {s}
  /\ \A d \in 1 .. D : N[d] = N[d - 1] \cup UNION {R[n] : n \in N[d - 1]}

(* Of the nodes queued so far, nearest first, h have been visited: each is  *)
(* queued once at its distance, and all a visited one cites is there.      *)
Walked(R, N, s, D, nodes, h) ==
  /\ \A i, j \in 1 .. Len(nodes) : nodes[i].number = nodes[j].number => i = j
  /\ s \in Numbers(nodes)
  /\ \A i \in 1 .. Len(nodes) :
       /\ nodes[i].depth <= D /\ nodes[i].number \in N[nodes[i].depth]
       /\ \A e \in 0 .. D : nodes[i].number \in N[e] => nodes[i].depth <= e
  /\ \A i, j \in 1 .. Len(nodes) : i <= j => nodes[i].depth <= nodes[j].depth
  /\ h < Len(nodes) =>
       \A j \in 1 .. Len(nodes) : nodes[j].depth <= nodes[h + 1].depth + 1
  /\ \A i \in 1 .. h : nodes[i].depth < D => R[nodes[i].number] \subseteq Numbers(nodes)

LEMMA NodesAre ==
  ASSUME NEW nodes \in Seq(Node)
  PROVE  /\ Len(nodes) \in Nat /\ DOMAIN nodes = 1 .. Len(nodes)
         /\ \A i \in 1 .. Len(nodes) :
              nodes[i] \in Node /\ nodes[i].number \in Nat /\ nodes[i].depth \in Nat
<1>1. Len(nodes) \in Nat /\ DOMAIN nodes = 1 .. Len(nodes)
      /\ \A i \in 1 .. Len(nodes) : nodes[i] \in Node
  <2> HIDE DEF Node
  <2> QED OBVIOUS
<1>2. \A x \in Node : x.number \in Nat /\ x.depth \in Nat
  BY DEF Node
<1> QED BY <1>1, <1>2

LEMMA FartherIsMore ==
  ASSUME NEW R, NEW N, NEW s, NEW D \in Nat, Distances(R, N, s, D),
         NEW d \in 0 .. D, NEW e \in 0 .. D, d <= e
  PROVE  N[d] \subseteq N[e]
<1> DEFINE m == e - d
           S == {k \in 0 .. m : N[d] \subseteq N[d + k]}
<1>1. m \in Nat /\ d + m = e /\ d + 0 = d
  OBVIOUS
<1>2. 0 \in S
  BY <1>1
<1>3. ASSUME NEW k \in 0 .. m - 1, k \in S PROVE k + 1 \in S
  <2>1. d + (k + 1) \in 1 .. D /\ (d + (k + 1)) - 1 = d + k
    OBVIOUS
  <2>2. N[d + k] \subseteq N[d + (k + 1)]
    BY <2>1 DEF Distances
  <2> QED BY <1>3, <2>2
<1>4. m \in S
  <2> HIDE DEF S, m
  <2>1. \A k \in 0 .. m - 1 : k \in S => k + 1 \in S
    BY <1>3
  <2>2. 0 .. m \subseteq S
    BY <1>1, <1>2, <2>1, BoundedInduction
  <2> QED BY <1>1, <2>2
<1> QED BY <1>1, <1>4

(* As far as every node not yet visited is from the start, all is queued. *)
LEMMA NearIsQueued ==
  ASSUME NEW R, NEW N, NEW s, NEW D \in Nat, Distances(R, N, s, D),
         NEW nodes \in Seq(Node), NEW h \in 0 .. Len(nodes), Walked(R, N, s, D, nodes, h),
         NEW d \in 0 .. D, h < Len(nodes) => d <= nodes[h + 1].depth
  PROVE  N[d] \subseteq Numbers(nodes)
<1>1. /\ Len(nodes) \in Nat /\ DOMAIN nodes = 1 .. Len(nodes)
      /\ \A i \in 1 .. Len(nodes) : nodes[i].depth \in Nat
  BY NodesAre
<1> DEFINE S == {m \in 0 .. d : N[m] \subseteq Numbers(nodes)}
<1>2. 0 \in S
  BY DEF Distances, Walked
<1>3. ASSUME NEW m \in 0 .. d - 1, m \in S PROVE m + 1 \in S
  <2>1. m + 1 \in 1 .. D /\ (m + 1) - 1 = m /\ m \in 0 .. D
    OBVIOUS
  <2>2. N[m + 1] = N[m] \cup UNION {R[n] : n \in N[m]}
    BY <2>1 DEF Distances
  <2>3. ASSUME NEW n \in N[m] PROVE R[n] \subseteq Numbers(nodes)
    <3>1. PICK i \in 1 .. Len(nodes) : nodes[i].number = n
      BY <1>1, <1>3 DEF Numbers
    <3>2. nodes[i].depth <= m
      BY <2>1, <3>1 DEF Walked
    <3>3. i <= h
      <4> SUFFICES ASSUME ~(i <= h) PROVE FALSE
        OBVIOUS
      <4>1. h < Len(nodes) /\ h + 1 \in 1 .. Len(nodes) /\ h + 1 <= i
        BY <1>1
      <4>2. nodes[h + 1].depth <= nodes[i].depth
        BY <4>1 DEF Walked
      <4> DEFINE a == nodes[h + 1].depth
                 b == nodes[i].depth
      <4>3. a \in Nat /\ b \in Nat /\ a <= b /\ b <= m /\ d <= a
        BY <1>1, <3>2, <4>1, <4>2
      <4> HIDE DEF a, b
      <4> QED BY <4>3
    <3>4. i \in 1 .. h /\ nodes[i].depth < D
      <4> DEFINE b == nodes[i].depth
      <4>1. b \in Nat /\ b <= m
        BY <1>1, <3>2
      <4> HIDE DEF b
      <4>2. b < D
        BY <4>1
      <4> QED BY <3>3, <4>2 DEF b
    <3> QED BY <3>1, <3>4 DEF Walked
  <2>4. N[m + 1] \subseteq Numbers(nodes)
    BY <1>3, <2>2, <2>3
  <2> QED BY <2>4
<1>4. d \in S
  <2> HIDE DEF S
  <2>1. \A m \in 0 .. d - 1 : m \in S => m + 1 \in S
    BY <1>3
  <2>2. 0 .. d \subseteq S
    BY <1>2, <2>1, BoundedInduction
  <2> QED BY <2>2
<1> QED BY <1>4

(* What the visit of number x at distance k makes of the nodes. *)
Extends(R, D, nodes, x, k, more) ==
  /\ Len(nodes) <= Len(more) /\ \A i \in 1 .. Len(nodes) : more[i] = nodes[i]
  /\ \A i \in Len(nodes) + 1 .. Len(more) :
       more[i].depth = k + 1 /\ more[i].number \in R[x] \ Numbers(nodes) /\ k < D
  /\ \A i, j \in Len(nodes) + 1 .. Len(more) : more[i].number = more[j].number => i = j
  /\ k < D => R[x] \subseteq Numbers(more)

LEMMA WalkStep ==
  ASSUME NEW R, NEW N, NEW s, NEW D \in Nat, Distances(R, N, s, D),
         NEW nodes \in Seq(Node), NEW h \in 0 .. Len(nodes), h < Len(nodes),
         Walked(R, N, s, D, nodes, h), NEW more \in Seq(Node),
         Extends(R, D, nodes, nodes[h + 1].number, nodes[h + 1].depth, more)
  PROVE  Walked(R, N, s, D, more, h + 1)
<1> DEFINE n == Len(nodes)
           m == Len(more)
           k == nodes[h + 1].depth
           x == nodes[h + 1].number
<1>0. /\ n <= m /\ \A i \in 1 .. n : more[i] = nodes[i]
      /\ \A i \in n + 1 .. m :
           more[i].depth = k + 1 /\ more[i].number \in R[x] \ Numbers(nodes) /\ k < D
      /\ \A i, j \in n + 1 .. m : more[i].number = more[j].number => i = j
      /\ k < D => R[x] \subseteq Numbers(more)
  BY DEF Extends
<1>a. k = nodes[h + 1].depth /\ x = nodes[h + 1].number
  OBVIOUS
<1> HIDE DEF k, x
<1>1. /\ n \in Nat /\ DOMAIN nodes = 1 .. n /\ m \in Nat /\ DOMAIN more = 1 .. m /\ n <= m
      /\ \A i \in 1 .. n : nodes[i].depth \in Nat /\ more[i] = nodes[i]
      /\ \A i \in 1 .. m : more[i].depth \in Nat
      /\ h + 1 \in 1 .. n /\ h \in Nat
  BY <1>0, NodesAre
<1>2. k \in Nat /\ k <= D /\ x \in N[k] /\ \A j \in 1 .. n : nodes[j].depth <= k + 1
  BY <1>a, <1>1 DEF Walked
<1>3. Numbers(nodes) \subseteq Numbers(more)
  BY <1>1 DEF Numbers
<1>4. \A i \in 1 .. m : i \in 1 .. n \/ i \in n + 1 .. m
  BY <1>1
<1>5. \A i \in 1 .. n : more[i].number \in Numbers(nodes)
  BY <1>1 DEF Numbers
<1>6. \A i, j \in 1 .. m : more[i].number = more[j].number => i = j
  <2>1. \A i, j \in 1 .. n : more[i].number = more[j].number => i = j
    BY <1>1 DEF Walked
  <2> QED BY <1>0, <1>4, <1>5, <2>1
<1>7. s \in Numbers(more)
  BY <1>3 DEF Walked
<1>8. ASSUME NEW i \in 1 .. m
      PROVE  /\ more[i].depth <= D /\ more[i].number \in N[more[i].depth]
             /\ \A e \in 0 .. D : more[i].number \in N[e] => more[i].depth <= e
  <2>1. CASE i \in 1 .. n
    BY <1>1, <2>1 DEF Walked
  <2>2. CASE i \in n + 1 .. m
    <3>1. more[i].depth = k + 1 /\ k < D /\ more[i].number \in R[x]
          /\ more[i].number \notin Numbers(nodes)
      BY <1>0, <2>2
    <3>2. k + 1 \in 1 .. D /\ (k + 1) - 1 = k
      <4>1. k \in Nat /\ k < D
        BY <1>2, <3>1
      <4> QED BY <4>1
    <3>3. more[i].number \in N[k + 1]
      <4>1. N[k + 1] = N[k] \cup UNION {R[y] : y \in N[k]}
        BY <3>2 DEF Distances
      <4>2. more[i].number \in UNION {R[y] : y \in N[k]}
        BY <1>2, <3>1
      <4> QED BY <4>1, <4>2
    <3>4. ASSUME NEW e \in 0 .. D, more[i].number \in N[e], e <= k PROVE FALSE
      <4>1. N[e] \subseteq Numbers(nodes)
        BY <1>a, <3>4, NearIsQueued
      <4> QED BY <3>1, <3>4, <4>1
    <3>5. k + 1 <= D
      BY <3>2
    <3>6. \A e \in 0 .. D : more[i].number \in N[e] => k + 1 <= e
      BY <1>2, <3>4
    <3> QED BY <3>1, <3>3, <3>5, <3>6
  <2> QED BY <1>4, <2>1, <2>2
<1>9. \A j \in 1 .. m : more[j].depth <= k + 1
  BY <1>0, <1>1, <1>2, <1>4
<1>10. \A i, j \in 1 .. m : i <= j => more[i].depth <= more[j].depth
  <2> SUFFICES ASSUME NEW i \in 1 .. m, NEW j \in 1 .. m, i <= j
               PROVE  more[i].depth <= more[j].depth
    OBVIOUS
  <2>1. CASE j \in 1 .. n
    <3>1. i \in 1 .. n
      BY <1>1, <2>1
    <3> QED BY <1>1, <2>1, <3>1 DEF Walked
  <2>2. CASE j \in n + 1 .. m
    BY <1>0, <1>9, <2>2
  <2> QED BY <1>4, <2>1, <2>2
<1>11. ASSUME h + 1 < m PROVE \A j \in 1 .. m : more[j].depth <= more[(h + 1) + 1].depth + 1
  <2>1. (h + 1) + 1 \in 1 .. m /\ h + 1 \in 1 .. m /\ h + 1 <= (h + 1) + 1
    BY <1>1, <1>11
  <2>2. more[h + 1].depth = k
    BY <1>a, <1>1
  <2> DEFINE a == more[(h + 1) + 1].depth
  <2>3. k <= a /\ a \in Nat
    BY <1>1, <1>10, <2>1, <2>2
  <2>4. ASSUME NEW j \in 1 .. m PROVE more[j].depth <= a + 1
    <3> DEFINE b == more[j].depth
    <3>1. b <= k + 1 /\ b \in Nat
      BY <1>1, <1>9
    <3> HIDE DEF a, b
    <3>2. b <= a + 1
      BY <1>2, <2>3, <3>1
    <3> QED BY <3>2 DEF b
  <2> QED BY <2>4
<1>12. ASSUME NEW i \in 1 .. h + 1, more[i].depth < D
       PROVE  R[more[i].number] \subseteq Numbers(more)
  <2>1. CASE i = h + 1
    BY <1>0, <1>a, <1>1, <1>12, <2>1
  <2>2. CASE i # h + 1
    <3>1. i \in 1 .. h /\ i \in 1 .. n
      BY <1>1, <2>2
    <3> QED BY <1>1, <1>3, <1>12, <3>1 DEF Walked
  <2> QED BY <2>1, <2>2
<1> QED BY <1>6, <1>7, <1>8, <1>10, <1>11, <1>12 DEF Walked

(* When no node is left to visit, the walk has found what it should. *)
LEMMA WalkEnd ==
  ASSUME NEW R, NEW N, NEW s, NEW D \in Nat, Distances(R, N, s, D),
         NEW nodes \in Seq(Node), Walked(R, N, s, D, nodes, Len(nodes))
  PROVE  /\ Numbers(nodes) = N[D]
         /\ Len(nodes) = Cardinality(N[D])
         /\ \A i \in DOMAIN nodes :
              nodes[i].depth = Min({d \in 0 .. D : nodes[i].number \in N[d]})
         /\ \A i \in 2 .. Len(nodes) : nodes[i - 1].depth <= nodes[i].depth
<1> DEFINE n == Len(nodes)
<1>1. /\ n \in Nat /\ DOMAIN nodes = 1 .. n
      /\ \A i \in 1 .. n : nodes[i].depth \in Nat
      /\ D \in 0 .. D /\ n \in 0 .. n
  BY NodesAre
<1>2. N[D] \subseteq Numbers(nodes)
  BY <1>1, NearIsQueued
<1>3. Numbers(nodes) \subseteq N[D]
  <2> SUFFICES ASSUME NEW i \in 1 .. n PROVE nodes[i].number \in N[D]
    BY <1>1 DEF Numbers
  <2>1. nodes[i].depth \in 0 .. D /\ nodes[i].number \in N[nodes[i].depth]
        /\ nodes[i].depth <= D
    BY <1>1 DEF Walked
  <2> DEFINE d == nodes[i].depth
  <2>2. N[d] \subseteq N[D]
    <3> HIDE DEF d
    <3>1. d \in 0 .. D /\ d <= D
      BY <2>1 DEF d
    <3> QED BY <1>1, <3>1, FartherIsMore
  <2> QED BY <2>1, <2>2
<1>4. n = Cardinality(Numbers(nodes))
  <2> DEFINE f == [i \in 1 .. n |-> nodes[i].number]
             T == Numbers(nodes)
  <2>1. f \in [1 .. n -> T] /\ \A i \in 1 .. n : f[i] = nodes[i].number
    BY <1>1 DEF Numbers
  <2>2. \A i, j \in 1 .. n : f[i] = f[j] => i = j
    BY <2>1 DEF Walked
  <2>3. \A t \in T : \E i \in 1 .. n : f[i] = t
    BY <1>1 DEF Numbers
  <2> HIDE DEF f, T, n
  <2>4. f \in Bijection(1 .. n, T)
    BY <2>1, <2>2, <2>3 DEF Bijection, Injection, Surjection, IsInjective
  <2>5. ExistsBijection(1 .. n, T)
    BY <2>4 DEF ExistsBijection
  <2>6. 1 \in Int /\ n \in Int
    BY <1>1
  <2>7. IsFiniteSet(1 .. n) /\ Cardinality(1 .. n) = n
    BY <1>1, <2>6, FS_Interval
  <2>8. Cardinality(T) = Cardinality(1 .. n)
    BY <2>5, <2>7, FS_Bijection
  <2> QED BY <2>7, <2>8 DEF T
<1>5. ASSUME NEW i \in DOMAIN nodes
      PROVE  nodes[i].depth = Min({d \in 0 .. D : nodes[i].number \in N[d]})
  <2> DEFINE T == {d \in 0 .. D : nodes[i].number \in N[d]}
             d == nodes[i].depth
  <2>1. d \in Nat /\ d \in T /\ \A e \in T : d <= e
    BY <1>1 DEF Walked
  <2>2. T \in SUBSET Nat
    OBVIOUS
  <2> HIDE DEF T, d
  <2>3. Min(T) \in T /\ \A y \in T : Min(T) <= y
    BY <2>1, <2>2, LeastOfSet
  <2>4. Min(T) <= d /\ d <= Min(T) /\ Min(T) \in Nat
    BY <2>1, <2>2, <2>3
  <2>5. d = Min(T)
    BY <2>1, <2>4
  <2> QED BY <2>5 DEF d, T
<1>6. ASSUME NEW i \in 2 .. n PROVE nodes[i - 1].depth <= nodes[i].depth
  <2>1. i - 1 \in 1 .. n /\ i \in 1 .. n /\ i - 1 <= i
    BY <1>1
  <2> QED BY <2>1 DEF Walked
<1>7. Numbers(nodes) = N[D]
  BY <1>2, <1>3
<1> QED BY <1>4, <1>5, <1>6, <1>7

-----------------------------------------------------------------------------
(* What a paper cites and what is near, with the papers as arguments. *)
RefsIn(ps, n) ==
  LET at == {i \in DOMAIN ps : ps[i].number = n}
  IN  IF at = {} THEN << >> ELSE ps[Min(at)].refs

Cites(ps) == [n \in Nat |-> ToSet(RefsIn(ps, n))]

NearIn(ps, s, D) ==
  LET near[d \in 0 .. D] ==
        IF d = 0 THEN {s}
        ELSE near[d - 1] \cup UNION {ToSet(RefsIn(ps, n)) : n \in near[d - 1]}
  IN  near

LEMMA RefsAreNumbers ==
  ASSUME NEW ps \in Seq(Paper), NEW n
  PROVE  RefsIn(ps, n) \in Seq(Nat) /\ ToSet(RefsIn(ps, n)) \subseteq Nat
<1> DEFINE at == {i \in DOMAIN ps : ps[i].number = n}
<1>1. DOMAIN ps \subseteq Nat /\ \A i \in DOMAIN ps : ps[i] \in Paper
  OBVIOUS
<1>2. RefsIn(ps, n) \in Seq(Nat)
  <2>1. CASE at = {}
    BY <2>1 DEF RefsIn
  <2>2. CASE at # {}
    <3>1. at \in SUBSET Nat
      BY <1>1
    <3>2. Min(at) \in at
      <4> HIDE DEF at
      <4> QED BY <2>2, <3>1, LeastOfSet
    <3>3. ps[Min(at)] \in Paper
      BY <1>1, <3>2
    <3>4. RefsIn(ps, n) = ps[Min(at)].refs
      BY <2>2 DEF RefsIn
    <3> QED BY <3>3, <3>4, CanonAssumption
  <2> QED BY <2>1, <2>2
<1>3. \A r \in Seq(Nat) : ToSet(r) \subseteq Nat
  BY DEF ToSet
<1> HIDE DEF at
<1> QED BY <1>2, <1>3

LEMMA NearIsNear ==
  ASSUME NEW ps \in Seq(Paper), NEW s \in Nat, NEW D \in Nat
  PROVE  Distances(Cites(ps), NearIn(ps, s, D), s, D)
<1> DEFINE grown(t) == t \cup UNION {ToSet(RefsIn(ps, n)) : n \in t}
           step == [d \in 1 .. D |-> [t \in SUBSET Nat |-> grown(t)]]
           Rule(f) == f = [d \in 0 .. D |-> IF d = 0 THEN {s} ELSE grown(f[d - 1])]
           N == CHOOSE f : Rule(f)
<1>1. step \in [1 .. D -> [SUBSET Nat -> SUBSET Nat]]
  <2>1. \A t \in SUBSET Nat : grown(t) \in SUBSET Nat
    BY RefsAreNumbers
  <2> HIDE DEF grown
  <2> QED BY <2>1
<1>2. {s} \in SUBSET Nat
  OBVIOUS
<1>3. \E f : Rule(f)
  <2> HIDE DEF grown, step
  <2>1. PICK f \in [0 .. D -> SUBSET Nat] : Recurs(D, {s}, step, f)
    BY <1>1, <1>2, RecursionExists
  <2>2. \A d \in 1 .. D : d - 1 \in 0 .. D /\ f[d - 1] \in SUBSET Nat
    OBVIOUS
  <2>3. \A d \in 1 .. D : step[d][f[d - 1]] = grown(f[d - 1])
    BY <2>2 DEF step
  <2>4. \A d \in 0 .. D : d = 0 \/ d \in 1 .. D
    OBVIOUS
  <2>5. Rule(f)
    BY <2>1, <2>3, <2>4 DEF Recurs
  <2> QED BY <2>5
<1>4. Rule(N)
  <2> HIDE DEF Rule
  <2> QED BY <1>3
<1>5. NearIn(ps, s, D) = N
  BY DEF NearIn
<1> HIDE DEF N
<1>6. N[0] = {s}
  BY <1>4
<1>7. \A d \in 1 .. D : N[d] = grown(N[d - 1])
  <2> HIDE DEF grown
  <2>1. \A d \in 1 .. D : d \in 0 .. D /\ d # 0
    OBVIOUS
  <2> QED BY <1>4, <2>1
<1>8. \A d \in 0 .. D : N[d] \subseteq Nat
  <2> DEFINE S == {d \in 0 .. D : N[d] \in SUBSET Nat}
  <2>1. 0 \in S
    BY <1>6
  <2>2. ASSUME NEW d \in 0 .. D - 1, d \in S PROVE d + 1 \in S
    <3>1. d + 1 \in 1 .. D /\ (d + 1) - 1 = d
      OBVIOUS
    <3>2. N[d + 1] = grown(N[d]) /\ N[d] \in SUBSET Nat
      <4> HIDE DEF grown
      <4> QED BY <1>7, <2>2, <3>1
    <3>3. grown(N[d]) \in SUBSET Nat
      BY <3>2, RefsAreNumbers
    <3> QED BY <3>1, <3>2, <3>3
  <2> HIDE DEF S
  <2>3. \A d \in 0 .. D - 1 : d \in S => d + 1 \in S
    BY <2>2
  <2>4. 0 .. D \subseteq S
    BY <2>1, <2>3, BoundedInduction
  <2> QED BY <2>4 DEF S
<1>9. ASSUME NEW d \in 1 .. D
      PROVE  N[d] = N[d - 1] \cup UNION {Cites(ps)[n] : n \in N[d - 1]}
  <2>1. N[d - 1] \subseteq Nat
    BY <1>8
  <2>2. \A n \in N[d - 1] : Cites(ps)[n] = ToSet(RefsIn(ps, n))
    BY <2>1 DEF Cites
  <2>3. N[d] = N[d - 1] \cup UNION {ToSet(RefsIn(ps, n)) : n \in N[d - 1]}
    BY <1>7
  <2> QED BY <2>2, <2>3
<1> QED BY <1>5, <1>6, <1>9 DEF Distances

-----------------------------------------------------------------------------
(* One reference, as Discover takes it in. *)
Found(acc, r, d) ==
  IF r \in acc.marked THEN acc
  ELSE [marked |-> acc.marked \cup {r},
        queue  |-> Append(acc.queue, [number |-> r, depth |-> d])]

LEMMA DiscoverSteps ==
  ASSUME marked \subseteq Nat, queue \in Seq(Node), queue # << >>,
         NEW refs \in Seq(Nat), NEW d \in Nat
  PROVE  \E u : /\ u[0] = [marked |-> marked, queue |-> Tail(queue)]
                /\ \A k \in 1 .. Len(refs) : u[k] = Found(u[k - 1], refs[k], d)
                /\ Discover(refs, d) = u[Len(refs)]
<1> DEFINE n == Len(refs)
           X == [marked : SUBSET Nat, queue : Seq(Node)]
           base == [marked |-> marked, queue |-> Tail(queue)]
           step == [k \in 1 .. n |-> [x \in X |-> Found(x, refs[k], d)]]
           Folds(f) == f = [s \in SUBSET (1 .. n) |->
             IF s = {} THEN base ELSE Found(f[s \ {Max(s)}], refs[Max(s)], d)]
<1>1. n \in Nat /\ DOMAIN refs = 1 .. n /\ \A k \in 1 .. n : refs[k] \in Nat
  OBVIOUS
<1>2. base \in X
  <2>1. Tail(queue) \in Seq(Node)
    <3> HIDE DEF Node
    <3> QED OBVIOUS
  <2> QED BY <2>1
<1>3. step \in [1 .. n -> [X -> X]]
  <2>1. ASSUME NEW x \in X, NEW r \in Nat PROVE Found(x, r, d) \in X
    <3>1. x.marked \in SUBSET Nat /\ x.queue \in Seq(Node)
      OBVIOUS
    <3>2. [number |-> r, depth |-> d] \in Node
      BY DEF Node
    <3>3. Append(x.queue, [number |-> r, depth |-> d]) \in Seq(Node)
      <4> DEFINE y == [number |-> r, depth |-> d]
      <4> HIDE DEF Node, y
      <4>1. y \in Node
        BY <3>2 DEF y
      <4> QED BY <3>1, <4>1 DEF y
    <3> QED BY <3>1, <3>3 DEF Found
  <2> HIDE DEF X
  <2> QED BY <1>1, <2>1
<1>4. \E f : Folds(f)
  <2> HIDE DEF n, step, X, base
  <2>1. PICK f \in [SUBSET (1 .. n) -> X] : Iterates(n, base, step, f)
    BY <1>1, <1>2, <1>3, IterationExists
  <2>2. ASSUME NEW s \in SUBSET (1 .. n), s # {}
        PROVE  step[Max(s)][f[s \ {Max(s)}]] = Found(f[s \ {Max(s)}], refs[Max(s)], d)
    <3>1. Max(s) \in 1 .. n
      BY <1>1, <2>2, LargestOfSet
    <3>2. s \ {Max(s)} \in SUBSET (1 .. n)
      OBVIOUS
    <3> QED BY <3>1, <3>2 DEF step
  <2>3. Folds(f)
    BY <2>1, <2>2 DEF Iterates
  <2> QED BY <2>3
<1>5. PICK f : Folds(f) /\ Discover(refs, d) = f[1 .. n]
  <2>1. Discover(refs, d) = (CHOOSE f : Folds(f))[1 .. n]
    BY <1>1 DEF Discover, Found, FoldLeft, MapThenFoldSet
  <2> QED BY <1>4, <2>1
<1> DEFINE u == [k \in 0 .. n |-> f[1 .. k]]
<1> HIDE DEF n, base
<1>6. u[0] = base
  <2>1. 1 .. 0 = {} /\ 0 \in 0 .. n
    BY <1>1
  <2>2. f[{}] = base
    BY <1>5
  <2> QED BY <2>1, <2>2
<1>7. ASSUME NEW k \in 1 .. n PROVE u[k] = Found(u[k - 1], refs[k], d)
  <2>1. Max(1 .. k) = k /\ (1 .. k) \ {k} = 1 .. k - 1 /\ 1 .. k # {}
    BY LargestIndex
  <2>2. 1 .. k \in SUBSET (1 .. n) /\ k \in 0 .. n /\ k - 1 \in 0 .. n
    BY <1>1
  <2>3. f[1 .. k] = Found(f[(1 .. k) \ {Max(1 .. k)}], refs[Max(1 .. k)], d)
    BY <1>5, <2>1, <2>2
  <2> QED BY <2>1, <2>2, <2>3
<1> HIDE DEF u
<1>8. Discover(refs, d) = u[n]
  <2>1. n \in 0 .. n
    BY <1>1
  <2> QED BY <1>5, <2>1 DEF u
<1> QED BY <1>6, <1>7, <1>8 DEF n, base

(* After k references: the ones new are queued once, behind what was there. *)
Taken(x, m, rest, refs, k, d) ==
  LET l == Len(rest)
  IN  /\ x.marked = m \cup {refs[j] : j \in 1 .. k}
      /\ x.queue \in Seq(Node) /\ l <= Len(x.queue)
      /\ \A i \in 1 .. l : x.queue[i] = rest[i]
      /\ \A i \in l + 1 .. Len(x.queue) :
           x.queue[i].depth = d /\ x.queue[i].number \in x.marked \ m
      /\ \A i, j \in l + 1 .. Len(x.queue) :
           x.queue[i].number = x.queue[j].number => i = j
      /\ x.marked \subseteq m \cup {x.queue[i].number : i \in l + 1 .. Len(x.queue)}

LEMMA FoundTakes ==
  ASSUME NEW m, NEW rest \in Seq(Node), NEW refs \in Seq(Nat), NEW d \in Nat,
         NEW k \in 0 .. Len(refs) - 1, NEW x, Taken(x, m, rest, refs, k, d)
  PROVE  Taken(Found(x, refs[k + 1], d), m, rest, refs, k + 1, d)
<1> DEFINE l == Len(rest)
           q == x.queue
           r == refs[k + 1]
           y == [number |-> r, depth |-> d]
<1>1. k + 1 \in 1 .. Len(refs) /\ r \in Nat /\ l \in Nat /\ k \in Nat
  <2> HIDE DEF Node
  <2> QED OBVIOUS
<1>2. {refs[j] : j \in 1 .. k + 1} = {refs[j] : j \in 1 .. k} \cup {r}
  <2>1. \A j \in 1 .. k + 1 : j \in 1 .. k \/ j = k + 1
    BY <1>1
  <2>2. 1 .. k \subseteq 1 .. k + 1 /\ k + 1 \in 1 .. k + 1
    BY <1>1
  <2> QED BY <2>1, <2>2
<1>3. CASE r \in x.marked
  <2>1. Found(x, r, d) = x
    BY <1>3 DEF Found
  <2>2. x.marked = m \cup {refs[j] : j \in 1 .. k + 1}
    BY <1>2, <1>3 DEF Taken
  <2>3. Taken(x, m, rest, refs, k + 1, d)
    <3> DEFINE seen == {refs[j] : j \in 1 .. k}
               now == {refs[j] : j \in 1 .. k + 1}
    <3>1. Taken(x, m, rest, refs, k, d) => x.marked = m \cup seen
      BY DEF Taken
    <3>2. x.marked = m \cup now
      BY <2>2
    <3> QED BY <3>2, Zenon DEF Taken
  <2> QED BY <2>1, <2>3
<1>4. CASE r \notin x.marked
  <2> DEFINE z == [marked |-> x.marked \cup {r}, queue |-> Append(q, y)]
             n == Len(q)
  <2>1. Found(x, r, d) = z
    BY <1>4 DEF Found
  <2>2. q \in Seq(Node) /\ n \in Nat /\ l <= n /\ y \in Node
    <3>1. q \in Seq(Node) /\ l <= n
      BY DEF Taken
    <3>2. y \in Node
      BY <1>1 DEF Node
    <3> QED BY <3>1, <3>2, NodesAre
  <2>3. /\ z.queue \in Seq(Node) /\ Len(z.queue) = n + 1 /\ z.queue[n + 1] = y
        /\ \A i \in 1 .. n : z.queue[i] = q[i]
    <3>1. z.queue = Append(q, y)
      OBVIOUS
    <3> HIDE DEF q, y, z, Node
    <3>2. /\ Append(q, y) \in Seq(Node) /\ Len(Append(q, y)) = n + 1
          /\ Append(q, y)[n + 1] = y
          /\ \A i \in 1 .. n : Append(q, y)[i] = q[i]
      BY <2>2
    <3> QED BY <3>1, <3>2
  <2>4. z.marked = x.marked \cup {r} /\ y.number = r /\ y.depth = d
    OBVIOUS
  <2>5. \A i \in l + 1 .. n + 1 : i \in l + 1 .. n \/ i = n + 1
    <3> HIDE DEF n, l
    <3> QED BY <1>1, <2>2
  <2>6. \A i \in l + 1 .. n : i \in 1 .. n /\ i \in l + 1 .. n + 1
    BY <1>1, <2>2
  <2>7. \A i \in 1 .. l : i \in 1 .. n
    BY <1>1, <2>2
  <2>8. n + 1 \in l + 1 .. n + 1 /\ l <= n + 1
    BY <1>1, <2>2
  <2>9. /\ x.marked = m \cup {refs[j] : j \in 1 .. k}
        /\ \A i \in 1 .. l : q[i] = rest[i]
        /\ \A i \in l + 1 .. n : q[i].depth = d /\ q[i].number \in x.marked \ m
        /\ \A i, j \in l + 1 .. n : q[i].number = q[j].number => i = j
        /\ x.marked \subseteq m \cup {q[i].number : i \in l + 1 .. n}
    BY DEF Taken
  <2> HIDE DEF z, q, n, y, r
  <2>10. z.marked = m \cup {refs[j] : j \in 1 .. k + 1}
    BY <1>2, <2>4, <2>9
  <2>11. \A i \in 1 .. l : z.queue[i] = rest[i]
    BY <2>3, <2>7, <2>9
  <2>12. r \notin m
    BY <1>4, <2>9
  <2>13. \A i \in l + 1 .. n + 1 : z.queue[i].depth = d /\ z.queue[i].number \in z.marked \ m
    <3>1. \A i \in l + 1 .. n : z.queue[i].depth = d /\ z.queue[i].number \in z.marked \ m
      BY <2>3, <2>4, <2>6, <2>9
    <3>2. z.queue[n + 1].depth = d /\ z.queue[n + 1].number \in z.marked \ m
      BY <2>3, <2>4, <2>12
    <3> QED BY <2>5, <3>1, <3>2
  <2>14. \A i, j \in l + 1 .. n + 1 : z.queue[i].number = z.queue[j].number => i = j
    <3>1. \A i \in l + 1 .. n : z.queue[i].number # z.queue[n + 1].number
      BY <1>4, <2>3, <2>4, <2>6, <2>9
    <3>2. \A i, j \in l + 1 .. n : z.queue[i].number = z.queue[j].number => i = j
      BY <2>3, <2>6, <2>9
    <3> QED BY <2>5, <3>1, <3>2
  <2>15. z.marked \subseteq m \cup {z.queue[i].number : i \in l + 1 .. n + 1}
    <3>1. \A i \in l + 1 .. n : q[i].number \in {z.queue[j].number : j \in l + 1 .. n + 1}
      BY <2>3, <2>6
    <3>2. r \in {z.queue[j].number : j \in l + 1 .. n + 1}
      BY <2>3, <2>4, <2>8
    <3> DEFINE new == {z.queue[j].number : j \in l + 1 .. n + 1}
               old == {q[i].number : i \in l + 1 .. n}
    <3>3. old \subseteq new
      BY <3>1
    <3>4. r \in new
      BY <3>2
    <3>5. x.marked \subseteq m \cup old
      BY <2>9, Zenon
    <3> HIDE DEF new, old
    <3>6. z.marked \subseteq m \cup new
      BY <2>4, <3>3, <3>4, <3>5
    <3> QED BY <3>6 DEF new
  <2>16. Taken(z, m, rest, refs, k + 1, d)
    BY <2>3, <2>8, <2>10, <2>11, <2>13, <2>14, <2>15 DEF Taken
  <2> QED BY <2>1, <2>16 DEF r
<1> QED BY <1>3, <1>4

LEMMA DiscoverTakes ==
  ASSUME marked \subseteq Nat, queue \in Seq(Node), queue # << >>,
         NEW refs \in Seq(Nat), NEW d \in Nat
  PROVE  Taken(Discover(refs, d), marked, Tail(queue), refs, Len(refs), d)
<1> DEFINE n == Len(refs)
           rest == Tail(queue)
           base == [marked |-> marked, queue |-> rest]
<1>1. PICK u : /\ u[0] = base
               /\ \A k \in 1 .. n : u[k] = Found(u[k - 1], refs[k], d)
               /\ Discover(refs, d) = u[n]
  BY DiscoverSteps
<1>2. n \in Nat /\ rest \in Seq(Node) /\ Len(rest) \in Nat
  <2> HIDE DEF Node
  <2> QED OBVIOUS
<1> DEFINE S == {k \in 0 .. n : Taken(u[k], marked, rest, refs, k, d)}
<1>3. 0 \in S
  <2>1. base.marked = marked /\ base.queue = rest
    OBVIOUS
  <2> HIDE DEF base, rest
  <2>2. \A i \in Len(rest) + 1 .. Len(rest) : FALSE
    BY <1>2
  <2>3. 1 .. 0 = {}
    OBVIOUS
  <2>4. {refs[j] : j \in 1 .. 0} = {}
    BY <2>3
  <2>5. marked = marked \cup {refs[j] : j \in 1 .. 0}
    BY <2>4
  <2>6. Taken(base, marked, rest, refs, 0, d)
    BY <1>2, <2>1, <2>2, <2>5 DEF Taken
  <2> QED BY <1>1, <1>2, <2>6
<1>4. ASSUME NEW k \in 0 .. n - 1, k \in S PROVE k + 1 \in S
  <2>1. k + 1 \in 1 .. n /\ (k + 1) - 1 = k /\ k + 1 \in 0 .. n
    BY <1>2
  <2>2. u[k + 1] = Found(u[k], refs[k + 1], d)
    BY <1>1, <2>1
  <2>3. Taken(u[k], marked, rest, refs, k, d)
    BY <1>4
  <2> HIDE DEF rest
  <2>4. Taken(u[k + 1], marked, rest, refs, k + 1, d)
    BY <1>2, <2>2, <2>3, FoundTakes
  <2> QED BY <2>1, <2>4
<1>5. n \in S
  <2> HIDE DEF S
  <2>1. \A k \in 0 .. n - 1 : k \in S => k + 1 \in S
    BY <1>4
  <2>2. 0 .. n \subseteq S
    BY <1>2, <1>3, <2>1, BoundedInduction
  <2> QED BY <1>2, <2>2
<1> QED BY <1>1, <1>5

-----------------------------------------------------------------------------
(* A walk that is under way has queued what Walked says; one that has gone  *)
(* outside visited[] had such a number near.                               *)
WalkInv ==
  /\ papers \in Seq(Paper) /\ start \in Nat /\ depth \in Nat
  /\ LET N == NearIn(papers, start, depth)
         nodes == out \o queue
     IN  \/ queue = << >> /\ out = << >>
         \/ queue = << >> /\ out = Lost /\ \E n \in N[depth] : n >= MaxPapers
         \/ /\ queue \in Seq(Node) /\ out \in Seq(Node)
            /\ marked = Numbers(nodes)
            /\ Walked(Cites(papers), N, start, depth, nodes, Len(out))

LEMMA NavigateStarts ==
  ASSUME WalkInv, NEW n \in Nat, NEW d \in Nat, Navigate(n, d)
  PROVE  WalkInv'
<1> DEFINE N == NearIn(papers, n, d)
           R == Cites(papers)
           node == [number |-> n, depth |-> 0]
<1>1. papers \in Seq(Paper) /\ papers' = papers /\ start' = n /\ depth' = d
  BY DEF WalkInv, Navigate
<1>2. Distances(R, N, n, d)
  BY <1>1, NearIsNear
<1>3. CASE n < MaxPapers
  <2>1. queue' = <<node>> /\ marked' = {n} /\ out' = << >>
    BY <1>3 DEF Navigate
  <2>2. node \in Node /\ node.number = n /\ node.depth = 0
    BY DEF Node
  <2>3. <<node>> \in Seq(Node) /\ << >> \in Seq(Node) /\ Len(<< >>) = 0
        /\ << >> \o <<node>> = <<node>> /\ Len(<<node>>) = 1 /\ <<node>>[1] = node
    <3> HIDE DEF node, Node
    <3> QED BY <2>2
  <2> DEFINE nodes == <<node>>
  <2>4. nodes[1].number = n /\ nodes[1].depth = 0 /\ Len(nodes) = 1 /\ DOMAIN nodes = 1 .. 1
        /\ nodes \in Seq(Node)
    BY <2>2, <2>3
  <2> HIDE DEF nodes, N, R
  <2>5. Numbers(nodes) = {n}
    BY <2>4 DEF Numbers
  <2>6. N[0] = {n}
    BY <1>2 DEF Distances
  <2>7. \A i \in 1 .. 1 : i = 1
    OBVIOUS
  <2>8. \A i \in 1 .. 0 : FALSE
    OBVIOUS
  <2>9. Walked(R, N, n, d, nodes, 0)
    BY <2>4, <2>5, <2>6, <2>7, <2>8 DEF Walked
  <2>10. out' \o queue' = nodes /\ queue' \in Seq(Node) /\ out' \in Seq(Node) /\ Len(out') = 0
    BY <2>1, <2>3 DEF nodes
  <2> QED BY <1>1, <2>1, <2>5, <2>9, <2>10 DEF WalkInv, N, R
<1>4. CASE ~(n < MaxPapers)
  <2>1. queue' = << >> /\ out' = Lost
    BY <1>4 DEF Navigate
  <2>2. n \in N[d] /\ n >= MaxPapers
    <3> HIDE DEF N, R
    <3>1. 0 \in 0 .. d /\ d \in 0 .. d /\ 0 <= d
      OBVIOUS
    <3>2. N[0] \subseteq N[d]
      BY <1>2, <3>1, FartherIsMore
    <3>3. n \in N[d]
      BY <1>2, <3>2 DEF Distances
    <3>4. n >= MaxPapers
      BY <1>4, CanonAssumption
    <3> QED BY <3>3, <3>4
  <2> HIDE DEF N
  <2> QED BY <1>1, <2>1, <2>2 DEF WalkInv, N
<1> QED BY <1>3, <1>4

LEMMA JoinedAt ==
  ASSUME NEW S, NEW a \in Seq(S), NEW b \in Seq(S)
  PROVE  /\ a \o b \in Seq(S) /\ Len(a \o b) = Len(a) + Len(b)
         /\ \A i \in 1 .. Len(a) : (a \o b)[i] = a[i]
         /\ \A i \in 1 .. Len(b) : (a \o b)[Len(a) + i] = b[i]
OBVIOUS

(* One visit, when the walk stays inside visited[] and when it does not. *)
LEMMA VisitWalks ==
  ASSUME WalkInv, Visit
  PROVE  WalkInv'
<1> DEFINE N == NearIn(papers, start, depth)
           R == Cites(papers)
           nodes == out \o queue
           h == Len(out)
           node == queue[1]
           k == node.depth
           x == node.number
           refs == IF k < depth THEN Refs(x) ELSE << >>
           found == Discover(refs, k + 1)
<1>1. /\ papers \in Seq(Paper) /\ start \in Nat /\ depth \in Nat
      /\ queue \in Seq(Node) /\ queue # << >> /\ out \in Seq(Node)
      /\ marked = Numbers(nodes) /\ Walked(R, N, start, depth, nodes, h)
      /\ UNCHANGED <<papers, start, depth>>
  BY DEF WalkInv, Visit
<1>2. Distances(R, N, start, depth)
  BY <1>1, NearIsNear
<1> HIDE DEF N
<1>3. /\ h \in Nat /\ Len(queue) \in Nat \ {0} /\ nodes \in Seq(Node)
      /\ Len(nodes) = h + Len(queue)
      /\ \A i \in 1 .. h : nodes[i] = out[i]
      /\ \A i \in 1 .. Len(queue) : nodes[h + i] = queue[i]
      /\ Tail(queue) \in Seq(Node) /\ Len(Tail(queue)) = Len(queue) - 1
      /\ \A i \in 1 .. Len(queue) - 1 : Tail(queue)[i] = queue[i + 1]
  <2> HIDE DEF Node, h
  <2>1. queue \in Seq(Node) /\ out \in Seq(Node) /\ queue # << >>
    BY <1>1
  <2> QED BY <2>1 DEF h
<1>4. nodes[h + 1] = node /\ h + 1 \in 1 .. Len(nodes) /\ h < Len(nodes)
  <2>1. 1 \in 1 .. Len(queue)
    BY <1>3
  <2> HIDE DEF nodes, h
  <2> QED BY <1>3, <2>1
<1>5. k \in Nat /\ x \in Nat /\ x \in N[k] /\ k <= depth /\ marked \subseteq Nat
      /\ node \in Node
  <2>1. nodes[h + 1].depth \in Nat /\ nodes[h + 1].number \in Nat /\ nodes[h + 1] \in Node
    BY <1>3, <1>4, NodesAre
  <2>2. nodes[h + 1].number \in N[nodes[h + 1].depth] /\ nodes[h + 1].depth <= depth
    BY <1>4, <1>1 DEF Walked
  <2>3. Numbers(nodes) \subseteq Nat
    BY <1>3, NodesAre DEF Numbers
  <2> HIDE DEF nodes
  <2> QED BY <1>1, <1>4, <2>1, <2>2, <2>3
<1>6. refs \in Seq(Nat) /\ (k < depth => ToSet(refs) = R[x]) /\ (~(k < depth) => refs = << >>)
  <2>1. Refs(x) = RefsIn(papers, x)
    BY DEF Refs, RefsIn
  <2>2. R[x] = ToSet(Refs(x)) /\ Refs(x) \in Seq(Nat)
    BY <1>1, <1>5, <2>1, RefsAreNumbers DEF Cites
  <2> HIDE DEF R, x, k
  <2> QED BY <2>2
<1> HIDE DEF R
<1>7. IF \A r \in ToSet(refs) : r < MaxPapers
      THEN queue' = found.queue /\ marked' = found.marked /\ out' = Append(out, node)
      ELSE queue' = << >> /\ marked' = {} /\ out' = Lost
  BY DEF Visit
<1> HIDE DEF nodes, h, refs, found, node
<1>8. CASE ~(\A r \in ToSet(refs) : r < MaxPapers)
  <2>1. PICK r \in ToSet(refs) : ~(r < MaxPapers)
    BY <1>8
  <2>2. r \in Nat
    <3>1. ToSet(refs) \subseteq Nat
      BY <1>6 DEF ToSet
    <3> QED BY <3>1
  <2>3. k < depth
    <3> SUFFICES ASSUME ~(k < depth) PROVE FALSE
      OBVIOUS
    <3>1. ToSet(refs) = {}
      BY <1>6 DEF ToSet
    <3> QED BY <3>1
  <2>4. r \in R[x]
    BY <1>6, <2>3
  <2>5. k + 1 \in 1 .. depth /\ (k + 1) - 1 = k
    BY <1>1, <1>5, <2>3
  <2>6. r \in N[k + 1]
    BY <1>2, <1>5, <2>4, <2>5 DEF Distances
  <2>7. N[k + 1] \subseteq N[depth]
    <3>1. k + 1 \in 0 .. depth /\ depth \in 0 .. depth /\ k + 1 <= depth
      BY <1>1, <2>5
    <3> QED BY <1>1, <1>2, <3>1, FartherIsMore
  <2>8. r >= MaxPapers
    BY <2>1, <2>2, CanonAssumption
  <2>9. queue' = << >> /\ out' = Lost
    BY <1>7, <1>8
  <2> QED BY <1>1, <2>6, <2>7, <2>8, <2>9 DEF WalkInv, N
<1>9. CASE \A r \in ToSet(refs) : r < MaxPapers
  <2> DEFINE rest == Tail(queue)
             l == Len(rest)
             q == found.queue
             more == Append(out, node) \o q
             n == Len(nodes)
  <2>1. Taken(found, marked, rest, refs, Len(refs), k + 1)
    <3>1. k + 1 \in Nat
      BY <1>5
    <3> QED BY <1>1, <1>5, <1>6, <3>1, DiscoverTakes DEF found
  <2>2. {refs[j] : j \in 1 .. Len(refs)} = ToSet(refs)
    BY <1>6 DEF ToSet
  <2>3. /\ found.marked = marked \cup ToSet(refs)
        /\ q \in Seq(Node) /\ l <= Len(q) /\ \A i \in 1 .. l : q[i] = rest[i]
        /\ \A i \in l + 1 .. Len(q) :
             q[i].depth = k + 1 /\ q[i].number \in found.marked \ marked
        /\ \A i, j \in l + 1 .. Len(q) : q[i].number = q[j].number => i = j
        /\ found.marked \subseteq marked \cup {q[i].number : i \in l + 1 .. Len(q)}
    <3> DEFINE seen == {refs[j] : j \in 1 .. Len(refs)}
    <3>1. found.marked = marked \cup seen
      BY <2>1 DEF Taken
    <3>2. found.marked = marked \cup ToSet(refs)
      BY <2>2, <3>1
    <3> QED BY <2>1, <3>2, Zenon DEF Taken
  <2> HIDE DEF rest, q
  <2>4. l \in Nat /\ n \in Nat /\ n = h + 1 + l /\ Len(q) \in Nat
    <3>1. l = Len(queue) - 1
      BY <1>3 DEF rest
    <3>2. Len(q) \in Nat
      BY <2>3, NodesAre
    <3> HIDE DEF l
    <3> QED BY <1>3, <3>1, <3>2
  <2>5. /\ more \in Seq(Node) /\ Len(more) = h + 1 + Len(q)
        /\ \A i \in 1 .. h : more[i] = out[i]
        /\ more[h + 1] = node
        /\ \A i \in 1 .. Len(q) : more[h + 1 + i] = q[i]
        /\ Append(out, node) \in Seq(Node) /\ Len(Append(out, node)) = h + 1
    <3> DEFINE o == Append(out, node)
    <3> HIDE DEF Node
    <3>1. /\ o \in Seq(Node) /\ Len(o) = h + 1 /\ o[h + 1] = node
          /\ \A i \in 1 .. h : o[i] = out[i]
      BY <1>1, <1>5 DEF h
    <3> HIDE DEF o
    <3>2. /\ o \o q \in Seq(Node) /\ Len(o \o q) = h + 1 + Len(q)
          /\ \A i \in 1 .. h + 1 : (o \o q)[i] = o[i]
          /\ \A i \in 1 .. Len(q) : (o \o q)[h + 1 + i] = q[i]
      <4>1. /\ o \o q \in Seq(Node) /\ Len(o \o q) = Len(o) + Len(q)
            /\ \A i \in 1 .. Len(o) : (o \o q)[i] = o[i]
            /\ \A i \in 1 .. Len(q) : (o \o q)[Len(o) + i] = q[i]
        <5>1. o \in Seq(Node)
          BY <3>1
        <5>2. q \in Seq(Node)
          BY <2>3, Zenon
        <5> QED BY <5>1, <5>2, JoinedAt
      <4>2. Len(o) = h + 1
        BY <3>1
      <4> QED BY <4>1, <4>2, Zenon
    <3>3. h + 1 \in 1 .. h + 1 /\ \A i \in 1 .. h : i \in 1 .. h + 1
      BY <1>3
    <3>4. more = o \o q
      BY DEF o
    <3> HIDE DEF more
    <3> QED BY <3>1, <3>2, <3>3, <3>4 DEF o
  <2> HIDE DEF more
  <2>6. ASSUME NEW i \in 1 .. n PROVE more[i] = nodes[i]
    <3>1. CASE i \in 1 .. h
      BY <1>3, <2>5, <3>1
    <3>2. CASE i = h + 1
      BY <1>4, <2>5, <3>2
    <3>3. CASE ~(i \in 1 .. h) /\ i # h + 1
      <4> DEFINE j == i - (h + 1)
      <4> HIDE DEF n
      <4>1. j \in 1 .. l /\ j \in 1 .. Len(q) /\ h + 1 + j = i
        <5> HIDE DEF l
        <5> QED BY <1>3, <2>3, <2>4, <3>3
      <4>2. more[i] = q[j]
        BY <2>5, <4>1
      <4>3. q[j] = rest[j]
        BY <2>3, <4>1
      <4>4. j \in 1 .. Len(queue) - 1 /\ j + 1 \in 1 .. Len(queue) /\ h + (j + 1) = i
        <5>1. l = Len(queue) - 1
          BY <1>3 DEF rest
        <5> HIDE DEF l, j
        <5> QED BY <1>3, <4>1, <5>1
      <4>5. rest[j] = queue[j + 1] /\ nodes[h + (j + 1)] = queue[j + 1]
        <5> HIDE DEF j
        <5> QED BY <1>3, <4>4 DEF rest
      <4> QED BY <4>2, <4>3, <4>4, <4>5
    <3> QED BY <3>1, <3>2, <3>3
  <2>7. Len(more) = n + (Len(q) - l) /\ n <= Len(more)
    <3> HIDE DEF n, l
    <3> QED BY <1>3, <2>3, <2>4, <2>5
  <2>8. ASSUME NEW i \in n + 1 .. Len(more)
        PROVE  /\ i - (h + 1) \in l + 1 .. Len(q)
               /\ more[i] = q[i - (h + 1)]
    <3> DEFINE j == i - (h + 1)
               len == Len(more)
    <3>1. j \in l + 1 .. Len(q) /\ j \in 1 .. Len(q) /\ h + 1 + j = i
      <4>1. len = h + 1 + Len(q) /\ i \in n + 1 .. len
        BY <2>5
      <4> HIDE DEF n, l, len
      <4> QED BY <1>3, <2>4, <4>1
    <3> HIDE DEF j
    <3>2. more[i] = q[j]
      BY <2>5, <3>1
    <3> QED BY <3>1, <3>2 DEF j
  <2>9. ASSUME NEW i \in n + 1 .. Len(more)
        PROVE  /\ more[i].depth = k + 1 /\ more[i].number \in R[x] \ Numbers(nodes)
               /\ k < depth
    <3>1. more[i].depth = k + 1 /\ more[i].number \in ToSet(refs) \ marked
      BY <2>3, <2>8
    <3>2. k < depth
      <4> SUFFICES ASSUME ~(k < depth) PROVE FALSE
        OBVIOUS
      <4>1. ToSet(refs) = {}
        BY <1>6 DEF ToSet
      <4> QED BY <3>1, <4>1
    <3> QED BY <1>1, <1>6, <3>1, <3>2
  <2>10. \A i, j \in n + 1 .. Len(more) : more[i].number = more[j].number => i = j
    <3> SUFFICES ASSUME NEW i \in n + 1 .. Len(more), NEW j \in n + 1 .. Len(more),
                        more[i].number = more[j].number
                 PROVE  i = j
      OBVIOUS
    <3>1. i - (h + 1) = j - (h + 1)
      BY <2>3, <2>8
    <3>2. i \in Int /\ j \in Int
      OBVIOUS
    <3> HIDE DEF n
    <3> QED BY <1>3, <3>1, <3>2
  <2>11. \A i \in l + 1 .. Len(q) : h + 1 + i \in 1 .. Len(more) /\ more[h + 1 + i] = q[i]
    <3> SUFFICES ASSUME NEW i \in l + 1 .. Len(q)
                 PROVE  h + 1 + i \in 1 .. Len(more) /\ more[h + 1 + i] = q[i]
      OBVIOUS
    <3>1. i \in 1 .. Len(q)
      BY <2>4
    <3> DEFINE len == Len(more)
    <3>2. len = h + 1 + Len(q)
      BY <2>5
    <3>3. h + 1 + i \in 1 .. len
      <4> HIDE DEF len, l
      <4> QED BY <1>3, <2>4, <3>1, <3>2
    <3> QED BY <2>5, <3>1, <3>3
  <2>12. DOMAIN more = 1 .. Len(more) /\ DOMAIN nodes = 1 .. n
    BY <1>3, <2>5, NodesAre
  <2>13. Numbers(more) = found.marked
    <3>1. Numbers(nodes) \subseteq Numbers(more)
      <4>1. \A i \in 1 .. n : i \in 1 .. Len(more)
        <5> DEFINE len == Len(more)
        <5>1. n <= len /\ len \in Nat
          BY <2>5, <2>7, NodesAre
        <5> HIDE DEF n, len
        <5>2. \A i \in 1 .. n : i \in 1 .. len
          BY <2>4, <5>1
        <5> QED BY <5>2 DEF len
      <4> QED BY <2>6, <2>12, <4>1 DEF Numbers
    <3>2. ASSUME NEW i \in l + 1 .. Len(q) PROVE q[i].number \in Numbers(more)
      BY <2>11, <2>12 DEF Numbers
    <3>3. ASSUME NEW i \in 1 .. Len(more) PROVE more[i].number \in found.marked
      <4>1. CASE i \in 1 .. n
        <5>1. more[i].number \in Numbers(nodes)
          BY <2>6, <2>12, <4>1 DEF Numbers
        <5> QED BY <1>1, <2>3, <5>1
      <4>2. CASE i \in n + 1 .. Len(more)
        BY <2>3, <2>8, <4>2
      <4>3. i \in 1 .. n \/ i \in n + 1 .. Len(more)
        <5> HIDE DEF n
        <5> QED BY <2>4
      <4> QED BY <4>1, <4>2, <4>3
    <3>4. Numbers(more) \subseteq found.marked
      BY <2>12, <3>3 DEF Numbers
    <3> DEFINE new == {q[i].number : i \in l + 1 .. Len(q)}
    <3>5. new \subseteq Numbers(more)
      BY <3>2
    <3>6. found.marked \subseteq marked \cup new
      BY <2>3, Zenon
    <3> HIDE DEF new
    <3> QED BY <1>1, <3>1, <3>4, <3>5, <3>6
  <2>14. k < depth => R[x] \subseteq Numbers(more)
    BY <1>6, <2>3, <2>13
  <2>15. nodes[h + 1].depth = k /\ nodes[h + 1].number = x
    BY <1>4
  <2>16. h \in 0 .. Len(nodes)
    BY <1>3, <1>4
  <2> HIDE DEF k, x
  <2>17. Walked(R, N, start, depth, more, h + 1)
    <3>1. Extends(R, depth, nodes, x, k, more)
      BY <2>6, <2>7, <2>9, <2>10, <2>14 DEF Extends
    <3>2. Extends(R, depth, nodes, nodes[h + 1].number, nodes[h + 1].depth, more)
      BY <2>15, <3>1
    <3> QED BY <1>1, <1>2, <1>3, <1>4, <2>5, <2>16, <3>2, WalkStep
  <2>18. queue' = q /\ marked' = found.marked /\ out' = Append(out, node)
    BY <1>7, <1>9 DEF q
  <2>19. out' \o queue' = more /\ Len(out') = h + 1 /\ out' \in Seq(Node) /\ queue' \in Seq(Node)
    BY <2>3, <2>5, <2>18 DEF more
  <2> QED BY <1>1, <2>13, <2>17, <2>18, <2>19 DEF WalkInv, N, R
<1> QED BY <1>8, <1>9

(* For any papers, cited in whatever way, and any start and depth: NAVIGATE *)
(* writes each number within the depth once, at its distance from the       *)
(* start, nearest first, unless one of them is no index of visited[].       *)
THEOREM NavigateIsBFSCorrect == CanonSpec => []NavigateIsBFS
<1>1. CanonInit => WalkInv
  <2>1. << >> \in Seq(Paper)
    OBVIOUS
  <2> QED BY <2>1 DEF CanonInit, WalkInv
<1>2. WalkInv /\ [CanonNext]_canonVars => WalkInv'
  <2> SUFFICES ASSUME WalkInv, [CanonNext]_canonVars PROVE WalkInv'
    OBVIOUS
  <2>1. ASSUME NEW p \in Paper, AddPaper(p) PROVE WalkInv'
    <3>1. Append(papers, p) \in Seq(Paper)
      BY DEF WalkInv
    <3> QED BY <2>1, <3>1 DEF AddPaper, WalkInv
  <2>2. ASSUME NEW n \in Start, NEW d \in 0 .. MaxDepth, Navigate(n, d) PROVE WalkInv'
    <3>1. n \in Nat /\ d \in Nat
      BY CanonAssumption
    <3> QED BY <2>2, <3>1, NavigateStarts
  <2>3. CASE Visit
    BY <2>3, VisitWalks
  <2>4. CASE UNCHANGED canonVars
    BY <2>4 DEF canonVars, navigation, WalkInv
  <2> QED BY <2>1, <2>2, <2>3, <2>4 DEF CanonNext
<1>3. WalkInv => NavigateIsBFS
  <2> SUFFICES ASSUME WalkInv, queue = << >>, out # << >> PROVE NavigateIsBFS
    BY DEF NavigateIsBFS
  <2> DEFINE N == NearIn(papers, start, depth)
             nodes == out \o queue
  <2>1. Near = N
    BY DEF Near, NearIn, Refs, RefsIn
  <2>2. CASE out = Lost /\ \E n \in N[depth] : n >= MaxPapers
    <3> HIDE DEF N
    <3> QED BY <2>1, <2>2 DEF NavigateIsBFS
  <2>3. CASE /\ queue \in Seq(Node) /\ out \in Seq(Node)
             /\ Walked(Cites(papers), N, start, depth, nodes, Len(out))
    <3>1. nodes = out
      <4> HIDE DEF Node
      <4> QED BY <2>3
    <3>2. out # Lost
      BY <2>3, CanonAssumption DEF Node
    <3>3. papers \in Seq(Paper) /\ start \in Nat /\ depth \in Nat
      BY DEF WalkInv
    <3>4. Distances(Cites(papers), N, start, depth)
      BY <3>3, NearIsNear
    <3> HIDE DEF N, nodes
    <3>5. /\ Numbers(out) = N[depth]
          /\ Len(out) = Cardinality(N[depth])
          /\ \A i \in DOMAIN out :
               out[i].depth = Min({d \in 0 .. depth : out[i].number \in N[d]})
          /\ \A i \in 2 .. Len(out) : out[i - 1].depth <= out[i].depth
      BY <2>3, <3>1, <3>3, <3>4, WalkEnd
    <3> QED BY <2>1, <3>2, <3>5, Zenon DEF NavigateIsBFS, Numbers
  <2> HIDE DEF N, nodes
  <2> QED BY <2>2, <2>3 DEF WalkInv, N, nodes
<1> QED BY <1>1, <1>2, <1>3, PTL DEF CanonSpec
=============================================================================
