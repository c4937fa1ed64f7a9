--------------------------- MODULE ServiceProofs ---------------------------
(***************************************************************************)
(* Theorems about the components that the runs of ActionPipeline and       *)
(* ContextActivation check beside the pipelines: for each, the inductive   *)
(* invariant, its preservation by every action, and the property the run   *)
(* checks.  A section ends with its theorem; the sections share only a few *)
(* facts about sets of numbers.                                            *)
(***************************************************************************)
EXTENDS TenantProcessor, CircuitBreaker, MemoryLedger, DecisionLifecycle,
        HypothesisEvaluation, ReportGeneration, AccessRules, CognitiveTrace,
        UserSessions, RateWindow, LearningSignals, GatewayReads, EvidenceRules,
        FiniteSetTheorems, SequenceTheorems, WellFoundedInduction, TLAPS

\* The numbers are well-founded, which is induction in the form that the
\* provers can use: for a set, not for an operator.
LEMMA LeastNumber ==
    ASSUME NEW S, S \subseteq Nat, S # {}
    PROVE  \E x \in S : \A y \in S : x <= y
<1> DEFINE R == {ss \in Nat \X Nat : ss[1] < ss[2]}
<1>1. IsWellFoundedOn(R, Nat)
  BY NatLessThanWellFounded DEF OpToRel
<1> HIDE DEF R
<1>2. PICK x \in S : \A y \in S : ~(<<y, x>> \in R)
  BY <1>1, WFMin
<1>3. \A y \in S : ~(y < x)
  BY <1>2 DEF R
<1> QED BY <1>3

\* The least of a set, which PageOf, CurrentCandidate and Older take.
LEMMA MinIsIn ==
    ASSUME NEW S, S \subseteq Nat, S # {}
    PROVE  Min(S) \in S /\ \A y \in S : Min(S) <= y
BY LeastNumber DEF Min

-----------------------------------------------------------------------------
(* BoundedTenantProcessor: ConcurrencyBounded is inductive as it stands;   *)
(* the other two need to know that a call goes through its tenants in      *)
(* order, and that a call with tasks left is either the one in progress or *)
(* one that has failed.                                                    *)

TaskStates == {"none", "queued", "running", "done", "failed"}

ProcTypes ==
    /\ procCall \in 0 .. MaxProcCalls
    /\ procState \in {"idle", "batch"}
    /\ procStart \in Nat
    /\ task \in [ProcTasks -> TaskStates]

\* The tenants before the batch in progress have their results.
BatchesInOrder ==
    procState = "batch" =>
        /\ procCall > 0
        /\ \A i \in ProcTenants : i <= procStart => task[<<procCall, i>>] = "done"

\* Only the call in progress has tasks, and those that gather abandoned.
AliveOrFailed ==
    \A pcall \in 1 .. MaxProcCalls :
        Alive(pcall) # {} => (procState = "batch" /\ pcall = procCall) \/ Failed(pcall)

ProcInv ==
    /\ ProcTypes
    /\ ConcurrencyBounded
    /\ BatchesInOrder
    /\ AliveOrFailed
    /\ ResultsComplete

LEMMA TaskOf ==
    ASSUME NEW pcall \in 1 .. MaxProcCalls, NEW i \in ProcTenants
    PROVE  <<pcall, i>> \in ProcTasks
BY DEF ProcTasks

LEMMA RunningFinite ==
    /\ IsFiniteSet(InState("running"))
    /\ Cardinality(InState("running")) \in Nat
<1>1. IsFiniteSet(1 .. MaxProcCalls) /\ IsFiniteSet(ProcTenants)
  BY ProcAssumption, FS_Interval DEF ProcTenants
<1>2. IsFiniteSet(ProcTasks)
  BY <1>1, FS_Product DEF ProcTasks
<1>3. InState("running") \in SUBSET ProcTasks
  BY DEF InState
<1> QED BY <1>2, <1>3, FS_Subset, FS_CardinalityType

\* A step in which no task begins to run keeps the bound.
LEMMA NoneEnters ==
    ASSUME ConcurrencyBounded,
           \A t \in ProcTasks : task'[t] = "running" => task[t] = "running"
    PROVE  ConcurrencyBounded'
<1> DEFINE R == InState("running")
           S == InState("running")'
<1>1. S \in SUBSET R
  BY DEF InState
<1>2. IsFiniteSet(R) /\ Cardinality(R) \in Nat
  BY RunningFinite
<1>3. IsFiniteSet(S) /\ Cardinality(S) <= Cardinality(R) /\ Cardinality(S) \in Nat
  <2> HIDE DEF R, S
  <2> QED BY <1>1, <1>2, FS_Subset, FS_CardinalityType
<1>4. Cardinality(R) <= MaxConcurrent
  BY DEF ConcurrencyBounded
<1>5. Cardinality(S) <= MaxConcurrent
  <2> HIDE DEF R, S
  <2> QED BY <1>2, <1>3, <1>4, ProcAssumption
<1> QED BY <1>5 DEF ConcurrencyBounded

\* The tasks of a new batch: those of the other calls are as they were.
LEMMA StartBatchStep ==
    ASSUME ProcTypes, ConcurrencyBounded, NEW pcall \in 1 .. MaxProcCalls, NEW start \in Nat,
           StartBatch(pcall, start)
    PROVE  /\ procStart' = start
           /\ task' \in [ProcTasks -> TaskStates]
           /\ ConcurrencyBounded'
           /\ \A c \in 1 .. MaxProcCalls : c # pcall =>
                (Alive(c)' = Alive(c)) /\ (Failed(c)' <=> Failed(c))
           /\ start # 0 => \A i \in ProcTenants :
                i <= start => task'[<<pcall, i>>] = task[<<pcall, i>>]
<1>1. ASSUME NEW t \in ProcTasks
      PROVE  /\ task'[t] \in TaskStates
             /\ task'[t] = "running" => task[t] = "running"
             /\ t[1] # pcall => task'[t] = task[t]
             /\ start # 0 /\ t[2] <= start => task'[t] = task[t]
  <2>1. t[1] \in Nat /\ t[2] \in Nat
    BY ProcAssumption DEF ProcTasks, ProcTenants
  <2> QED BY <2>1 DEF StartBatch, ProcTypes, TaskStates
<1>2. task' \in [ProcTasks -> TaskStates] /\ procStart' = start
  BY <1>1 DEF StartBatch
<1>3. ConcurrencyBounded'
  BY <1>1, NoneEnters
<1>4. ASSUME NEW c \in 1 .. MaxProcCalls, c # pcall
      PROVE  (Alive(c)' = Alive(c)) /\ (Failed(c)' <=> Failed(c))
  <2>1. \A i \in ProcTenants : task'[<<c, i>>] = task[<<c, i>>]
    BY <1>1, <1>4, TaskOf
  <2> QED BY <2>1 DEF Alive, Failed
<1>5. ASSUME start # 0, NEW i \in ProcTenants, i <= start
      PROVE  task'[<<pcall, i>>] = task[<<pcall, i>>]
  BY <1>1, <1>5, TaskOf
<1> QED BY <1>2, <1>3, <1>4, <1>5

\* The tenants of one batch.
LEMMA BatchDone ==
    ASSUME ProcTypes, BatchesInOrder, procState = "batch", \A t \in Batch : task[t] = "done",
           NEW i \in ProcTenants, i <= procStart + TenantBatch
    PROVE  task[<<procCall, i>>] = "done"
<1>1. procCall \in 1 .. MaxProcCalls
  BY ProcAssumption DEF ProcTypes, BatchesInOrder
<1>2. CASE i <= procStart
  BY <1>2 DEF BatchesInOrder
<1>3. CASE i > procStart
  <2>1. <<procCall, i>> \in ProcTasks
    BY <1>1, TaskOf
  <2>2. <<procCall, i>> \in Batch
    BY <1>3, <2>1 DEF Batch
  <2> QED BY <2>2
<1> QED BY <1>2, <1>3, ProcAssumption DEF ProcTypes, ProcTenants

LEMMA ProcessAllStep ==
    ASSUME ProcInv, ProcessAll
    PROVE  ProcInv'
<1>1. PICK pcall \in 1 .. MaxProcCalls :
        Alive(pcall) = {} /\ procCall' = pcall /\ StartBatch(pcall, 0)
  BY DEF ProcessAll
<1>2. /\ procStart' = 0
      /\ task' \in [ProcTasks -> TaskStates]
      /\ ConcurrencyBounded'
      /\ \A c \in 1 .. MaxProcCalls : c # pcall =>
           (Alive(c)' = Alive(c)) /\ (Failed(c)' <=> Failed(c))
  BY <1>1, StartBatchStep DEF ProcInv
<1>3. procState = "idle" /\ procState' = "batch"
  BY DEF ProcessAll
<1>4. ProcTypes'
  BY <1>1, <1>2, <1>3, ProcAssumption DEF ProcTypes
<1>5. BatchesInOrder'
  BY <1>1, <1>2, ProcAssumption DEF BatchesInOrder, ProcTenants
<1>6. AliveOrFailed'
  BY <1>1, <1>2, <1>3 DEF ProcInv, AliveOrFailed
<1>7. ResultsComplete'
  BY <1>3 DEF ResultsComplete
<1> QED BY <1>2, <1>4, <1>5, <1>6, <1>7 DEF ProcInv

LEMMA GatherReturnsStep ==
    ASSUME ProcInv, GatherReturns
    PROVE  ProcInv'
<1>1. procState = "batch" /\ procState' = "batch" /\ procCall' = procCall
  BY DEF GatherReturns
<1>2. procCall \in 1 .. MaxProcCalls /\ procStart + TenantBatch \in Nat \ {0}
  BY <1>1, ProcAssumption DEF ProcInv, ProcTypes, BatchesInOrder
<1>3. /\ procStart' = procStart + TenantBatch
      /\ task' \in [ProcTasks -> TaskStates]
      /\ ConcurrencyBounded'
      /\ \A c \in 1 .. MaxProcCalls : c # procCall =>
           (Alive(c)' = Alive(c)) /\ (Failed(c)' <=> Failed(c))
      /\ \A i \in ProcTenants :
           i <= procStart + TenantBatch => task'[<<procCall, i>>] = task[<<procCall, i>>]
  BY <1>2, StartBatchStep DEF GatherReturns, ProcInv
<1>4. ProcTypes'
  BY <1>1, <1>2, <1>3 DEF ProcInv, ProcTypes
<1>5. BatchesInOrder'
  <2>1. \A i \in ProcTenants :
          i <= procStart + TenantBatch => task[<<procCall, i>>] = "done"
    BY <1>1, BatchDone DEF GatherReturns, ProcInv
  <2> QED BY <1>1, <1>2, <1>3, <2>1 DEF BatchesInOrder
<1>6. AliveOrFailed'
  BY <1>1, <1>3 DEF ProcInv, AliveOrFailed
<1>7. ResultsComplete'
  BY <1>1 DEF ResultsComplete
<1> QED BY <1>3, <1>4, <1>5, <1>6, <1>7 DEF ProcInv

\* process_all returns with every result, or raises and leaves its tasks.
LEMMA CallEndsStep ==
    ASSUME ProcInv, ProcessAllReturns \/ ProcessAllRaises
    PROVE  ProcInv'
<1>1. /\ procState = "batch" /\ procState' = "idle"
      /\ UNCHANGED <<procCall, procStart, task>>
  BY DEF ProcessAllReturns, ProcessAllRaises
<1>2. procCall \in 1 .. MaxProcCalls
  BY <1>1, ProcAssumption DEF ProcInv, ProcTypes, BatchesInOrder
<1>3. \/ Failed(procCall)
      \/ \A i \in ProcTenants : task[<<procCall, i>>] = "done"
  <2>1. CASE ProcessAllReturns
    <3>1. \A i \in ProcTenants : i <= procStart + TenantBatch
      BY <2>1, ProcAssumption DEF ProcessAllReturns, ProcTenants, ProcInv, ProcTypes
    <3> QED BY <1>1, <2>1, <3>1, BatchDone DEF ProcessAllReturns, ProcInv
  <2>2. CASE ProcessAllRaises
    <3>1. PICK t \in Batch : task[t] = "failed"
      BY <2>2 DEF ProcessAllRaises
    <3>2. t = <<procCall, t[2]>> /\ t[2] \in ProcTenants
      BY DEF Batch, ProcTasks
    <3> QED BY <3>1, <3>2 DEF Failed
  <2> QED BY <2>1, <2>2
<1>4. ProcTypes' /\ ConcurrencyBounded' /\ BatchesInOrder'
  BY <1>1 DEF ProcInv, ProcTypes, ConcurrencyBounded, InState, BatchesInOrder
<1>5. AliveOrFailed'
  <2>1. \A pcall \in 1 .. MaxProcCalls : Alive(pcall)' = Alive(pcall) /\ (Failed(pcall)' <=> Failed(pcall))
    BY <1>1 DEF Alive, Failed
  <2>2. Alive(procCall) # {} => Failed(procCall)
    BY <1>3 DEF Alive
  <2> QED BY <1>1, <2>1, <2>2 DEF ProcInv, AliveOrFailed
<1>6. ResultsComplete'
  BY <1>1, <1>3 DEF ResultsComplete, Results, Failed
<1> QED BY <1>4, <1>5, <1>6 DEF ProcInv

\* A task moves on; no result and no failure is lost.
LEMMA TaskMoves ==
    ASSUME ProcInv, NEW t \in ProcTasks, NEW s \in {"running", "done", "failed"},
           task[t] \in {"queued", "running"}, task' = [task EXCEPT ![t] = s],
           UNCHANGED <<procCall, procState, procStart>>, ConcurrencyBounded'
    PROVE  ProcInv'
<1>1. ProcTypes'
  BY DEF ProcInv, ProcTypes, TaskStates
<1>2. ASSUME NEW u \in ProcTasks
      PROVE  /\ task[u] \in {"done", "failed"} => task'[u] = task[u]
             /\ task'[u] \in {"queued", "running"} => task[u] \in {"queued", "running"}
  BY <1>2 DEF ProcInv, ProcTypes
<1>3. ASSUME NEW pcall \in 1 .. MaxProcCalls
      PROVE  /\ Failed(pcall) => Failed(pcall)'
             /\ Alive(pcall)' \subseteq Alive(pcall)
             /\ Results(pcall) \subseteq Results(pcall)'
  BY <1>2, <1>3, TaskOf DEF Failed, Alive, Results
<1>4. BatchesInOrder'
  <2> SUFFICES ASSUME procState = "batch"
               PROVE  /\ procCall > 0
                      /\ \A i \in ProcTenants : i <= procStart => task'[<<procCall, i>>] = "done"
    BY DEF BatchesInOrder
  <2>1. procCall \in 1 .. MaxProcCalls
    BY ProcAssumption DEF ProcInv, ProcTypes, BatchesInOrder
  <2> QED BY <1>2, <2>1, TaskOf DEF ProcInv, BatchesInOrder
<1>5. AliveOrFailed'
  BY <1>3 DEF ProcInv, AliveOrFailed
<1>6. ResultsComplete'
  <2> SUFFICES ASSUME procCall > 0, procState = "idle"
               PROVE  Results(procCall)' = ProcTenants \/ Failed(procCall)'
    BY DEF ResultsComplete
  <2>1. procCall \in 1 .. MaxProcCalls
    BY ProcAssumption DEF ProcInv, ProcTypes
  <2>2. Results(procCall)' \subseteq ProcTenants
    BY DEF Results
  <2> QED BY <1>3, <2>1, <2>2 DEF ProcInv, ResultsComplete
<1> QED BY <1>1, <1>4, <1>5, <1>6 DEF ProcInv

LEMMA EnterStep ==
    ASSUME ProcInv, NEW t \in ProcTasks, EnterTask(t)
    PROVE  ProcInv'
<1>1. InState("running")' = InState("running") \cup {t}
  BY DEF EnterTask, InState, ProcInv, ProcTypes
<1>2. Cardinality(InState("running")') <= Cardinality(InState("running")) + 1
  <2> DEFINE R == InState("running")
             S == InState("running")'
  <2>1. S = R \cup {t} /\ IsFiniteSet(R) /\ Cardinality(R) \in Nat
    BY <1>1, RunningFinite
  <2> HIDE DEF R, S
  <2>2. Cardinality(S) = IF t \in R THEN Cardinality(R) ELSE Cardinality(R) + 1
    BY <2>1, FS_AddElement
  <2>3. Cardinality(S) <= Cardinality(R) + 1
    BY <2>1, <2>2
  <2> QED BY <2>3 DEF R, S
<1>3. ConcurrencyBounded'
  <2> DEFINE m == Cardinality(InState("running"))
             n == Cardinality(InState("running")')
  <2>1. m < MaxConcurrent /\ m \in Nat /\ n <= m + 1
    BY <1>2, RunningFinite DEF EnterTask
  <2>2. n \in Nat
    <3>1. IsFiniteSet(InState("running") \cup {t})
      BY RunningFinite, FS_AddElement
    <3> QED BY <1>1, <3>1, FS_CardinalityType
  <2> HIDE DEF m, n
  <2>3. n <= MaxConcurrent
    BY <2>1, <2>2, ProcAssumption
  <2> QED BY <2>3 DEF ConcurrencyBounded, n
<1> QED BY <1>3, TaskMoves DEF EnterTask

LEMMA LeaveStep ==
    ASSUME ProcInv, NEW t \in ProcTasks, LeaveTask(t)
    PROVE  ProcInv'
<1>1. PICK end \in {"done", "failed"} : task' = [task EXCEPT ![t] = end]
  BY DEF LeaveTask
<1>2. ConcurrencyBounded'
  BY <1>1, NoneEnters DEF ProcInv, ProcTypes
<1> QED BY <1>1, <1>2, TaskMoves DEF LeaveTask

LEMMA ProcInvariance == ProcSpec => []ProcInv
<1>1. ProcInit => ProcInv
  <2> SUFFICES ASSUME ProcInit PROVE ProcInv
    OBVIOUS
  <2>1. ProcTypes
    BY ProcAssumption DEF ProcInit, ProcTypes, TaskStates
  <2>2. InState("running") = {}
    BY DEF ProcInit, InState
  <2>3. ConcurrencyBounded
    BY <2>2, FS_EmptySet, ProcAssumption DEF ConcurrencyBounded
  <2>4. \A pcall \in 1 .. MaxProcCalls : Alive(pcall) = {}
    BY TaskOf DEF ProcInit, Alive
  <2> QED BY <2>1, <2>3, <2>4 DEF ProcInv, ProcInit, BatchesInOrder, AliveOrFailed, ResultsComplete
<1>2. ProcInv /\ [ProcNext]_procVars => ProcInv'
  <2> SUFFICES ASSUME ProcInv, [ProcNext]_procVars PROVE ProcInv'
    OBVIOUS
  <2>1. CASE ProcLoop
    BY <2>1, ProcessAllStep, GatherReturnsStep, CallEndsStep DEF ProcLoop
  <2>2. CASE \E t \in ProcTasks : EnterTask(t) \/ LeaveTask(t)
    BY <2>2, EnterStep, LeaveStep
  <2>3. CASE UNCHANGED procVars
    BY <2>3 DEF procVars, ProcInv, ProcTypes, ConcurrencyBounded, InState, BatchesInOrder,
                AliveOrFailed, Alive, Failed, ResultsComplete, Results
  <2> QED BY <2>1, <2>2, <2>3 DEF ProcNext
<1> QED BY <1>1, <1>2, PTL DEF ProcSpec

\* A set with more than one element has two.
LEMMA TwoElements ==
    ASSUME NEW S, IsFiniteSet(S), Cardinality(S) > 1
    PROVE  \E x, y \in S : x # y
<1>1. S # {} /\ ~\E x : S = {x}
  BY FS_EmptySet, FS_Singleton
<1> QED BY <1>1

LEMMA Overlap ==
    ASSUME ProcInv
    PROVE  OverlapOnlyAfterFailure
<1> SUFFICES ASSUME NEW i \in ProcTenants, Cardinality(Doing(i)) > 1
             PROVE  \E pcall \in Doing(i) : Failed(pcall)
  BY DEF OverlapOnlyAfterFailure
<1>1. IsFiniteSet(Doing(i))
  <2>1. IsFiniteSet(1 .. MaxProcCalls)
    BY ProcAssumption, FS_Interval
  <2>2. Doing(i) \in SUBSET (1 .. MaxProcCalls)
    BY DEF Doing
  <2> QED BY <2>1, <2>2, FS_Subset
<1>2. PICK x \in Doing(i), y \in Doing(i) : x # y
  BY <1>1, TwoElements
<1>3. \A c \in Doing(i) : c \in 1 .. MaxProcCalls /\ Alive(c) # {}
  BY DEF Doing
<1> QED BY <1>2, <1>3 DEF ProcInv, AliveOrFailed

\* process_all keeps its promises however often it is called again while tasks
\* of a failed call are left: the semaphore's bound holds over all calls, a
\* call that returns has every result, two calls share a tenant only after a
\* failure.
THEOREM ProcessorKeepsPromises == ProcSpec => []ProcessorSound
<1>1. ProcInv => ProcessorSound
  BY Overlap DEF ProcInv, ProcessorSound
<1> QED BY <1>1, ProcInvariance, PTL

-----------------------------------------------------------------------------
(* CircuitBreaker: whoever ends a call while the circuit is half-open      *)
(* moves it on, so only a cancelled call can leave it waiting.             *)

CircuitType == [state : {"closed", "open", "half_open"}, failures : Nat, attempts : Nat]

BreakerTypes ==
    /\ circuit \in CircuitType
    /\ sinceFailure \in Nat
    /\ running \in [BreakerCallers -> {"idle", "closed", "open", "half_open"}]
    /\ cancels \in Nat

BreakerInv == BreakerTypes /\ StuckOnlyByCancellation

\* The fields of the breaker after a look and after each end of a call.
LEMMA LookedFields ==
    ASSUME BreakerTypes
    PROVE  /\ Looked \in CircuitType
           /\ \/ Looked = circuit
              \/ circuit.state = "open" /\ Looked.state = "half_open" /\ Looked.attempts = 0
BY DEF BreakerTypes, CircuitType, Looked

LEMMA CountedFields ==
    ASSUME NEW b \in CircuitType
    PROVE  /\ Counted(b) \in CircuitType
           /\ Counted(b).state = b.state
           /\ b.state = "half_open" => Counted(b).attempts > 0
           /\ b.state # "half_open" => Counted(b).attempts = b.attempts
<1> DEFINE more == [b EXCEPT !.attempts = b.attempts + 1]
<1>1. more \in CircuitType /\ more.state = b.state /\ more.attempts = b.attempts + 1
  BY DEF CircuitType
<1>2. b.attempts \in Nat
  BY DEF CircuitType
<1>3. Counted(b) = IF b.state = "half_open" /\ b.attempts < 2 THEN more ELSE b
  BY DEF Counted
<1> HIDE DEF more
<1> QED BY <1>1, <1>2, <1>3

LEMMA EndedFields ==
    ASSUME NEW b \in CircuitType
    PROVE  /\ OnSuccess(b) \in CircuitType /\ OnSuccess(b).state # "half_open"
           /\ OnFailure(b) \in CircuitType
           /\ b.state \in {"half_open", "open"} => OnFailure(b).state = "open"
           /\ OnFailure(b).state # "half_open"
<1>1. b.state \in {"closed", "open", "half_open"} /\ b.failures \in Nat
  BY DEF CircuitType
<1>2. OnSuccess(b) \in CircuitType /\ OnSuccess(b).state # "half_open"
  BY <1>1 DEF OnSuccess, CircuitType
<1> DEFINE n == IF b.failures < FailureThreshold THEN b.failures + 1 ELSE b.failures
           st == IF b.state = "half_open" \/ n >= FailureThreshold THEN "open" ELSE b.state
           f == [b EXCEPT !.failures = n, !.state = st]
<1>3. n \in Nat
  BY <1>1
<1>4. OnFailure(b) = f
  BY DEF OnFailure
<1> HIDE DEF n
<1>5. st \in {"closed", "open"} /\ (b.state \in {"half_open", "open"} => st = "open")
  BY <1>1
<1> HIDE DEF st
<1>6. f \in CircuitType /\ f.state = st
  BY <1>3, <1>5 DEF CircuitType
<1> QED BY <1>2, <1>4, <1>5, <1>6

LEMMA BeginsStep ==
    ASSUME BreakerInv, NEW c \in BreakerCallers, CallBegins(c)
    PROVE  BreakerInv' /\ OneTestPerPeriod
<1> DEFINE b == Looked
<1>1. /\ b \in CircuitType
      /\ b = circuit \/ (circuit.state = "open" /\ b.state = "half_open" /\ b.attempts = 0)
  BY LookedFields DEF BreakerInv
<1>2. /\ circuit' = Counted(b) /\ running[c] = "idle"
      /\ running' = [running EXCEPT ![c] = IF Admits(b) THEN b.state ELSE "idle"]
      /\ UNCHANGED <<sinceFailure, healthy, cancels>>
  BY DEF CallBegins
<1> HIDE DEF b
<1>3. /\ circuit' \in CircuitType /\ circuit'.state = b.state
      /\ b.state = "half_open" => circuit'.attempts > 0
  BY <1>1, <1>2, CountedFields
<1>4. BreakerTypes'
  BY <1>1, <1>2, <1>3 DEF BreakerInv, BreakerTypes, CircuitType
<1>5. OneTestPerPeriod
  BY <1>1, <1>2 DEF BreakerInv, BreakerTypes, OneTestPerPeriod, Admits
<1>6. StuckOnlyByCancellation'
  <2> SUFFICES ASSUME Waiting' PROVE cancels > 0
    BY <1>2 DEF StuckOnlyByCancellation
  <2>1. b.state = "half_open" /\ Tests' = {}
    BY <1>3 DEF Waiting
  <2>2. b.attempts # 0
    <3>1. ASSUME b.attempts = 0 PROVE FALSE
      <4>1. running'[c] = "half_open"
        BY <1>2, <2>1, <3>1 DEF BreakerInv, BreakerTypes, Admits
      <4> QED BY <2>1, <4>1 DEF Tests
    <3> QED BY <3>1
  <2>3. b = circuit /\ circuit.attempts > 0
    BY <1>1, <2>2 DEF CircuitType
  <2>4. Tests = {}
    <3>1. ASSUME NEW d \in Tests PROVE FALSE
      <4>1. d # c /\ running'[d] = running[d]
        BY <1>2, <3>1 DEF Tests, BreakerInv, BreakerTypes
      <4> QED BY <2>1, <3>1, <4>1 DEF Tests
    <3> QED BY <3>1
  <2> QED BY <2>1, <2>3, <2>4 DEF BreakerInv, StuckOnlyByCancellation, Waiting
<1> QED BY <1>4, <1>5, <1>6 DEF BreakerInv

\* The end of a call, whichever state it was admitted in.
LEMMA EndsStep ==
    ASSUME BreakerInv, NEW c \in BreakerCallers,
           CallSucceeds(c) \/ CallFails(c) \/ CallCancelled(c)
    PROVE  BreakerInv' /\ OneTestPerPeriod
<1>1. circuit \in CircuitType
  BY DEF BreakerInv, BreakerTypes
<1>2. /\ running' = [running EXCEPT ![c] = "idle"]
      /\ healthy' = healthy
      /\ \/ circuit' = OnSuccess(circuit) /\ sinceFailure' = sinceFailure /\ cancels' = cancels
         \/ circuit' = OnFailure(circuit) /\ sinceFailure' = 0 /\ cancels' = cancels
         \/ circuit' = circuit /\ sinceFailure' = sinceFailure /\ cancels' = cancels + 1
  BY DEF CallSucceeds, CallFails, CallCancelled
<1>3. \/ circuit' \in CircuitType /\ circuit'.state # "half_open" /\ cancels' = cancels
      \/ circuit' = circuit /\ cancels' = cancels + 1
  BY <1>1, <1>2, EndedFields
<1>4. BreakerTypes'
  BY <1>2, <1>3, <1>1 DEF BreakerInv, BreakerTypes
<1>5. OneTestPerPeriod
  BY <1>2 DEF BreakerInv, BreakerTypes, OneTestPerPeriod
<1>6. StuckOnlyByCancellation'
  BY <1>3 DEF BreakerInv, BreakerTypes, StuckOnlyByCancellation, Waiting
<1> QED BY <1>4, <1>5, <1>6 DEF BreakerInv

\* Steps of nobody's call.
LEMMA BetweenCallsStep ==
    ASSUME BreakerInv, ManualReset \/ BreakerTick \/ Recover \/ UNCHANGED breakerVars
    PROVE  BreakerInv' /\ OneTestPerPeriod
<1>1. running' = running /\ cancels' = cancels
  BY DEF ManualReset, BreakerTick, Recover, breakerVars
<1>2. OneTestPerPeriod
  BY <1>1 DEF OneTestPerPeriod
<1>3. CASE ManualReset
  <2> DEFINE b == [circuit EXCEPT !.state = "closed", !.failures = 0]
  <2>1. b \in CircuitType /\ b.state = "closed"
    BY DEF BreakerInv, BreakerTypes, CircuitType
  <2>2. circuit' = b /\ sinceFailure' = sinceFailure /\ healthy' = healthy
    BY <1>3 DEF ManualReset
  <2> HIDE DEF b
  <2>3. BreakerTypes' /\ ~Waiting'
    BY <1>1, <2>1, <2>2 DEF BreakerInv, BreakerTypes, Waiting
  <2> QED BY <1>2, <2>3 DEF BreakerInv, StuckOnlyByCancellation
<1>4. CASE BreakerTick \/ Recover \/ UNCHANGED breakerVars
  <2>1. circuit' = circuit /\ sinceFailure' \in Nat
    BY <1>4 DEF BreakerTick, Recover, breakerVars, BreakerInv, BreakerTypes
  <2> QED BY <1>1, <1>2, <2>1
       DEF BreakerInv, BreakerTypes, StuckOnlyByCancellation, Waiting, Tests
<1> QED BY <1>3, <1>4

\* CircuitBreaker.call admits one test call per period and every end of a call
\* settles the circuit: a breaker that waits for a test nobody runs has had a
\* call cancelled, for every number of callers and every threshold.
THEOREM BreakerTestsSettle == BreakerSpec => TestCallSettles
<1>1. BreakerInit => BreakerInv
  <2> SUFFICES ASSUME BreakerInit PROVE BreakerInv
    OBVIOUS
  <2>1. BreakerTypes
    BY BreakerAssumption DEF BreakerInit, BreakerTypes, CircuitType
  <2> QED BY <2>1 DEF BreakerInit, BreakerInv, StuckOnlyByCancellation, Waiting
<1>2. BreakerInv /\ [BreakerNext]_breakerVars => BreakerInv' /\ OneTestPerPeriod
  BY BeginsStep, EndsStep, BetweenCallsStep DEF BreakerNext, BreakerCall
<1>3. BreakerInv' => StuckOnlyByCancellation'
  BY DEF BreakerInv
<1> QED BY <1>1, <1>2, <1>3, PTL DEF BreakerSpec, TestCallSettles

-----------------------------------------------------------------------------
(* MemoryStore: between the INSERT and the answer other requests store     *)
(* their signals, so the invariant says of every stage what the table      *)
(* holds: an inserted signal is nobody else's, a conflict is with a stored *)
(* one.  That the table has a latest row is part of the invariant; it is   *)
(* what get_latest finds.                                                  *)

LedgerRecord == [sig : LedgerSignals \cup {"none"}, at : Nat]
PersisterState ==
    [at     : {"rest", "begun", "inserted", "conflict", "answered"},
     sig    : LedgerSignals \cup {"none"},
     began  : Nat,
     answer : LedgerRecord]

LedgerTypes ==
    /\ ledgerRows \subseteq LedgerRecord
    /\ persister \in [LedgerCallers -> PersisterState]
    /\ ledgerClock \in Nat
    /\ ledgerFaults \in Nat

\* The unique key of learning_memory.
OneRowPerSignal == \A r, q \in ledgerRows : r.sig = q.sig => r = q

LatestExists == ledgerRows # {} => \E r \in ledgerRows : \A q \in ledgerRows : q.at <= r.at

\* What a caller has seen is so: r is the row of its signal.
StageTrue(p, tbl) ==
    /\ p.at = "inserted" => \A r \in tbl : r.sig # p.sig
    /\ p.at = "conflict" => \E r \in tbl : r.sig = p.sig
    /\ p.at = "answered" => \E r \in tbl : r.sig = p.sig /\ r.at <= p.answer.at

StagesTrue == \A c \in LedgerCallers : StageTrue(persister[c], ledgerRows)

\* An uncommitted row holds its key.
KeyHeldOnce ==
    \A c, d \in LedgerCallers :
        /\ persister[c].at = "inserted" /\ persister[d].at = "inserted"
        /\ persister[c].sig = persister[d].sig
        => c = d

LedgerInv == LedgerTypes /\ OneRowPerSignal /\ LatestExists /\ StagesTrue /\ KeyHeldOnce

\* One caller moves on; the table is as it was.
LEMMA PersisterMoves ==
    ASSUME LedgerInv, NEW c \in LedgerCallers, NEW s \in PersisterState,
           persister' = [persister EXCEPT ![c] = s], ledgerRows' = ledgerRows,
           ledgerClock' \in Nat, ledgerFaults' \in Nat,
           StageTrue(s, ledgerRows),
           s.at = "inserted" => \A o \in LedgerCallers :
               persister[o].at = "inserted" => persister[o].sig # s.sig
    PROVE  LedgerInv'
<1>1. /\ persister'[c] = s
      /\ \A d \in LedgerCallers : d # c => persister'[d] = persister[d]
  BY DEF LedgerInv, LedgerTypes
<1>2. LedgerTypes'
  BY DEF LedgerInv, LedgerTypes
<1>3. OneRowPerSignal' /\ LatestExists'
  BY DEF LedgerInv, OneRowPerSignal, LatestExists
<1>4. StagesTrue'
  BY <1>1 DEF LedgerInv, StagesTrue, StageTrue
<1>5. KeyHeldOnce'
  BY <1>1 DEF LedgerInv, KeyHeldOnce
<1> QED BY <1>2, <1>3, <1>4, <1>5 DEF LedgerInv

LEMMA PersistInsertsStep ==
    ASSUME LedgerInv, NEW c \in LedgerCallers, PersistInserts(c)
    PROVE  LedgerInv'
<1> DEFINE p == persister[c]
           at == IF Conflicts(c) THEN "conflict" ELSE "inserted"
           s == [p EXCEPT !.at = at]
<1>1. p \in PersisterState
  BY DEF LedgerInv, LedgerTypes
<1>2. /\ persister' = [persister EXCEPT ![c] = s]
      /\ \A o \in LedgerCallers : persister[o].at = "inserted" => persister[o].sig # p.sig
      /\ UNCHANGED <<ledgerRows, ledgerClock, ledgerFaults>>
  BY DEF PersistInserts
<1>3. at = "conflict" <=> \E r \in ledgerRows : r.sig = p.sig
  BY DEF Conflicts
<1>4. at \in {"conflict", "inserted"}
  OBVIOUS
<1> HIDE DEF p, at
<1>5. s \in PersisterState /\ s.at = at /\ s.sig = p.sig
  BY <1>1, <1>4 DEF PersisterState
<1> HIDE DEF s
<1>6. StageTrue(s, ledgerRows)
  BY <1>3, <1>4, <1>5 DEF StageTrue
<1>7. ledgerClock \in Nat /\ ledgerFaults \in Nat
  BY DEF LedgerInv, LedgerTypes
<1> QED BY <1>2, <1>5, <1>6, <1>7, PersisterMoves

LEMMA PersistCommitsStep ==
    ASSUME LedgerInv, NEW c \in LedgerCallers, PersistCommits(c)
    PROVE  LedgerInv'
<1> DEFINE p == persister[c]
           row == [sig |-> p.sig, at |-> p.began]
           s == [p EXCEPT !.at = "answered", !.answer = row]
<1>1. p \in PersisterState
  BY DEF LedgerInv, LedgerTypes
<1>2. /\ p.at = "inserted" /\ ledgerRows' = ledgerRows \cup {row}
      /\ persister' = [persister EXCEPT ![c] = s]
      /\ UNCHANGED <<ledgerClock, ledgerFaults>>
  BY DEF PersistCommits, LedgerInv, LedgerTypes
<1>3. \A r \in ledgerRows : r.sig # p.sig
  BY <1>2 DEF LedgerInv, StagesTrue, StageTrue
<1> HIDE DEF p
<1>4. row \in LedgerRecord /\ row.sig = p.sig
  BY <1>1 DEF PersisterState, LedgerRecord
<1> HIDE DEF row
<1>5. s \in PersisterState /\ s.at = "answered" /\ s.sig = p.sig /\ s.answer = row
  BY <1>1, <1>4 DEF PersisterState
<1> HIDE DEF s
<1>6. /\ persister'[c] = s
      /\ \A d \in LedgerCallers : d # c => persister'[d] = persister[d]
  BY <1>2 DEF LedgerInv, LedgerTypes
<1>7. LedgerTypes'
  BY <1>2, <1>4, <1>5 DEF LedgerInv, LedgerTypes
<1>8. OneRowPerSignal'
  BY <1>2, <1>3, <1>4 DEF LedgerInv, OneRowPerSignal
<1>9. LatestExists'
  <2>1. \A r \in ledgerRows' : r.at \in Nat
    BY <1>7 DEF LedgerTypes, LedgerRecord
  <2>2. CASE ledgerRows = {}
    BY <1>2, <2>1, <2>2 DEF LatestExists
  <2>3. CASE ledgerRows # {}
    <3>1. PICK r \in ledgerRows : \A q \in ledgerRows : q.at <= r.at
      BY <2>3 DEF LedgerInv, LatestExists
    <3>2. row \in ledgerRows' /\ r \in ledgerRows'
      BY <1>2
    <3>3. CASE row.at <= r.at
      BY <1>2, <2>1, <3>1, <3>2, <3>3 DEF LatestExists
    <3>4. CASE r.at <= row.at
      BY <1>2, <2>1, <3>1, <3>2, <3>4 DEF LatestExists
    <3> QED BY <2>1, <3>2, <3>3, <3>4
  <2> QED BY <2>2, <2>3
<1>10. StagesTrue'
  <2>1. StageTrue(s, ledgerRows')
    <3>1. row.at \in Nat
      BY <1>4 DEF LedgerRecord
    <3> QED BY <1>2, <1>4, <1>5, <3>1 DEF StageTrue
  <2>2. ASSUME NEW d \in LedgerCallers, d # c PROVE StageTrue(persister'[d], ledgerRows')
    <3>1. persister[d].at = "inserted" => persister[d].sig # p.sig
      BY <1>2, <2>2 DEF LedgerInv, KeyHeldOnce, p
    <3>2. StageTrue(persister[d], ledgerRows)
      BY <2>2 DEF LedgerInv, StagesTrue
    <3>3. persister'[d] = persister[d]
      BY <1>6, <2>2
    <3> QED BY <1>2, <1>4, <3>1, <3>2, <3>3 DEF StageTrue
  <2>3. ASSUME NEW d \in LedgerCallers PROVE StageTrue(persister'[d], ledgerRows')
    <3>1. CASE d = c
      BY <1>6, <2>1, <3>1 DEF StageTrue
    <3> QED BY <2>2, <3>1
  <2> QED BY <2>3 DEF StagesTrue
<1>11. KeyHeldOnce'
  BY <1>5, <1>6 DEF LedgerInv, KeyHeldOnce
<1> QED BY <1>7, <1>8, <1>9, <1>10, <1>11 DEF LedgerInv

LEMMA PersistRefetchesStep ==
    ASSUME LedgerInv, NEW c \in LedgerCallers, PersistRefetches(c)
    PROVE  LedgerInv'
<1> DEFINE p == persister[c]
           l == GetLatest
           s == [p EXCEPT !.at = "answered", !.answer = l]
<1>1. p \in PersisterState
  BY DEF LedgerInv, LedgerTypes
<1>2. /\ p.at = "conflict"
      /\ persister' = [persister EXCEPT ![c] = s]
      /\ UNCHANGED <<ledgerRows, ledgerClock, ledgerFaults>>
  BY DEF PersistRefetches, LedgerInv, LedgerTypes
<1>3. PICK r \in ledgerRows : r.sig = p.sig
  BY <1>2 DEF LedgerInv, StagesTrue, StageTrue
<1>4. l \in ledgerRows /\ \A q \in ledgerRows : q.at <= l.at
  <2>1. \E x \in ledgerRows : \A q \in ledgerRows : q.at <= x.at
    BY <1>3 DEF LedgerInv, LatestExists
  <2> QED BY <2>1 DEF GetLatest
<1> HIDE DEF p, l
<1>5. l \in LedgerRecord
  BY <1>4 DEF LedgerInv, LedgerTypes
<1>6. s \in PersisterState /\ s.at = "answered" /\ s.sig = p.sig /\ s.answer = l
  BY <1>1, <1>5 DEF PersisterState
<1> HIDE DEF s
<1>7. StageTrue(s, ledgerRows)
  BY <1>3, <1>4, <1>6 DEF StageTrue
<1>8. ledgerClock \in Nat /\ ledgerFaults \in Nat
  BY DEF LedgerInv, LedgerTypes
<1> QED BY <1>2, <1>6, <1>7, <1>8, PersisterMoves

\* A call begins, fails or is over.
LEMMA PersistOtherStep ==
    ASSUME LedgerInv, NEW c \in LedgerCallers,
           \/ \E sig \in LedgerSignals : PersistBegins(c, sig)
           \/ PersistFails(c) \/ PersistTaken(c)
    PROVE  LedgerInv'
<1>1. Unasked \in PersisterState /\ Unasked.at = "rest"
  BY DEF Unasked, PersisterState, NoRecord, LedgerRecord
<1>2. PICK s \in PersisterState :
        /\ s.at \in {"begun", "rest"}
        /\ persister' = [persister EXCEPT ![c] = s]
  <2>1. CASE \E sig \in LedgerSignals : PersistBegins(c, sig)
    <3>1. PICK sig \in LedgerSignals : PersistBegins(c, sig)
      BY <2>1
    <3> DEFINE s == [at |-> "begun", sig |-> sig, began |-> ledgerClock + 1, answer |-> NoRecord]
    <3>2. s \in PersisterState /\ s.at = "begun"
      BY DEF LedgerInv, LedgerTypes, PersisterState, NoRecord, LedgerRecord
    <3>3. persister' = [persister EXCEPT ![c] = s]
      BY <3>1 DEF PersistBegins
    <3> HIDE DEF s
    <3> QED BY <3>2, <3>3
  <2>2. CASE PersistFails(c) \/ PersistTaken(c)
    BY <1>1, <2>2 DEF PersistFails, PersistTaken
  <2> QED BY <2>1, <2>2
<1>3. ledgerRows' = ledgerRows /\ ledgerClock' \in Nat /\ ledgerFaults' \in Nat
  BY DEF PersistBegins, PersistFails, PersistTaken, LedgerInv, LedgerTypes
<1>4. StageTrue(s, ledgerRows) /\ s.at # "inserted"
  BY <1>2 DEF StageTrue
<1> QED BY <1>2, <1>3, <1>4, PersisterMoves

LEMMA LedgerInvariance == LedgerSpec => []LedgerInv
<1>1. LedgerInit => LedgerInv
  <2> SUFFICES ASSUME LedgerInit PROVE LedgerInv
    OBVIOUS
  <2>1. Unasked \in PersisterState /\ Unasked.at = "rest"
    BY DEF Unasked, PersisterState, NoRecord, LedgerRecord
  <2>2. LedgerTypes
    BY <2>1 DEF LedgerInit, LedgerTypes
  <2> QED BY <2>1, <2>2 DEF LedgerInit, LedgerInv, OneRowPerSignal, LatestExists, StagesTrue,
               StageTrue, KeyHeldOnce
<1>2. LedgerInv /\ [LedgerNext]_ledgerVars => LedgerInv'
  <2> SUFFICES ASSUME LedgerInv, [LedgerNext]_ledgerVars PROVE LedgerInv'
    OBVIOUS
  <2>1. CASE UNCHANGED ledgerVars
    BY <2>1 DEF ledgerVars, LedgerInv, LedgerTypes, OneRowPerSignal, LatestExists, StagesTrue,
                StageTrue, KeyHeldOnce
  <2>2. CASE \E c \in LedgerCallers :
               \/ \E s \in LedgerSignals : PersistBegins(c, s)
               \/ PersistInserts(c) \/ PersistCommits(c) \/ PersistRefetches(c)
               \/ PersistFails(c) \/ PersistTaken(c)
    BY <2>2, PersistInsertsStep, PersistCommitsStep, PersistRefetchesStep, PersistOtherStep
  <2> QED BY <2>1, <2>2 DEF LedgerNext, LedgerQuiet
<1> QED BY <1>1, <1>2, PTL DEF LedgerSpec

\* Whoever presents a signal to MemoryStore.persist and is answered finds it
\* stored exactly once and answered by a record no older than its own, for
\* every number of callers and signals and wherever a transaction fails.
THEOREM LedgerAnswersTrue == LedgerSpec => []AnswerMeansStored
<1>1. LedgerInv => AnswerMeansStored
  <2> SUFFICES ASSUME LedgerInv, NEW c \in LedgerCallers, persister[c].at = "answered"
               PROVE  /\ Cardinality({r \in ledgerRows : r.sig = persister[c].sig}) = 1
                      /\ \A r \in ledgerRows :
                           r.sig = persister[c].sig => r.at <= persister[c].answer.at
    BY DEF AnswerMeansStored
  <2>1. PICK r \in ledgerRows : r.sig = persister[c].sig /\ r.at <= persister[c].answer.at
    BY DEF LedgerInv, StagesTrue, StageTrue
  <2>2. \A q \in ledgerRows : q.sig = persister[c].sig => q = r
    BY <2>1 DEF LedgerInv, OneRowPerSignal
  <2>3. {q \in ledgerRows : q.sig = persister[c].sig} = {r}
    BY <2>1, <2>2
  <2> QED BY <2>1, <2>2, <2>3, FS_Singleton
<1> QED BY <1>1, LedgerInvariance, PTL

-----------------------------------------------------------------------------
(* The lifecycle of a decision: the two transactions of record_execution   *)
(* leave a gap in which the decision's status is behind its records.       *)
(* The invariant says what a request in the gap knows; as long as nothing  *)
(* has disturbed it, its record is the latest and it is alone.             *)

LifeType == [status  : {"absent", "committed", "executing", "rolled_back"},
             outcome : {"pending", "observed"}]
ExecRequest == [stage  : {"idle", "verified", "recorded", "again"},
                status : ExecKinds \cup {"none"},
                at     : ExecTimes \cup {0}]

LifeTypes ==
    /\ learning \in {"h3", "legacy", "none"}
    /\ life \in LifeType
    /\ execRecord \in [ExecTimes -> ExecKinds \cup {"none"}]
    /\ lastRecord \in ExecTimes \cup {0}
    /\ execReq \in [LifeClients -> ExecRequest]
    /\ outReq \in [OutClients -> OutcomeAnswers \cup {"idle", "learn"}]
    /\ lifeFaults \in Nat
    /\ disturbed \in BOOLEAN

\* A request under way names a kind and a time, and past its first
\* transaction there is a record of that time.
RequestTrue(r) ==
    r.stage \in {"verified", "recorded"} =>
        /\ r.at \in ExecTimes /\ r.status \in ExecKinds
        /\ r.stage = "recorded" => execRecord[r.at] # "none"

RequestsTrue == \A c \in LifeClients : RequestTrue(execReq[c])

NothingBefore == life.status = "absent" => lastRecord = 0 /\ InFlight = {}

\* Undisturbed, a request is alone and its record is the latest.
AloneUndisturbed ==
    ~disturbed =>
        /\ \A c, d \in InFlight : c = d
        /\ \A c \in LifeClients : execReq[c].stage = "recorded" =>
             lastRecord = execReq[c].at /\ execRecord[execReq[c].at] = execReq[c].status

\* The learning loop begins when the outcomes are committed.
OutcomesFirst ==
    \A c \in OutClients : outReq[c] = "learn" => life.outcome = "observed"

LifeInv ==
    /\ LifeTypes /\ RequestsTrue /\ NothingBefore /\ AloneUndisturbed /\ OutcomesFirst
    /\ StatusHasRecord /\ StatusFollowsLast /\ OutcomeAnswerTrue

LEMMA KindsNotNone == "none" \notin ExecKinds
BY LifeAssumption DEF ExecutionStatuses

\* A step of submit_decision_outcomes leaves the execution side alone.
LEMMA OutcomeSideStep ==
    ASSUME LifeInv, LifeTypes', life'.status = life.status,
           UNCHANGED <<execRecord, lastRecord, execReq, disturbed>>,
           OutcomesFirst', OutcomeAnswerTrue'
    PROVE  LifeInv'
BY DEF LifeInv, RequestsTrue, RequestTrue, NothingBefore, InFlight, AloneUndisturbed,
       StatusHasRecord, StatusFollowsLast

LEMMA OutcomesStoredStep ==
    ASSUME LifeInv, NEW c \in OutClients, OutcomesStored(c)
    PROVE  LifeInv'
<1> DEFINE l == [life EXCEPT !.outcome = "observed"]
<1>1. life \in LifeType
  BY DEF LifeInv, LifeTypes
<1>2. l \in LifeType /\ l.status = life.status /\ l.outcome = "observed"
  BY <1>1 DEF LifeType
<1>3. /\ life' = l
      /\ outReq' = [outReq EXCEPT ![c] = IF learning = "none" THEN "pending" ELSE "learn"]
      /\ UNCHANGED <<learning, execRecord, lastRecord, execReq, lifeFaults, disturbed>>
  BY DEF OutcomesStored
<1> HIDE DEF l
<1>4. LifeTypes'
  BY <1>2, <1>3 DEF LifeInv, LifeTypes, OutcomeAnswers
<1>5. OutcomesFirst' /\ OutcomeAnswerTrue'
  BY <1>2, <1>3 DEF OutcomesFirst, OutcomeAnswerTrue
<1> QED BY <1>2, <1>3, <1>4, <1>5, OutcomeSideStep

LEMMA OutcomeOtherStep ==
    ASSUME LifeInv, NEW c \in OutClients,
           OutcomesRefused(c) \/ LearningEnds(c) \/ OutcomesAnswered(c)
    PROVE  LifeInv'
<1>1. UNCHANGED <<learning, life, execRecord, lastRecord, execReq, disturbed>>
  BY DEF OutcomesRefused, LearningEnds, OutcomesAnswered
<1>2. PICK a \in OutcomeAnswers \cup {"idle"} :
        /\ outReq' = [outReq EXCEPT ![c] = a]
        /\ \/ a \in {"idle", "error"}
           \/ a = "failed" /\ learning = "h3"
           \/ outReq[c] = "learn"
  BY DEF OutcomesRefused, LearningEnds, OutcomesAnswered, OutcomeAnswers
<1>3. lifeFaults' \in Nat
  BY DEF OutcomesRefused, LearningEnds, OutcomesAnswered, LifeInv, LifeTypes
<1>4. LifeTypes'
  BY <1>1, <1>2, <1>3 DEF LifeInv, LifeTypes
<1>5. /\ outReq'[c] = a
      /\ \A d \in OutClients : d # c => outReq'[d] = outReq[d]
  BY <1>2 DEF LifeInv, LifeTypes
<1>6. OutcomesFirst'
  BY <1>1, <1>5 DEF LifeInv, OutcomesFirst, OutcomeAnswers
<1>7. OutcomeAnswerTrue'
  <2>1. ASSUME NEW d \in OutClients,
               \/ outReq'[d] \in {"completed", "skipped", "pending"}
               \/ outReq'[d] = "failed" /\ learning # "h3"
        PROVE  life.outcome = "observed"
    <3>1. CASE d # c
      BY <1>5, <2>1, <3>1 DEF LifeInv, OutcomeAnswerTrue
    <3>2. CASE d = c
      <4>1. outReq[c] = "learn"
        BY <1>2, <1>5, <2>1, <3>2
      <4> QED BY <4>1 DEF LifeInv, OutcomesFirst
    <3> QED BY <3>1, <3>2
  <2> QED BY <1>1, <2>1 DEF OutcomeAnswerTrue
<1> QED BY <1>1, <1>4, <1>6, <1>7, OutcomeSideStep

LEMMA CommittedStep ==
    ASSUME LifeInv, DecisionCommitted
    PROVE  LifeInv'
<1> DEFINE l == [life EXCEPT !.status = "committed"]
<1>1. life.status = "absent" /\ life \in LifeType
  BY DEF DecisionCommitted, LifeInv, LifeTypes
<1>2. l \in LifeType /\ l.status = "committed" /\ l.outcome = life.outcome
  BY <1>1 DEF LifeType
<1>3. /\ life' = l
      /\ UNCHANGED <<learning, execRecord, lastRecord, execReq, outReq, lifeFaults, disturbed>>
  BY DEF DecisionCommitted
<1> HIDE DEF l
<1>4. LifeTypes'
  BY <1>2, <1>3 DEF LifeInv, LifeTypes
<1>5. RequestsTrue' /\ AloneUndisturbed'
  BY <1>3 DEF LifeInv, RequestsTrue, RequestTrue, AloneUndisturbed, InFlight
<1>6. NothingBefore' /\ StatusHasRecord'
  BY <1>2, <1>3 DEF NothingBefore, StatusHasRecord
<1>7. StatusFollowsLast'
  BY <1>1, <1>3 DEF LifeInv, NothingBefore, StatusFollowsLast
<1>8. OutcomesFirst' /\ OutcomeAnswerTrue'
  BY <1>2, <1>3 DEF LifeInv, OutcomesFirst, OutcomeAnswerTrue
<1> QED BY <1>4, <1>5, <1>6, <1>7, <1>8 DEF LifeInv

LEMMA VerifyStep ==
    ASSUME LifeInv, NEW c \in LifeClients, VerifyExecution(c)
    PROVE  LifeInv'
<1>1. PICK s \in ExecKinds, t \in ExecTimes :
        execReq' = [execReq EXCEPT ![c] = [stage |-> "verified", status |-> s, at |-> t]]
  BY DEF VerifyExecution
<1> DEFINE r == [stage |-> "verified", status |-> s, at |-> t]
<1>2. /\ execReq' = [execReq EXCEPT ![c] = r]
      /\ life.status # "absent"
      /\ disturbed' = (InFlight # {})
      /\ UNCHANGED <<learning, life, execRecord, lastRecord, outReq, lifeFaults>>
  BY <1>1 DEF VerifyExecution
<1>3. r \in ExecRequest /\ r.stage = "verified" /\ r.at = t /\ r.status = s
  BY DEF ExecRequest
<1> HIDE DEF r
<1>4. /\ execReq'[c] = r
      /\ \A d \in LifeClients : d # c => execReq'[d] = execReq[d]
  BY <1>2 DEF LifeInv, LifeTypes
<1>5. LifeTypes'
  <2>1. disturbed' \in BOOLEAN
    BY <1>2
  <2>2. execReq' \in [LifeClients -> ExecRequest]
    BY <1>2, <1>3 DEF LifeInv, LifeTypes
  <2> QED BY <1>2, <2>1, <2>2 DEF LifeInv, LifeTypes
<1>6. RequestsTrue'
  BY <1>2, <1>3, <1>4 DEF LifeInv, RequestsTrue, RequestTrue
<1>7. NothingBefore'
  BY <1>2 DEF NothingBefore
<1>8. c \in InFlight' /\ InFlight' \subseteq InFlight \cup {c}
  BY <1>3, <1>4 DEF InFlight
<1>9. AloneUndisturbed'
  <2>1. SUFFICES ASSUME ~disturbed' PROVE AloneUndisturbed'
    BY DEF AloneUndisturbed
  <2>2. InFlight = {} /\ InFlight' = {c}
    BY <1>2, <1>8, <2>1
  <2>3. \A d \in LifeClients : execReq'[d].stage # "recorded"
    BY <1>3, <1>4, <2>2 DEF InFlight
  <2> QED BY <2>2, <2>3 DEF AloneUndisturbed
<1>10. StatusFollowsLast'
  BY <1>8 DEF StatusFollowsLast
<1>11. StatusHasRecord' /\ OutcomesFirst' /\ OutcomeAnswerTrue'
  BY <1>2 DEF LifeInv, StatusHasRecord, OutcomesFirst, OutcomeAnswerTrue
<1> QED BY <1>5, <1>6, <1>7, <1>9, <1>10, <1>11 DEF LifeInv

LEMMA InsertRecordStep ==
    ASSUME LifeInv, NEW c \in LifeClients, InsertRecord(c)
    PROVE  LifeInv'
<1> DEFINE r == execReq[c]
           q == [r EXCEPT !.stage = "recorded"]
           put == IF execRecord[r.at] = "none" THEN r.status ELSE execRecord[r.at]
<1>1. r \in ExecRequest /\ r.stage = "verified" /\ r.at \in ExecTimes /\ r.status \in ExecKinds
  BY DEF InsertRecord, LifeInv, LifeTypes, RequestsTrue, RequestTrue
<1>2. /\ execRecord' = [execRecord EXCEPT ![r.at] = put]
      /\ lastRecord' = IF execRecord[r.at] = "none" THEN r.at ELSE lastRecord
      /\ execReq' = [execReq EXCEPT ![c] = q]
      /\ disturbed' = (disturbed \/ execRecord[r.at] \notin {"none", r.status}
                                 \/ (execRecord[r.at] = r.status /\ lastRecord # r.at))
      /\ UNCHANGED <<learning, life, outReq, lifeFaults>>
  BY DEF InsertRecord, StoredUnder, LifeInv, LifeTypes
<1>3. q \in ExecRequest /\ q.stage = "recorded" /\ q.at = r.at /\ q.status = r.status
  <2> HIDE DEF r
  <2> QED BY <1>1 DEF ExecRequest
<1>4. put \in ExecKinds /\ put # "none"
  <2>1. execRecord[r.at] \in ExecKinds \cup {"none"}
    BY <1>1 DEF LifeInv, LifeTypes
  <2> HIDE DEF r
  <2> QED BY <1>1, <2>1, KindsNotNone
<1>5. disturbed \in BOOLEAN
  BY DEF LifeInv, LifeTypes
<1> HIDE DEF q, put
<1>6. /\ execReq'[c] = q
      /\ \A d \in LifeClients : d # c => execReq'[d] = execReq[d]
      /\ execRecord'[r.at] = put
      /\ \A t \in ExecTimes : t # r.at => execRecord'[t] = execRecord[t]
  BY <1>1, <1>2 DEF LifeInv, LifeTypes
<1>7. LifeTypes'
  <2>1. execRecord' \in [ExecTimes -> ExecKinds \cup {"none"}]
    BY <1>2, <1>4 DEF LifeInv, LifeTypes
  <2>2. lastRecord' \in ExecTimes \cup {0}
    BY <1>1, <1>2 DEF LifeInv, LifeTypes
  <2>3. execReq' \in [LifeClients -> ExecRequest]
    BY <1>2, <1>3 DEF LifeInv, LifeTypes
  <2>4. disturbed' \in BOOLEAN
    BY <1>2
  <2> QED BY <1>2, <2>1, <2>2, <2>3, <2>4 DEF LifeInv, LifeTypes
<1>8. \A t \in ExecTimes : execRecord[t] # "none" => execRecord'[t] # "none"
  BY <1>4, <1>6
<1>9. RequestsTrue'
  <2>1. ASSUME NEW d \in LifeClients PROVE RequestTrue(execReq[d])'
    <3>1. CASE d = c
      BY <1>1, <1>3, <1>4, <1>6, <3>1 DEF RequestTrue
    <3>2. CASE d # c
      <4>1. execReq'[d] = execReq[d] /\ RequestTrue(execReq[d])
        BY <1>6, <3>2 DEF LifeInv, RequestsTrue
      <4> QED BY <1>8, <4>1 DEF RequestTrue
    <3> QED BY <3>1, <3>2
  <2> QED BY <2>1 DEF RequestsTrue
<1>10. InFlight' = InFlight /\ c \in InFlight
  <2>1. \A d \in LifeClients : execReq'[d].stage \in {"verified", "recorded"} <=>
                               execReq[d].stage \in {"verified", "recorded"}
    BY <1>1, <1>3, <1>6
  <2> QED BY <1>1, <2>1 DEF InFlight
<1>11. NothingBefore'
  BY <1>2, <1>10 DEF LifeInv, NothingBefore
<1>12. AloneUndisturbed'
  <2> SUFFICES ASSUME ~disturbed'
               PROVE  /\ \A d, e \in InFlight' : d = e
                      /\ \A d \in LifeClients : execReq'[d].stage = "recorded" =>
                           /\ lastRecord' = execReq'[d].at
                           /\ execRecord'[execReq'[d].at] = execReq'[d].status
    BY DEF AloneUndisturbed
  <2>1. ~disturbed /\ \A d, e \in InFlight : d = e
    BY <1>2 DEF LifeInv, AloneUndisturbed
  <2>2. \/ execRecord[r.at] = "none"
        \/ execRecord[r.at] = r.status /\ lastRecord = r.at
    BY <1>2
  <2>3. lastRecord' = r.at /\ execRecord'[r.at] = r.status
    BY <1>2, <1>6, <2>2 DEF put
  <2>4. ASSUME NEW d \in LifeClients, execReq'[d].stage = "recorded" PROVE d = c
    <3>1. d \in InFlight'
      BY <2>4 DEF InFlight
    <3> QED BY <1>10, <2>1, <3>1
  <2> QED BY <1>3, <1>6, <1>10, <2>1, <2>3, <2>4
<1>13. StatusFollowsLast'
  BY <1>10 DEF StatusFollowsLast
<1>14. StatusHasRecord'
  BY <1>2, <1>8 DEF LifeInv, StatusHasRecord
<1>15. OutcomesFirst' /\ OutcomeAnswerTrue'
  BY <1>2 DEF LifeInv, OutcomesFirst, OutcomeAnswerTrue
<1> QED BY <1>7, <1>9, <1>11, <1>12, <1>13, <1>14, <1>15 DEF LifeInv

LEMMA UpdateDecisionStep ==
    ASSUME LifeInv, NEW c \in LifeClients, UpdateDecision(c)
    PROVE  LifeInv'
<1> DEFINE r == execReq[c]
           l == [life EXCEPT !.status = DecisionStatus(r.status)]
<1>1. /\ r.stage = "recorded" /\ r.at \in ExecTimes
      /\ execRecord[r.at] # "none"
  BY DEF UpdateDecision, LifeInv, RequestsTrue, RequestTrue
<1>2. /\ life' = l /\ execReq' = [execReq EXCEPT ![c] = NoExecRequest]
      /\ UNCHANGED <<learning, execRecord, lastRecord, outReq, lifeFaults, disturbed>>
  BY DEF UpdateDecision
<1>3. l \in LifeType /\ l.status = DecisionStatus(r.status) /\ l.outcome = life.outcome
  <2>1. life \in LifeType
    BY DEF LifeInv, LifeTypes
  <2>2. DecisionStatus(r.status) \in {"executing", "rolled_back"}
    BY DEF DecisionStatus
  <2> HIDE DEF r
  <2> QED BY <2>1, <2>2 DEF LifeType
<1>4. NoExecRequest \in ExecRequest /\ NoExecRequest.stage = "idle"
  BY DEF NoExecRequest, ExecRequest
<1>5. /\ execReq'[c] = NoExecRequest
      /\ \A d \in LifeClients : d # c => execReq'[d] = execReq[d]
  BY <1>2 DEF LifeInv, LifeTypes
<1> HIDE DEF l
<1>6. LifeTypes'
  BY <1>2, <1>3, <1>4 DEF LifeInv, LifeTypes
<1>7. RequestsTrue'
  BY <1>2, <1>4, <1>5 DEF LifeInv, RequestsTrue, RequestTrue
<1>8. InFlight' = InFlight \ {c} /\ c \in InFlight
  <2>1. \A d \in LifeClients : d \in InFlight' <=> d \in InFlight /\ d # c
    BY <1>4, <1>5 DEF InFlight
  <2>2. InFlight \subseteq LifeClients /\ InFlight' \subseteq LifeClients
    BY DEF InFlight
  <2>3. c \in InFlight
    BY <1>1 DEF InFlight
  <2> QED BY <2>1, <2>2, <2>3
<1>9. NothingBefore'
  BY <1>2, <1>3 DEF NothingBefore, DecisionStatus
<1>10. AloneUndisturbed'
  BY <1>2, <1>4, <1>5, <1>8 DEF LifeInv, AloneUndisturbed
<1>11. StatusHasRecord'
  BY <1>1, <1>2 DEF StatusHasRecord
<1>12. StatusFollowsLast'
  <2> SUFFICES ASSUME ~disturbed, lastRecord # 0
               PROVE  l.status = IF execRecord[lastRecord] \in {"failed", "cancelled"}
                                 THEN "rolled_back" ELSE "executing"
    BY <1>2 DEF StatusFollowsLast
  <2>1. lastRecord = r.at /\ execRecord[r.at] = r.status
    BY <1>1 DEF LifeInv, AloneUndisturbed
  <2> QED BY <1>3, <2>1 DEF DecisionStatus
<1>13. OutcomesFirst' /\ OutcomeAnswerTrue'
  BY <1>2, <1>3 DEF LifeInv, OutcomesFirst, OutcomeAnswerTrue
<1> QED BY <1>6, <1>7, <1>9, <1>10, <1>11, <1>12, <1>13 DEF LifeInv

LEMMA ExecutionFailsStep ==
    ASSUME LifeInv, NEW c \in LifeClients, ExecutionFails(c)
    PROVE  LifeInv'
<1> DEFINE r == execReq[c]
           q == [r EXCEPT !.stage = "again", !.at = 0]
<1>1. /\ execReq' = [execReq EXCEPT ![c] = q] /\ disturbed' = TRUE /\ lifeFaults' = lifeFaults + 1
      /\ UNCHANGED <<learning, life, execRecord, lastRecord, outReq>>
  BY DEF ExecutionFails
<1>2. r \in ExecRequest
  BY DEF LifeInv, LifeTypes
<1> HIDE DEF r
<1>3. q \in ExecRequest /\ q.stage = "again"
  BY <1>2 DEF ExecRequest
<1> HIDE DEF q
<1>4. /\ execReq'[c] = q
      /\ \A d \in LifeClients : d # c => execReq'[d] = execReq[d]
  BY <1>1 DEF LifeInv, LifeTypes
<1>5. LifeTypes'
  BY <1>1, <1>3 DEF LifeInv, LifeTypes
<1>6. RequestsTrue'
  BY <1>1, <1>3, <1>4 DEF LifeInv, RequestsTrue, RequestTrue
<1>7. InFlight' \subseteq InFlight
  BY <1>3, <1>4 DEF InFlight
<1>8. NothingBefore' /\ StatusHasRecord'
  BY <1>1, <1>7 DEF LifeInv, NothingBefore, StatusHasRecord
<1>9. AloneUndisturbed' /\ StatusFollowsLast'
  BY <1>1 DEF AloneUndisturbed, StatusFollowsLast
<1>10. OutcomesFirst' /\ OutcomeAnswerTrue'
  BY <1>1 DEF LifeInv, OutcomesFirst, OutcomeAnswerTrue
<1> QED BY <1>5, <1>6, <1>8, <1>9, <1>10 DEF LifeInv

\* The row of a decision tells the truth of its records and outcomes, whatever
\* requests overlap or fail between two transactions: its status rests on a
\* record, is the one the latest record calls for unless something interfered,
\* and an answer that promises outcomes is kept.
THEOREM DecisionRowTrue == LifeSpec => []LifecycleTrue
<1>1. LifeInit => LifeInv
  <2> SUFFICES ASSUME LifeInit PROVE LifeInv
    OBVIOUS
  <2>1. NoExecRequest \in ExecRequest /\ NoExecRequest.stage = "idle"
    BY DEF NoExecRequest, ExecRequest
  <2>2. LifeTypes
    BY <2>1 DEF LifeInit, LifeTypes, LifeType
  <2>3. InFlight = {}
    BY <2>1 DEF LifeInit, InFlight
  <2> QED BY <2>1, <2>2, <2>3
       DEF LifeInit, LifeInv, RequestsTrue, RequestTrue, NothingBefore, AloneUndisturbed,
           OutcomesFirst, StatusHasRecord, StatusFollowsLast, OutcomeAnswerTrue
<1>2. LifeInv /\ [LifeNext]_lifeVars => LifeInv'
  <2> SUFFICES ASSUME LifeInv, [LifeNext]_lifeVars PROVE LifeInv'
    OBVIOUS
  <2>1. CASE DecisionCommitted
    BY <2>1, CommittedStep
  <2>2. CASE \E c \in LifeClients :
               VerifyExecution(c) \/ InsertRecord(c) \/ UpdateDecision(c) \/ ExecutionFails(c)
    BY <2>2, VerifyStep, InsertRecordStep, UpdateDecisionStep, ExecutionFailsStep
  <2>3. CASE \E c \in OutClients :
               OutcomesStored(c) \/ OutcomesRefused(c) \/ LearningEnds(c) \/ OutcomesAnswered(c)
    BY <2>3, OutcomesStoredStep, OutcomeOtherStep
  <2>4. CASE UNCHANGED lifeVars
    BY <2>4, OutcomeSideStep DEF lifeVars, LifeInv, LifeTypes, OutcomesFirst, OutcomeAnswerTrue
  <2> QED BY <2>1, <2>2, <2>3, <2>4 DEF LifeNext
<1>3. LifeInv => LifecycleTrue
  BY DEF LifeInv, LifecycleTrue
<1> QED BY <1>1, <1>2, <1>3, PTL DEF LifeSpec

-----------------------------------------------------------------------------
(* The evaluation service saves a row and then, in another transaction,    *)
(* writes the status.  The invariant says what the task knows in between:  *)
(* its row is stored, its scores were read from confidence rows, and its   *)
(* basis is evidence that exists, so that later evidence does not change   *)
(* what the row says.                                                      *)

EvalTypes ==
    /\ evalEvidence \in Seq(EvalTags)
    /\ evalHyps \in Seq([gen : Nat, status : Terminal \cup {"candidate"}])
    /\ Len(evalHyps) <= MaxEvalHypotheses
    /\ evalScores \in Seq([target : Nat, score : {"low", "high"}])
    /\ reliable \in BOOLEAN

RowsOfTables ==
    \A row \in evaluations :
        /\ row.hypothesis \in DOMAIN evalHyps
        /\ row.basis \subseteq DOMAIN evalEvidence

EvaluatorType ==
    [at     : {"idle", "page", "evidence", "confidence", "save", "update"},
     offset : Nat,
     todo   : SUBSET Nat,
     basis  : SUBSET Nat,
     scores : [1 .. MaxEvalHypotheses -> {"none", "low", "high"}]]

\* What the tenant task holds was read from the tables.
EvaluatorTrue ==
    /\ evaluator \in EvaluatorType
    /\ evaluator.todo \subseteq DOMAIN evalHyps
    /\ evaluator.basis \subseteq DOMAIN evalEvidence
    /\ evaluator.at \in {"evidence", "confidence", "save", "update"} => evaluator.todo # {}

ScoresTrue ==
    evaluator.at \in {"save", "update"} =>
        \A h \in evaluator.todo :
            evaluator.scores[h] = "high" =>
                \E i \in DOMAIN evalScores : evalScores[i] = [target |-> h, score |-> "high"]

\* Between its two transactions the task has a terminal row in the table.
UpdateReady ==
    evaluator.at = "update" =>
        /\ Judged(CurrentCandidate) # "insufficient"
        /\ EvaluationRow(CurrentCandidate, evaluator.basis, Judged(CurrentCandidate))
             \in evaluations

EvalInv ==
    /\ EvalTypes /\ RowsOfTables /\ EvaluatorTrue /\ ScoresTrue /\ UpdateReady
    /\ VerdictJustified /\ VerdictLostOnlyByFailure

LEMMA SeqElement ==
    ASSUME NEW T, NEW s \in Seq(T), NEW i \in DOMAIN s
    PROVE  s[i] \in T
OBVIOUS

LEMMA HypothesisIsTyped ==
    ASSUME EvalTypes, NEW h \in DOMAIN evalHyps
    PROVE  evalHyps[h] \in [gen : Nat, status : Terminal \cup {"candidate"}]
<1>1. evalHyps \in Seq([gen : Nat, status : Terminal \cup {"candidate"}])
  BY DEF EvalTypes
<1> QED BY <1>1, SeqElement

LEMMA CandidateOfPage ==
    ASSUME EvaluatorTrue, evaluator.todo # {}
    PROVE  CurrentCandidate \in evaluator.todo /\ CurrentCandidate \in DOMAIN evalHyps
<1>1. evaluator.todo \subseteq Nat
  BY DEF EvaluatorTrue, EvaluatorType
<1> QED BY <1>1, MinIsIn DEF CurrentCandidate, EvaluatorTrue

LEMMA PredictionsCounted ==
    ASSUME NEW basis
    PROVE  SupportCount(basis) >= MinPredictions => SupportCount(basis) = Cardinality(Predictions)
<1> DEFINE S == {p \in Predictions : \E e \in basis : p \in evalEvidence[e]}
<1>1. IsFiniteSet(Predictions) /\ Cardinality(Predictions) = 2
  <2>1. IsFiniteSet({"p1"}) /\ Cardinality({"p1"}) = 1
    BY FS_Singleton
  <2>2. Predictions = {"p1"} \cup {"p2"} /\ "p2" \notin {"p1"}
    BY DEF Predictions
  <2>3. Cardinality({"p1"} \cup {"p2"}) = Cardinality({"p1"}) + 1 /\ IsFiniteSet({"p1"} \cup {"p2"})
    BY <2>1, <2>2, FS_AddElement
  <2> QED BY <2>1, <2>2, <2>3
<1>2. S \in SUBSET Predictions
  OBVIOUS
<1> HIDE DEF S
<1>3. IsFiniteSet(S) /\ Cardinality(S) <= 2 /\ Cardinality(S) \in Nat
  BY <1>1, <1>2, FS_Subset, FS_CardinalityType
<1>4. SupportCount(basis) = Cardinality(S)
  BY DEF SupportCount, S
<1> QED BY <1>1, <1>3, <1>4 DEF MinPredictions

\* What _formal_decision says of a terminal result.
LEMMA DecisionJustified ==
    ASSUME NEW basis, NEW score, FormalDecision(basis, score) # "insufficient"
    PROVE  /\ reliable /\ FormalDecision(basis, score) \in Terminal
           /\ \/ FormalDecision(basis, score) = "falsified" /\ ContradictionCount(basis) = 1
              \/ /\ FormalDecision(basis, score) = "confirmed"
                 /\ SupportCount(basis) = Cardinality(Predictions)
                 /\ ContradictionCount(basis) = 0 /\ score = "high"
<1>1. ContradictionCount(basis) \in {0, 1}
  BY DEF ContradictionCount
<1> QED BY <1>1, PredictionsCounted DEF FormalDecision, Terminal

-----------------------------------------------------------------------------
\* The tables grow; the task and the rows of this service stay.
LEMMA TablesGrow ==
    ASSUME EvalInv, EvalTypes', UNCHANGED <<evaluations, evaluator, reliable, evalLost>>,
           Len(evalEvidence) <= Len(evalEvidence'),
           \A e \in DOMAIN evalEvidence : evalEvidence'[e] = evalEvidence[e],
           Len(evalHyps) <= Len(evalHyps'),
           \A h \in DOMAIN evalHyps : evalHyps'[h] = evalHyps[h],
           \A h \in DOMAIN evalHyps' : h \notin DOMAIN evalHyps => evalHyps'[h].status = "candidate",
           Len(evalScores) <= Len(evalScores'),
           \A i \in DOMAIN evalScores : evalScores'[i] = evalScores[i]
    PROVE  EvalInv'
<1>1. /\ DOMAIN evalEvidence \subseteq DOMAIN evalEvidence'
      /\ DOMAIN evalHyps \subseteq DOMAIN evalHyps'
      /\ DOMAIN evalScores \subseteq DOMAIN evalScores'
  BY DEF EvalInv, EvalTypes
<1>2. ASSUME NEW basis, basis \subseteq DOMAIN evalEvidence
      PROVE  /\ SupportCount(basis)' = SupportCount(basis)
             /\ ContradictionCount(basis)' = ContradictionCount(basis)
  <2>1. \A e \in basis : evalEvidence'[e] = evalEvidence[e]
    BY <1>2
  <2> QED BY <2>1 DEF SupportCount, ContradictionCount
<1>3. RowsOfTables'
  BY <1>1 DEF EvalInv, RowsOfTables
<1>4. EvaluatorTrue'
  BY <1>1 DEF EvalInv, EvaluatorTrue
<1>5. ScoresTrue'
  BY <1>1 DEF EvalInv, ScoresTrue
<1>6. UpdateReady'
  <2>1. CurrentCandidate' = CurrentCandidate
    BY DEF CurrentCandidate
  <2>2. \A h : Judged(h)' = Judged(h)
    <3>1. evaluator.basis \subseteq DOMAIN evalEvidence
      BY DEF EvalInv, EvaluatorTrue
    <3> QED BY <1>2, <3>1 DEF Judged, FormalDecision
  <2> QED BY <2>1, <2>2 DEF EvalInv, UpdateReady, EvaluationRow
<1>7. VerdictJustified'
  <2> SUFFICES ASSUME NEW h \in DOMAIN evalHyps', evalHyps'[h].status \in Terminal
               PROVE  /\ reliable
                      /\ \E row \in evaluations :
                           /\ row.hypothesis = h /\ row.result = evalHyps'[h].status
                           /\ \/ /\ row.result = "falsified"
                                 /\ ContradictionCount(row.basis)' = 1
                              \/ /\ row.result = "confirmed"
                                 /\ SupportCount(row.basis)' = Cardinality(Predictions)
                                 /\ ContradictionCount(row.basis)' = 0
                                 /\ \E i \in DOMAIN evalScores' :
                                      evalScores'[i] = [target |-> h, score |-> "high"]
    BY DEF VerdictJustified, Predictions
  <2>1. h \in DOMAIN evalHyps /\ evalHyps'[h] = evalHyps[h]
    BY DEF Terminal
  <2>2. PICK row \in evaluations :
          /\ row.hypothesis = h /\ row.result = evalHyps[h].status
          /\ \/ /\ row.result = "falsified"
                /\ ContradictionCount(row.basis) = 1
             \/ /\ row.result = "confirmed"
                /\ SupportCount(row.basis) = Cardinality(Predictions)
                /\ ContradictionCount(row.basis) = 0
                /\ \E i \in DOMAIN evalScores :
                     evalScores[i] = [target |-> h, score |-> "high"]
    BY <2>1 DEF EvalInv, VerdictJustified
  <2>3. reliable
    BY <2>1 DEF EvalInv, VerdictJustified
  <2>4. /\ SupportCount(row.basis)' = SupportCount(row.basis)
        /\ ContradictionCount(row.basis)' = ContradictionCount(row.basis)
    BY <1>2 DEF EvalInv, RowsOfTables
  <2>5. (\E i \in DOMAIN evalScores : evalScores[i] = [target |-> h, score |-> "high"]) =>
        (\E i \in DOMAIN evalScores' : evalScores'[i] = [target |-> h, score |-> "high"])
    BY <1>1
  <2> QED BY <2>1, <2>2, <2>3, <2>4, <2>5
<1>8. VerdictLostOnlyByFailure'
  BY <1>1 DEF EvalInv, VerdictLostOnlyByFailure, RowsOfTables, CurrentCandidate
<1> QED BY <1>3, <1>4, <1>5, <1>6, <1>7, <1>8 DEF EvalInv

LEMMA AppendKeeps ==
    ASSUME NEW T, NEW s \in Seq(T), NEW x \in T
    PROVE  /\ Append(s, x) \in Seq(T) /\ Len(Append(s, x)) = Len(s) + 1
           /\ DOMAIN s = 1 .. Len(s) /\ DOMAIN Append(s, x) = 1 .. Len(s) + 1
           /\ \A i \in DOMAIN s : Append(s, x)[i] = s[i]
           /\ Append(s, x)[Len(s) + 1] = x
           /\ Len(s) \in Nat
OBVIOUS

\* Evidence, hypotheses and confidence rows arrive.
LEMMA ArrivalStep ==
    ASSUME EvalInv,
           \/ \E t \in EvalTags : EvidenceOrganized(t)
           \/ HypothesisGenerated
           \/ \E h \in DOMAIN evalHyps, s \in {"low", "high"} : ConfidenceComputed(h, s)
    PROVE  EvalInv'
<1>0. /\ evalEvidence \in Seq(EvalTags)
      /\ evalHyps \in Seq([gen : Nat, status : Terminal \cup {"candidate"}])
      /\ evalScores \in Seq([target : Nat, score : {"low", "high"}])
      /\ Len(evalEvidence) \in Nat /\ Len(evalHyps) \in Nat /\ Len(evalScores) \in Nat
  BY DEF EvalInv, EvalTypes
<1>1. CASE \E t \in EvalTags : EvidenceOrganized(t)
  <2>1. PICK t \in EvalTags : evalEvidence' = Append(evalEvidence, t)
    BY <1>1 DEF EvidenceOrganized
  <2>2. UNCHANGED <<evalHyps, evalScores, evaluations, evaluator, reliable, evalLost>>
    BY <1>1 DEF EvidenceOrganized
  <2>3. /\ evalEvidence' \in Seq(EvalTags) /\ Len(evalEvidence') = Len(evalEvidence) + 1
        /\ \A e \in DOMAIN evalEvidence : evalEvidence'[e] = evalEvidence[e]
    BY <1>0, <2>1, AppendKeeps
  <2>4. EvalTypes'
    BY <2>2, <2>3 DEF EvalInv, EvalTypes
  <2> QED BY <1>0, <2>2, <2>3, <2>4, TablesGrow
<1>2. CASE HypothesisGenerated
  <2> DEFINE h == [gen |-> Len(evalEvidence), status |-> "candidate"]
  <2>1. /\ evalHyps' = Append(evalHyps, h) /\ Len(evalHyps) < MaxEvalHypotheses
        /\ UNCHANGED <<evalEvidence, evalScores, evaluations, evaluator, reliable, evalLost>>
    BY <1>2 DEF HypothesisGenerated
  <2>2. h \in [gen : Nat, status : Terminal \cup {"candidate"}] /\ h.status = "candidate"
    BY <1>0
  <2> HIDE DEF h
  <2>3. /\ evalHyps' \in Seq([gen : Nat, status : Terminal \cup {"candidate"}])
        /\ Len(evalHyps') = Len(evalHyps) + 1
        /\ DOMAIN evalHyps = 1 .. Len(evalHyps) /\ DOMAIN evalHyps' = 1 .. Len(evalHyps) + 1
        /\ \A i \in DOMAIN evalHyps : evalHyps'[i] = evalHyps[i]
        /\ evalHyps'[Len(evalHyps) + 1] = h
    BY <1>0, <2>1, <2>2, AppendKeeps
  <2>4. MaxEvalHypotheses \in Nat
    BY EvalAssumption
  <2>5. Len(evalHyps') <= MaxEvalHypotheses
    BY <1>0, <2>1, <2>3, <2>4
  <2>6. EvalTypes'
    BY <2>1, <2>3, <2>5 DEF EvalInv, EvalTypes
  <2>7. ASSUME NEW i \in DOMAIN evalHyps', i \notin DOMAIN evalHyps
        PROVE  evalHyps'[i].status = "candidate"
    <3>1. i = Len(evalHyps) + 1
      BY <1>0, <2>3, <2>7
    <3> QED BY <2>2, <2>3, <3>1
  <2> QED BY <1>0, <2>1, <2>3, <2>6, <2>7, TablesGrow
<1>3. CASE \E h \in DOMAIN evalHyps, s \in {"low", "high"} : ConfidenceComputed(h, s)
  <2>1. PICK h \in DOMAIN evalHyps, s \in {"low", "high"} :
          evalScores' = Append(evalScores, [target |-> h, score |-> s])
    BY <1>3 DEF ConfidenceComputed
  <2>2. UNCHANGED <<evalEvidence, evalHyps, evaluations, evaluator, reliable, evalLost>>
    BY <1>3 DEF ConfidenceComputed
  <2>3. [target |-> h, score |-> s] \in [target : Nat, score : {"low", "high"}]
    <3>1. h \in Nat BY <1>0
    <3> QED BY <3>1
  <2>4. /\ evalScores' \in Seq([target : Nat, score : {"low", "high"}])
        /\ Len(evalScores') = Len(evalScores) + 1
        /\ \A i \in DOMAIN evalScores : evalScores'[i] = evalScores[i]
    BY <1>0, <2>1, <2>3, AppendKeeps
  <2>5. EvalTypes'
    BY <2>2, <2>4 DEF EvalInv, EvalTypes
  <2> QED BY <1>0, <2>2, <2>4, <2>5, TablesGrow
<1> QED BY <1>1, <1>2, <1>3

\* The task moves on and writes nothing.
LEMMA TaskAdvances ==
    ASSUME EvalInv, NEW e \in EvaluatorType, evaluator' = e,
           UNCHANGED <<evalEvidence, evalHyps, evalScores, evaluations, reliable>>,
           e.todo \subseteq DOMAIN evalHyps, e.basis \subseteq DOMAIN evalEvidence,
           e.at \in {"evidence", "confidence", "save"} => e.todo # {},
           e.at # "update",
           e.at = "save" => \A h \in e.todo : e.scores[h] = "high" =>
               \E i \in DOMAIN evalScores : evalScores[i] = [target |-> h, score |-> "high"],
           evalLost \subseteq evalLost',
           evaluator.at = "update" => CurrentCandidate \in evalLost'
    PROVE  EvalInv'
<1>1. EvalTypes' /\ RowsOfTables'
  BY DEF EvalInv, EvalTypes, RowsOfTables
<1>2. EvaluatorTrue' /\ ScoresTrue' /\ UpdateReady'
  BY DEF EvaluatorTrue, ScoresTrue, UpdateReady
<1>3. VerdictJustified'
  <2>1. \A basis : SupportCount(basis)' = SupportCount(basis)
                   /\ ContradictionCount(basis)' = ContradictionCount(basis)
    BY DEF SupportCount, ContradictionCount
  <2> QED BY <2>1 DEF EvalInv, VerdictJustified
<1>4. VerdictLostOnlyByFailure'
  BY DEF EvalInv, VerdictLostOnlyByFailure
<1> QED BY <1>1, <1>2, <1>3, <1>4 DEF EvalInv

\* The evaluator at rest, and on its way to a page.
LEMMA RestingEvaluator ==
    /\ Idle \in EvaluatorType /\ Idle.at = "idle" /\ Idle.todo = {} /\ Idle.basis = {}
    /\ LET e == [Idle EXCEPT !.at = "page"] IN
       e \in EvaluatorType /\ e.at = "page" /\ e.todo = {} /\ e.basis = {}
    /\ \A offset \in Nat :
         LET e == [Idle EXCEPT !.at = "page", !.offset = offset] IN
         e \in EvaluatorType /\ e.at = "page" /\ e.todo = {} /\ e.basis = {}
BY DEF Idle, EvaluatorType

\* An evaluator that goes to a new page, or to rest.
LEMMA PageTurned ==
    ASSUME EvalInv, NEW e \in EvaluatorType, evaluator' = e,
           e.at \in {"idle", "page"}, e.todo = {}, e.basis = {},
           UNCHANGED <<evalEvidence, evalHyps, evalScores, evaluations, reliable>>,
           evalLost \subseteq evalLost',
           evaluator.at = "update" => CurrentCandidate \in evalLost'
    PROVE  EvalInv'
BY TaskAdvances

LEMMA CycleBeginsStep ==
    ASSUME EvalInv, CycleBegins \/ EvaluationFails
    PROVE  EvalInv'
<1>1. UNCHANGED <<evalEvidence, evalHyps, evalScores, evaluations, reliable>>
  BY DEF CycleBegins, EvaluationFails
<1>2. evaluator' = [Idle EXCEPT !.at = "page"] \/ evaluator' = Idle
  BY DEF CycleBegins, EvaluationFails
<1>3. /\ evaluator' \in EvaluatorType /\ evaluator'.at \in {"idle", "page"}
      /\ evaluator'.todo = {} /\ evaluator'.basis = {}
  BY <1>2, RestingEvaluator
<1>4. /\ evalLost \subseteq evalLost'
      /\ evaluator.at = "update" => CurrentCandidate \in evalLost'
  BY DEF CycleBegins, EvaluationFails
<1> QED BY <1>1, <1>3, <1>4, PageTurned

LEMMA PageReadStep ==
    ASSUME EvalInv, PageRead
    PROVE  EvalInv'
<1> DEFINE page == PageOf(evaluator.offset)
           todo == Candidates(page)
           next == [evaluator EXCEPT !.offset = evaluator.offset + EvalBatch]
           read == [evaluator EXCEPT !.at = "evidence", !.todo = todo]
<1>1. /\ evaluator.at = "page"
      /\ \/ evaluator' = Idle
         \/ evaluator' = next
         \/ evaluator' = read /\ todo # {}
      /\ UNCHANGED <<evalEvidence, evalHyps, evalScores, evaluations, reliable, evalLost>>
  <2>1. Candidates({}) = {}
    BY DEF Candidates
  <2> QED BY <2>1 DEF PageRead
<1>2. evaluator \in EvaluatorType /\ EvalBatch \in Nat
  BY EvalAssumption DEF EvalInv, EvaluatorTrue
<1>3. todo \subseteq DOMAIN evalHyps /\ DOMAIN evalHyps \subseteq Nat
  BY DEF Candidates, PageOf, EvalInv, EvalTypes
<1>4. CASE evaluator' = Idle
  BY <1>1, <1>4, RestingEvaluator, PageTurned
<1>5. CASE evaluator' = next
  <2>1. next \in EvaluatorType /\ next.at = "page" /\ next.todo = evaluator.todo
        /\ next.basis = evaluator.basis
    BY <1>1, <1>2 DEF EvaluatorType
  <2>2. evaluator.todo \subseteq DOMAIN evalHyps /\ evaluator.basis \subseteq DOMAIN evalEvidence
    BY DEF EvalInv, EvaluatorTrue
  <2> HIDE DEF next
  <2> QED BY <1>1, <1>5, <2>1, <2>2, TaskAdvances
<1>6. CASE evaluator' = read /\ todo # {}
  <2> HIDE DEF todo
  <2>1. read \in EvaluatorType /\ read.at = "evidence" /\ read.todo = todo
        /\ read.basis = evaluator.basis
    BY <1>2, <1>3 DEF EvaluatorType
  <2>2. evaluator.basis \subseteq DOMAIN evalEvidence
    BY DEF EvalInv, EvaluatorTrue
  <2> HIDE DEF read
  <2> QED BY <1>1, <1>3, <1>6, <2>1, <2>2, TaskAdvances
<1> QED BY <1>1, <1>4, <1>5, <1>6

LEMMA EvidenceReadStep ==
    ASSUME EvalInv, EvidenceRead
    PROVE  EvalInv'
<1> DEFINE g == evalHyps[CurrentCandidate].gen
           basis == (g + 1) .. Len(evalEvidence)
           e == [evaluator EXCEPT !.at = "confidence", !.basis = basis]
<1>1. /\ evaluator.at = "evidence" /\ evaluator' = e
      /\ UNCHANGED <<evalEvidence, evalHyps, evalScores, evaluations, reliable, evalLost>>
  BY DEF EvidenceRead
<1>2. evaluator \in EvaluatorType /\ evaluator.todo # {} /\ evaluator.todo \subseteq DOMAIN evalHyps
  BY <1>1 DEF EvalInv, EvaluatorTrue
<1>3. g \in Nat
  <2>1. CurrentCandidate \in DOMAIN evalHyps
    BY <1>2, CandidateOfPage DEF EvalInv
  <2>2. evalHyps[CurrentCandidate] \in [gen : Nat, status : Terminal \cup {"candidate"}]
    BY <2>1, HypothesisIsTyped DEF EvalInv
  <2> QED BY <2>2
<1>4. basis \subseteq DOMAIN evalEvidence /\ basis \subseteq Nat
  <2>1. DOMAIN evalEvidence = 1 .. Len(evalEvidence) /\ Len(evalEvidence) \in Nat
    BY DEF EvalInv, EvalTypes
  <2> HIDE DEF g
  <2> QED BY <1>3, <2>1
<1> HIDE DEF basis
<1>5. e \in EvaluatorType /\ e.at = "confidence" /\ e.todo = evaluator.todo /\ e.basis = basis
  BY <1>2, <1>4 DEF EvaluatorType
<1> HIDE DEF e
<1> QED BY <1>1, <1>2, <1>4, <1>5, TaskAdvances

LEMMA FirstScoreTrue ==
    ASSUME EvalTypes, NEW h
    PROVE  /\ FirstScore(h) \in {"none", "low", "high"}
           /\ FirstScore(h) = "high" =>
                \E i \in DOMAIN evalScores : evalScores[i] = [target |-> h, score |-> "high"]
<1> DEFINE mine == {i \in 1..Len(evalScores) : i <= EvalConfPage /\ evalScores[i].target = h}
           first == CHOOSE i \in mine : \A j \in mine : i <= j
<1>1. CASE mine = {}
  BY <1>1 DEF FirstScore
<1>2. CASE mine # {}
  <2>1. mine \subseteq Nat /\ mine \subseteq DOMAIN evalScores
    BY DEF EvalTypes
  <2>2. first \in mine
    <3> HIDE DEF mine
    <3> QED BY <1>2, <2>1, LeastNumber
  <2>3. FirstScore(h) = evalScores[first].score
    BY <1>2 DEF FirstScore
  <2>4. first \in DOMAIN evalScores /\ evalScores[first].target = h
    BY <2>1, <2>2
  <2> HIDE DEF first
  <2>5. evalScores[first] \in [target : Nat, score : {"low", "high"}]
    <3>1. evalScores \in Seq([target : Nat, score : {"low", "high"}])
      BY DEF EvalTypes
    <3> QED BY <2>4, <3>1, SeqElement
  <2>6. evalScores[first] = [target |-> h, score |-> evalScores[first].score]
    BY <2>4, <2>5
  <2> QED BY <2>3, <2>4, <2>5, <2>6
<1> QED BY <1>1, <1>2

LEMMA ConfidenceReadStep ==
    ASSUME EvalInv, ConfidenceRead
    PROVE  EvalInv'
<1> DEFINE scores == [h \in 1..MaxEvalHypotheses |->
                        IF h \in evaluator.todo THEN FirstScore(h) ELSE "none"]
           e == [evaluator EXCEPT !.at = "save", !.scores = scores]
<1>1. /\ evaluator.at = "confidence" /\ evaluator' = e
      /\ UNCHANGED <<evalEvidence, evalHyps, evalScores, evaluations, reliable, evalLost>>
  BY DEF ConfidenceRead
<1>2. /\ evaluator \in EvaluatorType /\ evaluator.todo # {}
      /\ evaluator.todo \subseteq DOMAIN evalHyps /\ evaluator.basis \subseteq DOMAIN evalEvidence
  BY <1>1 DEF EvalInv, EvaluatorTrue
<1>3. scores \in [1 .. MaxEvalHypotheses -> {"none", "low", "high"}]
  BY FirstScoreTrue DEF EvalInv
<1>4. DOMAIN evalHyps \subseteq 1 .. MaxEvalHypotheses
  BY EvalAssumption DEF EvalInv, EvalTypes
<1>5. ASSUME NEW h \in evaluator.todo, scores[h] = "high"
      PROVE  \E i \in DOMAIN evalScores : evalScores[i] = [target |-> h, score |-> "high"]
  <2>1. FirstScore(h) = "high"
    BY <1>2, <1>4, <1>5
  <2> QED BY <2>1, FirstScoreTrue DEF EvalInv
<1> HIDE DEF scores
<1>6. /\ e \in EvaluatorType /\ e.at = "save" /\ e.todo = evaluator.todo
      /\ e.basis = evaluator.basis /\ e.scores = scores
  BY <1>2, <1>3 DEF EvaluatorType
<1> HIDE DEF e
<1> QED BY <1>1, <1>2, <1>5, <1>6, TaskAdvances

-----------------------------------------------------------------------------
\* What NextEvalCandidate leaves of the page.
LEMMA NextCandidate ==
    ASSUME EvalInv, evaluator.at \in {"save", "update"}
    PROVE  LET e == NextEvalCandidate IN
           /\ e \in EvaluatorType
           /\ e.at \in {"save", "page"}
           /\ e.todo \subseteq DOMAIN evalHyps /\ e.basis \subseteq DOMAIN evalEvidence
           /\ e.at = "save" => /\ e.todo # {} /\ e.todo \subseteq evaluator.todo
                               /\ e.scores = evaluator.scores
<1>1. /\ evaluator \in EvaluatorType /\ evaluator.todo # {} /\ evaluator.todo \subseteq DOMAIN evalHyps
      /\ evaluator.basis \subseteq DOMAIN evalEvidence
  BY DEF EvalInv, EvaluatorTrue
<1> DEFINE more == [evaluator EXCEPT !.at = "save",
                                     !.todo = evaluator.todo \ {CurrentCandidate}]
           turn == [Idle EXCEPT !.at = "page", !.offset = evaluator.offset + EvalBatch]
<1>2. CurrentCandidate \in evaluator.todo
  BY <1>1, CandidateOfPage DEF EvalInv
<1>3. NextEvalCandidate = IF evaluator.todo # {CurrentCandidate} THEN more ELSE turn
  BY DEF NextEvalCandidate
<1>4. /\ more \in EvaluatorType /\ more.at = "save"
      /\ more.todo = evaluator.todo \ {CurrentCandidate}
      /\ more.basis = evaluator.basis /\ more.scores = evaluator.scores
  BY <1>1 DEF EvaluatorType
<1>5. turn \in EvaluatorType /\ turn.at = "page" /\ turn.todo = {} /\ turn.basis = {}
  <2>1. evaluator.offset + EvalBatch \in Nat
    BY <1>1, EvalAssumption DEF EvaluatorType
  <2> QED BY <2>1, RestingEvaluator
<1> HIDE DEF more, turn
<1> QED BY <1>1, <1>2, <1>3, <1>4, <1>5

\* save_evaluation: the row goes in unless its id is there.
LEMMA SaveEvaluationStep ==
    ASSUME EvalInv, SaveEvaluation
    PROVE  EvalInv'
<1> DEFINE h == CurrentCandidate
           row == EvaluationRow(h, evaluator.basis, Judged(h))
           toUpdate == [evaluator EXCEPT !.at = "update"]
<1>1. /\ evaluator.at = "save"
      /\ UNCHANGED <<evalEvidence, evalHyps, evalScores, reliable, evalLost>>
      /\ evaluations' = IF Inserted(row) THEN evaluations \cup {row} ELSE evaluations
      /\ evaluator' = IF Inserted(row) /\ row.result # "insufficient" THEN toUpdate
                      ELSE NextEvalCandidate
  BY DEF SaveEvaluation
<1>2. /\ evaluator \in EvaluatorType /\ evaluator.todo # {} /\ evaluator.todo \subseteq DOMAIN evalHyps
      /\ evaluator.basis \subseteq DOMAIN evalEvidence
  BY <1>1 DEF EvalInv, EvaluatorTrue
<1>3. h \in evaluator.todo /\ h \in DOMAIN evalHyps
  BY <1>2, CandidateOfPage DEF EvalInv
<1>4. row.hypothesis = h /\ row.basis = evaluator.basis /\ row.result = Judged(h)
  BY DEF EvaluationRow
<1>5. /\ toUpdate \in EvaluatorType /\ toUpdate.at = "update" /\ toUpdate.todo = evaluator.todo
      /\ toUpdate.basis = evaluator.basis /\ toUpdate.scores = evaluator.scores
  BY <1>2 DEF EvaluatorType
<1> HIDE DEF h, row, toUpdate
<1>6. EvalTypes'
  BY <1>1 DEF EvalInv, EvalTypes
<1>7. evaluations \subseteq evaluations' /\ evaluations' \subseteq evaluations \cup {row}
  BY <1>1
<1>8. RowsOfTables'
  BY <1>1, <1>2, <1>3, <1>4, <1>7 DEF EvalInv, RowsOfTables
<1>9. VerdictJustified'
  <2>1. \A basis : SupportCount(basis)' = SupportCount(basis)
                   /\ ContradictionCount(basis)' = ContradictionCount(basis)
    BY <1>1 DEF SupportCount, ContradictionCount
  <2> QED BY <1>1, <1>7, <2>1 DEF EvalInv, VerdictJustified
<1>10. \A r \in evaluations : r.result \in Terminal /\ evalHyps[r.hypothesis].status = "candidate"
          => r.hypothesis \in evalLost
  BY <1>1 DEF EvalInv, VerdictLostOnlyByFailure
<1>11. CASE Inserted(row) /\ row.result # "insufficient"
  <2>1. evaluator' = toUpdate /\ row \in evaluations'
    BY <1>1, <1>11
  <2>2. CurrentCandidate' = h
    BY <1>5, <2>1 DEF CurrentCandidate, h
  <2>3. EvaluatorTrue'
    BY <1>1, <1>2, <1>5, <2>1 DEF EvaluatorTrue
  <2>4. ScoresTrue'
    BY <1>1, <1>5, <2>1 DEF EvalInv, ScoresTrue
  <2>5. Judged(h)' = Judged(h)
    <3>1. evaluator'.basis = evaluator.basis /\ evaluator'.scores = evaluator.scores
      BY <1>5, <2>1
    <3>2. h' = h
      BY <2>2 DEF h
    <3> QED BY <1>1, <3>1, <3>2 DEF Judged, FormalDecision, SupportCount, ContradictionCount
  <2>6. UpdateReady'
    <3>1. Judged(CurrentCandidate)' = row.result
      BY <1>4, <2>5 DEF h
    <3>2. EvaluationRow(CurrentCandidate, evaluator.basis, Judged(CurrentCandidate))' = row
      BY <1>5, <2>1, <2>2, <3>1, <1>4 DEF EvaluationRow, row
    <3> QED BY <1>11, <2>1, <3>1, <3>2 DEF UpdateReady
  <2>7. VerdictLostOnlyByFailure'
    BY <1>1, <1>4, <1>5, <1>7, <1>10, <2>1, <2>2 DEF VerdictLostOnlyByFailure
  <2> QED BY <1>6, <1>8, <1>9, <2>3, <2>4, <2>6, <2>7 DEF EvalInv
<1>12. CASE ~(Inserted(row) /\ row.result # "insufficient")
  <2>1. evaluator' = NextEvalCandidate
    BY <1>1, <1>12
  <2>2. /\ evaluator' \in EvaluatorType
        /\ evaluator'.at \in {"save", "page"}
        /\ evaluator'.todo \subseteq DOMAIN evalHyps /\ evaluator'.basis \subseteq DOMAIN evalEvidence
        /\ evaluator'.at = "save" => /\ evaluator'.todo # {} /\ evaluator'.todo \subseteq evaluator.todo
                                     /\ evaluator'.scores = evaluator.scores
    BY <1>1, <2>1, NextCandidate
  <2>3. EvaluatorTrue' /\ UpdateReady'
    BY <1>1, <2>2 DEF EvaluatorTrue, UpdateReady
  <2>4. ScoresTrue'
    BY <1>1, <2>2 DEF EvalInv, ScoresTrue
  <2>5. VerdictLostOnlyByFailure'
    <3>1. ASSUME NEW r \in evaluations', r.result \in Terminal
          PROVE  r \in evaluations
      BY <1>1, <1>12, <3>1 DEF Terminal
    <3> QED BY <1>1, <1>10, <3>1 DEF VerdictLostOnlyByFailure
  <2> QED BY <1>6, <1>8, <1>9, <2>3, <2>4, <2>5 DEF EvalInv
<1> QED BY <1>11, <1>12

\* update_hypothesis_status: the row of the verdict is in the table.
LEMMA UpdateStatusStep ==
    ASSUME EvalInv, UpdateHypothesisStatus
    PROVE  EvalInv'
<1> DEFINE h == CurrentCandidate
           v == Judged(h)
           hyp == [evalHyps[h] EXCEPT !.status = v]
<1>1. /\ evaluator.at = "update" /\ evaluator' = NextEvalCandidate
      /\ evalHyps' = [evalHyps EXCEPT ![h] = hyp]
      /\ UNCHANGED <<evalEvidence, evalScores, evaluations, reliable, evalLost>>
  BY DEF UpdateHypothesisStatus
<1>2. evaluator.todo # {} /\ evaluator.todo \subseteq DOMAIN evalHyps
  BY <1>1 DEF EvalInv, EvaluatorTrue
<1>3. h \in evaluator.todo /\ h \in DOMAIN evalHyps
  BY <1>2, CandidateOfPage DEF EvalInv
<1>4. /\ v # "insufficient" /\ EvaluationRow(h, evaluator.basis, v) \in evaluations
  BY <1>1 DEF EvalInv, UpdateReady
<1> DEFINE row == EvaluationRow(h, evaluator.basis, v)
<1>5. row \in evaluations /\ row.hypothesis = h /\ row.basis = evaluator.basis /\ row.result = v
  BY <1>4 DEF EvaluationRow
<1>6. /\ reliable /\ v \in Terminal
      /\ \/ v = "falsified" /\ ContradictionCount(evaluator.basis) = 1
         \/ /\ v = "confirmed"
            /\ SupportCount(evaluator.basis) = Cardinality(Predictions)
            /\ ContradictionCount(evaluator.basis) = 0 /\ evaluator.scores[h] = "high"
  BY <1>4, DecisionJustified DEF Judged
<1>7. evaluator.scores[h] = "high" =>
        \E i \in DOMAIN evalScores : evalScores[i] = [target |-> h, score |-> "high"]
  BY <1>1, <1>3 DEF EvalInv, ScoresTrue
<1> HIDE DEF h, v, row
<1>8. /\ hyp \in [gen : Nat, status : Terminal \cup {"candidate"}] /\ hyp.status = v
  <2>1. evalHyps[h] \in [gen : Nat, status : Terminal \cup {"candidate"}]
    BY <1>3, HypothesisIsTyped DEF EvalInv
  <2> QED BY <1>6, <2>1
<1> HIDE DEF hyp
<1>9. /\ evalHyps' \in Seq([gen : Nat, status : Terminal \cup {"candidate"}])
      /\ Len(evalHyps') = Len(evalHyps) /\ DOMAIN evalHyps' = DOMAIN evalHyps
      /\ evalHyps'[h] = hyp
      /\ \A g \in DOMAIN evalHyps : g # h => evalHyps'[g] = evalHyps[g]
  BY <1>1, <1>3, <1>8 DEF EvalInv, EvalTypes
<1>10. EvalTypes' /\ RowsOfTables'
  BY <1>1, <1>9 DEF EvalInv, EvalTypes, RowsOfTables
<1>11. /\ evaluator' \in EvaluatorType
       /\ evaluator'.at \in {"save", "page"}
       /\ evaluator'.todo \subseteq DOMAIN evalHyps /\ evaluator'.basis \subseteq DOMAIN evalEvidence
       /\ evaluator'.at = "save" => /\ evaluator'.todo # {} /\ evaluator'.todo \subseteq evaluator.todo
                                    /\ evaluator'.scores = evaluator.scores
  BY <1>1, NextCandidate
<1>12. EvaluatorTrue' /\ UpdateReady'
  BY <1>1, <1>9, <1>11 DEF EvaluatorTrue, UpdateReady
<1>13. ScoresTrue'
  BY <1>1, <1>11 DEF EvalInv, ScoresTrue
<1>14. VerdictJustified'
  <2>1. ASSUME NEW g \in DOMAIN evalHyps, g # h, evalHyps'[g].status \in Terminal
        PROVE  /\ reliable
               /\ \E r \in evaluations :
                    /\ r.hypothesis = g /\ r.result = evalHyps'[g].status
                    /\ \/ r.result = "falsified" /\ ContradictionCount(r.basis) = 1
                       \/ /\ r.result = "confirmed"
                          /\ SupportCount(r.basis) = Cardinality(Predictions)
                          /\ ContradictionCount(r.basis) = 0
                          /\ \E i \in DOMAIN evalScores :
                               evalScores[i] = [target |-> g, score |-> "high"]
    <3>1. evalHyps'[g] = evalHyps[g]
      BY <1>9, <2>1
    <3> QED BY <2>1, <3>1 DEF EvalInv, VerdictJustified
  <2>2. /\ reliable
        /\ \E r \in evaluations :
             /\ r.hypothesis = h /\ r.result = evalHyps'[h].status
             /\ \/ r.result = "falsified" /\ ContradictionCount(r.basis) = 1
                \/ /\ r.result = "confirmed"
                   /\ SupportCount(r.basis) = Cardinality(Predictions)
                   /\ ContradictionCount(r.basis) = 0
                   /\ \E i \in DOMAIN evalScores :
                        evalScores[i] = [target |-> h, score |-> "high"]
    BY <1>5, <1>6, <1>7, <1>8, <1>9
  <2>3. \A basis : SupportCount(basis)' = SupportCount(basis)
                   /\ ContradictionCount(basis)' = ContradictionCount(basis)
    BY <1>1 DEF SupportCount, ContradictionCount
  <2> QED BY <1>1, <1>9, <2>1, <2>2, <2>3 DEF VerdictJustified
<1>15. VerdictLostOnlyByFailure'
  <2>1. ASSUME NEW r \in evaluations, r.result \in Terminal,
               evalHyps'[r.hypothesis].status = "candidate"
        PROVE  r.hypothesis \in evalLost
    <3>1. r.hypothesis # h
      BY <1>6, <1>8, <1>9, <2>1 DEF Terminal
    <3>2. evalHyps'[r.hypothesis] = evalHyps[r.hypothesis]
      BY <1>9, <2>1, <3>1 DEF EvalInv, RowsOfTables
    <3> QED BY <1>1, <2>1, <3>1, <3>2 DEF EvalInv, VerdictLostOnlyByFailure, h
  <2> QED BY <1>1, <2>1 DEF VerdictLostOnlyByFailure
<1> QED BY <1>10, <1>12, <1>13, <1>14, <1>15 DEF EvalInv

\* The service's verdicts rest on stored rows, and a stored verdict is lost
\* only when the process or the database fails between its two transactions,
\* however evidence, hypotheses and scores arrive in between.
THEOREM EvaluationVerdictsSound == EvalSpec => []VerdictsSound
<1>1. EvalInit => EvalInv
  <2> SUFFICES ASSUME EvalInit PROVE EvalInv
    OBVIOUS
  <2>1. Idle \in EvaluatorType /\ Idle.at = "idle" /\ Idle.todo = {} /\ Idle.basis = {}
    BY RestingEvaluator
  <2>2. EvalTypes
    BY EvalAssumption DEF EvalInit, EvalTypes
  <2> QED BY <2>1, <2>2 DEF EvalInit, EvalInv, RowsOfTables, EvaluatorTrue, ScoresTrue,
               UpdateReady, VerdictJustified, VerdictLostOnlyByFailure
<1>2. EvalInv /\ [EvalNext]_evalVars => EvalInv'
  <2> SUFFICES ASSUME EvalInv, [EvalNext]_evalVars PROVE EvalInv'
    OBVIOUS
  <2>1. CASE \/ \E t \in EvalTags : EvidenceOrganized(t)
             \/ HypothesisGenerated
             \/ \E h \in DOMAIN evalHyps, s \in {"low", "high"} : ConfidenceComputed(h, s)
    BY <2>1, ArrivalStep
  <2>2. CASE CycleBegins \/ EvaluationFails
    BY <2>2, CycleBeginsStep
  <2>3. CASE PageRead \/ EvidenceRead \/ ConfidenceRead
    BY <2>3, PageReadStep, EvidenceReadStep, ConfidenceReadStep
  <2>4. CASE SaveEvaluation \/ UpdateHypothesisStatus
    BY <2>4, SaveEvaluationStep, UpdateStatusStep
  <2>5. CASE UNCHANGED evalVars
    <3>1. UNCHANGED <<evalEvidence, evalHyps, evalScores, evaluations, evaluator, reliable, evalLost>>
      BY <2>5 DEF evalVars
    <3>2. EvalTypes'
      BY <3>1 DEF EvalInv, EvalTypes
    <3>3. \A n \in Nat : n <= n
      OBVIOUS
    <3>4. Len(evalEvidence) \in Nat /\ Len(evalHyps) \in Nat /\ Len(evalScores) \in Nat
      BY DEF EvalInv, EvalTypes
    <3> QED BY <3>1, <3>2, <3>3, <3>4, TablesGrow
  <2> QED BY <2>1, <2>2, <2>3, <2>4, <2>5 DEF EvalNext
<1>3. EvalInv => VerdictsSound
  BY DEF EvalInv, VerdictsSound
<1> QED BY <1>1, <1>2, <1>3, PTL DEF EvalSpec

-----------------------------------------------------------------------------
(* The report service reads the decisions first.  The invariant carries    *)
(* what that gives through the awaits: every later decision is committed   *)
(* on the last day of the period or after it, and every chain that was     *)
(* complete stays complete while its rows are on the first pages, which a  *)
(* row can only leave.                                                     *)

GenerationType ==
    [at : {"rest", "next", "reading", "saving"}, type : Nat, store : Nat, shown : Nat,
     period : Nat \X Nat, whole : SUBSET Nat]

RepTypes ==
    /\ repDay \in Nat
    /\ repDecs \in Seq(Nat)
    /\ repPos \in Seq([PagedStores -> Nat])
    /\ Len(repPos) = Len(repDecs)
    /\ repGen \in [Generators -> GenerationType]

\* Decisions are committed in the order of the days, and none tomorrow.
DaysInOrder ==
    \A i \in DOMAIN repDecs :
        /\ repDecs[i] <= repDay
        /\ \A j \in DOMAIN repDecs : i <= j => repDecs[i] <= repDecs[j]

\* What a reading of the decisions stands for from then on.
Reading(shown, whole, last) ==
    /\ shown \in Nat /\ last \in Nat
    /\ last <= repDay
    /\ shown <= Len(repDecs)
    /\ \A i \in 1..shown : OnFirstPages(i) => i \in whole
    /\ \A i \in DOMAIN repDecs : i > shown => repDecs[i] >= last

GenerationsTrue ==
    \A g \in Generators : repGen[g].at \in {"reading", "saving"} =>
        Reading(repGen[g].shown, repGen[g].whole, repGen[g].period[2])

DocumentsTrue ==
    \A d \in repFiles \cup repSaved : Reading(d.doc.shown, d.doc.whole, d.id.period[2])

RepInv == RepTypes /\ DaysInOrder /\ GenerationsTrue /\ DocumentsTrue

LEMMA ReadingsSound ==
    ASSUME RepInv
    PROVE  ReportsSound
<1>1. TraceWhole
  BY DEF RepInv, DocumentsTrue, Reading, TraceWhole
<1>2. RowMissesOnlyItsLastDay
  <2> SUFFICES ASSUME NEW r \in repSaved, NEW i \in 1..Len(repDecs),
                      i > r.doc.shown, repDecs[i] <= r.id.period[2]
               PROVE  repDecs[i] = r.id.period[2]
    BY DEF RowMissesOnlyItsLastDay
  <2>1. repDecs \in Seq(Nat)
    BY DEF RepInv, RepTypes
  <2>2. i \in DOMAIN repDecs /\ repDecs[i] \in Nat
    BY <2>1
  <2>3. r.id.period[2] \in Nat /\ repDecs[i] >= r.id.period[2]
    BY <2>2 DEF RepInv, DocumentsTrue, Reading
  <2> QED BY <2>2, <2>3
<1> QED BY <1>1, <1>2 DEF ReportsSound

\* The period of all the decisions ends on the day of the last one.
LEMMA PeriodOfAll ==
    ASSUME RepTypes, DaysInOrder
    PROVE  /\ ReportPeriod(Len(repDecs)) \in Nat \X Nat
           /\ ReportPeriod(Len(repDecs))[2] <= repDay
<1> DEFINE n == Len(repDecs)
           days == {repDecs[i] : i \in 1..n}
<1>1. repDecs \in Seq(Nat) /\ repDay \in Nat /\ n \in Nat /\ DOMAIN repDecs = 1..n
  BY DEF RepTypes
<1>2. CASE n = 0
  BY <1>1, <1>2 DEF ReportPeriod
<1>3. CASE n > 0
  <2>1. ReportPeriod(n) = <<Min(days), Max(days)>>
    BY <1>3 DEF ReportPeriod
  <2>2. repDecs[1] \in days /\ repDecs[n] \in days
    BY <1>1, <1>3
  <2>3. \A d \in days : d \in Nat /\ repDecs[1] <= d /\ d <= repDecs[n] /\ d <= repDay
    <3> SUFFICES ASSUME NEW i \in 1..n
                 PROVE  /\ repDecs[i] \in Nat /\ repDecs[1] <= repDecs[i]
                        /\ repDecs[i] <= repDecs[n] /\ repDecs[i] <= repDay
      OBVIOUS
    <3>1. 1 \in 1..n /\ n \in 1..n /\ 1 <= i /\ i <= n
      BY <1>1, <1>3
    <3>2. repDecs[i] \in Nat
      BY <1>1
    <3> QED BY <1>1, <3>1, <3>2 DEF DaysInOrder
  <2> HIDE DEF days
  <2>4. Min(days) \in days
    BY <2>2, <2>3 DEF Min
  <2>5. Max(days) \in days
    BY <2>2, <2>3 DEF Max
  <2> QED BY <2>1, <2>3, <2>4, <2>5
<1> QED BY <1>1, <1>2, <1>3

LEMMA ReadingBegins ==
    ASSUME RepTypes, DaysInOrder
    PROVE  Reading(Len(repDecs), 1..Len(repDecs), ReportPeriod(Len(repDecs))[2])
<1>1. ReportPeriod(Len(repDecs))[2] \in Nat
  BY PeriodOfAll
<1>2. Len(repDecs) \in Nat /\ DOMAIN repDecs = 1..Len(repDecs)
  BY DEF RepTypes
<1> QED BY <1>1, <1>2, PeriodOfAll DEF Reading

\* A row may be moved away from the first page, never onto it.
LEMMA RowsMoveAway ==
    ASSUME RepTypes, NEW store \in PagedStores, RowStored(store)
    PROVE  /\ repPos' \in Seq([PagedStores -> Nat]) /\ Len(repPos') = Len(repPos)
           /\ \A i \in DOMAIN repPos : OnFirstPages(i)' => OnFirstPages(i)
<1>1. PICK p \in 1..repRows[store] + 1 :
        repPos' = [i \in DOMAIN repPos |->
            [repPos[i] EXCEPT ![store] = IF @ >= p THEN @ + 1 ELSE @]]
  BY DEF RowStored
<1>2. /\ repPos \in Seq([PagedStores -> Nat]) /\ Len(repPos) \in Nat
      /\ DOMAIN repPos = 1..Len(repPos)
      /\ \A i \in DOMAIN repPos : repPos[i] \in [PagedStores -> Nat]
  BY DEF RepTypes
<1>3. ASSUME NEW i \in DOMAIN repPos
      PROVE  /\ repPos'[i] \in [PagedStores -> Nat]
             /\ \A s \in PagedStores : repPos[i][s] <= repPos'[i][s]
  <2> DEFINE moved == IF repPos[i][store] >= p THEN repPos[i][store] + 1 ELSE repPos[i][store]
  <2>1. repPos[i] \in [PagedStores -> Nat] /\ repPos[i][store] \in Nat
    BY <1>2
  <2>2. moved \in Nat /\ repPos[i][store] <= moved
    BY <2>1
  <2>3. repPos'[i] = [repPos[i] EXCEPT ![store] = moved]
    BY <1>1
  <2> HIDE DEF moved
  <2>4. \A s \in PagedStores : repPos'[i][s] = IF s = store THEN moved ELSE repPos[i][s]
    BY <2>1, <2>3
  <2> QED BY <2>1, <2>2, <2>3, <2>4
<1>4. repPos' \in Seq([PagedStores -> Nat]) /\ Len(repPos') = Len(repPos)
  <2>1. DOMAIN repPos' = 1..Len(repPos)
    BY <1>1, <1>2
  <2>2. repPos' = [i \in 1..Len(repPos) |-> repPos'[i]]
    BY <1>1, <1>2
  <2>3. \A i \in 1..Len(repPos) : repPos'[i] \in [PagedStores -> Nat]
    BY <1>2, <1>3
  <2>4. repPos' \in [1..Len(repPos) -> [PagedStores -> Nat]]
    BY <2>2, <2>3
  <2>5. repPos' \in Seq([PagedStores -> Nat])
    BY <1>2, <2>4, SeqDef
  <2>6. Len(repPos') \in Nat /\ DOMAIN repPos' = 1..Len(repPos')
    BY <2>5, LenProperties
  <2> QED BY <1>2, <2>1, <2>5, <2>6
<1>5. ASSUME NEW i \in DOMAIN repPos, OnFirstPages(i)'
      PROVE  OnFirstPages(i)
  <2> SUFFICES ASSUME NEW s \in PagedStores
               PROVE  repPos[i][s] <= RepPage
    BY DEF OnFirstPages
  <2>1. repPos'[i][s] <= RepPage
    BY <1>5 DEF OnFirstPages
  <2>2. repPos[i][s] \in Nat /\ repPos'[i][s] \in Nat /\ repPos[i][s] <= repPos'[i][s]
    BY <1>2, <1>3
  <2> QED BY <2>1, <2>2, RepAssumption
<1> QED BY <1>4, <1>5

\* The rows of a decision are where they were when another is committed.
LEMMA PositionsStay ==
    ASSUME RepTypes, DecisionStored
    PROVE  /\ repPos' \in Seq([PagedStores -> Nat]) /\ Len(repPos') = Len(repPos) + 1
           /\ \A i \in DOMAIN repPos : OnFirstPages(i)' = OnFirstPages(i)
<1>1. PICK last \in [PagedStores -> 1..MaxRepRows] : repPos' = Append(repPos, last)
  BY DEF DecisionStored
<1>2. last \in [PagedStores -> Nat]
  <2>1. \A s \in PagedStores : last[s] \in Nat
    BY <1>1, RepAssumption
  <2> QED BY <1>1, <2>1
<1>3. repPos \in Seq([PagedStores -> Nat])
  BY DEF RepTypes
<1>4. /\ repPos' \in Seq([PagedStores -> Nat]) /\ Len(repPos') = Len(repPos) + 1
      /\ \A i \in DOMAIN repPos : repPos'[i] = repPos[i]
  BY <1>1, <1>2, <1>3
<1> QED BY <1>4 DEF OnFirstPages

\* A step of the environment: a day, a row, a decision.
EnvironmentActs ==
    DayPasses \/ DecisionStored \/ \E store \in PagedStores : RowStored(store)

\* None of them changes what was read.
LEMMA ReadingStays ==
    ASSUME RepTypes, NEW shown, NEW whole, NEW last, Reading(shown, whole, last),
           EnvironmentActs
    PROVE  Reading(shown, whole, last)'
<1>1. /\ repDay \in Nat /\ repDecs \in Seq(Nat) /\ Len(repDecs) \in Nat
      /\ DOMAIN repDecs = 1..Len(repDecs) /\ DOMAIN repPos = 1..Len(repDecs)
      /\ shown \in Nat /\ 1..shown \subseteq DOMAIN repPos
  BY DEF RepTypes, Reading
<1>2. CASE DayPasses
  <2>1. repDay' = repDay + 1 /\ repDecs' = repDecs /\ repPos' = repPos
    BY <1>2 DEF DayPasses, repTables
  <2>2. \A i \in 1..shown : OnFirstPages(i)' = OnFirstPages(i)
    BY <2>1 DEF OnFirstPages
  <2> QED BY <1>1, <2>1, <2>2 DEF Reading
<1>3. CASE DecisionStored
  <2>1. repDecs' = Append(repDecs, repDay) /\ repDay' = repDay
    BY <1>3 DEF DecisionStored
  <2>2. /\ Len(repDecs') = Len(repDecs) + 1 /\ DOMAIN repDecs' = 1..Len(repDecs) + 1
        /\ \A i \in DOMAIN repDecs : repDecs'[i] = repDecs[i]
        /\ repDecs'[Len(repDecs) + 1] = repDay
    BY <1>1, <2>1
  <2>3. ASSUME NEW i \in DOMAIN repDecs', i > shown
        PROVE  repDecs'[i] >= last
    <3>1. i \in DOMAIN repDecs \/ i = Len(repDecs) + 1
      BY <1>1, <2>2
    <3> QED BY <1>1, <2>2, <2>3, <3>1 DEF Reading
  <2>4. \A i \in 1..shown : OnFirstPages(i)' = OnFirstPages(i)
    BY <1>1, <1>3, PositionsStay
  <2> QED BY <1>1, <2>1, <2>2, <2>3, <2>4 DEF Reading
<1>4. CASE \E store \in PagedStores : RowStored(store)
  <2>1. repDay' = repDay /\ repDecs' = repDecs
    BY <1>4 DEF RowStored
  <2>2. \A i \in 1..shown : OnFirstPages(i)' => OnFirstPages(i)
    BY <1>1, <1>4, RowsMoveAway
  <2> QED BY <1>1, <2>1, <2>2 DEF Reading
<1> QED BY <1>2, <1>3, <1>4 DEF EnvironmentActs

LEMMA EnvironmentStep ==
    ASSUME RepInv, EnvironmentActs
    PROVE  RepInv'
<1>1. UNCHANGED <<repGen, repFiles, repSaved>>
  BY DEF EnvironmentActs, DayPasses, DecisionStored, RowStored
<1>2. GenerationsTrue' /\ DocumentsTrue'
  BY <1>1, ReadingStays DEF RepInv, GenerationsTrue, DocumentsTrue
<1>3. /\ repDay \in Nat /\ repDecs \in Seq(Nat) /\ Len(repDecs) \in Nat
      /\ DOMAIN repDecs = 1..Len(repDecs) /\ RepTypes
  BY DEF RepInv, RepTypes
<1>4. CASE DayPasses
  <2>1. repDay' = repDay + 1 /\ repDecs' = repDecs /\ repPos' = repPos
    BY <1>4 DEF DayPasses, repTables
  <2> QED BY <1>1, <1>2, <1>3, <2>1 DEF RepInv, RepTypes, DaysInOrder
<1>5. CASE \E store \in PagedStores : RowStored(store)
  <2>1. repDay' = repDay /\ repDecs' = repDecs
    BY <1>5 DEF RowStored
  <2>2. repPos' \in Seq([PagedStores -> Nat]) /\ Len(repPos') = Len(repPos)
    BY <1>3, <1>5, RowsMoveAway
  <2>3. RepTypes'
    BY <1>1, <2>1, <2>2 DEF RepInv, RepTypes
  <2>4. DaysInOrder'
    BY <2>1 DEF RepInv, DaysInOrder
  <2> QED BY <1>2, <2>3, <2>4 DEF RepInv
<1>6. CASE DecisionStored
  <2>1. repDecs' = Append(repDecs, repDay) /\ repDay' = repDay
    BY <1>6 DEF DecisionStored
  <2>2. /\ repDecs' \in Seq(Nat)
        /\ Len(repDecs') = Len(repDecs) + 1 /\ DOMAIN repDecs' = 1..Len(repDecs) + 1
        /\ \A i \in DOMAIN repDecs : repDecs'[i] = repDecs[i] /\ repDecs[i] \in Nat
        /\ repDecs'[Len(repDecs) + 1] = repDay
    BY <1>3, <2>1
  <2>3. DaysInOrder'
    <3> SUFFICES ASSUME NEW i \in DOMAIN repDecs'
                 PROVE  /\ repDecs'[i] <= repDay
                        /\ \A j \in DOMAIN repDecs' : i <= j => repDecs'[i] <= repDecs'[j]
      BY <2>1 DEF DaysInOrder
    <3>1. ASSUME NEW j \in DOMAIN repDecs'
          PROVE  j \in DOMAIN repDecs \/ j = Len(repDecs) + 1
      BY <1>3, <2>2
    <3>2. repDecs'[i] <= repDay
      BY <1>3, <2>2, <3>1 DEF RepInv, DaysInOrder
    <3>3. ASSUME NEW j \in DOMAIN repDecs', i <= j
          PROVE  repDecs'[i] <= repDecs'[j]
      <4>1. CASE j = Len(repDecs) + 1
        BY <2>2, <3>2, <4>1
      <4>2. CASE j \in DOMAIN repDecs
        <5>1. i \in DOMAIN repDecs
          BY <1>3, <2>2, <3>3, <4>2
        <5> QED BY <2>2, <3>3, <4>2, <5>1 DEF RepInv, DaysInOrder
      <4> QED BY <3>1, <4>1, <4>2
    <3> QED BY <3>2, <3>3
  <2>4. repPos' \in Seq([PagedStores -> Nat]) /\ Len(repPos') = Len(repPos) + 1
    BY <1>3, <1>6, PositionsStay
  <2>5. RepTypes'
    BY <1>1, <1>3, <2>1, <2>2, <2>4 DEF RepInv, RepTypes
  <2> QED BY <1>2, <2>3, <2>5 DEF RepInv
<1> QED BY <1>4, <1>6, <1>5 DEF EnvironmentActs

-----------------------------------------------------------------------------
\* The steps of a generation touch neither the days nor the decisions.
LEMMA GenerationChanges ==
    ASSUME RepInv, UNCHANGED <<repDay, repDecs, repPos>>,
           NEW g \in Generators, NEW st \in GenerationType,
           repGen' = [repGen EXCEPT ![g] = st],
           st.at \in {"reading", "saving"} => Reading(st.shown, st.whole, st.period[2]),
           \A d \in repFiles' \cup repSaved' : Reading(d.doc.shown, d.doc.whole, d.id.period[2])
    PROVE  RepInv'
<1>1. \A shown, whole, last : Reading(shown, whole, last)' = Reading(shown, whole, last)
  BY DEF Reading, OnFirstPages
<1>2. RepTypes' /\ DaysInOrder'
  BY DEF RepInv, RepTypes, DaysInOrder
<1>3. \A h \in Generators : repGen'[h] = IF h = g THEN st ELSE repGen[h]
  BY DEF RepInv, RepTypes
<1>4. GenerationsTrue'
  <2> SUFFICES ASSUME NEW h \in Generators, repGen'[h].at \in {"reading", "saving"}
               PROVE  Reading(repGen'[h].shown, repGen'[h].whole, repGen'[h].period[2])
    BY <1>1 DEF GenerationsTrue
  <2>1. CASE h = g
    BY <1>3, <2>1
  <2>2. CASE h # g
    BY <1>3, <2>2 DEF RepInv, GenerationsTrue
  <2> QED BY <2>1, <2>2
<1>5. DocumentsTrue'
  BY <1>1 DEF DocumentsTrue
<1> QED BY <1>2, <1>4, <1>5 DEF RepInv

LEMMA EndedType ==
    ASSUME RepInv, NEW g \in Generators
    PROVE  Ended(g) \in GenerationType /\ Ended(g).at \in {"rest", "next"}
<1>1. repGen[g].type \in Nat
  BY DEF RepInv, RepTypes, GenerationType
<1>2. Resting \in GenerationType /\ Resting.at = "rest"
  BY DEF Resting, GenerationType
<1> DEFINE k == repGen[g].type + 1
           next == [Resting EXCEPT !.at = "next", !.type = k]
<1>3. next \in GenerationType /\ next.at = "next"
  <2>1. k \in Nat
    BY <1>1
  <2> HIDE DEF k
  <2> QED BY <1>2, <2>1 DEF GenerationType
<1> HIDE DEF next
<1>4. Ended(g) = IF g = TheCycle /\ repGen[g].type < Len(ReportTypes) THEN next ELSE Resting
  BY DEF Ended, next
<1> QED BY <1>2, <1>3, <1>4

LEMMA BeginGenerateStep ==
    ASSUME RepInv, NEW g \in Generators, NEW k \in Nat, BeginGenerate(g, k),
           UNCHANGED <<repDay, repDecs, repPos, repFiles, repSaved>>
    PROVE  RepInv'
<1> DEFINE n == Len(repDecs)
           st == [at |-> "reading", type |-> k, store |-> 1, shown |-> n,
                  period |-> ReportPeriod(n), whole |-> 1..n]
<1>1. repGen' = [repGen EXCEPT ![g] = st]
  BY DEF BeginGenerate
<1>2. n \in Nat /\ ReportPeriod(n) \in Nat \X Nat
  BY PeriodOfAll DEF RepInv, RepTypes
<1>3. Reading(n, 1..n, ReportPeriod(n)[2])
  BY ReadingBegins DEF RepInv
<1> HIDE DEF n
<1>4. /\ st \in GenerationType /\ st.shown = n /\ st.whole = 1..n
      /\ st.period = ReportPeriod(n)
  BY <1>2 DEF GenerationType
<1> HIDE DEF st
<1>5. \A d \in repFiles' \cup repSaved' : Reading(d.doc.shown, d.doc.whole, d.id.period[2])
  BY DEF RepInv, DocumentsTrue
<1> QED BY <1>1, <1>3, <1>4, <1>5, GenerationChanges

\* A store read after the decisions returns the rows of all that were shown,
\* up to the limit of its page.
LEMMA StillWholeReading ==
    ASSUME RepInv, NEW g \in Generators, repGen[g].at = "reading"
    PROVE  /\ Reading(repGen[g].shown, StillWhole(g), repGen[g].period[2])
           /\ StillWhole(g) \subseteq Nat
<1> DEFINE read == RowsRead(ReportStores[repGen[g].store])
<1>1. Reading(repGen[g].shown, repGen[g].whole, repGen[g].period[2])
  BY DEF RepInv, GenerationsTrue
<1>2. Len(repDecs) \in Nat /\ repGen[g].whole \subseteq Nat
  BY DEF RepInv, RepTypes, GenerationType
<1>3. 1..repGen[g].shown \subseteq 1..Len(repDecs)
  BY <1>1, <1>2 DEF Reading
<1>4. \A i \in 1..repGen[g].shown : OnFirstPages(i) => i \in read
  BY <1>3 DEF RowsRead, OnFirstPages
<1>5. StillWhole(g) = repGen[g].whole \cap read
  BY DEF StillWhole
<1> HIDE DEF read
<1> QED BY <1>1, <1>2, <1>4, <1>5 DEF Reading

LEMMA ReadStoreStep ==
    ASSUME RepInv, NEW g \in Generators, ReadStore(g)
    PROVE  RepInv'
<1> DEFINE whole == StillWhole(g)
           next == repGen[g].store + 1
           st == [repGen[g] EXCEPT !.whole = whole, !.store = next]
<1>1. /\ repGen[g].at = "reading" /\ repGen' = [repGen EXCEPT ![g] = st]
      /\ UNCHANGED <<repDay, repDecs, repPos, repFiles, repSaved>>
  BY DEF ReadStore, RepInv, RepTypes, repTables
<1>2. repGen[g] \in GenerationType
  BY DEF RepInv, RepTypes
<1>3. Reading(repGen[g].shown, whole, repGen[g].period[2]) /\ whole \subseteq Nat
  BY <1>1, StillWholeReading
<1>4. next \in Nat
  BY <1>2 DEF GenerationType
<1> HIDE DEF whole, next
<1>5. /\ st \in GenerationType /\ st.shown = repGen[g].shown /\ st.whole = whole
      /\ st.period = repGen[g].period
  BY <1>2, <1>3, <1>4 DEF GenerationType
<1> HIDE DEF st
<1>6. \A d \in repFiles' \cup repSaved' : Reading(d.doc.shown, d.doc.whole, d.id.period[2])
  BY <1>1 DEF RepInv, DocumentsTrue
<1> QED BY <1>1, <1>3, <1>5, <1>6, GenerationChanges

LEMMA WriteArtifactStep ==
    ASSUME RepInv, NEW g \in Generators, WriteArtifact(g)
    PROVE  RepInv'
<1> DEFINE whole == StillWhole(g)
           doc == [shown |-> repGen[g].shown, whole |-> whole]
           f == [id |-> ReportId(g), doc |-> doc]
           st == [repGen[g] EXCEPT !.whole = whole, !.at = "saving", !.shown = repGen[g].shown]
<1>1. repGen[g].at = "reading" /\ repGen[g] \in GenerationType
  BY DEF WriteArtifact, RepInv, RepTypes
<1>2. [Rendered(g) EXCEPT !.whole = whole] = doc /\ doc.shown = repGen[g].shown
  BY DEF Rendered
<1>3. [[repGen[g] EXCEPT !.whole = whole] EXCEPT !.at = "saving", !.shown = repGen[g].shown] = st
  BY <1>1 DEF GenerationType
<1>4. /\ repFiles' \subseteq repFiles \cup {f} /\ repSaved' = repSaved
      /\ repGen' = [repGen EXCEPT ![g] = st]
      /\ UNCHANGED <<repDay, repDecs, repPos>>
  BY <1>2, <1>3 DEF WriteArtifact, repTables
<1>5. Reading(repGen[g].shown, whole, repGen[g].period[2]) /\ whole \subseteq Nat
  BY <1>1, StillWholeReading
<1> HIDE DEF whole
<1>6. /\ st \in GenerationType /\ st.shown = repGen[g].shown /\ st.whole = whole
      /\ st.period = repGen[g].period
  BY <1>1, <1>5 DEF GenerationType
<1>7. f.id.period = repGen[g].period /\ f.doc.shown = repGen[g].shown /\ f.doc.whole = whole
  BY DEF ReportId
<1> HIDE DEF st, f
<1>8. \A d \in repFiles' \cup repSaved' : Reading(d.doc.shown, d.doc.whole, d.id.period[2])
  BY <1>4, <1>5, <1>7 DEF RepInv, DocumentsTrue
<1> QED BY <1>4, <1>5, <1>6, <1>8, GenerationChanges

LEMMA SaveReportStep ==
    ASSUME RepInv, NEW g \in Generators, SaveReport(g)
    PROVE  RepInv'
<1> DEFINE row == [id |-> RowId(g), doc |-> Rendered(g)]
<1>1. /\ repGen[g].at = "saving" /\ repGen' = [repGen EXCEPT ![g] = Ended(g)]
      /\ repSaved' \subseteq repSaved \cup {row} /\ repFiles' = repFiles
      /\ UNCHANGED <<repDay, repDecs, repPos>>
  BY DEF SaveReport, repTables
<1>2. /\ row.id.period = repGen[g].period /\ row.doc.shown = repGen[g].shown
      /\ row.doc.whole = repGen[g].whole
  BY DEF RowId, ReportId, Rendered
<1> HIDE DEF row
<1>3. Reading(repGen[g].shown, repGen[g].whole, repGen[g].period[2])
  BY <1>1 DEF RepInv, GenerationsTrue
<1>4. \A d \in repFiles' \cup repSaved' : Reading(d.doc.shown, d.doc.whole, d.id.period[2])
  BY <1>1, <1>2, <1>3 DEF RepInv, DocumentsTrue
<1> QED BY <1>1, <1>4, EndedType, GenerationChanges

LEMMA GenerationEndsStep ==
    ASSUME RepInv, NEW g \in Generators, RenderRaises(g) \/ StatementRaises(g)
    PROVE  RepInv'
<1>1. /\ repGen' = [repGen EXCEPT ![g] = Ended(g)]
      /\ UNCHANGED <<repDay, repDecs, repPos, repFiles, repSaved>>
  BY DEF RenderRaises, StatementRaises, Caught, repTables
<1>2. \A d \in repFiles' \cup repSaved' : Reading(d.doc.shown, d.doc.whole, d.id.period[2])
  BY <1>1 DEF RepInv, DocumentsTrue
<1> QED BY <1>1, <1>2, EndedType, GenerationChanges

LEMMA ReportServiceRestartsStep ==
    ASSUME RepInv, ReportServiceRestarts
    PROVE  RepInv'
<1>1. /\ repGen' = [g \in Generators |-> Resting]
      /\ UNCHANGED <<repDay, repDecs, repPos, repFiles, repSaved>>
  BY DEF ReportServiceRestarts, repTables
<1>2. Resting \in GenerationType /\ Resting.at = "rest"
  BY DEF Resting, GenerationType
<1>3. RepTypes' /\ DaysInOrder'
  BY <1>1, <1>2 DEF RepInv, RepTypes, DaysInOrder
<1>4. GenerationsTrue' /\ DocumentsTrue'
  BY <1>1, <1>2 DEF RepInv, GenerationsTrue, DocumentsTrue, Reading, OnFirstPages
<1> QED BY <1>3, <1>4 DEF RepInv

\* Artifacts and rows of the report service show the whole chain of every
\* decision whose rows are on the first pages, and a row can lack only
\* decisions of the last day of its period, for any number of requests beside
\* the cycle and whatever is committed, in any order, while they read.
THEOREM ReportsRelyOnOrder == RepSpec => []ReportsSound
<1>1. RepInit => RepInv
  <2> SUFFICES ASSUME RepInit PROVE RepInv
    OBVIOUS
  <2>1. Resting \in GenerationType /\ Resting.at = "rest"
    BY DEF Resting, GenerationType
  <2> QED BY <2>1 DEF RepInit, RepInv, RepTypes, DaysInOrder, GenerationsTrue, DocumentsTrue
<1>2. RepInv /\ [RepNext]_repVars => RepInv'
  <2> SUFFICES ASSUME RepInv, [RepNext]_repVars PROVE RepInv'
    OBVIOUS
  <2>1. CASE EnvironmentActs
    BY <2>1, EnvironmentStep
  <2>2. CASE RunReportCycle
    <3>1. /\ TheCycle \in Generators /\ repGen[TheCycle].type \in Nat
      BY DEF Generators, RepInv, RepTypes, GenerationType
    <3>2. UNCHANGED <<repDay, repDecs, repPos, repFiles, repSaved>>
      BY <2>2 DEF RunReportCycle, repTables
    <3> QED BY <2>2, <3>1, <3>2, BeginGenerateStep DEF RunReportCycle
  <2>3. CASE \E c \in RepClients : GenerateHandler(c)
    <3>1. PICK c \in RepClients, k \in 1..Len(ReportTypes) : BeginGenerate(c, k)
      BY <2>3 DEF GenerateHandler
    <3>2. UNCHANGED <<repDay, repDecs, repPos, repFiles, repSaved>>
      BY <2>3 DEF GenerateHandler, repTables
    <3>3. c \in Generators /\ k \in Nat
      BY <3>1 DEF Generators
    <3> QED BY <3>1, <3>2, <3>3, BeginGenerateStep
  <2>4. CASE \E g \in Generators : Generation(g) \/ StatementRaises(g)
    BY <2>4, ReadStoreStep, WriteArtifactStep, SaveReportStep, GenerationEndsStep DEF Generation
  <2>5. CASE ReportServiceRestarts
    BY <2>5, ReportServiceRestartsStep
  <2>6. CASE UNCHANGED repVars
    <3>1. UNCHANGED <<repDay, repDecs, repPos, repGen, repFiles, repSaved>>
      BY <2>6 DEF repVars, repTables
    <3> QED BY <3>1 DEF RepInv, RepTypes, DaysInOrder, GenerationsTrue, DocumentsTrue, Reading,
                        OnFirstPages
  <2> QED BY <2>1, <2>2, <2>3, <2>4, <2>5, <2>6 DEF RepNext, EnvironmentActs
<1>3. RepInv => ReportsSound
  BY ReadingsSound
<1> QED BY <1>1, <1>2, <1>3, PTL DEF RepSpec

-----------------------------------------------------------------------------
(* Decision Authority.  The tables of the code give each role what its     *)
(* rank gives it; the invariant carries through the awaits of the handler  *)
(* what the request was cleared for.                                       *)

LEMMA RanksOfRoles ==
    ASSUME NEW role \in Roles
    PROVE  /\ Rank[role] \in 1..4
           /\ RoleCan(role, "read") <=> Rank[role] >= 1
           /\ RoleCan(role, "ack") <=> Rank[role] >= 2
           /\ RoleCan(role, "propose") <=> Rank[role] >= 3
           /\ RoleCan(role, "commit") <=> Rank[role] >= 3
           /\ RoleCan(role, "execute") <=> Rank[role] >= 4
           /\ RoleCan(role, "cross_tenant") <=> Rank[role] = 4
<1>1. CASE role = "viewer"
  BY <1>1 DEF Rank, RoleCan, RolePermissions
<1>2. CASE role = "operator"
  BY <1>2 DEF Rank, RoleCan, RolePermissions
<1>3. CASE role = "admin"
  BY <1>3 DEF Rank, RoleCan, RolePermissions
<1>4. CASE role = "superadmin"
  BY <1>4 DEF Rank, RoleCan, RolePermissions
<1> QED BY <1>1, <1>2, <1>3, <1>4 DEF Roles

LEMMA CommitByRank ==
    ASSUME NEW role \in Roles, NEW risk \in Risks
    PROVE  CommitAllowed(role, risk) <=> Rank[role] >= Needed("commit", risk)
<1>1. CASE role = "viewer"
  BY <1>1 DEF Rank, RoleCan, RolePermissions, CommitAllowed, CommitRiskCeiling, Needed, Risks
<1>2. CASE role = "operator"
  BY <1>2 DEF Rank, RoleCan, RolePermissions, CommitAllowed, CommitRiskCeiling, Needed, Risks
<1>3. CASE role = "admin"
  BY <1>3 DEF Rank, RoleCan, RolePermissions, CommitAllowed, CommitRiskCeiling, Needed, Risks
<1>4. CASE role = "superadmin"
  BY <1>4 DEF Rank, RoleCan, RolePermissions, CommitAllowed, CommitRiskCeiling, Needed, Risks
<1> QED BY <1>1, <1>2, <1>3, <1>4 DEF Roles

\* What the rank of a role covers.
Within(r) ==
    /\ Rank[r.role] >= Needed(r.action, r.risk)
    /\ ConfidenceTenant(r) # r.own => Rank[r.role] = 4

\* authorize_action says yes to what the rank covers and to nothing else.
LEMMA AuthorizedByRank ==
    ASSUME NEW r, r.role \in Roles, r.action \in GateActions,
           r.action = "commit" => r.risk \in Risks
    PROVE  AuthorizeAction(r.role, r.own, r.action,
                           IF r.action = "commit" THEN r.risk ELSE "unstated", r.tenant)
             <=> Within(r)
<1>1. (IF r.action = "commit" THEN CommitAllowed(r.role, r.risk) ELSE RoleCan(r.role, r.action))
        <=> Rank[r.role] >= Needed(r.action, r.risk)
  BY RanksOfRoles, CommitByRank DEF Needed, GateActions
<1>2. (r.tenant \in {NoTenant, r.own} \/ RoleCan(r.role, "cross_tenant"))
        <=> (ConfidenceTenant(r) # r.own => Rank[r.role] = 4)
  BY RanksOfRoles DEF ConfidenceTenant
<1> QED BY <1>1, <1>2 DEF AuthorizeAction, Within

\* The other deciders of the repository, on any request.
LEMMA OtherDeciders ==
    ASSUME NEW role \in Roles, NEW action \in GateActions, NEW risk \in Risks \cup {"unstated"},
           NEW requested, NEW own
    PROVE  /\ UserServiceAuthorize(role, action, risk, requested, own)
                <=> AuthorizeAction(role, own, action, risk, requested)
           /\ TenantScope(role, own, requested) = ResolveTenant(role, own, requested)
           /\ AuthorityAllowed("decision", role) <=> CommitAllowed(role, "low")
           /\ ExecutionAuthorized(role, risk) => CommitAllowed(role, risk)
<1>1. UserServiceAuthorize(role, action, risk, requested, own)
        <=> AuthorizeAction(role, own, action, risk, requested)
  BY DEF UserServiceAuthorize, AuthorizeAction
<1>2. TenantScope(role, own, requested) = ResolveTenant(role, own, requested)
  BY DEF TenantScope, ResolveTenant
<1>3. AuthorityAllowed("decision", role) <=> RoleCan(role, "commit")
  BY DEF AuthorityAllowed, CapabilityPolicies, Policy
<1>4. "low" \in Risks
  BY DEF Risks
<1>5. CommitAllowed(role, "low") <=> RoleCan(role, "commit")
  BY <1>4, RanksOfRoles, CommitByRank DEF Needed
<1>6. ExecutionAuthorized(role, risk) => CommitAllowed(role, risk)
  BY RanksOfRoles DEF ExecutionAuthorized, CommitAllowed
<1> QED BY <1>1, <1>2, <1>3, <1>5, <1>6

\* The two tables of the boundary: what a capability may pass on to.
LEMMA BoundaryTables ==
    ASSUME NEW s \in DOMAIN CanonicalFlow, NEW t \in DOMAIN CapabilityPolicies
    PROVE  /\ TransitionAllowed(s, t) <=> t \in CanonicalFlow[s]
           /\ TransitionAllowed(s, t) => s \in CapabilityPolicies[t].inputs
<1>1. s \in {"observation", "evidence", "context", "pattern", "anomaly", "hypothesis",
             "insight", "recommendation", "decision"}
  BY DEF CanonicalFlow
<1>2. /\ s \in DOMAIN CapabilityPolicies
      /\ CapabilityPolicies[s].outputs = CanonicalFlow[s]
  <2>1. CASE s = "observation"
    BY <2>1 DEF CapabilityPolicies, Policy, CanonicalFlow
  <2>2. CASE s = "evidence"
    BY <2>2 DEF CapabilityPolicies, Policy, CanonicalFlow
  <2>3. CASE s = "context"
    BY <2>3 DEF CapabilityPolicies, Policy, CanonicalFlow
  <2>4. CASE s = "pattern"
    BY <2>4 DEF CapabilityPolicies, Policy, CanonicalFlow
  <2>5. CASE s = "anomaly"
    BY <2>5 DEF CapabilityPolicies, Policy, CanonicalFlow
  <2>6. CASE s = "hypothesis"
    BY <2>6 DEF CapabilityPolicies, Policy, CanonicalFlow
  <2>7. CASE s = "insight"
    BY <2>7 DEF CapabilityPolicies, Policy, CanonicalFlow
  <2>8. CASE s = "recommendation"
    BY <2>8 DEF CapabilityPolicies, Policy, CanonicalFlow
  <2>9. CASE s = "decision"
    BY <2>9 DEF CapabilityPolicies, Policy, CanonicalFlow
  <2> QED BY <1>1, <2>1, <2>2, <2>3, <2>4, <2>5, <2>6, <2>7, <2>8, <2>9
<1>3. t \in CanonicalFlow[s] => s \in CapabilityPolicies[t].inputs
  BY <1>1 DEF CapabilityPolicies, Policy, CanonicalFlow
<1> QED BY <1>2, <1>3 DEF TransitionAllowed

-----------------------------------------------------------------------------
\* What a request has shown when it waits for the confidence store.
Cleared(r) ==
    /\ r.header = "bearer" /\ ~gateSeen
    /\ r.action \in {"propose", "commit"}
    /\ r.action = "commit" => r.risk \in Risks
    /\ Within(r)

Proved(r) ==
    r.action \in {"propose", "commit"} => \E row \in gateRows : BindingFound(r, row)

GateInv ==
    /\ gateRequest \in GateRequests
    /\ gateAt \in {"waiting", "authenticate", "decide", "provenance", "answered"}
    /\ gateAt # "answered" => gateStatus = 0
    /\ gateAt = "decide" => gateRequest.header = "bearer" /\ ~gateSeen
    /\ gateAt = "provenance" => Cleared(gateRequest)
    /\ gateStatus = 200 =>
         /\ gateRequest.header = "bearer" /\ ~gateSeen
         /\ gateRequest.action \in GateActions
         /\ gateRequest.action = "commit" => gateRequest.risk \in Risks
         /\ Within(gateRequest) /\ Proved(gateRequest)
    /\ gateStatus = 403 /\ Within(gateRequest) => gateRequest.action \in {"propose", "commit"}

LEMMA RequestType ==
    ASSUME NEW r \in GateRequests
    PROVE  r.role \in Roles /\ r.action \in GateActions \cup {"delete"}
<1>1. CASE r = NoRequest
  BY <1>1 DEF NoRequest, Roles, GateActions
<1>2. CASE r # NoRequest
  BY <1>2 DEF GateRequests
<1> QED BY <1>1, <1>2

LEMMA GateInvSound ==
    ASSUME GateInv
    PROVE  AuthorityConsistent
<1>1. GateFollowsRank
  <2>1. gateStatus = 200 /\ gateRequest.action \in {"propose", "commit"} =>
          \E row \in gateRows :
             /\ row.id = gateRequest.confidence
             /\ row.tenant = (IF gateRequest.tenant = NoTenant THEN gateRequest.own
                             ELSE gateRequest.tenant)
             /\ \/ gateRequest.target_type = row.target.type
                \/ gateRequest.target_type = Unstated /\ row.target.type = "hypothesis"
             /\ gateRequest.target_id # Unstated => row.target.id = gateRequest.target_id
    BY DEF GateInv, Proved, BindingFound, ConfidenceTenant
  <2> QED BY <2>1 DEF GateInv, GateFollowsRank, Within
<1>2. DecidersAgree
  <2> DEFINE r == gateRequest
             risk == IF r.risk \in Risks THEN r.risk ELSE "unstated"
  <2>1. r.role \in Roles /\ risk \in Risks \cup {"unstated"}
    BY RequestType DEF GateInv
  <2>2. "read" \in GateActions
    BY DEF GateActions
  <2> HIDE DEF r, risk
  <2>3. /\ r.action \in GateActions =>
             (UserServiceAuthorize(r.role, r.action, risk, r.tenant, r.own)
                <=> AuthorizeAction(r.role, r.own, r.action, risk, r.tenant))
        /\ TenantScope(r.role, r.own, r.tenant) = ResolveTenant(r.role, r.own, r.tenant)
        /\ AuthorityAllowed("decision", r.role) <=> CommitAllowed(r.role, "low")
        /\ ExecutionAuthorized(r.role, risk) => CommitAllowed(r.role, risk)
    BY <2>1, <2>2, OtherDeciders
  <2> QED BY <2>3, BoundaryTables DEF DecidersAgree, r, risk
<1> QED BY <1>1, <1>2 DEF AuthorityConsistent

LEMMA DecideStep ==
    ASSUME GateInv, Decide
    PROVE  GateInv'
<1> DEFINE r == gateRequest
           risk == IF r.action = "commit" THEN r.risk ELSE "unstated"
<1>1. /\ gateAt = "decide" /\ gateStatus = 0 /\ r.header = "bearer" /\ ~gateSeen
      /\ r \in GateRequests /\ r.role \in Roles /\ gateRequest' = gateRequest
      /\ UNCHANGED <<gateSeen, gateRows>>
  BY RequestType DEF GateInv, Decide
<1>2. (Cleared(r) <=> Cleared(gateRequest)') /\ (Within(r) <=> Within(gateRequest)')
      /\ (Proved(r) <=> Proved(gateRequest)')
  BY <1>1 DEF Cleared, Within, Proved, BindingFound, ConfidenceTenant
<1>3. CASE BoundaryGate(r.action, r.confidence) # "ok" \/ (r.action = "commit" /\ r.risk \notin Risks)
  <2>1. gateAt' = "answered" /\ gateStatus' = 400
    BY <1>3 DEF Decide, GateAnswer
  <2> QED BY <1>1, <2>1 DEF GateInv
<1>4. CASE ~(BoundaryGate(r.action, r.confidence) # "ok" \/ (r.action = "commit" /\ r.risk \notin Risks))
  <2>1. r.action \in GateActions /\ (r.action = "commit" => r.risk \in Risks)
    BY <1>4 DEF BoundaryGate
  <2>2. AuthorizeAction(r.role, r.own, r.action, risk, r.tenant) <=> Within(r)
    BY <1>1, <2>1, AuthorizedByRank
  <2>3. CASE ~Within(r)
    <3>1. gateAt' = "answered" /\ gateStatus' = 403
      BY <1>4, <2>2, <2>3 DEF Decide, GateAnswer
    <3> QED BY <1>1, <1>2, <2>3, <3>1 DEF GateInv
  <2>4. CASE Within(r) /\ r.action \in {"propose", "commit"}
    <3>1. gateAt' = "provenance" /\ gateStatus' = gateStatus
      BY <1>4, <2>2, <2>4 DEF Decide, GateAnswer
    <3>2. Cleared(r)
      BY <1>1, <2>1, <2>4 DEF Cleared
    <3> QED BY <1>1, <1>2, <3>1, <3>2 DEF GateInv
  <2>5. CASE Within(r) /\ r.action \notin {"propose", "commit"}
    <3>1. gateAt' = "answered" /\ gateStatus' = 200
      BY <1>4, <2>2, <2>5 DEF Decide, GateAnswer
    <3>2. Proved(r)
      BY <2>5 DEF Proved
    <3> QED BY <1>1, <1>2, <2>1, <2>5, <3>1, <3>2 DEF GateInv
  <2> QED BY <2>3, <2>4, <2>5
<1> QED BY <1>3, <1>4

LEMMA VerifyProvenanceStep ==
    ASSUME GateInv, VerifyProvenance
    PROVE  GateInv'
<1> DEFINE r == gateRequest
           found == \E row \in gateRows : BindingFound(r, row)
<1>1. /\ Cleared(r) /\ gateRequest' = gateRequest /\ gateAt' = "answered"
      /\ gateStatus' = 400 \/ (gateStatus' = 200 /\ found) \/ gateStatus' = 403
      /\ UNCHANGED <<gateSeen, gateRows>>
  BY DEF GateInv, VerifyProvenance, GateAnswer
<1>2. (Within(r) <=> Within(gateRequest)') /\ (Proved(r) <=> Proved(gateRequest)')
  BY <1>1 DEF Within, Proved, BindingFound, ConfidenceTenant
<1>3. found => Proved(r)
  BY DEF Proved
<1>4. r.action \in GateActions
  BY <1>1 DEF Cleared, GateActions
<1> HIDE DEF found
<1> QED BY <1>1, <1>2, <1>3, <1>4 DEF GateInv, Cleared

\* The rest of the system meanwhile: no row of the store goes away.
LEMMA RestOfSystemStep ==
    ASSUME GateInv, UNCHANGED <<gateRequest, gateAt, gateStatus, gateSeen>>,
           gateRows \subseteq gateRows'
    PROVE  GateInv'
<1>1. /\ Within(gateRequest)' <=> Within(gateRequest)
      /\ Cleared(gateRequest)' <=> Cleared(gateRequest)
      /\ Proved(gateRequest) => Proved(gateRequest)'
  BY DEF Within, Cleared, Proved, BindingFound, ConfidenceTenant
<1> QED BY <1>1 DEF GateInv

\* Whatever tokens are revoked, rows are written and Redis does meanwhile,
\* action_handler says yes to what the rank of the role covers, a propose or a
\* commit with a confidence of the tenant that is about what the client says
\* it is about, and every decider of the repository would say the same, for any
\* tenants, confidence ids and targets.
THEOREM AuthorityOfActions == GateSpec => []AuthorityConsistent
<1>1. GateInit => GateInv
  <2> SUFFICES ASSUME GateInit PROVE GateInv
    OBVIOUS
  <2>1. NoRequest \in GateRequests
    BY DEF GateRequests
  <2>2. gateRequest = NoRequest /\ gateAt = "waiting" /\ gateStatus = 0
    BY DEF GateInit
  <2> QED BY <2>1, <2>2 DEF GateInv
<1>2. GateInv /\ [GateNext]_gateVars => GateInv'
  <2> SUFFICES ASSUME GateInv, [GateNext]_gateVars PROVE GateInv'
    OBVIOUS
  <2>1. CASE \E r \in GateRequests : GateReceive(r)
    BY <2>1 DEF GateInv, GateReceive
  <2>2. CASE Authenticate
    <3>1. /\ gateAt = "authenticate" /\ gateStatus = 0 /\ gateRequest' = gateRequest
          /\ gateSeen' = gateRevoked
          /\ \/ /\ gateAt' = "decide" /\ gateStatus' = gateStatus
                /\ gateRequest.header = "bearer" /\ ~gateRevoked
             \/ gateAt' = "answered" /\ gateStatus' = 401
      BY <2>2 DEF Authenticate, GateAnswer, GateInv
    <3> QED BY <3>1 DEF GateInv
  <2>3. CASE Decide \/ VerifyProvenance
    BY <2>3, DecideStep, VerifyProvenanceStep
  <2>4. CASE GateReturns
    <3>1. NoRequest \in GateRequests
      BY DEF GateRequests
    <3> QED BY <2>4, <3>1 DEF GateInv, GateReturns
  <2>5. CASE TokenRevoked \/ RedisChanges
    BY <2>5, RestOfSystemStep DEF TokenRevoked, RedisChanges
  <2>6. CASE \E id \in GateConfidences, t \in GateTenants,
                target \in GateTargets : ConfidenceStored(id, t, target)
    <3>1. UNCHANGED <<gateRequest, gateAt, gateStatus, gateSeen>> /\ gateRows = {}
      BY <2>6 DEF ConfidenceStored
    <3> QED BY <3>1, RestOfSystemStep
  <2>7. CASE UNCHANGED gateVars
    BY <2>7, RestOfSystemStep DEF gateVars
  <2> QED BY <2>1, <2>2, <2>3, <2>4, <2>5, <2>6, <2>7 DEF GateNext
<1>3. GateInv => AuthorityConsistent
  BY GateInvSound
<1> QED BY <1>1, <1>2, <1>3, PTL DEF GateSpec

-----------------------------------------------------------------------------
(* The trace.  A reference leads to a later table of TraceOrder, so a read *)
(* never adds to what an earlier one should have found; a trace with       *)
(* every reference found is closed under them.                             *)

\* Where get_trace reads a table.
Place ==
    [report |-> 0, decision |-> 1, recommendation |-> 2, confidence |-> 3, hypothesis |-> 4,
     anomaly |-> 5, pattern |-> 6, context |-> 7, evidence |-> 8, observation |-> 9]

Tables == {"report"} \cup Range(TraceOrder)

LEMMA PlacesOfTables ==
    /\ Len(TraceOrder) = 9 /\ DOMAIN TraceOrder = 1..9
    /\ \A t \in Tables : Place[t] \in 0..9 /\ (Place[t] = 0 <=> t = "report")
    /\ \A k \in 1..9 : TraceOrder[k] \in Tables /\ Place[TraceOrder[k]] = k
    /\ \A t, u \in Tables : Place[t] = Place[u] => t = u
<1>1. Len(TraceOrder) = 9 /\ DOMAIN TraceOrder = 1..9
  BY DEF TraceOrder
<1>2. Tables = {"report", "decision", "recommendation", "confidence", "hypothesis", "anomaly",
                "pattern", "context", "evidence", "observation"}
  BY <1>1 DEF Tables, Range, TraceOrder
<1>3. \A t \in Tables : Place[t] \in 0..9 /\ (Place[t] = 0 <=> t = "report")
  BY <1>2 DEF Place
<1>4. \A k \in 1..9 : TraceOrder[k] \in Tables /\ Place[TraceOrder[k]] = k
  BY <1>2 DEF TraceOrder, Place
<1>5. \A t, u \in Tables : Place[t] = Place[u] => t = u
  BY <1>2 DEF Place
<1> QED BY <1>1, <1>3, <1>4, <1>5

LEMMA ColumnsLeadOn ==
    ASSUME NEW c \in TraceColumns
    PROVE  /\ c.from \in Tables /\ c.to \in Tables
           /\ Place[c.from] < Place[c.to] /\ Place[c.from] \in 0..9 /\ Place[c.to] \in 1..9
           /\ c.to = "confidence" =>
                /\ c.name = "confidence_id" /\ c.from \in {"decision", "recommendation"}
           /\ c.relation = "calibrates" =>
                c.from = "confidence" /\ c.name = "target_id" /\ c.to = "hypothesis"
<1>1. Tables = {"report", "decision", "recommendation", "confidence", "hypothesis", "anomaly",
                "pattern", "context", "evidence", "observation"}
  BY DEF Tables, Range, TraceOrder
<1> QED BY <1>1 DEF TraceColumns, Column, Place

LEMMA ColumnsOfRecommendation ==
    /\ Column("decision", "recommendation_id", "recommendation", "commits") \in TraceColumns
    /\ Column("recommendation", "hypothesis_id", "hypothesis", "explains") \in TraceColumns
BY DEF TraceColumns

Followed(c) == c.relation # "calibrates"

Refs(r, c) == TraceRefs[r][c.name]

LEMMA TypesOfRows ==
    ASSUME NEW r \in AllTraceRows
    PROVE  /\ TypeOfRow(r) \in Tables
           /\ TypeOfRow(r) = "report" <=> r = TraceReport
<1>1. "report" \notin Range(TraceOrder)
  BY DEF Range, TraceOrder
<1> QED BY <1>1, TraceAssumption DEF TypeOfRow, AllTraceRows, Tables

LEMMA ReferencedRows ==
    ASSUME NEW r \in AllTraceRows, NEW c \in TraceColumns, TypeOfRow(r) = c.from,
           NEW i \in Refs(r, c)
    PROVE  i \in AllTraceRows /\ i \in TraceRows /\ TypeOfRow(i) = c.to /\ i \in RefsOf(r)
<1>1. i \in TraceRows /\ TraceTypeOf[i] = c.to
  BY TraceAssumption DEF Refs
<1>2. TypeOfRow(i) = c.to /\ i \in AllTraceRows
  BY <1>1, TraceAssumption DEF TypeOfRow, AllTraceRows
<1>3. i \in RefsOf(r)
  BY DEF RefsOf, Refs
<1> QED BY <1>1, <1>2, <1>3

\* The provenance is closed itself, and part of every closed set.
LEMMA ProvenanceIsLeast ==
    /\ Provenance \subseteq AllTraceRows
    /\ TraceReport \in Provenance
    /\ \A r \in Provenance : RefsOf(r) \subseteq Provenance
    /\ \A S \in SUBSET AllTraceRows : ReferencesClosed(S) => Provenance \subseteq S
<1>1. TraceReport \in Provenance
  BY DEF Provenance, ReferencesClosed, AllTraceRows
<1>2. ASSUME NEW r \in Provenance, NEW i \in RefsOf(r)
      PROVE  i \in Provenance
  <2>1. r \in AllTraceRows
    BY DEF Provenance
  <2>2. PICK c \in TraceColumns : c.from = TypeOfRow(r) /\ i \in Refs(r, c)
    BY <1>2 DEF RefsOf, Refs
  <2>3. i \in AllTraceRows
    BY <2>1, <2>2, ReferencedRows
  <2>4. ASSUME NEW S \in SUBSET AllTraceRows, ReferencesClosed(S)
        PROVE  i \in S
    <3>1. r \in S
      BY <2>4 DEF Provenance
    <3> QED BY <1>2, <2>4, <3>1 DEF ReferencesClosed
  <2> QED BY <2>3, <2>4 DEF Provenance
<1>3. Provenance \subseteq AllTraceRows
  BY DEF Provenance
<1>4. \A S \in SUBSET AllTraceRows : ReferencesClosed(S) => Provenance \subseteq S
  BY DEF Provenance
<1> QED BY <1>1, <1>2, <1>3, <1>4

-----------------------------------------------------------------------------
Answers == {"none", "404", "assembling", "partial", "complete"}

\* What was read belongs to its table and to the provenance, and is stored.
ReadsTrue ==
    /\ traceStored \subseteq AllTraceRows /\ traceAsked \subseteq traceStored
    /\ traceRead \in [Tables -> SUBSET AllTraceRows]
    /\ \A t \in Tables : \A r \in traceRead[t] :
         TypeOfRow(r) = t /\ r \in Provenance /\ r \in traceStored

\* The tables before the position are read, the others are not.
ReadsStaged ==
    /\ traceStep \in 0..10
    /\ \A t \in Tables : Place[t] >= traceStep => traceRead[t] = {}
    /\ \A c \in TraceColumns : Followed(c) /\ Place[c.to] < traceStep =>
         \A r \in traceRead[c.from] : Refs(r, c) \cap traceAsked \subseteq traceRead[c.to]
    /\ \A t \in Tables \ {"report"} : \A i \in traceRead[t] :
         \E c \in TraceColumns : /\ Followed(c) /\ c.to = t
                                 /\ \E r \in traceRead[c.from] : i \in Refs(r, c)

AnswerStaged ==
    /\ traceAnswer.status \in Answers
    /\ traceStep = 0 => traceAnswer.status = "none"
    /\ traceStep \in 1..9 => traceAnswer.status = "none"
    /\ traceStep \in 1..10 /\ traceAnswer.status # "404" => TraceReport \in traceRead["report"]
    /\ traceStep = 10 => traceAnswer.status # "none"

TraceInv == ReadsTrue /\ ReadsStaged /\ AnswerStaged /\ TraceTruthful

EveryReferenceFound ==
    \A c \in TraceColumns : \A r \in traceRead[c.from] : Refs(r, c) \subseteq traceRead[c.to]

LEMMA ReferencesAre ==
    ASSUME NEW x
    PROVE  x \in References <=>
             \E c \in TraceColumns : \E r \in traceRead[c.from] : \E i \in Refs(r, c) : x = <<r, c, i>>
BY DEF References, Refs

LEMMA WarningsAreMisses ==
    ValidateProvenance = {} <=> EveryReferenceFound
<1>1. ASSUME EveryReferenceFound
      PROVE  ValidateProvenance = {}
  BY <1>1, ReferencesAre DEF EveryReferenceFound, ValidateProvenance
<1>2. ASSUME ValidateProvenance = {}, NEW c \in TraceColumns, NEW r \in traceRead[c.from],
             NEW i \in Refs(r, c)
      PROVE  i \in traceRead[c.to]
  <2> DEFINE x == <<r, c, i>>
  <2>1. x \in References
    BY ReferencesAre
  <2>2. x[3] \in traceRead[x[2].to]
    BY <1>2, <2>1 DEF ValidateProvenance
  <2> QED BY <2>2
<1> QED BY <1>1, <1>2 DEF EveryReferenceFound

LEMMA NodesAre ==
    ASSUME ReadsTrue
    PROVE  /\ \A r : r \in TraceNodes <=> \E t \in Tables : r \in traceRead[t]
           /\ TraceNodes \subseteq Provenance \cap traceStored
           /\ \A r \in TraceNodes : r \in traceRead[TypeOfRow(r)]
<1>1. \A r : r \in TraceNodes <=> \E t \in Tables : r \in traceRead[t]
  BY DEF TraceNodes, ReadsTrue
<1> QED BY <1>1 DEF ReadsTrue

\* With every reference found, what was read is the provenance.
LEMMA FoundIsClosure ==
    ASSUME ReadsTrue, EveryReferenceFound, TraceReport \in traceRead["report"]
    PROVE  /\ TraceNodes = Provenance
           /\ \A r \in Provenance : \A i \in RefsOf(r) :
                \E e \in TraceEdges : e[1] = r /\ e[2] = i
<1>1. "report" \in Tables
  BY DEF Tables
<1>2. ReferencesClosed(TraceNodes)
  <2>1. TraceReport \in TraceNodes
    BY <1>1, NodesAre
  <2>2. ASSUME NEW r \in TraceNodes, NEW i \in RefsOf(r)
        PROVE  i \in TraceNodes
    <3>1. PICK c \in TraceColumns : c.from = TypeOfRow(r) /\ i \in Refs(r, c)
      BY <2>2 DEF RefsOf, Refs
    <3>2. i \in traceRead[c.to] /\ c.to \in Tables
      BY <3>1, NodesAre, ColumnsLeadOn DEF EveryReferenceFound
    <3> QED BY <3>2, NodesAre
  <2> QED BY <2>1, <2>2 DEF ReferencesClosed
<1>3. TraceNodes \subseteq AllTraceRows
  BY NodesAre, ProvenanceIsLeast
<1>4. TraceNodes = Provenance
  BY <1>2, <1>3, NodesAre, ProvenanceIsLeast
<1>5. ASSUME NEW r \in Provenance, NEW i \in RefsOf(r)
      PROVE  \E e \in TraceEdges : e[1] = r /\ e[2] = i
  <2>1. PICK c \in TraceColumns : c.from = TypeOfRow(r) /\ i \in Refs(r, c)
    BY <1>5 DEF RefsOf, Refs
  <2>2. r \in traceRead[c.from] /\ i \in traceRead[c.to]
    BY <1>4, <2>1, NodesAre DEF EveryReferenceFound
  <2> DEFINE x == <<r, c, i>>
             e == <<r, i, c.relation>>
  <2>3. x \in References /\ x[3] \in traceRead[x[2].to]
    BY <2>1, <2>2, ReferencesAre
  <2>4. e = <<x[1], x[3], x[2].relation>>
    OBVIOUS
  <2>5. e \in TraceEdges
    BY <2>3, <2>4 DEF TraceEdges
  <2>6. e[1] = r /\ e[2] = i
    OBVIOUS
  <2> QED BY <2>5, <2>6
<1> QED BY <1>4, <1>5

\* When the whole provenance was stored before the request, the reads find
\* every reference, the target of a confidence among them.
LEMMA StoredIsFound ==
    ASSUME ReadsTrue, ReadsStaged, traceStep = 10, Provenance \subseteq traceAsked
    PROVE  EveryReferenceFound
<1>1. ASSUME NEW c \in TraceColumns, Followed(c), NEW r \in traceRead[c.from], NEW i \in Refs(r, c)
      PROVE  i \in traceRead[c.to]
  <2>1. r \in Provenance /\ TypeOfRow(r) = c.from /\ r \in AllTraceRows
    BY ColumnsLeadOn, ProvenanceIsLeast DEF ReadsTrue
  <2>2. i \in Provenance
    BY <2>1, ReferencedRows, ProvenanceIsLeast
  <2>3. Place[c.to] < 10
    BY ColumnsLeadOn
  <2> QED BY <1>1, <2>2, <2>3 DEF ReadsStaged
<1>2. ASSUME NEW c \in TraceColumns, ~Followed(c), NEW r \in traceRead[c.from], NEW i \in Refs(r, c)
      PROVE  i \in traceRead[c.to]
  <2> DEFINE toRec == Column("decision", "recommendation_id", "recommendation", "commits")
             toHyp == Column("recommendation", "hypothesis_id", "hypothesis", "explains")
  <2>1. c.from = "confidence" /\ c.name = "target_id" /\ c.to = "hypothesis"
    BY <1>2, ColumnsLeadOn DEF Followed
  <2>2. "confidence" \in Tables \ {"report"} /\ {"decision", "recommendation"} \subseteq Tables
    BY <2>1, ColumnsLeadOn, ColumnsOfRecommendation DEF Column
  <2>2a. PICK d \in TraceColumns :
          d.to = "confidence" /\ \E o \in traceRead[d.from] : r \in Refs(o, d)
    BY <2>1, <2>2 DEF ReadsStaged
  <2>2b. PICK o \in traceRead[d.from] : r \in Refs(o, d)
    BY <2>2a
  <2>3. d.to = "confidence" /\ o \in traceRead[d.from] /\ r \in Refs(o, d)
    BY <2>2a, <2>2b
  <2>4. d.name = "confidence_id" /\ d.from \in {"decision", "recommendation"}
    BY <2>3, ColumnsLeadOn
  <2>5. o \in AllTraceRows /\ TypeOfRow(o) = d.from /\ r \in TraceRefs[o]["confidence_id"]
    BY <2>2, <2>3, <2>4 DEF ReadsTrue, Refs
  <2>6. /\ toRec \in TraceColumns /\ Followed(toRec) /\ toRec.from = "decision"
        /\ toRec.to = "recommendation" /\ toRec.name = "recommendation_id"
        /\ toHyp \in TraceColumns /\ Followed(toHyp) /\ toHyp.from = "recommendation"
        /\ toHyp.to = "hypothesis" /\ toHyp.name = "hypothesis_id"
    BY ColumnsOfRecommendation DEF Column, Followed
  <2> HIDE DEF toRec, toHyp
  <2>7. o \in TraceRows /\ TraceTypeOf[o] = d.from
    BY <2>4, <2>5 DEF TypeOfRow, AllTraceRows
  <2>8. PICK rec \in traceRead["recommendation"] : r \in TraceRefs[rec]["confidence_id"]
    <3>1. CASE d.from = "recommendation"
      BY <2>3, <2>5, <3>1
    <3>2. CASE d.from = "decision"
      <4>1. PICK rec \in TraceRefs[o]["recommendation_id"] : r \in TraceRefs[rec]["confidence_id"]
        BY <2>5, <2>7, <3>2, TraceConfidences
      <4>2. rec \in traceRead["recommendation"]
        BY <1>1, <2>3, <2>6, <3>2, <4>1 DEF Refs
      <4> QED BY <4>1, <4>2
    <3> QED BY <2>4, <3>1, <3>2
  <2>9. rec \in TraceRows /\ TraceTypeOf[rec] = "recommendation"
    <3>1. rec \in AllTraceRows /\ TypeOfRow(rec) = "recommendation"
      BY <2>2 DEF ReadsTrue
    <3> QED BY <3>1 DEF TypeOfRow, AllTraceRows
  <2>10. i \in TraceRefs[rec]["hypothesis_id"]
    BY <2>1, <2>8, <2>9, TraceConfidences DEF Refs
  <2> QED BY <1>1, <2>1, <2>6, <2>8, <2>10 DEF Refs
<1> QED BY <1>1, <1>2 DEF EveryReferenceFound

-----------------------------------------------------------------------------
LEMMA RowCommittedStep ==
    ASSUME TraceInv, NEW r \in AllTraceRows, RowCommitted(r)
    PROVE  TraceInv'
<1>1. /\ traceStored \subseteq traceStored' /\ traceStored' \subseteq AllTraceRows
      /\ UNCHANGED <<traceRead, traceStep, traceAnswer, traceAsked>>
  BY DEF RowCommitted, TraceInv, ReadsTrue
<1>2. ReadsTrue'
  BY <1>1 DEF TraceInv, ReadsTrue
<1>3. ReadsStaged' /\ AnswerStaged'
  BY <1>1 DEF TraceInv, ReadsStaged, AnswerStaged
<1>4. TraceTruthful'
  BY <1>1 DEF TraceInv, TraceTruthful, CompleteIsClosure, NoFalseAlarm
<1> QED BY <1>2, <1>3, <1>4 DEF TraceInv

LEMMA TraceBeginsStep ==
    ASSUME TraceInv, TraceBegins
    PROVE  TraceInv'
<1> DEFINE found == traceStored \cap {TraceReport}
           bare == TraceRefs[TraceReport]["decision_traces"] = {}
<1>1. /\ traceStep = 0 /\ traceAsked' = traceStored /\ traceStored' = traceStored
      /\ traceRead' = [traceRead EXCEPT !["report"] = found]
  BY DEF TraceBegins
<1>2. /\ "report" \in Tables /\ \A t \in Tables : Place[t] \in 0..9 /\ (Place[t] = 0 <=> t = "report")
  BY PlacesOfTables DEF Tables
<1>3. /\ traceRead \in [Tables -> SUBSET AllTraceRows]
      /\ \A t \in Tables : traceRead[t] = {}
      /\ traceStored \subseteq AllTraceRows
  BY <1>1, <1>2 DEF TraceInv, ReadsTrue, ReadsStaged
<1>4. /\ traceRead' \in [Tables -> SUBSET AllTraceRows]
      /\ traceRead'["report"] = found
      /\ \A t \in Tables : t # "report" => traceRead'[t] = {}
  BY <1>1, <1>2, <1>3
<1>5. \A r \in found : r = TraceReport /\ TypeOfRow(r) = "report" /\ r \in Provenance /\ r \in traceStored
  BY ProvenanceIsLeast DEF TypeOfRow
<1>6. ReadsTrue'
  BY <1>1, <1>3, <1>4, <1>5 DEF ReadsTrue
<1>7. \A c \in TraceColumns : Place[c.to] \in 1..9 /\ c.to \in Tables /\ c.from \in Tables
  BY ColumnsLeadOn
<1>8. CASE found = {}
  <2>1. /\ traceStep' = 10 /\ traceAnswer' = [NoTrace EXCEPT !.status = "404"]
    BY <1>8, PlacesOfTables DEF TraceBegins
  <2>2. traceAnswer'.status = "404"
    BY <2>1 DEF NoTrace
  <2>3. \A t \in Tables : traceRead'[t] = {}
    BY <1>4, <1>8
  <2>4. ReadsStaged'
    BY <1>7, <2>1, <2>3 DEF ReadsStaged
  <2>5. AnswerStaged'
    BY <2>1, <2>2 DEF AnswerStaged, Answers
  <2>6. TraceTruthful'
    BY <2>2 DEF TraceTruthful, CompleteIsClosure, NoFalseAlarm
  <2> QED BY <1>6, <2>4, <2>5, <2>6 DEF TraceInv
<1>9. CASE found # {} /\ bare
  <2>1. /\ traceStep' = 10
        /\ traceAnswer' = [status |-> "partial", nodes |-> found, edges |-> {},
                           warnings |-> {<<TraceReport, "decision_traces">>}]
    BY <1>9, PlacesOfTables DEF TraceBegins
  <2>2. /\ traceAnswer'.status = "partial" /\ traceAnswer'.nodes = found /\ traceAnswer'.edges = {}
    BY <2>1
  <2>3. \A c \in TraceColumns : \A r \in traceRead'[c.from] : Refs(r, c) = {}
    <3> SUFFICES ASSUME NEW c \in TraceColumns, NEW r \in traceRead'[c.from]
                 PROVE  Refs(r, c) = {}
      OBVIOUS
    <3>1. c.from = "report" /\ r = TraceReport
      BY <1>4, <1>5, <1>7
    <3>2. c.name = "decision_traces"
      BY <3>1 DEF TraceColumns, Column
    <3> QED BY <1>9, <3>1, <3>2 DEF Refs
  <2>4. ReadsStaged'
    BY <1>2, <1>4, <2>1, <2>3 DEF ReadsStaged
  <2>5. AnswerStaged'
    BY <1>4, <1>9, <2>1, <2>2 DEF AnswerStaged, Answers
  <2>6. TraceTruthful'
    BY <1>1, <1>5, <1>9, <2>2 DEF TraceTruthful, CompleteIsClosure, NoFalseAlarm
  <2> QED BY <1>6, <2>4, <2>5, <2>6 DEF TraceInv
<1>10. CASE found # {} /\ ~bare
  <2>1. traceStep' = 1 /\ traceAnswer' = traceAnswer
    BY <1>10 DEF TraceBegins
  <2>2. traceAnswer.status = "none"
    BY <1>1 DEF TraceInv, AnswerStaged
  <2>3. ReadsStaged'
    BY <1>2, <1>4, <1>7, <2>1 DEF ReadsStaged
  <2>4. AnswerStaged'
    BY <1>4, <1>10, <2>1, <2>2 DEF AnswerStaged, Answers
  <2>5. TraceTruthful'
    BY <2>1, <2>2 DEF TraceTruthful, CompleteIsClosure, NoFalseAlarm
  <2> QED BY <1>6, <2>3, <2>4, <2>5 DEF TraceInv
<1> QED BY <1>8, <1>9, <1>10

\* A wanted row is a reference of a row that was read.
LEMMA WantedIs ==
    ASSUME NEW t, NEW i
    PROVE  i \in Wanted(t) <=>
             \E c \in TraceColumns : /\ Followed(c) /\ c.to = t
                                     /\ \E r \in traceRead[c.from] : i \in Refs(r, c)
BY DEF Wanted, Followed, Refs

LEMMA BulkReadStep ==
    ASSUME TraceInv, BulkRead
    PROVE  TraceInv'
<1> DEFINE t == TraceOrder[traceStep]
           got == Wanted(t) \cap traceStored
<1>1. /\ traceStep \in 1..9 /\ traceStep' = traceStep + 1
      /\ traceRead' = [traceRead EXCEPT ![t] = got]
      /\ UNCHANGED <<traceStored, traceAsked>>
  BY PlacesOfTables DEF BulkRead
<1>2. t \in Tables /\ Place[t] = traceStep /\ t # "report"
  BY <1>1, PlacesOfTables
<1>3. /\ traceRead \in [Tables -> SUBSET AllTraceRows] /\ traceAsked \subseteq traceStored
  BY DEF TraceInv, ReadsTrue
<1> HIDE DEF t
<1>4. ASSUME NEW i \in got
      PROVE  i \in AllTraceRows /\ TypeOfRow(i) = t /\ i \in Provenance /\ i \in traceStored
  <2>0. PICK c \in TraceColumns : c.to = t /\ \E r \in traceRead[c.from] : i \in Refs(r, c)
    BY WantedIs
  <2>1. PICK r \in traceRead[c.from] : c.to = t /\ i \in Refs(r, c)
    BY <2>0
  <2>2. r \in Provenance /\ TypeOfRow(r) = c.from /\ r \in AllTraceRows
    BY <2>1, ColumnsLeadOn, ProvenanceIsLeast DEF TraceInv, ReadsTrue
  <2> QED BY <2>1, <2>2, ReferencedRows, ProvenanceIsLeast
<1>5. \A i : i \in got <=> i \in Wanted(t) /\ i \in traceStored
  OBVIOUS
<1> HIDE DEF got
<1>6. /\ traceRead' \in [Tables -> SUBSET AllTraceRows]
      /\ traceRead'[t] = got
      /\ \A u \in Tables : u # t => traceRead'[u] = traceRead[u]
  BY <1>1, <1>2, <1>3, <1>4
<1>7. ReadsTrue'
  BY <1>1, <1>4, <1>6 DEF TraceInv, ReadsTrue
\* What the columns hold that lead to this table or to an earlier one.
<1>8. ASSUME NEW c \in TraceColumns, Place[c.to] <= traceStep
      PROVE  traceRead'[c.from] = traceRead[c.from]
  <2>1. c.from \in Tables /\ Place[c.from] < Place[c.to] /\ Place[c.from] \in 0..9
        /\ Place[c.to] \in 1..9
    BY ColumnsLeadOn
  <2>2. c.from # t
    BY <1>1, <1>2, <1>8, <2>1
  <2> QED BY <1>6, <2>1, <2>2
<1>9. ReadsStaged'
  <2>1. ASSUME NEW u \in Tables, Place[u] >= traceStep'
        PROVE  traceRead'[u] = {}
    <3>1. Place[u] \in 0..9 /\ Place[u] >= traceStep /\ u # t
      BY <1>1, <1>2, <2>1, PlacesOfTables
    <3> QED BY <1>6, <3>1 DEF TraceInv, ReadsStaged
  <2>2. ASSUME NEW c \in TraceColumns, Followed(c), Place[c.to] < traceStep',
               NEW r \in traceRead'[c.from]
        PROVE  Refs(r, c) \cap traceAsked' \subseteq traceRead'[c.to]
    <3>1. c.to \in Tables /\ Place[c.to] \in 1..9 /\ Place[c.to] <= traceStep
      BY <1>1, <2>2, ColumnsLeadOn
    <3>2. r \in traceRead[c.from]
      BY <1>8, <2>2, <3>1
    <3>3. CASE c.to = t
      <4>1. Refs(r, c) \subseteq Wanted(t)
        BY <2>2, <3>2, <3>3, WantedIs
      <4> QED BY <1>1, <1>3, <1>5, <1>6, <3>3, <4>1
    <3>4. CASE c.to # t
      <4>1. Place[c.to] < traceStep
        BY <1>1, <1>2, <3>1, <3>4, PlacesOfTables
      <4> QED BY <1>1, <1>6, <2>2, <3>1, <3>2, <3>4, <4>1 DEF TraceInv, ReadsStaged
    <3> QED BY <3>3, <3>4
  <2>3. ASSUME NEW u \in Tables \ {"report"}, NEW i \in traceRead'[u]
        PROVE  \E c \in TraceColumns : /\ Followed(c) /\ c.to = u
                                       /\ \E r \in traceRead'[c.from] : i \in Refs(r, c)
    <3>1. CASE u = t
      <4>1. PICK c \in TraceColumns : /\ Followed(c) /\ c.to = t
                                      /\ \E r \in traceRead[c.from] : i \in Refs(r, c)
        BY <1>5, <1>6, <2>3, <3>1, WantedIs
      <4>2. traceRead'[c.from] = traceRead[c.from]
        BY <1>1, <1>2, <1>8, <4>1
      <4> QED BY <3>1, <4>1, <4>2
    <3>2. CASE u # t
      <4>1. i \in traceRead[u]
        BY <1>6, <2>3, <3>2
      <4>2. Place[u] < traceStep
        <5>1. Place[u] \in 0..9
          BY PlacesOfTables
        <5> QED BY <1>1, <4>1, <5>1 DEF TraceInv, ReadsStaged
      <4>3. PICK c \in TraceColumns : /\ Followed(c) /\ c.to = u
                                      /\ \E r \in traceRead[c.from] : i \in Refs(r, c)
        BY <4>1 DEF TraceInv, ReadsStaged
      <4>4. traceRead'[c.from] = traceRead[c.from]
        <5>1. Place[c.to] <= traceStep
          BY <1>1, <4>2, <4>3, PlacesOfTables
        <5> QED BY <1>8, <5>1
      <4> QED BY <4>3, <4>4
    <3> QED BY <3>1, <3>2
  <2>4. traceStep' \in 0..10
    BY <1>1
  <2> QED BY <2>1, <2>2, <2>3, <2>4 DEF ReadsStaged
<1>10. /\ traceAnswer.status = "none" /\ TraceReport \in traceRead["report"]
  BY <1>1 DEF TraceInv, AnswerStaged
<1>11. "report" \in Tables /\ traceRead'["report"] = traceRead["report"]
  BY <1>2, <1>6 DEF Tables
<1>12. CASE traceStep < 9
  <2>1. traceAnswer' = traceAnswer
    BY <1>12, PlacesOfTables DEF BulkRead
  <2>2. AnswerStaged'
    BY <1>1, <1>10, <1>11, <1>12, <2>1 DEF AnswerStaged, Answers
  <2>3. TraceTruthful'
    BY <1>10, <2>1 DEF TraceTruthful, CompleteIsClosure, NoFalseAlarm
  <2> QED BY <1>7, <1>9, <2>2, <2>3 DEF TraceInv
<1>13. CASE traceStep = 9
  <2>1. traceAnswer' = [NoTrace EXCEPT !.status = "assembling"]
    BY <1>13, PlacesOfTables DEF BulkRead
  <2>2. traceAnswer'.status = "assembling"
    BY <2>1 DEF NoTrace
  <2>3. AnswerStaged'
    BY <1>1, <1>10, <1>11, <1>13, <2>2 DEF AnswerStaged, Answers
  <2>4. TraceTruthful'
    BY <2>2 DEF TraceTruthful, CompleteIsClosure, NoFalseAlarm
  <2> QED BY <1>7, <1>9, <2>3, <2>4 DEF TraceInv
<1> QED BY <1>1, <1>12, <1>13

LEMMA EdgesJoinNodes ==
    ASSUME ReadsTrue, NEW e \in TraceEdges
    PROVE  {e[1], e[2]} \subseteq TraceNodes
<1>1. PICK x \in References : x[3] \in traceRead[x[2].to] /\ e = <<x[1], x[3], x[2].relation>>
  BY DEF TraceEdges
<1>1a. PICK c \in TraceColumns :
        \E r \in traceRead[c.from] : \E i \in Refs(r, c) : x = <<r, c, i>>
  BY <1>1, ReferencesAre
<1>1b. PICK r \in traceRead[c.from] : \E i \in Refs(r, c) : x = <<r, c, i>>
  BY <1>1a
<1>2. PICK i \in Refs(r, c) : x = <<r, c, i>>
  BY <1>1b
<1>3. e[1] = r /\ e[2] = i /\ i \in traceRead[c.to]
  BY <1>1, <1>2
<1> QED BY <1>2, <1>3, ColumnsLeadOn, NodesAre

LEMMA AssembleStep ==
    ASSUME TraceInv, Assemble
    PROVE  TraceInv'
<1>1. /\ traceAnswer.status = "assembling"
      /\ UNCHANGED <<traceStored, traceRead, traceStep, traceAsked>>
      /\ traceAnswer' = [status   |-> IF ValidateProvenance = {} THEN "complete" ELSE "partial",
                         nodes    |-> TraceNodes, edges |-> TraceEdges,
                         warnings |-> ValidateProvenance]
  BY DEF Assemble
<1>2. /\ traceAnswer'.status = IF ValidateProvenance = {} THEN "complete" ELSE "partial"
      /\ traceAnswer'.nodes = TraceNodes /\ traceAnswer'.edges = TraceEdges
  BY <1>1
<1>3. traceStep = 10 /\ TraceReport \in traceRead["report"]
  BY <1>1 DEF TraceInv, AnswerStaged, ReadsStaged
<1>4. ReadsTrue /\ ReadsStaged
  BY DEF TraceInv
<1>5. ReadsTrue' /\ ReadsStaged'
  BY <1>1, <1>4 DEF ReadsTrue, ReadsStaged
<1>6. AnswerStaged'
  BY <1>1, <1>2, <1>3 DEF AnswerStaged, Answers
<1>7. CompleteIsClosure'
  <2> SUFFICES ASSUME traceAnswer'.status = "complete"
               PROVE  /\ traceAnswer'.nodes = Provenance
                      /\ Provenance \subseteq traceStored'
                      /\ \A r \in Provenance : \A i \in RefsOf(r) :
                           \E e \in traceAnswer'.edges : e[1] = r /\ e[2] = i
    BY DEF CompleteIsClosure
  <2>1. EveryReferenceFound
    BY <1>2, WarningsAreMisses
  <2> QED BY <1>1, <1>2, <1>3, <1>4, <2>1, FoundIsClosure, NodesAre
<1>8. NoFalseAlarm'
  <2>1. Provenance \subseteq traceAsked => traceAnswer'.status = "complete"
    BY <1>2, <1>3, <1>4, StoredIsFound, WarningsAreMisses
  <2>2. traceAnswer'.nodes \subseteq Provenance \cap traceStored
    BY <1>2, <1>4, NodesAre
  <2>3. \A e \in traceAnswer'.edges : {e[1], e[2]} \subseteq traceAnswer'.nodes
    BY <1>2, <1>4, EdgesJoinNodes
  <2> QED BY <1>1, <2>1, <2>2, <2>3 DEF NoFalseAlarm
<1> QED BY <1>5, <1>6, <1>7, <1>8 DEF TraceInv, TraceTruthful

LEMMA TraceAgainStep ==
    ASSUME TraceInv, TraceAgain
    PROVE  TraceInv'
<1>1. /\ traceRead' = [t \in DOMAIN traceRead |-> {}] /\ traceStep' = 0
      /\ traceAnswer' = NoTrace /\ traceAsked' = {} /\ traceStored' = traceStored
  BY DEF TraceAgain
<1>2. traceRead' \in [Tables -> SUBSET AllTraceRows] /\ \A t \in Tables : traceRead'[t] = {}
  BY <1>1 DEF TraceInv, ReadsTrue
<1>3. traceAnswer'.status = "none"
  BY <1>1 DEF NoTrace
<1>4. ReadsTrue'
  BY <1>1, <1>2 DEF TraceInv, ReadsTrue
<1>5. ReadsStaged'
  BY <1>1, <1>2, ColumnsLeadOn DEF ReadsStaged
<1>6. AnswerStaged' /\ TraceTruthful'
  BY <1>1, <1>3 DEF AnswerStaged, Answers, TraceTruthful, CompleteIsClosure, NoFalseAlarm
<1> QED BY <1>4, <1>5, <1>6 DEF TraceInv

\* A trace that calls itself complete is the whole provenance of its report,
\* and one that does not had something missing, for any rows, any references
\* between them and any commits between the ten statements.
THEOREM TraceIsTruthful == TraceSpec => []TraceTruthful
<1>1. TraceInit => TraceInv
  <2> SUFFICES ASSUME TraceInit PROVE TraceInv
    OBVIOUS
  <2>1. /\ traceStored \subseteq AllTraceRows /\ traceAsked = {} /\ traceStep = 0
        /\ traceAnswer = NoTrace /\ traceRead = [t \in Tables |-> {}]
    BY DEF TraceInit, Tables
  <2>2. traceAnswer.status = "none"
    BY <2>1 DEF NoTrace
  <2>3. ReadsTrue
    BY <2>1 DEF ReadsTrue
  <2>4. ReadsStaged
    BY <2>1, ColumnsLeadOn DEF ReadsStaged
  <2>5. AnswerStaged /\ TraceTruthful
    BY <2>1, <2>2 DEF AnswerStaged, Answers, TraceTruthful, CompleteIsClosure, NoFalseAlarm
  <2> QED BY <2>3, <2>4, <2>5 DEF TraceInv
<1>2. TraceInv /\ [TraceNext]_traceVars => TraceInv'
  <2> SUFFICES ASSUME TraceInv, [TraceNext]_traceVars PROVE TraceInv'
    OBVIOUS
  <2>1. CASE \E r \in AllTraceRows : RowCommitted(r)
    BY <2>1, RowCommittedStep
  <2>2. CASE TraceBegins \/ BulkRead
    BY <2>2, TraceBeginsStep, BulkReadStep
  <2>3. CASE Assemble \/ TraceAgain
    BY <2>3, AssembleStep, TraceAgainStep
  <2>4. CASE UNCHANGED traceVars
    BY <2>4 DEF traceVars, TraceInv, ReadsTrue, ReadsStaged, AnswerStaged, TraceTruthful,
         CompleteIsClosure, NoFalseAlarm
  <2> QED BY <2>1, <2>2, <2>3, <2>4 DEF TraceNext
<1>3. TraceInv => TraceTruthful
  BY DEF TraceInv
<1> QED BY <1>1, <1>2, <1>3, PTL DEF TraceSpec

-----------------------------------------------------------------------------
(* Sessions.  The key that marks a refresh token as consumed outlives it:  *)
(* as long as the token is valid and was exchanged, its key is there.      *)

RowType == [tenant : AccountTenants, role : {"viewer", "operator", "admin", "superadmin"},
            active : BOOLEAN]

PairType == [user : Accounts, tenant : AccountTenants,
             role : {"viewer", "operator", "admin", "superadmin"},
             age : Nat, used : Nat, exchanged : Nat]

CallType == [pair : Slots, row : RowType, seen : SUBSET RowType]

SessTypes ==
    /\ account \in [Accounts -> RowType \cup {NoAccount}]
    /\ pair \in [Slots -> PairType \cup {NoPair}]
    /\ call \in [SessClients -> CallType \cup {NoCall}]

\* A request holds the pair it presented, and the row it read is one of
\* those the account had since.
CallsTrue ==
    \A c \in SessClients : call[c] # NoCall =>
        pair[call[c].pair] # NoPair /\ call[c].row \in call[c].seen

\* An exchanged token is marked as long as it is valid.
MarkOutlives(p) ==
    p.exchanged <= 1 /\ (p.exchanged = 1 => p.used >= Remaining(p))

Marked == \A n \in Slots : pair[n] # NoPair => MarkOutlives(pair[n])

SessInv == SessTypes /\ CallsTrue /\ Marked

LEMMA Absent ==
    /\ \A p \in PairType : p # NoPair
    /\ \A r \in RowType : r # NoAccount
    /\ \A k \in CallType : k # NoCall
<1>1. ASSUME NEW p \in PairType PROVE p # NoPair
  <2>1. "age" \in DOMAIN p /\ "age" \notin DOMAIN NoPair
    BY DEF PairType, NoPair
  <2> QED BY <2>1
<1>2. ASSUME NEW r \in RowType PROVE r # NoAccount
  <2>1. "role" \in DOMAIN r /\ "role" \notin DOMAIN NoAccount
    BY DEF RowType, NoAccount
  <2> QED BY <2>1
<1>3. ASSUME NEW k \in CallType PROVE k # NoCall
  <2>1. "row" \in DOMAIN k /\ "row" \notin DOMAIN NoCall
    BY DEF CallType, NoCall
  <2> QED BY <2>1
<1> QED BY <1>1, <1>2, <1>3

LEMMA MaxOfTwo ==
    ASSUME NEW a \in Int, NEW b \in Int
    PROVE  Max({a, b}) \in {a, b} /\ Max({a, b}) >= a /\ Max({a, b}) >= b
<1>1. \E x \in {a, b} : \A y \in {a, b} : x >= y
  OBVIOUS
<1> QED BY <1>1 DEF Max

LEMMA MinOfTwo ==
    ASSUME NEW a \in Int, NEW b \in Int
    PROVE  Min({a, b}) \in {a, b} /\ Min({a, b}) <= a /\ Min({a, b}) <= b
<1>1. \E x \in {a, b} : \A y \in {a, b} : x <= y
  OBVIOUS
<1> QED BY <1>1 DEF Min

LEMMA SessConstants ==
    /\ MaxPairs \in Nat \ {0} /\ AccessLife \in Nat \ {0}
    /\ RefreshLife \in Nat \ {0} /\ MinRevokeTTL \in Nat \ {0}
BY SessAssumption

\* What a pair looks like after it was handed out.
LEMMA IssuedPair ==
    ASSUME NEW u \in Accounts, NEW row \in RowType
    PROVE  LET p == IssuePair(u, row) IN
           /\ p \in PairType /\ p.user = u /\ p.role = row.role /\ MarkOutlives(p)
BY DEF IssuePair, PairType, RowType, MarkOutlives

\* SET NX EX on the key of a valid token that has none.
LEMMA ConsumedPair ==
    ASSUME NEW p \in PairType, p.used = 0, MarkOutlives(p)
    PROVE  /\ KeyTTL(p) \in Nat /\ KeyTTL(p) >= Remaining(p)
           /\ LET q == ConsumeRefreshToken(p) IN q \in PairType /\ MarkOutlives(q)
           /\ LET q == [p EXCEPT !.used = KeyTTL(p)] IN q \in PairType /\ MarkOutlives(q)
<1>1. Remaining(p) \in Int /\ p.age \in Nat /\ p.exchanged \in Nat
  BY SessConstants DEF PairType, Remaining
<1>2. KeyTTL(p) \in Nat /\ KeyTTL(p) >= Remaining(p)
  <2> DEFINE left == Remaining(p)
  <2>1. left \in Int /\ MinRevokeTTL \in Nat
    BY <1>1, SessConstants
  <2>2. KeyTTL(p) = Max({left, MinRevokeTTL})
    BY DEF KeyTTL
  <2> HIDE DEF left
  <2>3. /\ Max({left, MinRevokeTTL}) \in {left, MinRevokeTTL}
        /\ Max({left, MinRevokeTTL}) >= left /\ Max({left, MinRevokeTTL}) >= MinRevokeTTL
    BY <2>1, MaxOfTwo
  <2>4. KeyTTL(p) \in Nat /\ KeyTTL(p) >= left
    BY <2>1, <2>2, <2>3
  <2> QED BY <2>4 DEF left
<1> DEFINE t == KeyTTL(p)
           x == IF Remaining(p) > 0 THEN p.exchanged + 1 ELSE p.exchanged
           q == [p EXCEPT !.used = t, !.exchanged = x]
           f == [p EXCEPT !.used = t]
<1>3. ConsumeRefreshToken(p) = q
  BY DEF ConsumeRefreshToken
<1>4. x \in Nat /\ x <= 1
  BY <1>1 DEF MarkOutlives
<1>5. t \in Nat /\ t >= Remaining(p)
  BY <1>2
<1> HIDE DEF t, x
<1>6. q \in PairType /\ q.age = p.age /\ q.used = t /\ q.exchanged = x
  BY <1>4, <1>5 DEF PairType
<1>7. f \in PairType /\ f.age = p.age /\ f.used = t /\ f.exchanged = p.exchanged
  BY <1>5 DEF PairType
<1> HIDE DEF q, f
<1>8. MarkOutlives(q) /\ MarkOutlives(f)
  BY <1>4, <1>5, <1>6, <1>7 DEF MarkOutlives, Remaining
<1> QED BY <1>2, <1>3, <1>6, <1>7, <1>8 DEF t, f

LEMMA OlderPair ==
    ASSUME NEW p \in PairType, MarkOutlives(p)
    PROVE  Older(p) \in PairType /\ MarkOutlives(Older(p))
<1>1. p.age \in Nat /\ p.used \in Nat /\ p.exchanged \in Nat /\ RefreshLife \in Nat
  BY SessConstants DEF PairType
<1> DEFINE older == p.age + 1
           last == RefreshLife + 1
           less == p.used - 1
           a == Min({older, last})
           k == Max({less, 0})
           q == [p EXCEPT !.age = a, !.used = k]
<1>4. Older(p) = q
  BY DEF Older
<1>2. a \in Nat /\ a \in {older, last}
  <2>1. older \in Nat /\ last \in Nat
    BY <1>1
  <2> HIDE DEF older, last
  <2>2. Min({older, last}) \in {older, last} /\ Min({older, last}) <= older /\ Min({older, last}) <= last
    BY <2>1, MinOfTwo
  <2> QED BY <2>1, <2>2
<1>3. k \in Nat /\ k >= less
  <2>1. less \in Int
    BY <1>1
  <2> HIDE DEF less
  <2>2. Max({less, 0}) \in {less, 0} /\ Max({less, 0}) >= less /\ Max({less, 0}) >= 0
    BY <2>1, MaxOfTwo
  <2> QED BY <2>1, <2>2
<1> HIDE DEF a, k
<1>5. q \in PairType /\ q.age = a /\ q.used = k /\ q.exchanged = p.exchanged
  BY <1>2, <1>3 DEF PairType
<1> HIDE DEF q
<1>6. MarkOutlives(q)
  BY <1>1, <1>2, <1>3, <1>5 DEF MarkOutlives, Remaining
<1> QED BY <1>4, <1>5, <1>6

\* Where a new pair goes.
LEMMA Tracked ==
    ASSUME SessTypes, NEW pairs \in [Slots -> PairType \cup {NoPair}], NEW p \in PairType
    PROVE  /\ Track(pairs, p) \in [Slots -> PairType \cup {NoPair}]
           /\ \A n \in Slots : \/ Track(pairs, p)[n] = pairs[n]
                               \/ Track(pairs, p)[n] = p /\ pair[n] = NoPair
<1>1. CASE FreeSlots = {}
  BY <1>1 DEF Track
<1>2. CASE FreeSlots # {}
  <2>1. FreeSlots \subseteq Nat
    BY DEF FreeSlots, Slots
  <2>2. Min(FreeSlots) \in FreeSlots
    BY <1>2, <2>1, MinIsIn
  <2>3. Min(FreeSlots) \in Slots /\ pair[Min(FreeSlots)] = NoPair
    BY <2>2 DEF FreeSlots
  <2> QED BY <1>2, <2>3 DEF Track
<1> QED BY <1>1, <1>2

-----------------------------------------------------------------------------

LEMMA MarkedIsRotated ==
    ASSUME SessInv'
    PROVE  RotatedOnce'
BY DEF SessInv, Marked, MarkOutlives, RotatedOnce

LEMMA LoginStep ==
    ASSUME SessInv, NEW u \in Accounts, NEW asserted, Login(u, asserted)
    PROVE  SessInv' /\ ClaimsCurrent
<1> DEFINE row == account[u]
           p == IssuePair(u, row)
<1>1. row # NoAccount /\ pair' = Track(pair, p) /\ UNCHANGED <<account, call>>
  BY DEF Login, Authenticates, GetByEmail
<1>2. row \in RowType
  BY <1>1 DEF SessInv, SessTypes
<1>3. p \in PairType /\ p.user = u /\ p.role = row.role /\ MarkOutlives(p)
  BY <1>2, IssuedPair
<1> HIDE DEF p
<1>4. /\ pair' \in [Slots -> PairType \cup {NoPair}]
      /\ \A n \in Slots : pair'[n] = pair[n] \/ (pair'[n] = p /\ pair[n] = NoPair)
  BY <1>1, <1>3, Tracked DEF SessInv, SessTypes
<1>5. SessTypes'
  BY <1>1, <1>4 DEF SessInv, SessTypes
<1>6. CallsTrue'
  <2> SUFFICES ASSUME NEW c \in SessClients, call[c] # NoCall
               PROVE  pair'[call[c].pair] # NoPair /\ call[c].row \in call[c].seen
    BY <1>1 DEF CallsTrue
  <2>1. call[c].pair \in Slots
    BY DEF SessInv, SessTypes, CallType
  <2> QED BY <1>3, <1>4, <2>1, Absent DEF SessInv, CallsTrue
<1>7. Marked'
  BY <1>3, <1>4 DEF SessInv, Marked
<1>8. ClaimsCurrent
  <2> SUFFICES ASSUME NEW n \in Slots, PairIssued(n)
               PROVE  /\ account[pair'[n].user] # NoAccount
                      /\ account[pair'[n].user].role = pair'[n].role
    BY DEF ClaimsCurrent
  <2>1. pair'[n] = p
    BY <1>4 DEF PairIssued
  <2> QED BY <1>1, <1>3, <2>1
<1> QED BY <1>5, <1>6, <1>7, <1>8 DEF SessInv

\* A step that leaves every free slot free hands out nothing.
LEMMA NothingIssued ==
    ASSUME \A n \in Slots : pair[n] = NoPair => pair'[n] = NoPair
    PROVE  ClaimsCurrent
BY DEF ClaimsCurrent, PairIssued, FreeSlots

LEMMA RefreshReadStep ==
    ASSUME SessInv, NEW c \in SessClients, NEW n \in Slots, RefreshRead(c, n)
    PROVE  SessInv' /\ ClaimsCurrent
<1> DEFINE row == account[pair[n].user]
           k == [pair |-> n, row |-> row, seen |-> {row}]
<1>1. /\ pair[n] # NoPair /\ row # NoAccount
      /\ call' = [call EXCEPT ![c] = k] /\ UNCHANGED <<account, pair>>
  BY DEF RefreshRead, RefreshValid, GetById
<1>2. pair[n].user \in Accounts
  BY <1>1 DEF SessInv, SessTypes, PairType
<1>3. row \in RowType
  BY <1>1, <1>2 DEF SessInv, SessTypes
<1> HIDE DEF row
<1>4. k \in CallType /\ k.pair = n /\ k.row = row /\ k.seen = {row}
  BY <1>3 DEF CallType
<1> HIDE DEF k
<1>5. SessTypes' /\ \A d \in SessClients : call'[d] = IF d = c THEN k ELSE call[d]
  BY <1>1, <1>4 DEF SessInv, SessTypes
<1>6. CallsTrue'
  BY <1>1, <1>4, <1>5 DEF SessInv, CallsTrue
<1>7. Marked' /\ ClaimsCurrent
  BY <1>1, NothingIssued DEF SessInv, Marked
<1> QED BY <1>5, <1>6, <1>7 DEF SessInv

LEMMA CallEnds ==
    ASSUME SessInv, NEW c \in SessClients, call' = [call EXCEPT ![c] = NoCall],
           account' = account, pair' \in [Slots -> PairType \cup {NoPair}],
           \A n \in Slots : pair[n] # NoPair => pair'[n] # NoPair
    PROVE  SessTypes' /\ CallsTrue'
<1>1. SessTypes' /\ \A d \in SessClients : call'[d] = IF d = c THEN NoCall ELSE call[d]
  BY DEF SessInv, SessTypes
<1>2. CallsTrue'
  <2> SUFFICES ASSUME NEW d \in SessClients, call'[d] # NoCall
               PROVE  pair'[call'[d].pair] # NoPair /\ call'[d].row \in call'[d].seen
    BY DEF CallsTrue
  <2>1. call'[d] = call[d] /\ call[d] # NoCall
    BY <1>1
  <2>2. call[d].pair \in Slots
    BY <2>1 DEF SessInv, SessTypes, CallType
  <2> QED BY <2>1, <2>2 DEF SessInv, CallsTrue
<1> QED BY <1>1, <1>2

LEMMA HeldPair ==
    ASSUME SessInv, NEW c \in SessClients, call[c] # NoCall
    PROVE  /\ call[c] \in CallType /\ call[c].pair \in Slots
           /\ pair[call[c].pair] \in PairType /\ pair[call[c].pair] # NoPair
           /\ MarkOutlives(pair[call[c].pair])
           /\ call[c].row \in RowType /\ call[c].row \in call[c].seen
<1>1. call[c] \in CallType
  BY DEF SessInv, SessTypes
<1>2. call[c].pair \in Slots /\ call[c].row \in RowType
  BY <1>1 DEF CallType
<1>3. pair[call[c].pair] # NoPair /\ call[c].row \in call[c].seen
  BY DEF SessInv, CallsTrue
<1> QED BY <1>1, <1>2, <1>3 DEF SessInv, SessTypes, Marked

LEMMA RefreshIssueStep ==
    ASSUME SessInv, NEW c \in SessClients, RefreshIssue(c)
    PROVE  SessInv' /\ ClaimsCurrent
<1> DEFINE n == call[c].pair
           q == ConsumeRefreshToken(pair[n])
           p == IssuePair(pair[n].user, call[c].row)
           pairs == [pair EXCEPT ![n] = q]
<1>1. /\ call[c] # NoCall /\ pair[n].used = 0
      /\ pair' = Track(pairs, p)
      /\ call' = [call EXCEPT ![c] = NoCall] /\ account' = account
  BY DEF RefreshIssue
<1>2. /\ n \in Slots /\ pair[n] \in PairType /\ pair[n] # NoPair /\ MarkOutlives(pair[n])
      /\ call[c].row \in RowType /\ call[c].row \in call[c].seen
  BY <1>1, HeldPair
<1>3. q \in PairType /\ MarkOutlives(q)
  BY <1>1, <1>2, ConsumedPair
<1>4. pair[n].user \in Accounts
  BY <1>2 DEF PairType
<1>5. p \in PairType /\ p.role = call[c].row.role /\ MarkOutlives(p)
  BY <1>2, <1>4, IssuedPair
<1> HIDE DEF q, p, n
<1>6. /\ pairs \in [Slots -> PairType \cup {NoPair}]
      /\ pairs[n] = q /\ \A m \in Slots : m # n => pairs[m] = pair[m]
  BY <1>2, <1>3 DEF SessInv, SessTypes
<1> HIDE DEF pairs
<1>7. /\ pair' \in [Slots -> PairType \cup {NoPair}]
      /\ \A m \in Slots : pair'[m] = pairs[m] \/ (pair'[m] = p /\ pair[m] = NoPair)
  BY <1>1, <1>5, <1>6, Tracked DEF SessInv
<1>8. \A m \in Slots : pair[m] # NoPair => pair'[m] # NoPair
  BY <1>3, <1>6, <1>7, Absent
<1>9. SessTypes' /\ CallsTrue'
  BY <1>1, <1>7, <1>8, CallEnds
<1>10. Marked'
  BY <1>3, <1>5, <1>6, <1>7 DEF SessInv, Marked
<1>11. ClaimsCurrent
  <2> SUFFICES ASSUME NEW m \in Slots, PairIssued(m)
               PROVE  \E d \in SessClients :
                        /\ call[d] # NoCall /\ call'[d] = NoCall
                        /\ \E row \in call[d].seen : row # NoAccount /\ row.role = pair'[m].role
    BY DEF ClaimsCurrent
  <2>1. pair[m] = NoPair /\ pair'[m] # NoPair
    BY DEF PairIssued, FreeSlots
  <2>2. pair'[m] = p
    BY <1>2, <1>6, <1>7, <2>1
  <2>3. call'[c] = NoCall
    BY <1>1 DEF SessInv, SessTypes
  <2>4. call[c].row # NoAccount
    BY <1>2, Absent
  <2> QED BY <1>1, <1>2, <1>5, <2>2, <2>3, <2>4
<1> QED BY <1>9, <1>10, <1>11 DEF SessInv

LEMMA RefreshFailsStep ==
    ASSUME SessInv, NEW c \in SessClients, RefreshFails(c) \/ RefreshReplay(c)
    PROVE  SessInv' /\ ClaimsCurrent
<1> DEFINE n == call[c].pair
           t == IF pair[n].used = 0 THEN KeyTTL(pair[n]) ELSE pair[n].used
           q == [pair[n] EXCEPT !.used = t]
<1>1. /\ call[c] # NoCall
      /\ call' = [call EXCEPT ![c] = NoCall] /\ account' = account
  BY DEF RefreshFails, RefreshReplay
<1>2. n \in Slots /\ pair[n] \in PairType /\ pair[n] # NoPair /\ MarkOutlives(pair[n])
  BY <1>1, HeldPair
<1>3. pair' = pair \/ pair' = [pair EXCEPT ![n] = q]
  BY DEF RefreshFails, RefreshReplay
<1>4. q \in PairType /\ MarkOutlives(q)
  <2>1. CASE pair[n].used = 0
    BY <1>2, <2>1, ConsumedPair
  <2>2. CASE pair[n].used # 0
    <3>1. q = pair[n]
      BY <1>2, <2>2 DEF PairType
    <3> QED BY <1>2, <3>1
  <2> QED BY <2>1, <2>2
<1> HIDE DEF q, n
<1>5. /\ pair' \in [Slots -> PairType \cup {NoPair}]
      /\ \A m \in Slots : pair'[m] = pair[m] \/ (m = n /\ pair'[m] = q)
  BY <1>2, <1>3, <1>4 DEF SessInv, SessTypes
<1>6. \A m \in Slots : pair[m] = NoPair <=> pair'[m] = NoPair
  BY <1>2, <1>4, <1>5, Absent
<1>7. SessTypes' /\ CallsTrue'
  BY <1>1, <1>5, <1>6, CallEnds
<1>8. Marked'
  BY <1>4, <1>5 DEF SessInv, Marked
<1> QED BY <1>6, <1>7, <1>8, NothingIssued DEF SessInv

\* Administration: rows of accounts, and what open requests have seen.
LEMMA CreateUserStep ==
    ASSUME SessInv, NEW n \in Slots, NEW u \in Accounts, NEW r \in AccountRoles,
           NEW t \in AccountTenants, CreateUser(n, u, r, t)
    PROVE  SessInv' /\ ClaimsCurrent
<1> DEFINE row == [tenant |-> t, role |-> r, active |-> TRUE]
<1>1. account' = [account EXCEPT ![u] = row] /\ UNCHANGED <<pair, call>>
  BY DEF CreateUser, InsertUser
<1>2. row \in RowType
  BY SessAssumption DEF RowType
<1> HIDE DEF row
<1>3. SessTypes'
  BY <1>1, <1>2 DEF SessInv, SessTypes
<1> QED BY <1>1, <1>3, NothingIssued DEF SessInv, CallsTrue, Marked

LEMMA WriteRowStep ==
    ASSUME SessInv, NEW u \in Accounts, NEW row \in RowType, WriteRow(u, row)
    PROVE  SessInv' /\ ClaimsCurrent
<1> DEFINE more(c) == [call[c] EXCEPT !.seen = call[c].seen \cup {row}]
<1>1. /\ account' = [account EXCEPT ![u] = row] /\ pair' = pair
      /\ call' = [c \in SessClients |->
                    IF call[c] # NoCall /\ pair[call[c].pair].user = u THEN more(c) ELSE call[c]]
  BY DEF WriteRow
<1>2. ASSUME NEW c \in SessClients, call[c] # NoCall
      PROVE  /\ more(c) \in CallType /\ more(c).pair = call[c].pair /\ more(c).row = call[c].row
             /\ more(c).seen = call[c].seen \cup {row}
  <2>1. call[c] \in CallType
    BY <1>2, HeldPair
  <2> QED BY <2>1 DEF CallType
<1> HIDE DEF more
<1>3. SessTypes'
  BY <1>1, <1>2 DEF SessInv, SessTypes
<1>4. CallsTrue'
  BY <1>1, <1>2 DEF SessInv, CallsTrue
<1> QED BY <1>1, <1>3, <1>4, NothingIssued DEF SessInv, Marked

LEMMA AdministrationStep ==
    ASSUME SessInv, NEW n \in Slots, NEW u \in Accounts,
           (\E r \in AccountRoles : UpdateUser(n, u, r)) \/ DeactivateUser(n, u)
    PROVE  SessInv' /\ ClaimsCurrent
<1>1. PICK row : /\ WriteRow(u, row) /\ account[u] # NoAccount
                 /\ \/ row = [account[u] EXCEPT !.active = FALSE]
                    \/ \E r \in AccountRoles : row = [account[u] EXCEPT !.role = r]
  BY DEF UpdateUser, DeactivateUser
<1>2. account[u] \in RowType
  BY <1>1 DEF SessInv, SessTypes
<1>3. row \in RowType
  BY <1>1, <1>2, SessAssumption DEF RowType
<1> QED BY <1>1, <1>3, WriteRowStep

LEMMA SessTickStep ==
    ASSUME SessInv, SessTick
    PROVE  SessInv' /\ ClaimsCurrent
<1>1. /\ pair' = [n \in Slots |-> IF pair[n] = NoPair \/ Forgotten(n, Older(pair[n])) THEN NoPair
                                  ELSE Older(pair[n])]
      /\ UNCHANGED <<account, call>>
  BY DEF SessTick
<1>2. ASSUME NEW n \in Slots, pair[n] # NoPair
      PROVE  Older(pair[n]) \in PairType /\ MarkOutlives(Older(pair[n]))
  BY <1>2, OlderPair DEF SessInv, SessTypes, Marked
<1>3. SessTypes'
  BY <1>1, <1>2 DEF SessInv, SessTypes
<1>4. CallsTrue'
  <2> SUFFICES ASSUME NEW c \in SessClients, call[c] # NoCall
               PROVE  pair'[call[c].pair] # NoPair /\ call[c].row \in call[c].seen
    BY <1>1 DEF CallsTrue
  <2>1. call[c].pair \in Slots /\ pair[call[c].pair] # NoPair /\ call[c].row \in call[c].seen
    BY HeldPair
  <2>2. ~Forgotten(call[c].pair, Older(pair[call[c].pair]))
    BY DEF Forgotten
  <2>3. pair'[call[c].pair] = Older(pair[call[c].pair])
    BY <1>1, <2>1, <2>2
  <2> QED BY <1>2, <2>1, <2>3, Absent
<1>5. Marked'
  BY <1>1, <1>2 DEF Marked
<1>6. ClaimsCurrent
  BY <1>1, NothingIssued
<1> QED BY <1>3, <1>4, <1>5, <1>6 DEF SessInv

\* A refresh token is exchanged once before it expires, and what is handed
\* out rests on a row the account had since the request began, for any
\* number of accounts, clients and token pairs and any lifetimes.
THEOREM SessionsKeepPromises == SessSpec => SessionsSound
<1>1. SessInit => SessInv
  <2> SUFFICES ASSUME SessInit PROVE SessInv
    OBVIOUS
  <2> DEFINE row == [tenant |-> CHOOSE t \in AccountTenants : TRUE, role |-> "superadmin",
                     active |-> TRUE]
  <2>1. row \in RowType
    BY SessAssumption DEF RowType
  <2>2. account = [u \in Accounts |-> IF u = FirstAccount THEN row ELSE NoAccount]
    BY DEF SessInit
  <2> HIDE DEF row
  <2>3. SessTypes
    BY <2>1, <2>2 DEF SessInit, SessTypes
  <2> QED BY <2>3 DEF SessInit, SessInv, CallsTrue, Marked
<1>2. SessInv /\ [SessNext]_sessVars => SessInv' /\ [RotatedOnce' /\ ClaimsCurrent]_sessVars
  <2> SUFFICES ASSUME SessInv, [SessNext]_sessVars
               PROVE  SessInv' /\ [RotatedOnce' /\ ClaimsCurrent]_sessVars
    OBVIOUS
  <2>1. ASSUME SessNext PROVE SessInv' /\ ClaimsCurrent
    <3>1. CASE \E u \in Accounts, t \in AccountTenants \cup {"none"} : Login(u, t)
      BY <3>1, LoginStep
    <3>2. CASE \E c \in SessClients : \/ \E n \in Slots : RefreshRead(c, n)
                                      \/ RefreshEnds(c)
      BY <3>2, RefreshReadStep, RefreshIssueStep, RefreshFailsStep DEF RefreshEnds
    <3>3. CASE \E n \in Slots, u \in Accounts :
                 \/ \E r \in AccountRoles :
                      \/ UpdateUser(n, u, r)
                      \/ \E t \in AccountTenants : CreateUser(n, u, r, t)
                 \/ DeactivateUser(n, u)
      BY <3>3, CreateUserStep, AdministrationStep
    <3>4. CASE SessTick
      BY <3>4, SessTickStep
    <3> QED BY <2>1, <3>1, <3>2, <3>3, <3>4 DEF SessNext
  <2>2. CASE UNCHANGED sessVars
    <3>1. UNCHANGED <<account, pair, call>>
      BY <2>2 DEF sessVars
    <3>2. SessInv'
      BY <3>1 DEF SessInv, SessTypes, CallsTrue, Marked
    <3> QED BY <2>2, <3>2
  <2> QED BY <2>1, <2>2, MarkedIsRotated
<1> QED BY <1>1, <1>2, PTL DEF SessSpec, SessionsSound

-----------------------------------------------------------------------------
(* The limiter.  The invariant ties the age of a recorded request to its   *)
(* score, which the caller's clock gave, and says that whatever a window   *)
(* still counts has not left the sorted set, by a cutoff or by the key's   *)
(* time to live.                                                           *)

EntryType == [member : Nat, score : Nat, age : Nat, held : BOOLEAN, let : BOOLEAN]

RateTypes ==
    /\ rateBackend \in {"redis", "memory"}
    /\ rateLog \in [Stores -> SUBSET EntryType]
    /\ \A k \in Stores : IsFiniteSet(rateLog[k])
    /\ rateTTL \in [Stores -> Nat]
    /\ rateAsked \in [RateServers -> 0 .. NoneAsked]

\* The window that counts for the caller.
TrueWindow == IF rateBackend = "redis" THEN RateWindowLen - MaxDelay ELSE RateWindowLen

InWindow(k) == {e \in rateLog[k] : e.let /\ e.age < TrueWindow}

\* A script runs at most MaxDelay after its clock was read, a list at once.
ClocksTrue(log) ==
    \A e \in log :
        /\ e.age <= e.score /\ e.score <= Horizon
        /\ e.score <= e.age + (IF rateBackend = "redis" THEN MaxDelay ELSE 0)

RecentHeld(log) == \A e \in log : e.age < TrueWindow => e.held

MembersUnique(log) == \A e, f \in log : e.member = f.member => e = f

KeyOutlives(log, ttl) ==
    rateBackend = "redis" =>
        \A e \in log : e.age >= Horizon \/ e.age + ttl >= RateWindowLen + KeyBuffer

LogTrue(k) ==
    /\ ClocksTrue(rateLog[k]) /\ RecentHeld(rateLog[k]) /\ MembersUnique(rateLog[k])
    /\ KeyOutlives(rateLog[k], rateTTL[k])
    /\ Cardinality(InWindow(k)) <= MaxRequests

RateInv == RateTypes /\ \A k \in Stores : LogTrue(k)

LEMMA RateNumbers ==
    /\ MaxRequests \in Nat \ {0} /\ RateWindowLen \in Nat \ {0} /\ KeyBuffer \in Nat
    /\ MaxDelay \in Nat /\ MaxDelay <= KeyBuffer /\ MaxDelay < RateWindowLen
    /\ NoneAsked = MaxDelay + 1 /\ Horizon = RateWindowLen + MaxDelay
    /\ NoneAsked \in Nat /\ Horizon \in Nat
    /\ rateBackend \in {"redis", "memory"} => TrueWindow \in Nat /\ TrueWindow <= RateWindowLen
BY RateAssumption DEF NoneAsked, Horizon, TrueWindow

\* An image is no larger than the set it is the image of.
LEMMA ImageNotLarger ==
    ASSUME NEW S, IsFiniteSet(S), NEW f, NEW T,
           \A t \in T : \E x \in S : f[x] = t
    PROVE  IsFiniteSet(T) /\ Cardinality(T) <= Cardinality(S)
<1> DEFINE U == {f[x] : x \in S}
           g == [x \in S |-> f[x]]
<1>1. g \in Surjection(S, U)
  BY DEF Surjection
<1>2. IsFiniteSet(U) /\ Cardinality(U) <= Cardinality(S)
  BY <1>1, FS_Surjection
<1>3. T \in SUBSET U
  OBVIOUS
<1> HIDE DEF U
<1>4. IsFiniteSet(T) /\ Cardinality(T) <= Cardinality(U)
  BY <1>2, <1>3, FS_Subset
<1> QED BY <1>2, <1>4, FS_CardinalityType

\* There is always a member that no recorded request has.
LEMMA MemberIsNew ==
    ASSUME RateTypes, NEW k \in Stores
    PROVE  NewMember(k) \in Nat /\ \A e \in rateLog[k] : e.member # NewMember(k)
<1> DEFINE n == Cardinality(rateLog[k])
           used == {e.member : e \in rateLog[k]}
<1>1. IsFiniteSet(rateLog[k]) /\ n \in Nat
  BY FS_CardinalityType DEF RateTypes
<1>2. IsFiniteSet(used) /\ Cardinality(used) <= n /\ Cardinality(used) \in Nat
  <2> DEFINE f == [e \in rateLog[k] |-> e.member]
  <2>1. \A t \in used : \E e \in rateLog[k] : f[e] = t
    OBVIOUS
  <2> HIDE DEF f, used
  <2>2. IsFiniteSet(used) /\ Cardinality(used) <= n
    BY <1>1, <2>1, ImageNotLarger
  <2> QED BY <2>2, FS_CardinalityType
<1>3. \E m \in 1 .. n + 1 : m \notin used
  <2> SUFFICES ASSUME (1 .. n + 1) \in SUBSET used PROVE FALSE
    OBVIOUS
  <2> HIDE DEF used, n
  <2>1. Cardinality(1 .. n + 1) = n + 1
    BY <1>1, FS_Interval
  <2>2. Cardinality(1 .. n + 1) <= Cardinality(used)
    BY <1>2, FS_Subset
  <2> QED BY <1>1, <1>2, <2>1, <2>2
<1>4. \E m \in 1 .. n + 1 : \A e \in rateLog[k] : e.member # m
  BY <1>3
<1> QED BY <1>1, <1>4 DEF NewMember

\* What Holding leaves of the log is as it was, but for what it drops.
LEMMA HoldingChanges ==
    ASSUME RateTypes, NEW k \in Stores, NEW kept
    PROVE  /\ Holding(k, kept) \subseteq EntryType
           /\ \A f \in Holding(k, kept) :
                \E e \in rateLog[k] :
                    /\ f = [e EXCEPT !.held = e \in kept]
                    /\ f.member = e.member /\ f.score = e.score /\ f.age = e.age /\ f.let = e.let
                    /\ f.held <=> e \in kept
<1> SUFFICES ASSUME NEW f \in Holding(k, kept)
             PROVE  /\ f \in EntryType
                    /\ \E e \in rateLog[k] :
                         /\ f = [e EXCEPT !.held = e \in kept]
                         /\ f.member = e.member /\ f.score = e.score /\ f.age = e.age /\ f.let = e.let
                         /\ f.held <=> e \in kept
  OBVIOUS
<1>1. PICK e \in rateLog[k] : f = [e EXCEPT !.held = e \in kept]
  BY DEF Holding
<1>2. e \in EntryType /\ (e \in kept) \in BOOLEAN
  BY DEF RateTypes
<1>3. f.member = e.member /\ f.score = e.score /\ f.age = e.age /\ f.let = e.let
  BY <1>1, <1>2 DEF EntryType
<1>4. f.held <=> e \in kept
  BY <1>1, <1>2 DEF EntryType
<1>5. f \in EntryType
  BY <1>1, <1>2 DEF EntryType
<1> QED BY <1>1, <1>3, <1>4, <1>5

\* A request that the caller's window counts is kept by every cutoff.
LEMMA CountedAreKept ==
    ASSUME RateInv, NEW k \in Stores, NEW asked \in 0 .. MaxDelay,
           NEW e \in rateLog[k], e.age < TrueWindow
    PROVE  e \in Kept(k, asked)
<1>1. /\ e \in EntryType /\ e.held
      /\ e.score <= e.age + (IF rateBackend = "redis" THEN MaxDelay ELSE 0)
  BY DEF RateInv, RateTypes, LogTrue, ClocksTrue, RecentHeld
<1>2. e.score < RateWindowLen
  BY <1>1, RateNumbers DEF EntryType, TrueWindow
<1> QED BY <1>1, <1>2, RateNumbers DEF Kept, EntryType

\* What a script leaves of the log has all that the invariant asks.
LEMMA HoldingTrue ==
    ASSUME RateInv, NEW k \in Stores, NEW asked \in 0 .. MaxDelay
    PROVE  LET log == Holding(k, Kept(k, asked)) IN
           /\ log \in SUBSET EntryType /\ IsFiniteSet(log)
           /\ ClocksTrue(log) /\ RecentHeld(log) /\ MembersUnique(log)
           /\ KeyOutlives(log, rateTTL[k])
           /\ IsFiniteSet({f \in log : f.let /\ f.age < TrueWindow})
           /\ Cardinality({f \in log : f.let /\ f.age < TrueWindow}) <= Cardinality(InWindow(k))
           /\ \A f \in log : \E e \in rateLog[k] : f.member = e.member
<1> DEFINE kept == Kept(k, asked)
           log == Holding(k, kept)
           left(e) == [e EXCEPT !.held = e \in kept]
           recent == {f \in log : f.let /\ f.age < TrueWindow}
<1>1. /\ RateTypes /\ IsFiniteSet(rateLog[k]) /\ rateLog[k] \subseteq EntryType
      /\ LogTrue(k)
  BY DEF RateInv, RateTypes
<1>2. /\ log \subseteq EntryType
      /\ \A f \in log :
           \E e \in rateLog[k] :
             /\ f = left(e)
             /\ f.member = e.member /\ f.score = e.score /\ f.age = e.age /\ f.let = e.let
             /\ f.held <=> e \in kept
  <2> HIDE DEF kept
  <2> QED BY <1>1, HoldingChanges
<1>3. \A e \in rateLog[k] : e.age < TrueWindow => e \in kept
  BY CountedAreKept
<1> HIDE DEF kept, log
<1>4. IsFiniteSet(log)
  <2> DEFINE g == [e \in rateLog[k] |-> left(e)]
  <2>1. \A f \in log : \E e \in rateLog[k] : g[e] = f
    BY <1>2
  <2> HIDE DEF g
  <2> QED BY <1>1, <2>1, ImageNotLarger
<1>5. ClocksTrue(log)
  BY <1>1, <1>2 DEF ClocksTrue, LogTrue
<1>6. RecentHeld(log)
  BY <1>2, <1>3 DEF RecentHeld
<1>7. MembersUnique(log)
  <2> SUFFICES ASSUME NEW f \in log, NEW g \in log, f.member = g.member
               PROVE  f = g
    BY DEF MembersUnique
  <2>1. PICK e \in rateLog[k] : f = left(e) /\ f.member = e.member
    BY <1>2
  <2>2. PICK d \in rateLog[k] : g = left(d) /\ g.member = d.member
    BY <1>2
  <2>3. e = d
    BY <1>1, <2>1, <2>2 DEF LogTrue, MembersUnique
  <2> QED BY <2>1, <2>2, <2>3
<1>8. KeyOutlives(log, rateTTL[k])
  BY <1>1, <1>2 DEF KeyOutlives, LogTrue
<1>9. IsFiniteSet(recent) /\ Cardinality(recent) <= Cardinality(InWindow(k))
  <2> DEFINE g == [e \in InWindow(k) |-> left(e)]
  <2>1. IsFiniteSet(InWindow(k))
    BY <1>1, FS_Subset DEF InWindow
  <2>2. \A f \in recent : \E e \in InWindow(k) : g[e] = f
    BY <1>2 DEF InWindow
  <2> HIDE DEF g, recent
  <2> QED BY <2>1, <2>2, ImageNotLarger
<1> QED BY <1>2, <1>4, <1>5, <1>6, <1>7, <1>8, <1>9 DEF log, kept

\* The stores that an answer leaves alone.
LEMMA OneStore ==
    ASSUME RateInv, NEW k \in Stores, NEW log, NEW ttl \in Nat,
           log \in SUBSET EntryType, IsFiniteSet(log),
           ClocksTrue(log), RecentHeld(log), MembersUnique(log), KeyOutlives(log, ttl),
           Cardinality({f \in log : f.let /\ f.age < TrueWindow}) <= MaxRequests,
           rateLog' = [rateLog EXCEPT ![k] = log], rateTTL' = [rateTTL EXCEPT ![k] = ttl],
           rateAsked' \in [RateServers -> 0 .. NoneAsked], rateBackend' = rateBackend
    PROVE  RateInv'
<1>1. RateTypes'
  BY DEF RateInv, RateTypes
<1>2. TrueWindow' = TrueWindow
  BY DEF TrueWindow
<1> SUFFICES ASSUME NEW j \in Stores PROVE LogTrue(j)'
  BY <1>1 DEF RateInv
<1>3. /\ rateLog'[j] = IF j = k THEN log ELSE rateLog[j]
      /\ rateTTL'[j] = IF j = k THEN ttl ELSE rateTTL[j]
  BY DEF RateInv, RateTypes
<1>4. InWindow(j)' = {e \in rateLog'[j] : e.let /\ e.age < TrueWindow}
  BY <1>2 DEF InWindow
<1>5. CASE j = k
  <2>1. Cardinality(InWindow(j))' <= MaxRequests
    BY <1>3, <1>4, <1>5
  <2>2. ClocksTrue(rateLog[j])' /\ RecentHeld(rateLog[j])' /\ MembersUnique(rateLog[j])'
        /\ KeyOutlives(rateLog[j], rateTTL[j])'
    BY <1>2, <1>3, <1>5 DEF ClocksTrue, RecentHeld, MembersUnique, KeyOutlives
  <2> QED BY <2>1, <2>2 DEF LogTrue
<1>6. CASE j # k
  <2>1. LogTrue(j) /\ rateLog'[j] = rateLog[j] /\ rateTTL'[j] = rateTTL[j]
    BY <1>3, <1>6 DEF RateInv
  <2>2. Cardinality(InWindow(j))' <= MaxRequests
    BY <1>4, <2>1 DEF LogTrue, InWindow
  <2>3. ClocksTrue(rateLog[j])' /\ RecentHeld(rateLog[j])' /\ MembersUnique(rateLog[j])'
        /\ KeyOutlives(rateLog[j], rateTTL[j])'
    BY <1>2, <2>1 DEF LogTrue, ClocksTrue, RecentHeld, MembersUnique, KeyOutlives
  <2> QED BY <2>2, <2>3 DEF LogTrue
<1> QED BY <1>5, <1>6

\* The script, or the list, takes the request.
LEMMA RequestRecorded ==
    ASSUME RateInv, NEW k \in Stores, NEW asked \in 0 .. MaxDelay, NEW let \in BOOLEAN,
           rateBackend = "memory" => asked = 0,
           ~Full(k, asked), Added(k, asked, let),
           rateAsked' \in [RateServers -> 0 .. NoneAsked], rateBackend' = rateBackend
    PROVE  RateInv'
<1> DEFINE old == Holding(k, Kept(k, asked))
           new == Entry(NewMember(k), asked, let)
           log == old \cup {new}
           ttl == RateWindowLen + KeyBuffer
           recent(l) == {f \in l : f.let /\ f.age < TrueWindow}
<1>1. /\ RateTypes /\ LogTrue(k) /\ IsFiniteSet(rateLog[k])
      /\ rateBackend \in {"redis", "memory"} /\ rateTTL[k] \in Nat
  BY DEF RateInv, RateTypes
<1>2. /\ old \in SUBSET EntryType /\ IsFiniteSet(old)
      /\ ClocksTrue(old) /\ RecentHeld(old) /\ MembersUnique(old)
      /\ IsFiniteSet(recent(old)) /\ Cardinality(recent(old)) <= Cardinality(InWindow(k))
      /\ \A f \in old : \E e \in rateLog[k] : f.member = e.member
  BY HoldingTrue
<1>3. /\ NewMember(k) \in Nat /\ \A e \in rateLog[k] : e.member # NewMember(k)
  BY <1>1, MemberIsNew
<1>4. /\ new \in EntryType /\ new.member = NewMember(k) /\ new.score = asked /\ new.age = 0
      /\ new.held = TRUE /\ new.let = let
  BY <1>3, RateNumbers DEF Entry, EntryType
<1>5. rateLog' = [rateLog EXCEPT ![k] = log] /\ rateTTL' = [rateTTL EXCEPT ![k] = ttl]
  BY DEF Added
<1> HIDE DEF old, new
<1>6. log \in SUBSET EntryType /\ IsFiniteSet(log)
  BY <1>2, <1>4, FS_AddElement
<1>7. ClocksTrue(log)
  BY <1>1, <1>2, <1>4, RateNumbers DEF ClocksTrue
<1>8. RecentHeld(log)
  BY <1>2, <1>4 DEF RecentHeld
<1>9. MembersUnique(log)
  BY <1>2, <1>3, <1>4 DEF MembersUnique
<1>10. KeyOutlives(log, ttl)
  BY <1>6, RateNumbers DEF KeyOutlives, EntryType
<1>11. Cardinality(recent(log)) <= MaxRequests
  <2>1. InWindow(k) \in SUBSET Kept(k, asked) /\ Kept(k, asked) \in SUBSET rateLog[k]
    BY CountedAreKept DEF InWindow, Kept
  <2>2. IsFiniteSet(Kept(k, asked)) /\ Cardinality(Kept(k, asked)) \in Nat
    BY <1>1, <2>1, FS_Subset, FS_CardinalityType
  <2>3. Cardinality(InWindow(k)) <= Cardinality(Kept(k, asked)) /\ Cardinality(InWindow(k)) \in Nat
    BY <2>1, <2>2, FS_Subset, FS_CardinalityType
  <2>4. Cardinality(Kept(k, asked)) < MaxRequests
    BY <2>2, RateNumbers DEF Full
  <2>5. recent(log) \in SUBSET (recent(old) \cup {new})
    OBVIOUS
  <2> HIDE DEF recent
  <2>6. IsFiniteSet(recent(old)) /\ Cardinality(recent(old)) \in Nat
    BY <1>2, FS_CardinalityType
  <2>7. /\ IsFiniteSet(recent(old) \cup {new})
        /\ Cardinality(recent(old) \cup {new}) =
             IF new \in recent(old) THEN Cardinality(recent(old)) ELSE Cardinality(recent(old)) + 1
    BY <2>6, FS_AddElement, Zenon
  <2>8. /\ IsFiniteSet(recent(old) \cup {new}) /\ Cardinality(recent(old)) \in Nat
        /\ Cardinality(recent(old) \cup {new}) <= Cardinality(recent(old)) + 1
    BY <2>6, <2>7
  <2>9. /\ Cardinality(recent(log)) <= Cardinality(recent(old) \cup {new})
        /\ Cardinality(recent(log)) \in Nat /\ Cardinality(recent(old) \cup {new}) \in Nat
    BY <2>5, <2>8, FS_Subset, FS_CardinalityType
  <2> QED BY <1>2, <2>2, <2>3, <2>4, <2>8, <2>9, RateNumbers
<1>12. ttl \in Nat
  BY RateNumbers
<1> HIDE DEF log, ttl
<1> QED BY <1>5, <1>6, <1>7, <1>8, <1>9, <1>10, <1>11, <1>12, OneStore

LEMMA RequestDenied ==
    ASSUME RateInv, NEW k \in Stores, NEW asked \in 0 .. MaxDelay,
           rateLog' = [rateLog EXCEPT ![k] = Holding(k, Kept(k, asked))],
           rateAsked' \in [RateServers -> 0 .. NoneAsked], UNCHANGED <<rateBackend, rateTTL>>
    PROVE  RateInv'
<1> DEFINE log == Holding(k, Kept(k, asked))
<1>1. /\ rateTTL \in [Stores -> Nat] /\ IsFiniteSet(rateLog[k])
      /\ Cardinality(InWindow(k)) <= MaxRequests
  BY DEF RateInv, RateTypes, LogTrue
<1>2. /\ log \in SUBSET EntryType /\ IsFiniteSet(log)
      /\ ClocksTrue(log) /\ RecentHeld(log) /\ MembersUnique(log)
      /\ KeyOutlives(log, rateTTL[k])
      /\ IsFiniteSet({f \in log : f.let /\ f.age < TrueWindow})
      /\ Cardinality({f \in log : f.let /\ f.age < TrueWindow}) <= Cardinality(InWindow(k))
  BY HoldingTrue
<1> HIDE DEF log
<1>3. Cardinality({f \in log : f.let /\ f.age < TrueWindow}) <= MaxRequests
  <2>1. IsFiniteSet(InWindow(k))
    BY <1>1, FS_Subset DEF InWindow
  <2>2. Cardinality(InWindow(k)) \in Nat /\ Cardinality({f \in log : f.let /\ f.age < TrueWindow}) \in Nat
    BY <1>2, <2>1, FS_CardinalityType
  <2> QED BY <1>1, <1>2, <2>2, RateNumbers
<1>4. rateTTL[k] \in Nat /\ rateTTL' = [rateTTL EXCEPT ![k] = rateTTL[k]]
  BY <1>1
<1>5. rateLog' = [rateLog EXCEPT ![k] = log]
  BY DEF log
<1> QED BY <1>2, <1>3, <1>4, <1>5, OneStore

\* Time passes: every request is one unit older, and a key that is dropped
\* held nothing that a window counts.
LEMMA TimePasses ==
    ASSUME RateInv, RateTick
    PROVE  RateInv'
<1> DEFINE dropped(k) == rateBackend = "redis" /\ rateTTL'[k] = 0
           older(k, e) == [e EXCEPT !.score = Later(@), !.age = Later(@), !.held = @ /\ ~dropped(k)]
<1>1. /\ RateTypes /\ UNCHANGED rateBackend /\ TrueWindow' = TrueWindow
      /\ rateBackend \in {"redis", "memory"}
  BY DEF RateInv, RateTypes, RateTick, TrueWindow
<1>2. \A k \in Stores : /\ rateTTL[k] \in Nat /\ rateTTL'[k] \in Nat
                        /\ rateTTL'[k] = IF rateTTL[k] = 0 THEN 0 ELSE rateTTL[k] - 1
  BY <1>1 DEF RateTypes, RateTick
<1>3. \A n \in Nat : Later(n) \in Nat /\ (n <= Horizon => Later(n) <= Horizon)
                     /\ (n < Horizon => Later(n) = n + 1) /\ (n >= Horizon => Later(n) = Horizon)
  BY RateNumbers DEF Later
<1>4. ASSUME NEW k \in Stores
      PROVE  /\ rateLog'[k] \subseteq EntryType
             /\ \A f \in rateLog'[k] : \E e \in rateLog[k] :
                  /\ f = older(k, e)
                  /\ f.member = e.member /\ f.let = e.let
                  /\ f.score = Later(e.score) /\ f.age = Later(e.age)
                  /\ f.held <=> e.held /\ ~dropped(k)
  <2>1. rateLog'[k] = Aged(rateLog[k], dropped(k))
    BY DEF RateTick
  <2> SUFFICES ASSUME NEW f \in rateLog'[k]
               PROVE  f \in EntryType /\ \E e \in rateLog[k] :
                         /\ f = older(k, e)
                         /\ f.member = e.member /\ f.let = e.let
                         /\ f.score = Later(e.score) /\ f.age = Later(e.age)
                         /\ f.held <=> e.held /\ ~dropped(k)
    OBVIOUS
  <2> HIDE DEF dropped
  <2>2. PICK e \in rateLog[k] : f = older(k, e)
    BY <2>1 DEF Aged
  <2>3. e \in EntryType
    BY <1>1 DEF RateTypes
  <2>4. f \in EntryType /\ f.member = e.member /\ f.let = e.let
        /\ f.score = Later(e.score) /\ f.age = Later(e.age) /\ (f.held <=> e.held /\ ~dropped(k))
    BY <1>3, <2>2, <2>3 DEF EntryType
  <2> QED BY <2>2, <2>4
<1> HIDE DEF older
<1>5. ASSUME NEW k \in Stores PROVE IsFiniteSet(rateLog'[k])
  <2> DEFINE g == [e \in rateLog[k] |-> older(k, e)]
  <2>1. \A f \in rateLog'[k] : \E e \in rateLog[k] : g[e] = f
    BY <1>4
  <2>2. IsFiniteSet(rateLog[k])
    BY <1>1 DEF RateTypes
  <2> HIDE DEF g
  <2> QED BY <2>1, <2>2, ImageNotLarger
<1>6. RateTypes'
  <2>1. rateLog' \in [Stores -> SUBSET EntryType]
    <3>1. rateLog' = [k \in Stores |-> Aged(rateLog[k], dropped(k))]
      BY DEF RateTick
    <3>2. \A k \in Stores : rateLog'[k] \in SUBSET EntryType
      BY <1>4
    <3> QED BY <3>1, <3>2
  <2>2. rateTTL' \in [Stores -> Nat]
    BY <1>2 DEF RateTick
  <2>3. rateAsked' \in [RateServers -> 0 .. NoneAsked]
    BY <1>1, RateNumbers DEF RateTypes, RateTick
  <2> QED BY <1>1, <1>5, <2>1, <2>2, <2>3 DEF RateTypes
<1>7. ASSUME NEW k \in Stores PROVE LogTrue(k)'
  <2>1. /\ LogTrue(k) /\ rateLog[k] \subseteq EntryType /\ IsFiniteSet(rateLog[k])
    BY <1>1 DEF RateInv, RateTypes
  <2>2. \A f \in rateLog'[k] : \E e \in rateLog[k] :
          /\ e \in EntryType
          /\ f = older(k, e) /\ f.member = e.member /\ f.let = e.let
          /\ f.score = Later(e.score) /\ f.age = Later(e.age)
          /\ f.held <=> e.held /\ ~dropped(k)
    BY <1>4, <2>1
  <2>3. ClocksTrue(rateLog[k])'
    <3> SUFFICES ASSUME NEW f \in rateLog'[k]
                 PROVE  /\ f.age <= f.score /\ f.score <= Horizon
                        /\ f.score <= f.age + (IF rateBackend = "redis" THEN MaxDelay ELSE 0)
      BY <1>1 DEF ClocksTrue
    <3>1. PICK e \in rateLog[k] : e \in EntryType /\ f.score = Later(e.score) /\ f.age = Later(e.age)
      BY <2>2
    <3>2. /\ e.age <= e.score /\ e.score <= Horizon
          /\ e.score <= e.age + (IF rateBackend = "redis" THEN MaxDelay ELSE 0)
      BY <2>1 DEF LogTrue, ClocksTrue
    <3>3. e.age \in Nat /\ e.score \in Nat
      BY <3>1 DEF EntryType
    <3> QED BY <3>1, <3>2, <3>3, RateNumbers DEF Later
  <2>4. KeyOutlives(rateLog[k], rateTTL[k])'
    <3> SUFFICES ASSUME rateBackend = "redis", NEW f \in rateLog'[k]
                 PROVE  f.age >= Horizon \/ f.age + rateTTL'[k] >= RateWindowLen + KeyBuffer
      BY <1>1 DEF KeyOutlives
    <3>1. PICK e \in rateLog[k] : e \in EntryType /\ f.age = Later(e.age)
      BY <2>2
    <3>2. e.age >= Horizon \/ e.age + rateTTL[k] >= RateWindowLen + KeyBuffer
      BY <2>1 DEF LogTrue, KeyOutlives
    <3>3. e.age \in Nat
      BY <3>1 DEF EntryType
    <3> QED BY <1>2, <3>1, <3>2, <3>3, RateNumbers DEF Later
  <2>5. RecentHeld(rateLog[k])'
    <3> SUFFICES ASSUME NEW f \in rateLog'[k], f.age < TrueWindow
                 PROVE  f.held
      BY <1>1 DEF RecentHeld
    <3>1. PICK e \in rateLog[k] : /\ e \in EntryType /\ f.age = Later(e.age)
                                  /\ f.held <=> e.held /\ ~dropped(k)
      BY <2>2
    <3>2. e.age \in Nat /\ TrueWindow \in Nat /\ TrueWindow <= RateWindowLen
      BY <1>1, <3>1, RateNumbers DEF EntryType
    <3>3. e.age < TrueWindow
      BY <3>1, <3>2, RateNumbers DEF Later
    <3>4. e.held
      BY <2>1, <3>3 DEF LogTrue, RecentHeld
    <3>5. ~dropped(k)
      <4> SUFFICES ASSUME rateBackend = "redis", rateTTL'[k] = 0 PROVE FALSE
        OBVIOUS
      <4>1. f.age >= Horizon \/ f.age >= RateWindowLen + KeyBuffer
        BY <1>1, <2>4, <3>1, <3>2, RateNumbers DEF KeyOutlives, Later
      <4> QED BY <3>1, <3>2, <4>1, RateNumbers DEF Later
    <3> QED BY <3>1, <3>4, <3>5
  <2>6. MembersUnique(rateLog[k])'
    <3> SUFFICES ASSUME NEW f \in rateLog'[k], NEW g \in rateLog'[k], f.member = g.member
                 PROVE  f = g
      BY DEF MembersUnique
    <3>1. PICK e \in rateLog[k] : f = older(k, e) /\ f.member = e.member
      BY <2>2
    <3>2. PICK d \in rateLog[k] : g = older(k, d) /\ g.member = d.member
      BY <2>2
    <3>3. e = d
      BY <2>1, <3>1, <3>2 DEF LogTrue, MembersUnique
    <3> QED BY <3>1, <3>2, <3>3
  <2>7. Cardinality(InWindow(k))' <= MaxRequests
    <3> DEFINE g == [e \in InWindow(k) |-> older(k, e)]
               now == {f \in rateLog'[k] : f.let /\ f.age < TrueWindow}
    <3>1. IsFiniteSet(InWindow(k)) /\ Cardinality(InWindow(k)) <= MaxRequests
      BY <2>1, FS_Subset DEF InWindow, LogTrue
    <3>2. \A f \in now : \E e \in InWindow(k) : g[e] = f
      <4> SUFFICES ASSUME NEW f \in now PROVE \E e \in InWindow(k) : g[e] = f
        OBVIOUS
      <4>1. PICK e \in rateLog[k] : e \in EntryType /\ f = older(k, e) /\ f.let = e.let /\ f.age = Later(e.age)
        BY <2>2
      <4>2. /\ e.age \in Nat /\ TrueWindow \in Nat /\ TrueWindow <= RateWindowLen
            /\ f.age < TrueWindow /\ f.let
        BY <1>1, <4>1, RateNumbers DEF EntryType
      <4>3. e.age < TrueWindow
        BY <4>1, <4>2, RateNumbers DEF Later
      <4> QED BY <4>1, <4>3 DEF InWindow
    <3>3. InWindow(k)' = now
      BY <1>1 DEF InWindow
    <3> HIDE DEF g, now
    <3>4. IsFiniteSet(now) /\ Cardinality(now) <= Cardinality(InWindow(k))
      BY <3>1, <3>2, ImageNotLarger
    <3>5. Cardinality(now) \in Nat /\ Cardinality(InWindow(k)) \in Nat
      BY <3>1, <3>4, FS_CardinalityType
    <3> QED BY <3>1, <3>3, <3>4, <3>5, RateNumbers
  <2> QED BY <2>3, <2>4, <2>5, <2>6, <2>7 DEF LogTrue
<1> QED BY <1>6, <1>7 DEF RateInv

LEMMA RateInitHolds ==
    RateInit => RateInv
<1> SUFFICES ASSUME RateInit PROVE RateInv
  OBVIOUS
<1>1. RateTypes
  BY RateNumbers, FS_EmptySet DEF RateInit, RateTypes
<1>2. ASSUME NEW k \in Stores PROVE LogTrue(k)
  <2>1. rateLog[k] = {} /\ InWindow(k) = {}
    BY DEF RateInit, InWindow
  <2> QED BY <2>1, FS_EmptySet, RateNumbers
          DEF LogTrue, ClocksTrue, RecentHeld, MembersUnique, KeyOutlives
<1> QED BY <1>1, <1>2 DEF RateInv

LEMMA RateSteps ==
    ASSUME RateInv, [RateNext]_rateVars
    PROVE  RateInv'
<1>1. ASSUME NEW s \in RateServers, rateAsked[s] # NoneAsked
      PROVE  StoreOf(s) \in Stores /\ rateAsked[s] \in 0 .. MaxDelay
  BY <1>1, RateNumbers DEF RateInv, RateTypes, StoreOf, Stores
<1>2. ASSUME NEW s \in RateServers, rateAsked' = [rateAsked EXCEPT ![s] = NoneAsked]
      PROVE  rateAsked' \in [RateServers -> 0 .. NoneAsked]
  BY <1>2, RateNumbers DEF RateInv, RateTypes
<1>3. ASSUME NEW s \in RateServers, Allow(s), rateBackend = "memory" => rateAsked[s] = 0
      PROVE  RateInv'
  BY <1>1, <1>2, <1>3, RequestRecorded DEF Allow
<1>4. ASSUME NEW s \in RateServers, Deny(s) PROVE RateInv'
  BY <1>1, <1>2, <1>4, RequestDenied DEF Deny
<1>5. ASSUME NEW s \in RateServers, ReadClock(s) PROVE RateInv'
  <2>1. RateTypes'
    BY <1>5, RateNumbers DEF RateInv, RateTypes, ReadClock
  <2>2. \A k \in Stores : LogTrue(k)'
    BY <1>5 DEF RateInv, ReadClock, LogTrue, ClocksTrue, RecentHeld, MembersUnique, KeyOutlives,
                InWindow, TrueWindow
  <2> QED BY <2>1, <2>2 DEF RateInv
<1>6. ASSUME UNCHANGED <<rateBackend, rateLog, rateTTL>>, rateAsked' \in [RateServers -> 0 .. NoneAsked]
      PROVE  RateInv'
  BY <1>6 DEF RateInv, RateTypes, LogTrue, ClocksTrue, RecentHeld, MembersUnique, KeyOutlives,
              InWindow, TrueWindow
<1>7. ASSUME NEW s \in RateServers, Unavailable(s) PROVE RateInv'
  <2>1. CASE UNCHANGED <<rateLog, rateTTL>>
    BY <1>2, <1>6, <1>7, <2>1 DEF Unavailable
  <2>2. CASE ~Full(StoreOf(s), rateAsked[s]) /\ Added(StoreOf(s), rateAsked[s], FALSE)
    BY <1>1, <1>2, <1>7, <2>2, RequestRecorded DEF Unavailable
  <2> QED BY <1>7, <2>1, <2>2 DEF Unavailable
<1>8. CASE RateTick
  BY <1>8, TimePasses
<1>9. CASE UNCHANGED rateVars
  BY <1>6, <1>9 DEF rateVars, RateInv, RateTypes
<1> QED BY <1>3, <1>4, <1>5, <1>7, <1>8, <1>9 DEF RateNext, AskRedis, AskMemory

\* A denial counts requests that are in the window, allowing for the delay.
LEMMA DenialCounts ==
    ASSUME RateInv
    PROVE  DenialJustified
<1> SUFFICES ASSUME NEW s \in RateServers, Deny(s)
             PROVE  Cardinality({e \in rateLog[StoreOf(s)] : e.age < Horizon}) >= MaxRequests
  BY DEF DenialJustified
<1> DEFINE k == StoreOf(s)
           young == {e \in rateLog[k] : e.age < Horizon}
           kept == Kept(k, rateAsked[s])
<1>1. /\ k \in Stores /\ rateAsked[s] \in 0 .. MaxDelay
      /\ IsFiniteSet(rateLog[k]) /\ rateLog[k] \subseteq EntryType /\ ClocksTrue(rateLog[k])
      /\ rateBackend \in {"redis", "memory"}
  BY RateNumbers DEF RateInv, RateTypes, LogTrue, Deny, StoreOf, Stores
<1>2. kept \in SUBSET young
  BY <1>1, RateNumbers DEF Kept, ClocksTrue, EntryType
<1>3. IsFiniteSet(young)
  BY <1>1, FS_Subset
<1>4. Cardinality(kept) >= MaxRequests
  BY DEF Deny, Full
<1> HIDE DEF young, kept
<1>5. Cardinality(kept) <= Cardinality(young) /\ Cardinality(kept) \in Nat /\ Cardinality(young) \in Nat
  BY <1>2, <1>3, FS_Subset, FS_CardinalityType
<1>6. Cardinality(young) >= MaxRequests
  BY <1>4, <1>5, RateNumbers
<1> QED BY <1>6 DEF young

\* is_allowed keeps its limit, for every number of servers, every window and
\* every limit: no window of the callers holds more admitted requests than the
\* limit, however long (within MaxDelay) a script waits after its clock was
\* read, and a denial has as many recorded requests behind it.
THEOREM LimiterKeepsLimit == RateSpec => LimitKept
<1>1. RateInit => RateInv
  BY RateInitHolds
<1>2. RateInv /\ [RateNext]_rateVars => RateInv'
  BY RateSteps
<1>3. RateInv => RateBounded /\ DenialJustified
  BY DenialCounts DEF RateInv, LogTrue, InWindow, TrueWindow, RateBounded
<1> QED BY <1>1, <1>2, <1>3, PTL DEF RateSpec, LimitKept

-----------------------------------------------------------------------------
(* The learning loop reads its lists one after the other, what refers      *)
(* before what is referred to.  The invariant says after which reads the   *)
(* pages are closed under which references, however many rows came in      *)
(* between; the insights alone are read too early, but never too early for *)
(* the decision the loop runs for.                                         *)

Counts == [{"good", "bad", "open"} -> Nat]

LoopType ==
    [target    : {0} \cup SigDecs,
     reads     : 0 .. 15,
     seen      : [SigTables -> Nat],
     outcomes  : [SigDecs -> Actuals],
     report    : {<<>>} \cup [SigPats -> Counts] \cup [SigContexts -> Counts]
                 \cup [SigInsights -> Counts],
     results   : [SigKinds -> SUBSET Nat],
     signalled : [SigKinds -> SUBSET Nat]]

SigTypes ==
    /\ rows \in [SigTables -> Nat]
    /\ sigActual \in [SigDecs -> Actuals]
    /\ loop \in LoopType

\* Rows refer to rows that exist.
ReferencesExist ==
    /\ rows["ctx"] <= CtxRows /\ rows["ins"] <= InsRows
    /\ rows["pat"] <= Len(PatContext) /\ rows["hyp"] <= Len(HypPatterns)
    /\ rows["rec"] <= Len(RecHypothesis) /\ rows["dec"] <= Len(DecRec)
    /\ \A p \in 1 .. rows["pat"] : PatContext[p] <= rows["ctx"]
    /\ \A h \in 1 .. rows["hyp"] : HypPatterns[h] \subseteq 1 .. rows["pat"]
    /\ \A r \in 1 .. rows["rec"] : RecHypothesis[r] <= rows["hyp"] /\ RecInsight[r] <= rows["ins"]
    /\ \A d \in 1 .. rows["dec"] : DecRec[d] <= rows["rec"]
    /\ \A d \in SigDecs : sigActual[d] # "none" => d <= rows["dec"]

\* What the loop saw was there, with the outcomes of its decisions.
SeenTrue ==
    /\ \A t \in SigTables : loop.seen[t] <= rows[t]
    /\ \A d \in SigDecs : loop.outcomes[d] # "none" => d <= loop.seen["dec"]
    /\ loop.reads > 0 => loop.target # 0
    /\ loop.target # 0 => sigActual[loop.target] # "none"
    /\ loop.reads > 0 => loop.outcomes[loop.target] # "none"

\* The references that the pages read last are closed under.
DecsClosed ==
    loop.reads \in {2, 3, 4, 6, 7, 8, 9, 12, 13, 14, 15} =>
        \A d \in 1 .. loop.seen["dec"] : DecRec[d] <= loop.seen["rec"]
RecsClosed ==
    loop.reads \in {3, 4, 7, 8, 9, 14, 15} =>
        \A r \in 1 .. loop.seen["rec"] : RecHypothesis[r] <= loop.seen["hyp"]
HypsClosed ==
    loop.reads \in {4, 8, 9, 15} =>
        \A h \in 1 .. loop.seen["hyp"] : HypPatterns[h] \subseteq 1 .. loop.seen["pat"]
PatsClosed ==
    loop.reads = 9 =>
        \A p \in 1 .. loop.seen["pat"] : PatContext[p] <= loop.seen["ctx"]

\* The insights are read before the decisions, but the loop's own decision was
\* there before them all.
InsightSeen ==
    loop.reads >= 10 => RecInsight[DecRec[loop.target]] <= loop.seen["ins"]

SeenClosed == DecsClosed /\ RecsClosed /\ HypsClosed /\ PatsClosed /\ InsightSeen

\* A report is what its transform makes of the pages.
ReportsTrue ==
    /\ loop.reads = 4 => loop.report = AttributeToPatterns(loop)
    /\ loop.reads = 9 => loop.report = AttributeToContexts(loop)
    /\ loop.reads = 12 => /\ loop.report = AttributeToInsights(loop)
                          /\ loop.results["ins"] = Journalled(loop)

\* What the loop's own decision leads to is among the results.
TargetAmongResults ==
    Fits => /\ loop.reads >= 4 => ChainOf(loop.target, "pat") \subseteq loop.results["pat"]
            /\ loop.reads >= 9 => ChainOf(loop.target, "ctx") \subseteq loop.results["ctx"]
            /\ loop.reads >= 12 => ChainOf(loop.target, "ins") \subseteq loop.results["ins"]

SigInv ==
    /\ SigTypes /\ ReferencesExist /\ SeenTrue /\ SeenClosed /\ ReportsTrue
    /\ TargetAmongResults /\ SignalsMissingOnlyBeyondPage

\* The constants, by row.
LEMMA SigRows ==
    /\ \A d \in SigDecs : /\ d \in Nat \ {0} /\ d <= Len(DecRec)
                          /\ DecRec[d] \in Nat \ {0} /\ DecPositive[d] \in BOOLEAN
    /\ \A r \in SigRecs : /\ r \in Nat \ {0} /\ RecHypothesis[r] \in Nat \ {0}
                          /\ RecInsight[r] \in Nat
    /\ \A h \in 1 .. Len(HypPatterns) : HypPatterns[h] \subseteq Nat \ {0}
    /\ \A p \in SigPats : p \in Nat \ {0} /\ PatContext[p] \in Nat \ {0}
    /\ {Len(PatContext), Len(HypPatterns), Len(RecHypothesis), Len(DecRec), CtxRows, InsRows}
         \subseteq Nat
    /\ SigPage \in Nat \ {0}
<1>1. /\ {Len(PatContext), Len(HypPatterns), Len(RecHypothesis), Len(DecRec), CtxRows, InsRows}
           \subseteq Nat
      /\ SigPage \in Nat \ {0}
  BY SigAssumption
<1>2. \A d \in SigDecs : /\ d \in Nat \ {0} /\ d <= Len(DecRec)
                         /\ DecRec[d] \in Nat \ {0} /\ DecPositive[d] \in BOOLEAN
  BY SigAssumption DEF SigDecs
<1>3. \A r \in SigRecs : /\ r \in Nat \ {0} /\ RecHypothesis[r] \in Nat \ {0}
                         /\ RecInsight[r] \in Nat
  BY SigAssumption DEF SigRecs
<1>4. \A h \in 1 .. Len(HypPatterns) : HypPatterns[h] \subseteq Nat \ {0}
  <2> SUFFICES ASSUME NEW h \in 1 .. Len(HypPatterns)
               PROVE  HypPatterns[h] \in SUBSET (Nat \ {0})
    OBVIOUS
  <2>1. HypPatterns \in [1 .. Len(HypPatterns) -> SUBSET (Nat \ {0})]
    BY SigAssumption
  <2> QED BY <2>1
<1>5. \A p \in SigPats : p \in Nat \ {0} /\ PatContext[p] \in Nat \ {0}
  BY SigAssumption DEF SigPats
<1> QED BY <1>1, <1>2, <1>3, <1>4, <1>5

LEMMA SigFinite ==
    /\ IsFiniteSet(SigDecs) /\ IsFiniteSet(SigPats)
    /\ IsFiniteSet(SigDecs \X SigPats)
<1>1. IsFiniteSet(SigDecs) /\ IsFiniteSet(SigPats)
  BY SigRows, FS_Interval DEF SigDecs, SigPats
<1> QED BY <1>1, FS_Product

\* A tally counts pairs of decisions and what they lead to.
LEMMA TallyCounts ==
    ASSUME NEW l, NEW links, IsFiniteSet(links)
    PROVE  Tally(l, links) \in Counts
<1>1. ASSUME NEW v PROVE Cardinality({x \in links : Classify(x[1], l.outcomes[x[1]]) = v}) \in Nat
  <2>1. {x \in links : Classify(x[1], l.outcomes[x[1]]) = v} \in SUBSET links
    OBVIOUS
  <2> QED BY <2>1, FS_Subset, FS_CardinalityType
<1> QED BY <1>1 DEF Tally, Counts

LEMMA ClassifyTells ==
    ASSUME NEW d \in SigDecs, NEW a \in Actuals, a # "none"
    PROVE  /\ Classify(d, a) \in {"good", "bad", "open"}
           /\ Classify(d, a) = "good" <=> a \in {"yes", "no"} /\ (a = "yes" <=> DecPositive[d])
           /\ Classify(d, a) = "bad" <=> a \in {"yes", "no"} /\ ~(a = "yes" <=> DecPositive[d])
           /\ Classify(d, a) = "open" <=> a \notin {"yes", "no"}
<1>1. DecPositive[d] \in BOOLEAN
  BY SigRows
<1> QED BY <1>1 DEF Classify, Actuals

LEMMA TallyIsTruth ==
    ASSUME SigTypes, NEW links, \A x \in links : x[1] \in WithOutcome
    PROVE  Tally(loop, links) = Truth(links)
<1>1. ASSUME NEW x \in links
      PROVE  /\ Classify(x[1], loop.outcomes[x[1]]) = "good" <=> Confirmed(x[1])
             /\ Classify(x[1], loop.outcomes[x[1]]) = "bad" <=> Conclusive(x[1]) /\ ~Confirmed(x[1])
             /\ Classify(x[1], loop.outcomes[x[1]]) = "open" <=> ~Conclusive(x[1])
  <2>1. x[1] \in SigDecs /\ loop.outcomes[x[1]] \in Actuals /\ loop.outcomes[x[1]] # "none"
    BY DEF WithOutcome, SigTypes, LoopType
  <2> QED BY <2>1, ClassifyTells DEF Confirmed, Conclusive
<1>2. /\ {x \in links : Classify(x[1], loop.outcomes[x[1]]) = "good"} = {x \in links : Confirmed(x[1])}
      /\ {x \in links : Classify(x[1], loop.outcomes[x[1]]) = "bad"} =
           {x \in links : Conclusive(x[1]) /\ ~Confirmed(x[1])}
      /\ {x \in links : Classify(x[1], loop.outcomes[x[1]]) = "open"} = {x \in links : ~Conclusive(x[1])}
  BY <1>1
<1>3. Tally(loop, links) =
        [v \in {"good", "bad", "open"} |->
           CASE v = "good" -> Cardinality({x \in links : Confirmed(x[1])})
             [] v = "bad"  -> Cardinality({x \in links : Conclusive(x[1]) /\ ~Confirmed(x[1])})
             [] v = "open" -> Cardinality({x \in links : ~Conclusive(x[1])})]
  BY <1>2 DEF Tally
<1> QED BY <1>3 DEF Truth

\* A list that fits into a page shows what was there when it was read.
LEMMA PageShows ==
    ASSUME SigTypes, SeenTrue, Fits, NEW t \in SigTables, NEW i \in Nat \ {0}
    PROVE  InPage(loop, t, i) <=> i <= loop.seen[t]
<1>1. loop.seen[t] \in Nat /\ rows[t] \in Nat /\ SigPage \in Nat
  BY SigRows DEF SigTypes, LoopType
<1>2. loop.seen[t] <= SigPage
  BY <1>1 DEF SeenTrue, Fits
<1> QED BY <1>1, <1>2 DEF InPage

\* What was seen is a row of its table.
LEMMA SeenWithin ==
    ASSUME SigTypes, ReferencesExist, SeenTrue
    PROVE  /\ \A t \in SigTables : loop.seen[t] \in Nat /\ rows[t] \in Nat /\ loop.seen[t] <= rows[t]
           /\ \A d \in Nat \ {0} : d <= loop.seen["dec"] => d \in 1 .. loop.seen["dec"] /\ d \in 1 .. rows["dec"]
           /\ \A r \in Nat \ {0} : r <= loop.seen["rec"] => r \in 1 .. loop.seen["rec"] /\ r \in SigRecs
           /\ \A h \in Nat \ {0} : h <= loop.seen["hyp"] => h \in 1 .. loop.seen["hyp"] /\ h \in 1 .. Len(HypPatterns)
           /\ \A p \in Nat \ {0} : p <= loop.seen["pat"] => p \in 1 .. loop.seen["pat"] /\ p \in SigPats
           /\ \A c \in Nat \ {0} : c <= loop.seen["ctx"] => c \in SigContexts
           /\ \A i \in Nat \ {0} : i <= loop.seen["ins"] => i \in SigInsights
<1>1. \A t \in SigTables : loop.seen[t] \in Nat /\ rows[t] \in Nat /\ loop.seen[t] <= rows[t]
  BY DEF SigTypes, LoopType, SeenTrue
<1>2. \A t \in {"ctx", "pat", "hyp", "ins", "rec", "dec"} :
        loop.seen[t] \in Nat /\ rows[t] \in Nat /\ loop.seen[t] <= rows[t]
  BY <1>1 DEF SigTables
<1>2a. /\ loop.seen["ctx"] \in Nat /\ rows["ctx"] \in Nat /\ loop.seen["ctx"] <= rows["ctx"]
       /\ loop.seen["ins"] \in Nat /\ rows["ins"] \in Nat /\ loop.seen["ins"] <= rows["ins"]
  BY <1>2
<1>2b. CtxRows \in Nat /\ InsRows \in Nat /\ rows["ctx"] <= CtxRows /\ rows["ins"] <= InsRows
  BY SigAssumption DEF ReferencesExist
<1>3. \A d \in Nat \ {0} : d <= loop.seen["dec"] => d \in 1 .. loop.seen["dec"] /\ d \in 1 .. rows["dec"]
  BY <1>2
<1>4. \A r \in Nat \ {0} : r <= loop.seen["rec"] => r \in 1 .. loop.seen["rec"] /\ r \in SigRecs
  BY <1>2, SigRows DEF ReferencesExist, SigRecs
<1>5. \A h \in Nat \ {0} : h <= loop.seen["hyp"] => h \in 1 .. loop.seen["hyp"] /\ h \in 1 .. Len(HypPatterns)
  BY <1>2, SigRows DEF ReferencesExist
<1>6. \A p \in Nat \ {0} : p <= loop.seen["pat"] => p \in 1 .. loop.seen["pat"] /\ p \in SigPats
  BY <1>2, SigRows DEF ReferencesExist, SigPats
<1>7. \A c \in Nat \ {0} : c <= loop.seen["ctx"] => c \in SigContexts
  BY <1>2a, <1>2b DEF SigContexts
<1>8. \A i \in Nat \ {0} : i <= loop.seen["ins"] => i \in SigInsights
  BY <1>2a, <1>2b DEF SigInsights
<1> QED BY <1>1, <1>3, <1>4, <1>5, <1>6, <1>7, <1>8

LEMMA AttributableShown ==
    ASSUME SigTypes, ReferencesExist, SeenTrue, DecsClosed, Fits,
           loop.reads \in {4, 9, 12, 15}
    PROVE  Attributable(loop) = WithOutcome
<1> SUFFICES ASSUME NEW d \in SigDecs, loop.outcomes[d] # "none"
             PROVE  InPage(loop, "dec", d) /\ InPage(loop, "rec", DecRec[d])
  BY DEF Attributable, WithOutcome
<1>1. d \in Nat \ {0} /\ DecRec[d] \in Nat \ {0} /\ loop.seen["dec"] \in Nat
  BY SigRows DEF SigTypes, LoopType, SigTables
<1>2. d <= loop.seen["dec"]
  BY DEF SeenTrue
<1>3. DecRec[d] <= loop.seen["rec"]
  BY <1>1, <1>2 DEF DecsClosed
<1> QED BY <1>1, <1>2, <1>3, PageShows DEF SigTables

LEMMA PatternsShown ==
    ASSUME SigTypes, ReferencesExist, SeenTrue, SeenClosed, Fits,
           loop.reads \in {4, 9, 15}, NEW d \in SigDecs, d <= loop.seen["dec"]
    PROVE  PatternsOf(loop, d) = Chain(d)
<1> DEFINE h == RecHypothesis[DecRec[d]]
<1>1. d \in Nat \ {0} /\ DecRec[d] \in Nat \ {0} /\ d \in 1 .. loop.seen["dec"]
  BY SigRows, SeenWithin
<1>1a. DecRec[d] <= loop.seen["rec"]
  BY <1>1 DEF SeenClosed, DecsClosed
<1>2. DecRec[d] \in 1 .. loop.seen["rec"] /\ DecRec[d] \in SigRecs
  BY <1>1, <1>1a, SeenWithin
<1>3. h \in Nat \ {0} /\ h <= loop.seen["hyp"]
  BY <1>2, SigRows DEF SeenClosed, RecsClosed
<1>3a. h \in 1 .. loop.seen["hyp"] /\ h \in 1 .. Len(HypPatterns)
  BY <1>3, SeenWithin
<1>4. HypPatterns[h] \subseteq 1 .. loop.seen["pat"] /\ HypPatterns[h] \subseteq Nat \ {0}
  BY <1>3a, SigRows DEF SeenClosed, HypsClosed
<1>4a. \A p \in HypPatterns[h] : p \in Nat \ {0} /\ p <= loop.seen["pat"]
  <2>1. loop.seen["pat"] \in Nat
    BY SeenWithin DEF SigTables
  <2> QED BY <1>4, <2>1
<1>5. HypPatterns[h] \subseteq SigPats
  BY <1>4a, SeenWithin
<1>6. InPage(loop, "hyp", h)
  BY <1>3, PageShows DEF SigTables
<1>7. \A p \in HypPatterns[h] : InPage(loop, "pat", p)
  BY <1>4a, PageShows DEF SigTables
<1> QED BY <1>5, <1>6, <1>7 DEF PatternsOf, Chain

\* The contexts of a decision are on their page when the revision counts.
LEMMA ContextsShown ==
    ASSUME SigTypes, ReferencesExist, SeenTrue, SeenClosed, Fits, loop.reads = 9,
           NEW p \in SigPats, InPage(loop, "pat", p)
    PROVE  PatContext[p] \in SigContexts /\ InPage(loop, "ctx", PatContext[p])
<1>1. p \in Nat \ {0} /\ PatContext[p] \in Nat \ {0}
  BY SigRows
<1>2. p \in 1 .. loop.seen["pat"]
  BY <1>1, SeenWithin DEF InPage
<1>3. PatContext[p] <= loop.seen["ctx"]
  BY <1>2 DEF SeenClosed, PatsClosed
<1>4. PatContext[p] \in SigContexts
  BY <1>1, <1>3, SeenWithin
<1> QED BY <1>1, <1>3, <1>4, PageShows DEF SigTables

LEMMA WithOutcomeSeen ==
    ASSUME SigTypes, SeenTrue, NEW d \in WithOutcome
    PROVE  d \in SigDecs /\ d <= loop.seen["dec"]
BY DEF WithOutcome, SeenTrue

LEMMA CountsDecide ==
    ASSUME NEW c, c.good \in Nat, c.bad \in Nat
    PROVE  /\ RefineAction(c) = "deactivate" <=> Contradicts(c)
           /\ ReviseAction(c, TRUE) = "consider_competitor" <=> Contradicts(c)
BY DEF RefineAction, ReviseAction, Contradicts

LEMMA TruthCounts ==
    ASSUME NEW links, IsFiniteSet(links)
    PROVE  Truth(links).good \in Nat /\ Truth(links).bad \in Nat
<1>1. /\ {x \in links : Confirmed(x[1])} \in SUBSET links
      /\ {x \in links : Conclusive(x[1]) /\ ~Confirmed(x[1])} \in SUBSET links
  OBVIOUS
<1>2. /\ Cardinality({x \in links : Confirmed(x[1])}) \in Nat
      /\ Cardinality({x \in links : Conclusive(x[1]) /\ ~Confirmed(x[1])}) \in Nat
  BY <1>1, FS_Subset, FS_CardinalityType
<1> QED BY <1>2 DEF Truth

\* The three reports, when the tables fit into a page.
LEMMA PatternReportExact ==
    ASSUME SigInv, Fits, loop.reads = 4, NEW p \in SigPats
    PROVE  LET c == Truth({x \in WithOutcome \X {p} : p \in Chain(x[1])}) IN
           /\ loop.report[p] = c
           /\ RefineAction(loop.report[p]) = "deactivate" <=> Contradicts(c)
<1> DEFINE found == {x \in SigDecs \X {p} : x[1] \in Attributable(loop) /\ p \in PatternsOf(loop, x[1])}
           real == {x \in WithOutcome \X {p} : p \in Chain(x[1])}
<1>1. /\ SigTypes /\ ReferencesExist /\ SeenTrue /\ SeenClosed /\ loop.reads \in {4, 9, 15}
      /\ loop.reads \in {4, 9, 12, 15}
  BY DEF SigInv
<1>2. Attributable(loop) = WithOutcome
  BY <1>1, AttributableShown DEF SeenClosed
<1>3. \A d \in WithOutcome : d \in SigDecs /\ PatternsOf(loop, d) = Chain(d)
  BY <1>1, WithOutcomeSeen, PatternsShown
<1>4. found = real
  BY <1>2, <1>3
<1>5. loop.report[p] = Tally(loop, found)
  BY DEF SigInv, ReportsTrue, AttributeToPatterns
<1>6. \A x \in real : x[1] \in WithOutcome
  OBVIOUS
<1>7. real \in SUBSET (SigDecs \X SigPats)
  BY <1>3
<1>8. IsFiniteSet(real)
  BY <1>7, SigFinite, FS_Subset
<1> HIDE DEF found, real
<1>9. loop.report[p] = Truth(real)
  BY <1>1, <1>4, <1>5, <1>6, TallyIsTruth
<1>10. RefineAction(loop.report[p]) = "deactivate" <=> Contradicts(Truth(real))
  BY <1>8, <1>9, TruthCounts, CountsDecide
<1> QED BY <1>9, <1>10 DEF real

LEMMA ContextReportExact ==
    ASSUME SigInv, Fits, loop.reads = 9, NEW k \in SigContexts
    PROVE  LET c == Truth({x \in WithOutcome \X SigPats :
                             x[2] \in Chain(x[1]) /\ PatContext[x[2]] = k}) IN
           /\ loop.report[k] = c
           /\ ReviseAction(loop.report[k], TRUE) = "consider_competitor" <=> Contradicts(c)
<1> DEFINE found == {x \in SigDecs \X SigPats : /\ InPage(loop, "ctx", k)
                                                /\ x[1] \in Attributable(loop)
                                                /\ x[2] \in PatternsOf(loop, x[1])
                                                /\ PatContext[x[2]] = k}
           real == {x \in WithOutcome \X SigPats : x[2] \in Chain(x[1]) /\ PatContext[x[2]] = k}
<1>1. /\ SigTypes /\ ReferencesExist /\ SeenTrue /\ SeenClosed /\ loop.reads \in {4, 9, 15}
      /\ loop.reads \in {4, 9, 12, 15}
  BY DEF SigInv
<1>2. Attributable(loop) = WithOutcome
  BY <1>1, AttributableShown DEF SeenClosed
<1>3. \A d \in WithOutcome : d \in SigDecs /\ PatternsOf(loop, d) = Chain(d)
  BY <1>1, WithOutcomeSeen, PatternsShown
<1>3a. \A d \in WithOutcome : \A p \in Chain(d) : p \in SigPats /\ InPage(loop, "pat", p)
  BY <1>3 DEF PatternsOf
<1>3b. \A d \in WithOutcome : \A p \in Chain(d) : InPage(loop, "ctx", PatContext[p])
  BY <1>1, <1>3a, ContextsShown
<1>4. found = real
  BY <1>2, <1>3, <1>3b
<1>5. loop.report[k] = Tally(loop, found)
  BY DEF SigInv, ReportsTrue, AttributeToContexts
<1>6. \A x \in real : x[1] \in WithOutcome
  OBVIOUS
<1>7. real \in SUBSET (SigDecs \X SigPats)
  BY <1>3
<1>8. IsFiniteSet(real)
  BY <1>7, SigFinite, FS_Subset
<1> HIDE DEF found, real
<1>9. loop.report[k] = Truth(real)
  BY <1>1, <1>4, <1>5, <1>6, TallyIsTruth
<1>10. ReviseAction(loop.report[k], TRUE) = "consider_competitor" <=> Contradicts(Truth(real))
  BY <1>8, <1>9, TruthCounts, CountsDecide
<1> QED BY <1>9, <1>10 DEF real

LEMMA InsightReportExact ==
    ASSUME SigInv, Fits, loop.reads = 12, NEW i \in loop.results["ins"]
    PROVE  loop.report[i] = Truth({x \in WithOutcome \X {i} : RecInsight[DecRec[x[1]]] = i})
<1> DEFINE found == {x \in SigDecs \X {i} : /\ InPage(loop, "ins", i)
                                            /\ x[1] \in Attributable(loop)
                                            /\ RecInsight[DecRec[x[1]]] = i}
           real == {x \in WithOutcome \X {i} : RecInsight[DecRec[x[1]]] = i}
<1>1. /\ SigTypes /\ ReferencesExist /\ SeenTrue /\ DecsClosed
      /\ loop.reads \in {4, 9, 12, 15}
      /\ i \in SigInsights /\ InPage(loop, "ins", i)
  BY DEF SigInv, SeenClosed, ReportsTrue, Journalled
<1>2. Attributable(loop) = WithOutcome
  BY <1>1, AttributableShown
<1>3. found = real
  BY <1>1, <1>2 DEF WithOutcome
<1>4. loop.report[i] = Tally(loop, found)
  BY <1>1 DEF SigInv, ReportsTrue, AttributeToInsights
<1>5. \A x \in real : x[1] \in WithOutcome
  OBVIOUS
<1> HIDE DEF found, real
<1>6. loop.report[i] = Truth(real)
  BY <1>1, <1>3, <1>4, <1>5, TallyIsTruth
<1> QED BY <1>6 DEF real

LEMMA SigInvSound ==
    SigInv => SignalsSound
<1> SUFFICES ASSUME SigInv PROVE TransformsExact
  BY DEF SigInv, SignalsSound
<1> QED BY PatternReportExact, ContextReportExact, InsightReportExact DEF TransformsExact

\* Only the pages and the outcomes count for a report.
LEMMA PagesCount ==
    ASSUME NEW l, NEW m, l.seen = m.seen, l.outcomes = m.outcomes
    PROVE  /\ AttributeToPatterns(l) = AttributeToPatterns(m)
           /\ AttributeToContexts(l) = AttributeToContexts(m)
           /\ AttributeToInsights(l) = AttributeToInsights(m)
           /\ Refined(l) = Refined(m) /\ Revised(l) = Revised(m) /\ Journalled(l) = Journalled(m)
           /\ \A d : PatternsOf(l, d) = PatternsOf(m, d)
           /\ \A t, i : InPage(l, t, i) <=> InPage(m, t, i)
<1>1. \A t, i : InPage(l, t, i) <=> InPage(m, t, i)
  BY DEF InPage
<1>2. \A d : PatternsOf(l, d) = PatternsOf(m, d)
  BY <1>1 DEF PatternsOf
<1>3. Attributable(l) = Attributable(m)
  BY <1>1 DEF Attributable
<1>4. \A links : Tally(l, links) = Tally(m, links)
  BY DEF Tally
<1>5. AttributeToPatterns(l) = AttributeToPatterns(m)
  BY <1>2, <1>3, <1>4 DEF AttributeToPatterns
<1>6. AttributeToContexts(l) = AttributeToContexts(m)
  <2> DEFINE links(k, c) == {x \in SigDecs \X SigPats : /\ InPage(k, "ctx", c)
                                                       /\ x[1] \in Attributable(k)
                                                       /\ x[2] \in PatternsOf(k, x[1])
                                                       /\ PatContext[x[2]] = c}
  <2>1. \A c : links(l, c) = links(m, c)
    BY <1>1, <1>2, <1>3
  <2>2. \A k : AttributeToContexts(k) = [c \in SigContexts |-> Tally(k, links(k, c))]
    BY DEF AttributeToContexts
  <2> HIDE DEF links
  <2> QED BY <1>4, <2>1, <2>2
<1>7. AttributeToInsights(l) = AttributeToInsights(m)
  <2> DEFINE links(k, i) == {x \in SigDecs \X {i} : /\ InPage(k, "ins", i)
                                                    /\ x[1] \in Attributable(k)
                                                    /\ RecInsight[DecRec[x[1]]] = i}
  <2>1. \A i : links(l, i) = links(m, i)
    BY <1>1, <1>3
  <2>2. \A k : AttributeToInsights(k) = [i \in SigInsights |-> Tally(k, links(k, i))]
    BY DEF AttributeToInsights
  <2> HIDE DEF links
  <2> QED BY <1>4, <2>1, <2>2
<1>8. Refined(l) = Refined(m) /\ Revised(l) = Revised(m) /\ Journalled(l) = Journalled(m)
  BY <1>1, <1>5, <1>6 DEF Refined, Revised, Journalled
<1> QED BY <1>1, <1>2, <1>5, <1>6, <1>7, <1>8

LEMMA ReportsTyped ==
    ASSUME NEW l
    PROVE  /\ AttributeToPatterns(l) \in [SigPats -> Counts]
           /\ AttributeToContexts(l) \in [SigContexts -> Counts]
           /\ AttributeToInsights(l) \in [SigInsights -> Counts]
<1>1. ASSUME NEW p \in SigPats
      PROVE  IsFiniteSet({x \in SigDecs \X {p} : x[1] \in Attributable(l) /\ p \in PatternsOf(l, x[1])})
  BY SigFinite, FS_Singleton, FS_Product, FS_Subset
<1>2. ASSUME NEW c \in SigContexts
      PROVE  IsFiniteSet({x \in SigDecs \X SigPats : /\ InPage(l, "ctx", c)
                                                     /\ x[1] \in Attributable(l)
                                                     /\ x[2] \in PatternsOf(l, x[1])
                                                     /\ PatContext[x[2]] = c})
  BY SigFinite, FS_Subset
<1>3. ASSUME NEW i \in SigInsights
      PROVE  IsFiniteSet({x \in SigDecs \X {i} : /\ InPage(l, "ins", i)
                                                 /\ x[1] \in Attributable(l)
                                                 /\ RecInsight[DecRec[x[1]]] = i})
  BY SigFinite, FS_Singleton, FS_Product, FS_Subset
<1>4. AttributeToPatterns(l) \in [SigPats -> Counts]
  BY <1>1, TallyCounts DEF AttributeToPatterns
<1>5. AttributeToContexts(l) \in [SigContexts -> Counts]
  BY <1>2, TallyCounts DEF AttributeToContexts
<1>6. AttributeToInsights(l) \in [SigInsights -> Counts]
  BY <1>3, TallyCounts DEF AttributeToInsights
<1> QED BY <1>4, <1>5, <1>6

\* A link of a decision with an outcome is counted, as whatever it is.
LEMMA LinkCounts ==
    ASSUME SigTypes, NEW links, IsFiniteSet(links), NEW x \in links, x[1] \in WithOutcome
    PROVE  SigLinked(Tally(loop, links)) > 0
<1> DEFINE in(v) == {y \in links : Classify(y[1], loop.outcomes[y[1]]) = v}
<1>1. Classify(x[1], loop.outcomes[x[1]]) \in {"good", "bad", "open"}
  BY ClassifyTells DEF WithOutcome, SigTypes, LoopType
<1>2. ASSUME NEW v PROVE Cardinality(in(v)) \in Nat /\ (x \in in(v) => Cardinality(in(v)) > 0)
  <2>1. IsFiniteSet(in(v))
    BY FS_Subset
  <2> HIDE DEF in
  <2>2. Cardinality(in(v)) \in Nat /\ (Cardinality(in(v)) = 0 <=> in(v) = {})
    BY <2>1, FS_CardinalityType, FS_EmptySet
  <2> QED BY <2>2
<1>3. \E v \in {"good", "bad", "open"} : x \in in(v)
  BY <1>1
<1>4. Tally(loop, links) = [v \in {"good", "bad", "open"} |-> Cardinality(in(v))]
  BY DEF Tally
<1> HIDE DEF in
<1> QED BY <1>2, <1>3, <1>4 DEF SigLinked

LEMMA TargetSeen ==
    ASSUME SigTypes, SeenTrue, loop.reads > 0
    PROVE  loop.target \in WithOutcome /\ loop.target \in SigDecs /\ loop.target <= loop.seen["dec"]
BY DEF SigTypes, LoopType, SeenTrue, WithOutcome

Pages == SigTypes /\ ReferencesExist /\ SeenTrue /\ SeenClosed /\ Fits

\* Each pattern of the loop's decision has that decision to count ...
LEMMA TargetRefined ==
    Pages /\ loop.reads = 4 => ChainOf(loop.target, "pat") \subseteq Refined(loop)
<1> SUFFICES ASSUME Pages, loop.reads = 4, NEW p \in Chain(loop.target)
             PROVE  p \in Refined(loop)
  BY DEF ChainOf
<1> DEFINE d == loop.target
           links == {x \in SigDecs \X {p} : x[1] \in Attributable(loop) /\ p \in PatternsOf(loop, x[1])}
<1>0. SigTypes /\ ReferencesExist /\ SeenTrue /\ SeenClosed /\ DecsClosed /\ Fits /\ loop.reads \in {4, 9, 15}
      /\ loop.reads \in {4, 9, 12, 15}
  BY DEF Pages, SeenClosed
<1>1. d \in WithOutcome /\ d <= loop.seen["dec"] /\ d \in SigDecs
  BY <1>0, TargetSeen
<1>2. PatternsOf(loop, d) = Chain(d) /\ Attributable(loop) = WithOutcome
  BY <1>0, <1>1, PatternsShown, AttributableShown
<1>3. p \in SigPats /\ <<d, p>> \in links
  BY <1>1, <1>2 DEF PatternsOf
<1>4. IsFiniteSet(links)
  BY SigFinite, FS_Singleton, FS_Product, FS_Subset
<1>5. AttributeToPatterns(loop)[p] = Tally(loop, links)
  BY <1>3 DEF AttributeToPatterns
<1>6. <<d, p>>[1] \in WithOutcome
  BY <1>1
<1> HIDE DEF links
<1>7. SigLinked(AttributeToPatterns(loop)[p]) > 0
  BY <1>0, <1>3, <1>4, <1>5, <1>6, LinkCounts
<1> QED BY <1>3, <1>7 DEF Refined

\* ... and so has each of their contexts.
LEMMA TargetRevised ==
    Pages /\ loop.reads = 9 => ChainOf(loop.target, "ctx") \subseteq Revised(loop)
<1> SUFFICES ASSUME Pages, loop.reads = 9, NEW p \in Chain(loop.target)
             PROVE  PatContext[p] \in Revised(loop)
  BY DEF ChainOf
<1> DEFINE d == loop.target
           c == PatContext[p]
           links == {x \in SigDecs \X SigPats : /\ InPage(loop, "ctx", c)
                                                /\ x[1] \in Attributable(loop)
                                                /\ x[2] \in PatternsOf(loop, x[1])
                                                /\ PatContext[x[2]] = c}
<1>0. SigTypes /\ ReferencesExist /\ SeenTrue /\ SeenClosed /\ DecsClosed /\ Fits /\ loop.reads \in {4, 9, 15}
      /\ loop.reads \in {4, 9, 12, 15}
  BY DEF Pages, SeenClosed
<1>1. d \in WithOutcome /\ d <= loop.seen["dec"] /\ d \in SigDecs
  BY <1>0, TargetSeen
<1>2. PatternsOf(loop, d) = Chain(d) /\ Attributable(loop) = WithOutcome
  BY <1>0, <1>1, PatternsShown, AttributableShown
<1>3. p \in SigPats /\ InPage(loop, "pat", p)
  BY <1>2 DEF PatternsOf
<1>4. c \in SigContexts /\ InPage(loop, "ctx", c)
  BY <1>0, <1>3, ContextsShown
<1>5. <<d, p>> \in links
  BY <1>1, <1>2, <1>3, <1>4
<1>6. IsFiniteSet(links)
  BY SigFinite, FS_Subset
<1>7. AttributeToContexts(loop)[c] = Tally(loop, links)
  BY <1>4 DEF AttributeToContexts
<1>8. <<d, p>>[1] \in WithOutcome
  BY <1>1
<1> HIDE DEF links
<1>9. SigLinked(AttributeToContexts(loop)[c]) > 0
  BY <1>0, <1>5, <1>6, <1>7, <1>8, LinkCounts
<1> QED BY <1>4, <1>9 DEF Revised

\* The insight of the loop's decision was there when the insights were read.
LEMMA TargetJournalled ==
    Pages /\ loop.reads = 12 => ChainOf(loop.target, "ins") \subseteq Journalled(loop)
<1> SUFFICES ASSUME Pages, loop.reads = 12, RecInsight[DecRec[loop.target]] # 0
             PROVE  RecInsight[DecRec[loop.target]] \in Journalled(loop)
  BY DEF ChainOf
<1> DEFINE i == RecInsight[DecRec[loop.target]]
<1>0. SigTypes /\ ReferencesExist /\ SeenTrue /\ SeenClosed /\ Fits
  BY DEF Pages
<1>1. loop.target \in SigDecs /\ loop.target <= loop.seen["dec"]
  BY <1>0, TargetSeen
<1>2. loop.target \in 1 .. loop.seen["dec"] /\ DecRec[loop.target] \in Nat \ {0}
  BY <1>0, <1>1, SigRows, SeenWithin
<1>3. DecRec[loop.target] \in SigRecs
  <2>1. DecRec[loop.target] <= loop.seen["rec"]
    BY <1>0, <1>2 DEF SeenClosed, DecsClosed
  <2> QED BY <1>0, <1>2, <2>1, SeenWithin
<1>4. i \in Nat \ {0} /\ i <= loop.seen["ins"]
  BY <1>0, <1>3, SigRows DEF SeenClosed, InsightSeen
<1>5. i \in SigInsights
  BY <1>0, <1>4, SeenWithin
<1>6. InPage(loop, "ins", i)
  BY <1>0, <1>4, PageShows DEF SigTables
<1> QED BY <1>5, <1>6 DEF Journalled

-----------------------------------------------------------------------------

LEMMA SigInitHolds ==
    SigInit => SigInv
<1> SUFFICES ASSUME SigInit PROVE SigInv
  OBVIOUS
<1>1. SigTypes
  BY DEF SigInit, SigTypes, LoopType, NoLoop, SigTables, SigKinds, Actuals
<1>2. ReferencesExist
  BY SigRows DEF SigInit, ReferencesExist, SigTables
<1>3. SeenTrue /\ SeenClosed /\ ReportsTrue /\ TargetAmongResults /\ SignalsMissingOnlyBeyondPage
  BY DEF SigInit, NoLoop, SigTables, SeenTrue, SeenClosed, DecsClosed, RecsClosed, HypsClosed,
         PatsClosed, InsightSeen, ReportsTrue, TargetAmongResults, SignalsMissingOnlyBeyondPage
<1> QED BY <1>1, <1>2, <1>3 DEF SigInv

\* What the loop knows does not change while it rests, however tables grow.
LEMMA LoopRests ==
    ASSUME SigInv, loop' = loop, \A t \in SigTables : rows'[t] \in Nat /\ rows[t] <= rows'[t]
    PROVE  SeenClosed' /\ ReportsTrue' /\ TargetAmongResults' /\ SignalsMissingOnlyBeyondPage'
<1>1. Fits' => Fits
  BY SigRows DEF Fits, SigInv, SigTypes
<1>2. SeenClosed'
  BY DEF SigInv, SeenClosed, DecsClosed, RecsClosed, HypsClosed, PatsClosed, InsightSeen
<1>3. ReportsTrue'
  BY DEF SigInv, ReportsTrue
<1>4. TargetAmongResults' /\ SignalsMissingOnlyBeyondPage'
  BY <1>1 DEF SigInv, TargetAmongResults, SignalsMissingOnlyBeyondPage
<1> QED BY <1>2, <1>3, <1>4

LEMMA InsertStep ==
    ASSUME SigInv, NEW t \in SigTables, SigInsert(t)
    PROVE  SigInv'
<1> DEFINE n == rows[t] + 1
<1>1. SigTypes /\ ReferencesExist /\ SeenTrue /\ SigTypes'
  BY DEF SigInv, SigTypes, SigInsert
<1>2. \A u \in SigTables : rows'[u] = IF u = t THEN n ELSE rows[u]
  BY <1>1 DEF SigTypes, SigInsert
<1>3. \A u \in SigTables : rows[u] \in Nat /\ rows'[u] \in Nat /\ rows[u] <= rows'[u]
  BY <1>1, <1>2 DEF SigTypes
<1>4. ReferencesExist'
  <2>0. CASE t = "ctx" \/ t = "ins"
    <3>1. /\ rows'["ctx"] <= CtxRows /\ rows'["ins"] <= InsRows
          /\ \A u \in {"pat", "hyp", "rec", "dec"} : rows'[u] = rows[u]
          /\ \A u \in {"ctx", "ins"} : rows[u] \in Nat /\ rows'[u] \in Nat /\ rows[u] <= rows'[u]
      BY <1>1, <1>2, <1>3, <2>0 DEF ReferencesExist, SigInsert, SigTables
    <3>2. \A p \in 1 .. rows["pat"] : PatContext[p] \in Nat
      <4>1. rows["pat"] \in Nat /\ rows["pat"] <= Len(PatContext) /\ Len(PatContext) \in Nat
        BY <1>1, <1>3, SigRows DEF ReferencesExist, SigTables
      <4> QED BY <4>1, SigRows DEF SigPats
    <3>3. \A r \in 1 .. rows["rec"] : RecInsight[r] \in Nat
      <4>1. rows["rec"] \in Nat /\ rows["rec"] <= Len(RecHypothesis) /\ Len(RecHypothesis) \in Nat
        BY <1>1, <1>3, SigRows DEF ReferencesExist, SigTables
      <4> QED BY <4>1, SigRows DEF SigRecs
    <3>4. /\ \A p \in 1 .. rows'["pat"] : PatContext[p] <= rows'["ctx"]
      BY <1>1, <3>1, <3>2 DEF ReferencesExist
    <3>5. \A r \in 1 .. rows'["rec"] : RecHypothesis[r] <= rows'["hyp"] /\ RecInsight[r] <= rows'["ins"]
      BY <1>1, <3>1, <3>3 DEF ReferencesExist
    <3> QED BY <1>1, <3>1, <3>4, <3>5 DEF ReferencesExist, SigInsert
  <2>1. CASE t = "pat"
    <3>1. /\ rows'["pat"] = n /\ n = rows["pat"] + 1 /\ rows["pat"] \in Nat /\ n <= Len(PatContext)
          /\ PatContext[n] <= rows["ctx"]
          /\ \A u \in {"ctx", "ins", "hyp", "rec", "dec"} : rows'[u] = rows[u]
      BY <1>2, <1>3, <2>1 DEF SigInsert, SigTables
    <3>2. \A p \in 1 .. rows'["pat"] : p = n \/ p \in 1 .. rows["pat"]
      BY <3>1
    <3>3. \A p \in 1 .. rows'["pat"] : PatContext[p] <= rows'["ctx"]
      BY <1>1, <3>1, <3>2 DEF ReferencesExist
    <3>4. \A h \in 1 .. rows'["hyp"] : HypPatterns[h] \subseteq 1 .. rows'["pat"]
      <4>1. 1 .. rows["pat"] \subseteq 1 .. rows'["pat"]
        BY <3>1
      <4> QED BY <1>1, <3>1, <4>1 DEF ReferencesExist
    <3> QED BY <1>1, <3>1, <3>3, <3>4 DEF ReferencesExist, SigInsert
  <2>2. CASE t = "hyp"
    <3>1. /\ rows'["hyp"] = n /\ n = rows["hyp"] + 1 /\ rows["hyp"] \in Nat /\ n <= Len(HypPatterns)
          /\ HypPatterns[n] \subseteq 1 .. rows["pat"]
          /\ \A u \in {"ctx", "ins", "pat", "rec", "dec"} : rows'[u] = rows[u]
      BY <1>2, <1>3, <2>2 DEF SigInsert, SigTables
    <3>2. \A h \in 1 .. rows'["hyp"] : h = n \/ h \in 1 .. rows["hyp"]
      BY <3>1
    <3>3. \A h \in 1 .. rows'["hyp"] : HypPatterns[h] \subseteq 1 .. rows'["pat"]
      BY <1>1, <3>1, <3>2 DEF ReferencesExist
    <3>4. \A r \in 1 .. rows'["rec"] : RecHypothesis[r] <= rows'["hyp"] /\ RecInsight[r] <= rows'["ins"]
      <4>1. ASSUME NEW r \in 1 .. rows'["rec"]
            PROVE  RecHypothesis[r] <= rows'["hyp"] /\ RecInsight[r] <= rows'["ins"]
        <5>1. rows["rec"] \in Nat /\ r \in 1 .. rows["rec"] /\ rows["rec"] <= Len(RecHypothesis)
          BY <1>1, <1>3, <3>1 DEF ReferencesExist, SigTables
        <5>2. RecHypothesis[r] \in Nat /\ RecHypothesis[r] <= rows["hyp"] /\ RecInsight[r] <= rows["ins"]
          BY <1>1, <5>1, SigRows DEF ReferencesExist, SigRecs
        <5> QED BY <3>1, <5>2
      <4> QED BY <4>1
    <3> QED BY <1>1, <3>1, <3>3, <3>4 DEF ReferencesExist, SigInsert
  <2>3. CASE t = "rec"
    <3>1. /\ rows'["rec"] = n /\ n = rows["rec"] + 1 /\ rows["rec"] \in Nat /\ n <= Len(RecHypothesis)
          /\ RecHypothesis[n] <= rows["hyp"] /\ RecInsight[n] <= rows["ins"]
          /\ \A u \in {"ctx", "ins", "pat", "hyp", "dec"} : rows'[u] = rows[u]
      BY <1>2, <1>3, <2>3 DEF SigInsert, SigTables
    <3>2. \A r \in 1 .. rows'["rec"] : r = n \/ r \in 1 .. rows["rec"]
      BY <3>1
    <3>3. \A r \in 1 .. rows'["rec"] : RecHypothesis[r] <= rows'["hyp"] /\ RecInsight[r] <= rows'["ins"]
      BY <1>1, <3>1, <3>2 DEF ReferencesExist
    <3>4. \A d \in 1 .. rows'["dec"] : DecRec[d] <= rows'["rec"]
      <4>1. ASSUME NEW d \in 1 .. rows'["dec"] PROVE DecRec[d] <= rows'["rec"]
        <5>1. rows["dec"] \in Nat /\ d \in 1 .. rows["dec"] /\ rows["dec"] <= Len(DecRec)
          BY <1>1, <1>3, <3>1 DEF ReferencesExist, SigTables
        <5>2. DecRec[d] \in Nat /\ DecRec[d] <= rows["rec"]
          BY <1>1, <5>1, SigRows DEF ReferencesExist, SigDecs
        <5> QED BY <3>1, <5>2
      <4> QED BY <4>1
    <3> QED BY <1>1, <3>1, <3>3, <3>4 DEF ReferencesExist, SigInsert
  <2>4. CASE t = "dec"
    BY <1>1, <1>2, <1>3, <2>4, SigRows DEF ReferencesExist, SigInsert, SigTables, SigDecs
  <2> QED BY <2>0, <2>1, <2>2, <2>3, <2>4 DEF SigTables
<1>5. SeenTrue'
  <2>1. loop' = loop /\ sigActual' = sigActual
    BY DEF SigInsert
  <2>2. \A u \in SigTables : loop.seen[u] \in Nat /\ loop.seen[u] <= rows[u]
    BY <1>1 DEF SigTypes, LoopType, SeenTrue
  <2>3. \A u \in SigTables : loop.seen[u] <= rows'[u]
    BY <1>3, <2>2
  <2> QED BY <1>1, <2>1, <2>3 DEF SeenTrue
<1>6. SeenClosed' /\ ReportsTrue' /\ TargetAmongResults' /\ SignalsMissingOnlyBeyondPage'
  BY <1>3, LoopRests DEF SigInsert
<1> QED BY <1>1, <1>4, <1>5, <1>6 DEF SigInv

LEMMA OutcomeStep ==
    ASSUME SigInv, NEW d \in SigDecs, SigOutcome(d)
    PROVE  SigInv'
<1>1. SigTypes'
  BY DEF SigInv, SigTypes, SigOutcome
<1>2. ReferencesExist'
  BY DEF SigInv, SigTypes, SigOutcome, ReferencesExist
<1>3. SeenTrue'
  BY DEF SigInv, SigTypes, LoopType, SigOutcome, SeenTrue
<1>4. SeenClosed' /\ ReportsTrue' /\ TargetAmongResults' /\ SignalsMissingOnlyBeyondPage'
  BY LoopRests DEF SigInv, SigTypes, SigOutcome
<1> QED BY <1>1, <1>2, <1>3, <1>4 DEF SigInv

LEMMA LoadStep ==
    ASSUME SigInv, NEW d \in SigDecs, LoadDecision(d)
    PROVE  SigInv'
<1>1. loop.reads = 0 /\ loop'.reads = 0 /\ loop'.target = d /\ d # 0
  <2>1. d # 0
    BY SigRows
  <2> QED BY <2>1 DEF SigInv, SigTypes, LoopType, SeenTrue, LoadDecision
<1>2. SigTypes'
  BY DEF SigInv, SigTypes, LoopType, LoadDecision
<1>3. ReferencesExist'
  BY DEF SigInv, LoadDecision, ReferencesExist
<1>4. SeenTrue'
  BY <1>1 DEF SigInv, SigTypes, LoopType, LoadDecision, SeenTrue
<1>5. SeenClosed' /\ ReportsTrue' /\ TargetAmongResults' /\ SignalsMissingOnlyBeyondPage'
  BY <1>1 DEF SeenClosed, DecsClosed, RecsClosed, HypsClosed, PatsClosed, InsightSeen, ReportsTrue,
              TargetAmongResults, SignalsMissingOnlyBeyondPage
<1> QED BY <1>2, <1>3, <1>4, <1>5 DEF SigInv

LEMMA EndsOfLoop ==
    ASSUME SigInv, LoopEnds
    PROVE  SigInv'
<1>1. SigTypes'
  BY DEF SigInv, SigTypes, LoopType, NoLoop, LoopEnds, SigKinds, Actuals
<1>2. ReferencesExist'
  BY DEF SigInv, LoopEnds, ReferencesExist
<1>3. SeenTrue'
  BY DEF SigInv, SigTypes, NoLoop, LoopEnds, SeenTrue
<1>4. SeenClosed' /\ ReportsTrue' /\ TargetAmongResults' /\ SignalsMissingOnlyBeyondPage'
  BY DEF LoopEnds, NoLoop, SeenClosed, DecsClosed, RecsClosed, HypsClosed, PatsClosed, InsightSeen,
         ReportsTrue, TargetAmongResults, SignalsMissingOnlyBeyondPage
<1> QED BY <1>1, <1>2, <1>3, <1>4 DEF SigInv

\* What a read changes.
LEMMA ReadFields ==
    ASSUME SigInv, ReadList
    PROVE  LET n == loop.reads + 1  t == ReadOrder[n] IN
           /\ n \in 1 .. 15 /\ t \in SigTables
           /\ loop'.target = loop.target /\ loop.target \in SigDecs /\ loop'.reads = n
           /\ loop'.seen = [loop.seen EXCEPT ![t] = rows[t]]
           /\ loop'.outcomes = IF t = "dec" THEN sigActual ELSE loop.outcomes
           /\ n = 4 => loop'.report = AttributeToPatterns(loop') /\ loop'.results["pat"] = Refined(loop')
           /\ n = 9 => loop'.report = AttributeToContexts(loop') /\ loop'.results["ctx"] = Revised(loop')
           /\ n = 12 => /\ loop'.report = AttributeToInsights(loop')
                        /\ loop'.results["ins"] = Journalled(loop')
           /\ n # 4 => loop'.results["pat"] = loop.results["pat"]
           /\ n # 9 => loop'.results["ctx"] = loop.results["ctx"]
           /\ n # 12 => loop'.results["ins"] = loop.results["ins"]
           /\ n = 15 => \A k \in SigKinds : loop'.signalled[k] = SigAffected(loop', k) \cap loop'.results[k]
           /\ loop' \in LoopType
           /\ UNCHANGED <<rows, sigActual>>
<1> DEFINE n == loop.reads + 1
           t == ReadOrder[n]
           l == [loop EXCEPT !.seen[t] = rows[t],
                             !.outcomes = IF t = "dec" THEN sigActual ELSE @]
<1>1. /\ loop \in LoopType /\ rows \in [SigTables -> Nat] /\ sigActual \in [SigDecs -> Actuals]
      /\ loop.target # 0 /\ loop.reads < Len(ReadOrder)
  BY DEF SigInv, SigTypes, ReadList
<1>2. /\ n \in 1 .. 15 /\ t \in SigTables /\ loop.target \in SigDecs
  <2>1. loop.reads \in 0 .. 15 /\ loop.target \in {0} \cup SigDecs
    BY <1>1 DEF LoopType
  <2>2. Len(ReadOrder) = 15 /\ \A i \in 1 .. 15 : ReadOrder[i] \in SigTables
    BY DEF ReadOrder, SigTables
  <2>3. n \in 1 .. 15
    BY <1>1, <2>1, <2>2
  <2> QED BY <1>1, <2>1, <2>2, <2>3
<1>3. loop' = Transformed(l, n) /\ UNCHANGED <<rows, sigActual>>
  BY DEF ReadList
<1>4. /\ l \in LoopType /\ l.target = loop.target /\ l.results = loop.results
      /\ l.signalled = loop.signalled
      /\ l.seen = [loop.seen EXCEPT ![t] = rows[t]]
      /\ l.outcomes = IF t = "dec" THEN sigActual ELSE loop.outcomes
  BY <1>1, <1>2 DEF LoopType
<1> DEFINE rep == CASE n = 4  -> AttributeToPatterns(l)
                    [] n = 9  -> AttributeToContexts(l)
                    [] n = 12 -> AttributeToInsights(l)
                    [] OTHER  -> <<>>
           res == [k \in SigKinds |-> CASE n = 4 /\ k = "pat"  -> Refined(l)
                                        [] n = 9 /\ k = "ctx"  -> Revised(l)
                                        [] n = 12 /\ k = "ins" -> Journalled(l)
                                        [] OTHER -> l.results[k]]
           sgn == [k \in SigKinds |-> IF n = 15 THEN SigAffected(l, k) \cap l.results[k]
                                      ELSE l.signalled[k]]
<1>5. loop' = [l EXCEPT !.reads = n, !.report = rep, !.results = res, !.signalled = sgn]
  BY <1>3 DEF Transformed
<1>6. rep \in {<<>>} \cup [SigPats -> Counts] \cup [SigContexts -> Counts] \cup [SigInsights -> Counts]
  BY ReportsTyped
<1>7. res \in [SigKinds -> SUBSET Nat] /\ sgn \in [SigKinds -> SUBSET Nat]
  <2>1. Refined(l) \subseteq Nat /\ Revised(l) \subseteq Nat /\ Journalled(l) \subseteq Nat
    BY SigRows DEF Refined, Revised, Journalled, SigPats, SigContexts, SigInsights
  <2>2. \A k \in SigKinds : l.results[k] \subseteq Nat /\ l.signalled[k] \subseteq Nat
    BY <1>4 DEF LoopType
  <2>3. \A k \in SigKinds : res[k] \subseteq Nat
    BY <2>1, <2>2
  <2>4. \A k \in SigKinds : sgn[k] \subseteq Nat
    BY <2>2
  <2> QED BY <2>3, <2>4
<1>8. /\ n = 4 => rep = AttributeToPatterns(l) /\ res["pat"] = Refined(l)
      /\ n = 9 => rep = AttributeToContexts(l) /\ res["ctx"] = Revised(l)
      /\ n = 12 => rep = AttributeToInsights(l) /\ res["ins"] = Journalled(l)
      /\ n # 4 => res["pat"] = l.results["pat"]
      /\ n # 9 => res["ctx"] = l.results["ctx"]
      /\ n # 12 => res["ins"] = l.results["ins"]
      /\ n = 15 => \A k \in SigKinds : sgn[k] = SigAffected(l, k) \cap res[k]
  BY <1>2 DEF SigKinds
<1> HIDE DEF n, t, l, rep, res, sgn
<1>9. n \in 0 .. 15
  BY <1>2
<1>10. /\ loop'.target = l.target /\ loop'.reads = n /\ loop'.seen = l.seen
       /\ loop'.outcomes = l.outcomes /\ loop'.report = rep /\ loop'.results = res
       /\ loop'.signalled = sgn /\ loop' \in LoopType
  BY <1>4, <1>5, <1>6, <1>7, <1>9 DEF LoopType
<1>11. /\ AttributeToPatterns(l) = AttributeToPatterns(loop')
       /\ AttributeToContexts(l) = AttributeToContexts(loop')
       /\ AttributeToInsights(l) = AttributeToInsights(loop')
       /\ Refined(l) = Refined(loop') /\ Revised(l) = Revised(loop') /\ Journalled(l) = Journalled(loop')
  BY <1>10, PagesCount
<1>12. \A k \in SigKinds : SigAffected(l, k) = SigAffected(loop', k)
  <2>1. /\ \A d : PatternsOf(l, d) = PatternsOf(loop', d)
        /\ \A u, i : InPage(l, u, i) <=> InPage(loop', u, i)
    BY <1>10, PagesCount
  <2> QED BY <1>10, <2>1 DEF SigAffected, SigKinds
<1> QED BY <1>2, <1>3, <1>4, <1>8, <1>10, <1>11, <1>12 DEF n, t

\* After a read its table shows every row there is; the other pages are as
\* they were.
LEMMA ReadShows ==
    ASSUME SigInv, ReadList
    PROVE  /\ \A t \in SigTables : loop'.seen[t] \in Nat /\ rows[t] \in Nat /\ loop'.seen[t] <= rows[t]
           /\ loop'.seen[ReadOrder[loop'.reads]] = rows[ReadOrder[loop'.reads]]
           /\ \A t \in SigTables : t # ReadOrder[loop'.reads] => loop'.seen[t] = loop.seen[t]
<1> DEFINE t == ReadOrder[loop.reads + 1]
<1>1. /\ t \in SigTables /\ loop'.reads = loop.reads + 1
      /\ loop'.seen = [loop.seen EXCEPT ![t] = rows[t]]
  BY ReadFields
<1>2. /\ loop.seen \in [SigTables -> Nat] /\ rows \in [SigTables -> Nat]
      /\ \A u \in SigTables : loop.seen[u] <= rows[u]
  BY DEF SigInv, SigTypes, LoopType, SeenTrue
<1> HIDE DEF t
<1>3. /\ \A u \in SigTables : loop'.seen[u] \in Nat /\ rows[u] \in Nat /\ loop'.seen[u] <= rows[u]
      /\ loop'.seen[t] = rows[t]
      /\ \A u \in SigTables : u # t => loop'.seen[u] = loop.seen[u]
  BY <1>1, <1>2
<1> QED BY <1>1, <1>3 DEF t

LEMMA ReadSeen ==
    ASSUME SigInv, ReadList
    PROVE  SeenTrue'
<1> DEFINE n == loop.reads + 1
           t == ReadOrder[n]
<1>1. /\ SigTypes /\ ReferencesExist /\ SeenTrue
  BY DEF SigInv
<1>2. \A u \in SigTables : loop'.seen[u] <= rows'[u]
  BY ReadShows, ReadFields
<1>3. \A d \in SigDecs : loop'.outcomes[d] # "none" => d <= loop'.seen["dec"]
  <2>1. CASE t = "dec"
    BY <1>1, <2>1, ReadFields DEF ReferencesExist, SigTypes, LoopType, SigTables
  <2>2. CASE t # "dec"
    BY <1>1, <2>2, ReadFields DEF SeenTrue, SigTypes, LoopType, SigTables
  <2> QED BY <2>1, <2>2
<1>4. loop'.target # 0 /\ sigActual'[loop'.target] # "none"
  BY <1>1, ReadFields, SigRows DEF SeenTrue
<1>5. loop'.outcomes[loop'.target] # "none"
  <2>1. CASE loop.reads = 0
    BY <1>1, <1>4, <2>1, ReadFields DEF ReadOrder
  <2>2. CASE loop.reads # 0
    BY <1>1, <1>4, <2>2, ReadFields DEF SeenTrue, SigTypes, LoopType
  <2> QED BY <2>1, <2>2
<1> QED BY <1>2, <1>3, <1>4, <1>5 DEF SeenTrue

LEMMA ReadClosed ==
    ASSUME SigInv, ReadList
    PROVE  SeenClosed'
<1>1. /\ SigTypes /\ ReferencesExist /\ SeenTrue /\ DecsClosed /\ RecsClosed /\ HypsClosed
      /\ InsightSeen
  BY DEF SigInv, SeenClosed
<1>2. /\ loop.reads \in 0 .. 14 /\ loop'.reads = loop.reads + 1
      /\ \A t \in SigTables : rows[t] \in Nat /\ loop.seen[t] \in Nat /\ loop.seen[t] <= rows[t]
  <2>1. loop.reads + 1 \in 1 .. 15 /\ loop'.reads = loop.reads + 1
    BY ReadFields
  <2>2. loop.reads \in 0 .. 15
    BY <1>1 DEF SigTypes, LoopType
  <2> QED BY <1>1, <2>1, <2>2, SeenWithin
<1>3. DecsClosed'
  <2> SUFFICES ASSUME loop'.reads \in {2, 3, 4, 6, 7, 8, 9, 12, 13, 14, 15},
                      NEW d \in 1 .. loop'.seen["dec"]
               PROVE  DecRec[d] <= loop'.seen["rec"]
    BY DEF DecsClosed
  <2>1. CASE loop'.reads \in {2, 6, 12, 13}
    <3>1. ReadOrder[loop'.reads] = "rec"
      BY <2>1 DEF ReadOrder
    <3>2. loop'.seen["rec"] = rows["rec"] /\ d \in 1 .. rows["dec"]
      BY <3>1, ReadShows DEF SigTables
    <3> QED BY <1>1, <3>2 DEF ReferencesExist
  <2>2. CASE loop'.reads \in {3, 4, 7, 8, 9, 14, 15}
    <3>1. ReadOrder[loop'.reads] \in {"hyp", "pat", "ctx"}
      BY <2>2 DEF ReadOrder
    <3>2. loop'.seen["rec"] = loop.seen["rec"] /\ loop'.seen["dec"] = loop.seen["dec"]
      BY <3>1, ReadShows DEF SigTables
    <3>3. loop.reads \in {2, 3, 6, 7, 8, 13, 14}
      BY <1>2, <2>2
    <3> QED BY <1>1, <3>2, <3>3 DEF DecsClosed
  <2> QED BY <2>1, <2>2
<1>4. RecsClosed'
  <2> SUFFICES ASSUME loop'.reads \in {3, 4, 7, 8, 9, 14, 15},
                      NEW r \in 1 .. loop'.seen["rec"]
               PROVE  RecHypothesis[r] <= loop'.seen["hyp"]
    BY DEF RecsClosed
  <2>1. CASE loop'.reads \in {3, 7, 14}
    <3>1. ReadOrder[loop'.reads] = "hyp"
      BY <2>1 DEF ReadOrder
    <3>2. loop'.seen["hyp"] = rows["hyp"] /\ r \in 1 .. rows["rec"]
      BY <3>1, ReadShows DEF SigTables
    <3> QED BY <1>1, <3>2 DEF ReferencesExist
  <2>2. CASE loop'.reads \in {4, 8, 9, 15}
    <3>1. ReadOrder[loop'.reads] \in {"pat", "ctx"}
      BY <2>2 DEF ReadOrder
    <3>2. loop'.seen["rec"] = loop.seen["rec"] /\ loop'.seen["hyp"] = loop.seen["hyp"]
      BY <3>1, ReadShows DEF SigTables
    <3>3. loop.reads \in {3, 7, 8, 14}
      BY <1>2, <2>2
    <3> QED BY <1>1, <3>2, <3>3 DEF RecsClosed
  <2> QED BY <2>1, <2>2
<1>5. HypsClosed'
  <2> SUFFICES ASSUME loop'.reads \in {4, 8, 9, 15}, NEW h \in 1 .. loop'.seen["hyp"]
               PROVE  HypPatterns[h] \subseteq 1 .. loop'.seen["pat"]
    BY DEF HypsClosed
  <2>1. CASE loop'.reads \in {4, 8, 15}
    <3>1. ReadOrder[loop'.reads] = "pat"
      BY <2>1 DEF ReadOrder
    <3>2. loop'.seen["pat"] = rows["pat"] /\ h \in 1 .. rows["hyp"]
      BY <3>1, ReadShows DEF SigTables
    <3> QED BY <1>1, <3>2 DEF ReferencesExist
  <2>2. CASE loop'.reads = 9
    <3>1. loop'.seen["hyp"] = loop.seen["hyp"] /\ loop'.seen["pat"] = loop.seen["pat"]
      BY <2>2, ReadShows DEF SigTables, ReadOrder
    <3>2. loop.reads = 8
      BY <1>2, <2>2
    <3> QED BY <1>1, <3>1, <3>2 DEF HypsClosed
  <2> QED BY <2>1, <2>2
<1>6. PatsClosed'
  <2> SUFFICES ASSUME loop'.reads = 9, NEW p \in 1 .. loop'.seen["pat"]
               PROVE  PatContext[p] <= loop'.seen["ctx"]
    BY DEF PatsClosed
  <2>1. ReadOrder[loop'.reads] = "ctx"
    BY DEF ReadOrder
  <2>2. loop'.seen["ctx"] = rows["ctx"] /\ p \in 1 .. rows["pat"]
    BY <2>1, ReadShows DEF SigTables
  <2> QED BY <1>1, <2>2 DEF ReferencesExist
<1>7. InsightSeen'
  <2> SUFFICES ASSUME loop'.reads >= 10
               PROVE  RecInsight[DecRec[loop.target]] <= loop'.seen["ins"]
    BY ReadFields DEF InsightSeen
  <2>1. CASE loop'.reads = 10
    <3>1. loop'.seen["ins"] = rows["ins"]
      BY <2>1, ReadShows DEF SigTables, ReadOrder
    <3>2. loop.target \in SigDecs /\ loop.target <= loop.seen["dec"]
      <4>1. loop.reads > 0
        BY <1>2, <2>1
      <4> QED BY <1>1, <4>1, TargetSeen
    <3>3. loop.target \in 1 .. rows["dec"] /\ DecRec[loop.target] \in Nat \ {0}
      BY <1>1, <3>2, SigRows, SeenWithin
    <3>4. DecRec[loop.target] \in 1 .. rows["rec"]
      <4>1. "rec" \in SigTables
        BY DEF SigTables
      <4>2. rows["rec"] \in Nat
        BY <1>2, <4>1
      <4>3. DecRec[loop.target] <= rows["rec"]
        BY <1>1, <3>3 DEF ReferencesExist
      <4> QED BY <3>3, <4>2, <4>3
    <3>5. RecInsight[DecRec[loop.target]] <= rows["ins"]
      BY <1>1, <3>4 DEF ReferencesExist
    <3> QED BY <3>1, <3>5
  <2>2. CASE loop'.reads > 10
    <3>1. loop.reads \in 10 .. 14 /\ loop'.reads \in 11 .. 15
      BY <1>2, <2>2
    <3>2. ReadOrder[loop'.reads] \in {"dec", "rec", "hyp", "pat"}
      BY <3>1 DEF ReadOrder
    <3>3. loop'.seen["ins"] = loop.seen["ins"]
      BY <3>2, ReadShows DEF SigTables
    <3> QED BY <1>1, <3>1, <3>3 DEF InsightSeen
  <2> QED BY <1>2, <2>1, <2>2
<1> QED BY <1>3, <1>4, <1>5, <1>6, <1>7 DEF SeenClosed

\* Lemmas about the pages, for the pages after a read.
LEMMA TraceShown ==
    Pages /\ loop.reads = 15 => \A k \in SigKinds : SigAffected(loop, k) = ChainOf(loop.target, k)
<1> SUFFICES ASSUME Pages, loop.reads = 15, NEW k \in SigKinds
             PROVE  SigAffected(loop, k) = ChainOf(loop.target, k)
  OBVIOUS
<1> DEFINE r == DecRec[loop.target]
<1>0. SigTypes /\ ReferencesExist /\ SeenTrue /\ SeenClosed /\ Fits
  BY DEF Pages
<1>1. loop.target \in SigDecs /\ loop.target <= loop.seen["dec"]
  BY <1>0, TargetSeen
<1>2. loop.target \in 1 .. loop.seen["dec"] /\ r \in Nat \ {0}
  BY <1>0, <1>1, SigRows, SeenWithin
<1>3. r <= loop.seen["rec"]
  BY <1>0, <1>2 DEF SeenClosed, DecsClosed
<1>4. InPage(loop, "rec", r)
  BY <1>0, <1>2, <1>3, PageShows DEF SigTables
<1>5. r \in SigRecs /\ r \in 1 .. loop.seen["rec"]
  BY <1>0, <1>2, <1>3, SeenWithin
<1>6. RecHypothesis[r] \in Nat \ {0} /\ RecHypothesis[r] <= loop.seen["hyp"]
  BY <1>0, <1>5, SigRows DEF SeenClosed, RecsClosed
<1>7. InPage(loop, "hyp", RecHypothesis[r])
  BY <1>0, <1>6, PageShows DEF SigTables
<1>8. PatternsOf(loop, loop.target) = Chain(loop.target)
  BY <1>0, <1>1, PatternsShown
<1> QED BY <1>4, <1>7, <1>8 DEF SigAffected, ChainOf, SigKinds

\* The trace never leads beyond what the decision refers to.
LEMMA TraceWithin ==
    ASSUME NEW l, NEW k \in SigKinds
    PROVE  SigAffected(l, k) \subseteq ChainOf(l.target, k)
<1>1. PatternsOf(l, l.target) \subseteq Chain(l.target)
  BY DEF PatternsOf, Chain
<1> QED BY <1>1 DEF SigAffected, ChainOf, SigKinds

LEMMA ReadStep ==
    ASSUME SigInv, ReadList
    PROVE  SigInv'
<1> DEFINE n == loop.reads + 1
<1>1. SigTypes' /\ ReferencesExist' /\ SeenTrue' /\ SeenClosed'
  BY ReadFields, ReadSeen, ReadClosed DEF SigInv, SigTypes, ReferencesExist
<1>2. /\ Fits' <=> Fits
      /\ loop'.reads = n /\ n \in 1 .. 15 /\ loop.reads \in 0 .. 14
      /\ loop'.target = loop.target
  <2>1. rows' = rows /\ loop'.reads = n /\ n \in 1 .. 15 /\ loop'.target = loop.target
    BY ReadFields
  <2>2. loop.reads \in 0 .. 15
    BY DEF SigInv, SigTypes, LoopType
  <2>3. Fits' <=> Fits
    BY <2>1 DEF Fits
  <2> QED BY <2>1, <2>2, <2>3
<1>3. Fits' => Pages'
  BY <1>1 DEF Pages
<1>4. /\ Fits' /\ n = 4 => ChainOf(loop.target, "pat") \subseteq Refined(loop')
      /\ Fits' /\ n = 9 => ChainOf(loop.target, "ctx") \subseteq Revised(loop')
      /\ Fits' /\ n = 12 => ChainOf(loop.target, "ins") \subseteq Journalled(loop')
      /\ Fits' /\ n = 15 => \A k \in SigKinds : SigAffected(loop', k) = ChainOf(loop.target, k)
  <2>1. (Pages /\ loop.reads = 4)' => (ChainOf(loop.target, "pat") \subseteq Refined(loop))'
    BY TargetRefined, PTL
  <2>2. (Pages /\ loop.reads = 9)' => (ChainOf(loop.target, "ctx") \subseteq Revised(loop))'
    BY TargetRevised, PTL
  <2>3. (Pages /\ loop.reads = 12)' => (ChainOf(loop.target, "ins") \subseteq Journalled(loop))'
    BY TargetJournalled, PTL
  <2>4. (Pages /\ loop.reads = 15)'
          => (\A k \in SigKinds : SigAffected(loop, k) = ChainOf(loop.target, k))'
    BY TraceShown, PTL
  <2>5. \A k : ChainOf(loop.target, k)' = ChainOf(loop'.target, k)
    BY DEF ChainOf, Chain
  <2> QED BY <1>2, <1>3, <2>1, <2>2, <2>3, <2>4, <2>5
<1>5. TargetAmongResults'
  <2> SUFFICES ASSUME Fits'
               PROVE  /\ n >= 4 => ChainOf(loop.target, "pat") \subseteq loop'.results["pat"]
                      /\ n >= 9 => ChainOf(loop.target, "ctx") \subseteq loop'.results["ctx"]
                      /\ n >= 12 => ChainOf(loop.target, "ins") \subseteq loop'.results["ins"]
    BY <1>2 DEF TargetAmongResults
  <2>0. TargetAmongResults
    BY DEF SigInv
  <2>1. n >= 4 => ChainOf(loop.target, "pat") \subseteq loop'.results["pat"]
    <3>1. CASE n = 4
      BY <1>4, <3>1, ReadFields
    <3>2. CASE n # 4
      BY <1>2, <2>0, <3>2, ReadFields DEF TargetAmongResults
    <3> QED BY <3>1, <3>2
  <2>2. n >= 9 => ChainOf(loop.target, "ctx") \subseteq loop'.results["ctx"]
    <3>1. CASE n = 9
      BY <1>4, <3>1, ReadFields
    <3>2. CASE n # 9
      BY <1>2, <2>0, <3>2, ReadFields DEF TargetAmongResults
    <3> QED BY <3>1, <3>2
  <2>3. n >= 12 => ChainOf(loop.target, "ins") \subseteq loop'.results["ins"]
    <3>1. CASE n = 12
      BY <1>4, <3>1, ReadFields
    <3>2. CASE n # 12
      BY <1>2, <2>0, <3>2, ReadFields DEF TargetAmongResults
    <3> QED BY <3>1, <3>2
  <2> QED BY <2>1, <2>2, <2>3
<1>6. ReportsTrue'
  BY <1>2, ReadFields DEF ReportsTrue
<1>7. SignalsMissingOnlyBeyondPage'
  <2> SUFFICES ASSUME loop'.reads = 15, NEW k \in SigKinds
               PROVE  /\ loop'.signalled[k] \subseteq ChainOf(loop.target, k)
                      /\ Fits' => loop'.signalled[k] = ChainOf(loop.target, k)
    BY <1>2 DEF SignalsMissingOnlyBeyondPage
  <2>1. loop'.signalled[k] = SigAffected(loop', k) \cap loop'.results[k]
    BY <1>2, ReadFields
  <2>2. SigAffected(loop', k) \subseteq ChainOf(loop.target, k)
    BY <1>2, TraceWithin
  <2>3. Fits' => ChainOf(loop.target, k) \subseteq loop'.results[k]
    BY <1>2, <1>5 DEF TargetAmongResults, SigKinds
  <2> QED BY <1>2, <1>4, <2>1, <2>2, <2>3
<1> QED BY <1>1, <1>5, <1>6, <1>7 DEF SigInv

\* The memory transformations count what they claim, and signal each pattern,
\* context and insight of the decision they run for, though each reads its
\* lists one after the other while rows and outcomes come in: for every number
\* of rows, every way in which they refer to each other, and every size of a
\* page.
THEOREM TransformsCountTruly == SigSpec => []SignalsSound
<1>1. SigInit => SigInv
  BY SigInitHolds
<1>2. SigInv /\ [SigNext]_sigVars => SigInv'
  <2> SUFFICES ASSUME SigInv, [SigNext]_sigVars PROVE SigInv'
    OBVIOUS
  <2>1. ASSUME NEW t \in SigTables, SigInsert(t) PROVE SigInv'
    BY <2>1, InsertStep
  <2>2. ASSUME NEW d \in SigDecs, SigOutcome(d) \/ LoadDecision(d) PROVE SigInv'
    BY <2>2, OutcomeStep, LoadStep
  <2>3. CASE ReadList
    BY <2>3, ReadStep
  <2>4. CASE LoopEnds
    BY <2>4, EndsOfLoop
  <2>5. CASE UNCHANGED sigVars
    <3>1. SigTypes' /\ ReferencesExist' /\ SeenTrue'
      BY <2>5 DEF sigVars, SigInv, SigTypes, ReferencesExist, SeenTrue
    <3>2. loop' = loop /\ \A t \in SigTables : rows'[t] \in Nat /\ rows[t] <= rows'[t]
      BY <2>5 DEF sigVars, SigInv, SigTypes
    <3> QED BY <3>1, <3>2, LoopRests DEF SigInv
  <2> QED BY <2>1, <2>2, <2>3, <2>4, <2>5 DEF SigNext
<1>3. SigInv => SignalsSound
  BY SigInvSound
<1> QED BY <1>1, <1>2, <1>3, PTL DEF SigSpec

-----------------------------------------------------------------------------
(* The paged lists.  A row that is due and was not seen yet has as many     *)
(* rows before it as the pages read so far hold: rows that are inserted can *)
(* only move it back, and only a row that leaves the list can move it       *)
(* forward, into a page the client has passed.                              *)

ListRow == [id : Nat, v : ListValues]

WalkType ==
    [list : WalkedLists, sort : {"desc", "asc"}, want : ListValues,
     col : AllColumns,
     at : {"rest", "asked", "counted", "selected", "shown"}, offset : Nat, total : Nat,
     seen : SUBSET Nat, due : SUBSET Nat, left : BOOLEAN, slipped : BOOLEAN]

ListTypes ==
    /\ listWalk \in WalkType
    /\ listRows \in Seq(ListRow)
    /\ listCache \in [age : 0 .. FacetTTL, values : SUBSET ListValues]
    /\ listGone \in [ListValues -> Nat]

\* The primary key.
IdsUnique ==
    /\ \A i \in 1..Len(listRows) : listRows[i].id <= Len(listRows)
    /\ \A i, j \in 1..Len(listRows) : listRows[i].id = listRows[j].id => i = j

RankOf(x) == Cardinality({y \in ListedIds : Precedes(y, x)})

Behind(n) == \A x \in listWalk.due \ listWalk.seen : RankOf(x) >= n

WalkTrue ==
    /\ listWalk.at \in {"asked", "counted"} => Behind(listWalk.offset)
    /\ listWalk.at = "counted" => Cardinality(ListedIds) <= listWalk.total
    /\ listWalk.at = "selected" =>
         /\ Behind(listWalk.offset + ListLimit)
         /\ listWalk.offset + ListLimit >= listWalk.total => listWalk.due \subseteq listWalk.seen
    /\ listWalk.at = "shown" => listWalk.due \subseteq listWalk.seen

WalkInv ==
    /\ listWalk.due \subseteq ListedIds
    /\ listWalk.left => IsLive
    /\ listWalk.slipped \/ listWalk.left \/ WalkTrue

\* A cached value is one of a row, or has been gone for no longer than it is
\* cached; fixed choices are cached whole.
FacetsTrue ==
    /\ \A v \in DistinctValues : listGone[v] = 0
    /\ HasChoices /\ Cached => listCache.values = ListValues
    /\ \A v \in listCache.values :
         HasChoices \/ v \in DistinctValues \/ (IsLive /\ listGone[v] <= listCache.age)

ListInv == ListTypes /\ IdsUnique /\ WalkInv /\ FacetsTrue

LEMMA ListedRows ==
    ASSUME ListTypes, IdsUnique
    PROVE  /\ Len(listRows) \in Nat
           /\ \A i \in 1..Len(listRows) : listRows[i] \in ListRow
           /\ ListedIds \subseteq Nat
           /\ IsFiniteSet(ListedIds) /\ Cardinality(ListedIds) \in Nat
           /\ \A x : RankOf(x) \in Nat
           /\ \A x \in ListedIds : RankOf(x) < Cardinality(ListedIds)
<1>1. Len(listRows) \in Nat /\ \A i \in 1..Len(listRows) : listRows[i] \in ListRow
  BY LenProperties, ElementOfSeq DEF ListTypes
<1>2. ListedIds \in SUBSET (0 .. Len(listRows))
  BY <1>1 DEF ListedIds, IdsListed, IdsUnique, ListRow
<1>3. IsFiniteSet(0 .. Len(listRows))
  BY <1>1, FS_Interval
<1>4. IsFiniteSet(ListedIds) /\ Cardinality(ListedIds) \in Nat
  BY <1>2, <1>3, FS_Subset, FS_CardinalityType
<1>5. ASSUME NEW x PROVE RankOf(x) \in Nat
  <2>1. {y \in ListedIds : Precedes(y, x)} \in SUBSET ListedIds
    OBVIOUS
  <2> QED BY <1>4, <2>1, FS_Subset, FS_CardinalityType DEF RankOf
<1>6. ASSUME NEW x \in ListedIds PROVE RankOf(x) < Cardinality(ListedIds)
  <2> DEFINE before == {y \in ListedIds : Precedes(y, x)}
             others == ListedIds \ {x}
  <2>1. ~Precedes(x, x)
    BY <1>1 DEF Precedes, IdsUnique
  <2>2. before \in SUBSET others
    BY <2>1
  <2>3. IsFiniteSet(others) /\ Cardinality(others) = Cardinality(ListedIds) - 1
    BY <1>4, FS_RemoveElement
  <2> HIDE DEF others
  <2>4. Cardinality(before) <= Cardinality(others)
    BY <2>2, <2>3, FS_Subset
  <2> HIDE DEF before
  <2>5. Cardinality(before) \in Nat
    BY <1>5 DEF RankOf, before
  <2>6. Cardinality(before) < Cardinality(ListedIds)
    BY <1>4, <2>3, <2>4, <2>5
  <2> QED BY <2>6 DEF RankOf, before
<1> QED BY <1>1, <1>2, <1>4, <1>5, <1>6

\* What a page has shown, and what is behind it.
LEMMA PageTakes ==
    ASSUME ListTypes, IdsUnique, NEW o \in Nat, NEW x \in ListedIds, RankOf(x) >= o
    PROVE  x \in PageOfRows(o) \/ RankOf(x) >= o + ListLimit
<1>1. RankOf(x) \in Nat
  BY ListedRows
<1>2. RankOf(x) \in PageAt(o) \/ RankOf(x) >= o + ListLimit
  BY <1>1, ListAssumption DEF PageAt
<1> QED BY <1>2 DEF PageOfRows, RankOf

LEMMA ListedFinite == ListTypes /\ IdsUnique => IsFiniteSet(ListedIds)
BY ListedRows

LEMMA ListedFiniteNext == (ListTypes /\ IdsUnique => IsFiniteSet(ListedIds))'
BY ListedFinite, PTL

LEMMA RankType == ListTypes /\ IdsUnique => \A x : RankOf(x) \in Nat
BY ListedRows

LEMMA RankTypeNext == (ListTypes /\ IdsUnique => \A x : RankOf(x) \in Nat)'
BY RankType, PTL

\* A table that changed without rows leaving the list or changing places.
LEMMA RanksGrow ==
    ASSUME ListTypes, IdsUnique, ListTypes', IdsUnique',
           ListedIds \subseteq ListedIds',
           \A x, y : Precedes(x, y) => Precedes(x, y)',
           NEW x
    PROVE  RankOf(x) <= RankOf(x)'
<1> DEFINE S == {y \in ListedIds : Precedes(y, x)}
           T == {y \in ListedIds : Precedes(y, x)}'
<1>1. S \in SUBSET T
  OBVIOUS
<1>2. IsFiniteSet(ListedIds')
  BY ListedFiniteNext
<1>3. T \in SUBSET (ListedIds')
  OBVIOUS
<1>4. IsFiniteSet(T)
  BY <1>2, <1>3, FS_Subset
<1>5. Cardinality(S) <= Cardinality(T)
  BY <1>1, <1>4, FS_Subset
<1> QED BY <1>5 DEF RankOf

\* RowInserted and RowUpdated leave the walk where it is.
LEMMA WalkWatched ==
    ASSUME ListInv, ListTypes', IdsUnique', listWalk' = Watched(listRows'),
           ListedIds \subseteq ListedIds' \/ IsLive,
           \A x, y : Precedes(x, y) => Precedes(x, y)'
    PROVE  WalkInv'
<1> DEFINE ids == IdsListed(listRows')
<1>1. listWalk \in WalkType
  BY DEF ListInv, ListTypes
<1>2. /\ \A f \in {"list", "sort", "want", "col", "at", "offset", "total", "seen"} :
            listWalk'[f] = listWalk[f]
      /\ listWalk'.due = listWalk.due \cap ids
      /\ listWalk'.left = (listWalk.left \/ ListedIds \ ids # {})
      /\ listWalk'.slipped = (listWalk.slipped \/ (listWalk.at = "counted" /\ ids \ ListedIds # {}))
  BY <1>1 DEF Watched, WalkType
<1>3. ListedIds' = ids
  BY <1>2 DEF ListedIds, IdsListed, Listed
<1>4. IsLive' <=> IsLive
  BY <1>2 DEF IsLive
<1>5. listWalk'.due \subseteq ListedIds'
  BY <1>2, <1>3
<1>6. listWalk'.left => IsLive'
  BY <1>2, <1>3, <1>4 DEF ListInv, WalkInv
<1>7. ASSUME ~listWalk'.slipped, ~listWalk'.left PROVE WalkTrue'
  <2>1. ListedIds \subseteq ListedIds' /\ ~listWalk.slipped /\ ~listWalk.left
    BY <1>2, <1>3, <1>7
  <2>2. WalkTrue
    BY <2>1 DEF ListInv, WalkInv
  <2>3. listWalk'.due \ listWalk'.seen \subseteq listWalk.due \ listWalk.seen
    BY <1>2
  <2>4. \A x : RankOf(x) <= RankOf(x)'
    BY <2>1, RanksGrow DEF ListInv
  <2>5. ASSUME NEW n \in Nat, Behind(n) PROVE Behind(n)'
    <3> SUFFICES ASSUME NEW x \in listWalk'.due \ listWalk'.seen PROVE RankOf(x)' >= n
      BY DEF Behind
    <3>1. RankOf(x) >= n /\ RankOf(x) <= RankOf(x)'
      BY <2>3, <2>4, <2>5 DEF Behind
    <3>2. RankOf(x) \in Nat /\ RankOf(x)' \in Nat
      BY ListedRows, RankTypeNext DEF ListInv
    <3> QED BY <3>1, <3>2
  <2>6. listWalk.offset \in Nat /\ listWalk.offset + ListLimit \in Nat
    BY <1>1, ListAssumption DEF WalkType
  <2>7. CASE listWalk.at = "counted"
    <3>1. ListedIds' = ListedIds
      BY <1>2, <1>3, <1>7, <2>1, <2>7
    <3> QED BY <1>2, <2>2, <2>5, <2>6, <2>7, <3>1 DEF WalkTrue, Behind
  <2>8. CASE listWalk.at # "counted"
    BY <1>2, <2>2, <2>3, <2>5, <2>6, <2>8 DEF WalkTrue, Behind
  <2> QED BY <2>7, <2>8
<1> QED BY <1>5, <1>6, <1>7 DEF WalkInv

\* A value of a row stays young, and one that no row has ages no slower than
\* what is cached of it.
LEMMA FacetsWatched ==
    ASSUME ListInv, listGone' = GoneFor(listRows'), listCache' = listCache,
           (IsLive' <=> IsLive) /\ (HasChoices' <=> HasChoices),
           DistinctValues \subseteq DistinctValues' \/ IsLive,
           DistinctValues' \subseteq ListValues
    PROVE  FacetsTrue' /\ listGone' \in [ListValues -> Nat]
<1>1. \A v : v \in DistinctValues' <=> \E i \in 1..Len(listRows') : listRows'[i].v = v
  BY DEF DistinctValues
<1>2. \A v \in ListValues :
        listGone'[v] = IF v \in DistinctValues' THEN 0 ELSE listGone[v]
  BY <1>1 DEF GoneFor
<1>3. listGone \in [ListValues -> Nat] /\ listCache.values \subseteq ListValues
      /\ listCache.age \in Nat
  BY ListAssumption DEF ListInv, ListTypes
<1>4. listGone' \in [ListValues -> Nat]
  BY <1>3 DEF GoneFor
<1>5. ASSUME NEW v \in listCache.values
      PROVE  HasChoices' \/ v \in DistinctValues' \/ (IsLive' /\ listGone'[v] <= listCache'.age)
  <2>1. HasChoices \/ v \in DistinctValues \/ (IsLive /\ listGone[v] <= listCache.age)
    BY <1>5 DEF ListInv, FacetsTrue
  <2>2. v \in DistinctValues => listGone[v] = 0
    BY DEF ListInv, FacetsTrue
  <2> QED BY <1>2, <1>3, <2>1, <2>2
<1>6. HasChoices' /\ Cached' => listCache'.values = ListValues
  BY DEF ListInv, FacetsTrue, Cached
<1> QED BY <1>2, <1>4, <1>5, <1>6 DEF FacetsTrue

\* INSERT, at any place of the order.
LEMMA InsertedRows ==
    ASSUME ListTypes, NEW p \in 1 .. Len(listRows) + 1, NEW r \in ListRow
    PROVE  LET table == InsertAt(listRows, p, r) IN
           /\ table \in Seq(ListRow) /\ Len(table) = Len(listRows) + 1
           /\ \A i \in 1 .. Len(listRows) + 1 :
                table[i] = IF i < p THEN listRows[i] ELSE IF i = p THEN r ELSE listRows[i - 1]
<1> DEFINE n == Len(listRows)
           front == SubSeq(listRows, 1, p - 1)
           back == SubSeq(listRows, p, n)
<1>1. n \in Nat /\ p \in Int /\ p - 1 \in Int /\ \A i \in 1 .. n : listRows[i] \in ListRow
  BY LenProperties, ElementOfSeq DEF ListTypes
<1>2. \A i \in 1 .. p - 1 : listRows[i] \in ListRow
  BY <1>1
<1>3. \A i \in p .. n : listRows[i] \in ListRow
  BY <1>1
<1> HIDE DEF n
<1>4. /\ front \in Seq(ListRow) /\ Len(front) = p - 1
      /\ \A i \in 1 .. p - 1 : front[i] = listRows[i]
  <2>1. /\ front \in Seq(ListRow)
        /\ Len(front) = IF 1 <= p - 1 THEN (p - 1) - 1 + 1 ELSE 0
        /\ \A i \in 1 .. (p - 1) - 1 + 1 : front[i] = listRows[1 + i - 1]
    BY <1>1, <1>2, SubSeqProperties
  <2> QED BY <1>1, <2>1
<1>5. /\ back \in Seq(ListRow) /\ Len(back) = n - p + 1
      /\ \A i \in 1 .. n - p + 1 : back[i] = listRows[p + i - 1]
  <2>1. /\ back \in Seq(ListRow)
        /\ Len(back) = IF p <= n THEN n - p + 1 ELSE 0
        /\ \A i \in 1 .. n - p + 1 : back[i] = listRows[p + i - 1]
    BY <1>1, <1>3, SubSeqProperties
  <2> QED BY <1>1, <2>1 DEF n
<1> HIDE DEF front, back
<1>6. <<r>> \in Seq(ListRow) /\ Len(<<r>>) = 1 /\ <<r>>[1] = r
  OBVIOUS
<1>7. /\ front \o <<r>> \in Seq(ListRow) /\ Len(front \o <<r>>) = p
      /\ \A i \in 1 .. p : (front \o <<r>>)[i] = IF i < p THEN listRows[i] ELSE r
  BY <1>1, <1>4, <1>6, ConcatProperties
<1> DEFINE fore == front \o <<r>>
           table == fore \o back
<1> HIDE DEF fore
<1>8. /\ table \in Seq(ListRow) /\ Len(table) = n + 1
      /\ \A i \in 1 .. n + 1 : table[i] = IF i <= p THEN fore[i] ELSE back[i - p]
  <2>1. fore \in Seq(ListRow) /\ Len(fore) = p
    BY <1>7 DEF fore
  <2>2. /\ table \in Seq(ListRow) /\ Len(table) = Len(fore) + Len(back)
        /\ \A i \in 1 .. Len(fore) + Len(back) :
             table[i] = IF i <= Len(fore) THEN fore[i] ELSE back[i - Len(fore)]
    BY <1>5, <2>1, ConcatProperties
  <2>3. Len(fore) + Len(back) = n + 1
    BY <1>1, <1>5, <2>1
  <2> QED BY <2>1, <2>2, <2>3
<1>9. table = InsertAt(listRows, p, r)
  BY DEF InsertAt, front, back, n, fore
<1> HIDE DEF table
<1>10. \A i \in 1 .. n + 1 :
        table[i] = IF i < p THEN listRows[i] ELSE IF i = p THEN r ELSE listRows[i - 1]
  <2> TAKE i \in 1 .. n + 1
  <2>1. CASE i <= p
    BY <1>1, <1>7, <1>8, <2>1 DEF fore
  <2>2. CASE i > p
    <3>1. i - p \in 1 .. n - p + 1 /\ p + (i - p) - 1 = i - 1
      BY <1>1, <2>2
    <3>2. table[i] = back[i - p] /\ back[i - p] = listRows[p + (i - p) - 1]
      BY <1>1, <1>5, <1>8, <2>2, <3>1
    <3> QED BY <1>1, <2>2, <3>1, <3>2
  <2> QED BY <1>1, <2>1, <2>2
<1> QED BY <1>8, <1>9, <1>10 DEF n

LEMMA RowInsertedStep ==
    ASSUME ListInv, RowInserted
    PROVE  ListInv'
<1> DEFINE n == Len(listRows)
<1>1. PICK p \in 1 .. n + 1, v \in ValuesOf :
        LET table == InsertAt(listRows, p, [id |-> n + 1, v |-> v]) IN
        /\ listRows' = table /\ listWalk' = Watched(table) /\ listGone' = GoneFor(table)
  BY DEF RowInserted
<1> DEFINE r == [id |-> n + 1, v |-> v]
<1>2. ListTypes /\ IdsUnique /\ listCache' = listCache
  BY DEF ListInv, RowInserted
<1>3. n \in Nat /\ \A i \in 1 .. n : listRows[i] \in ListRow
  BY <1>2, ListedRows
<1>4. r \in ListRow
  BY <1>3 DEF ListRow, ValuesOf, ListValues
<1>5. /\ listRows' \in Seq(ListRow) /\ Len(listRows') = n + 1
      /\ \A i \in 1 .. n + 1 :
           listRows'[i] = IF i < p THEN listRows[i] ELSE IF i = p THEN r ELSE listRows[i - 1]
  BY <1>1, <1>2, <1>4, InsertedRows
<1>6. listWalk' = Watched(listRows') /\ listGone' = GoneFor(listRows')
  BY <1>1
<1> HIDE DEF r, n
<1>7. r.id = n + 1 /\ r.v \in ListValues
  BY <1>4 DEF r, ListRow
\* Where a row is afterwards.
<1> DEFINE to(i) == IF i < p THEN i ELSE i + 1
<1>8. \A i \in 1 .. n : to(i) \in 1 .. n + 1 /\ listRows'[to(i)] = listRows[i]
  BY <1>3, <1>5
<1>9. \A i, j \in 1 .. n : i < j <=> to(i) < to(j)
  BY <1>3
<1>10. \A i \in 1 .. n + 1 : i = p \/ \E j \in 1 .. n : i = to(j)
  <2> TAKE i \in 1 .. n + 1
  <2>1. CASE i < p
    BY <1>3, <2>1
  <2>2. CASE i > p
    <3>1. i - 1 \in 1 .. n /\ to(i - 1) = i
      BY <1>3, <2>2
    <3> QED BY <3>1
  <2> QED BY <1>3, <2>1, <2>2
<1>11. listRows'[p] = r
  BY <1>3, <1>5
<1> HIDE DEF to
<1>12. \A i \in 1 .. n : listRows[i].id \in Nat /\ listRows[i].id <= n
  BY <1>2, <1>3 DEF IdsUnique, ListRow, n
<1>13. IdsUnique'
  <2>1. \A i \in 1 .. n + 1 : listRows'[i].id <= n + 1
    BY <1>3, <1>7, <1>8, <1>10, <1>11, <1>12
  <2>2. ASSUME NEW i \in 1 .. n + 1, NEW j \in 1 .. n + 1, listRows'[i].id = listRows'[j].id
        PROVE  i = j
    <3>1. CASE i = p \/ j = p
      BY <1>3, <1>7, <1>8, <1>10, <1>11, <1>12, <2>2, <3>1
    <3>2. CASE i # p /\ j # p
      <4>1. PICK k \in 1 .. n, l \in 1 .. n : i = to(k) /\ j = to(l)
        BY <1>10, <3>2
      <4>2. listRows[k].id = listRows[l].id
        BY <1>8, <2>2, <4>1
      <4> QED BY <1>2, <4>1, <4>2 DEF IdsUnique, n
    <3> QED BY <3>1, <3>2
  <2> QED BY <1>5, <2>1, <2>2 DEF IdsUnique
<1>14. listWalk' \in WalkType /\ listWalk'.sort = listWalk.sort /\ (IsLive' <=> IsLive)
      /\ (HasChoices' <=> HasChoices)
      /\ listWalk'.col = listWalk.col /\ listWalk'.want = listWalk.want
  BY <1>2, <1>6 DEF ListTypes, WalkType, Watched, IsLive, HasChoices
<1>15. ListedIds \subseteq ListedIds'
  <2> SUFFICES ASSUME NEW i \in 1 .. n, Listed(listRows[i])
               PROVE  listRows[i].id \in ListedIds'
    BY DEF ListedIds, IdsListed, n
  <2>1. to(i) \in 1 .. Len(listRows') /\ listRows'[to(i)] = listRows[i]
    BY <1>5, <1>8
  <2>2. listWalk'.col = NoFilter \/ listRows'[to(i)].v = listWalk'.want
    BY <1>14, <2>1 DEF Listed
  <2> QED BY <2>1, <2>2 DEF ListedIds, IdsListed, Listed
<1>16. ASSUME NEW x, NEW y, Precedes(x, y) PROVE Precedes(x, y)'
  <2>1. PICK i, j \in 1 .. n : /\ listRows[i].id = x /\ listRows[j].id = y
                               /\ IF listWalk.sort = "desc" THEN i < j ELSE j < i
    BY <1>16 DEF Precedes, n
  <2>2. /\ to(i) \in 1 .. Len(listRows') /\ to(j) \in 1 .. Len(listRows')
        /\ listRows'[to(i)].id = x /\ listRows'[to(j)].id = y
        /\ IF listWalk'.sort = "desc" THEN to(i) < to(j) ELSE to(j) < to(i)
    BY <1>5, <1>8, <1>9, <1>14, <2>1
  <2> QED BY <2>2 DEF Precedes
<1>17. DistinctValues \subseteq DistinctValues' /\ DistinctValues' \subseteq ListValues
  <2>1. \A i \in 1 .. n + 1 : listRows'[i].v \in ListValues
    BY <1>3, <1>7, <1>8, <1>10, <1>11 DEF ListRow
  <2>2. ASSUME NEW i \in 1 .. n PROVE \E j \in 1 .. Len(listRows') : listRows'[j].v = listRows[i].v
    BY <1>5, <1>8
  <2> QED BY <1>5, <2>1, <2>2 DEF DistinctValues, n
<1>18. FacetsTrue' /\ listGone' \in [ListValues -> Nat]
  BY <1>2, <1>6, <1>14, <1>17, FacetsWatched
<1>19. ListTypes'
  BY <1>2, <1>5, <1>14, <1>18 DEF ListTypes
<1>20. WalkInv'
  BY <1>6, <1>13, <1>15, <1>16, <1>19, WalkWatched
<1> QED BY <1>13, <1>18, <1>19, <1>20 DEF ListInv

\* UPDATE of the filtered column: places and ids stay.
LEMMA RowUpdatedStep ==
    ASSUME ListInv, RowUpdated
    PROVE  ListInv'
<1>1. PICK i \in 1 .. Len(listRows) :
        /\ listRows' = [listRows EXCEPT ![i].v = "b"]
        /\ listWalk' = Watched(listRows') /\ listGone' = GoneFor(listRows')
  BY DEF RowUpdated
<1>2. ListTypes /\ IdsUnique /\ listCache' = listCache /\ IsLive
  BY DEF ListInv, RowUpdated
<1>3. Len(listRows) \in Nat /\ \A j \in 1 .. Len(listRows) : listRows[j] \in ListRow
  BY <1>2, ListedRows
<1>4. listRows \in Seq(ListRow)
  BY <1>2 DEF ListTypes
<1> DEFINE r == [listRows[i] EXCEPT !.v = "b"]
<1>5. r \in ListRow /\ r.id = listRows[i].id
  BY <1>3 DEF ListRow, ListValues
<1>6. listRows' = [listRows EXCEPT ![i] = r]
  BY <1>1
<1> HIDE DEF r
<1>7. /\ listRows' \in Seq(ListRow) /\ Len(listRows') = Len(listRows)
      /\ \A j \in 1 .. Len(listRows) : listRows'[j] = IF j = i THEN r ELSE listRows[j]
  BY <1>4, <1>5, <1>6, ExceptSeq
<1>8. \A j \in 1 .. Len(listRows) : listRows'[j].id = listRows[j].id
  BY <1>5, <1>7
<1>9. IdsUnique'
  BY <1>2, <1>7, <1>8 DEF IdsUnique
<1>10. listWalk' \in WalkType /\ listWalk'.sort = listWalk.sort /\ (IsLive' <=> IsLive)
      /\ (HasChoices' <=> HasChoices)
  BY <1>1, <1>2 DEF ListTypes, WalkType, Watched, IsLive, HasChoices
<1>11. \A x, y : Precedes(x, y) => Precedes(x, y)'
  BY <1>7, <1>8, <1>10 DEF Precedes
<1>12. DistinctValues' \subseteq ListValues
  BY <1>3, <1>5, <1>7 DEF DistinctValues, ListRow
<1>13. FacetsTrue' /\ listGone' \in [ListValues -> Nat]
  BY <1>1, <1>2, <1>10, <1>12, FacetsWatched
<1>14. ListTypes'
  BY <1>2, <1>7, <1>10, <1>13 DEF ListTypes
<1>15. WalkInv'
  BY <1>1, <1>2, <1>9, <1>11, <1>14, WalkWatched
<1> QED BY <1>9, <1>13, <1>14, <1>15 DEF ListInv

\* The table does not change while a statement of the list runs.
LEMMA TableKept ==
    ASSUME listRows' = listRows,
           \A f \in {"list", "sort", "want", "col"} : listWalk'[f] = listWalk[f]
    PROVE  /\ ListedIds' = ListedIds /\ \A x : RankOf(x)' = RankOf(x)
           /\ (IsLive' <=> IsLive) /\ (HasChoices' <=> HasChoices)
           /\ DistinctValues' = DistinctValues
           /\ IdsUnique' <=> IdsUnique
<1>1. ListedIds' = ListedIds
  BY DEF ListedIds, IdsListed, Listed
<1>2. \A x, y : Precedes(x, y)' <=> Precedes(x, y)
  BY DEF Precedes
<1>3. \A x : RankOf(x)' = RankOf(x)
  <2> TAKE x
  <2>1. {y \in ListedIds : Precedes(y, x)}' = {y \in ListedIds : Precedes(y, x)}
    BY <1>1, <1>2
  <2> QED BY <2>1 DEF RankOf
<1>4. /\ (IdsUnique' <=> IdsUnique) /\ (IsLive' <=> IsLive) /\ (HasChoices' <=> HasChoices)
      /\ DistinctValues' = DistinctValues
  BY DEF IdsUnique, IsLive, HasChoices, DistinctValues
<1> QED BY <1>1, <1>3, <1>4

LEMMA SecondPassesStep ==
    ASSUME ListInv, SecondPasses
    PROVE  ListInv'
<1>1. UNCHANGED <<listWalk, listRows>>
  BY DEF SecondPasses
<1>2. \A m, n \in Nat : Aging(m) \in 0 .. FacetTTL /\ (m <= n /\ n <= FacetTTL => Aging(m) <= Aging(n))
  BY ListAssumption DEF Aging
<1>3. /\ listCache \in [age : 0 .. FacetTTL, values : SUBSET ListValues]
      /\ listGone \in [ListValues -> Nat]
  BY DEF ListInv, ListTypes
<1>4. /\ listCache'.age = Aging(listCache.age) /\ listCache'.values = listCache.values
      /\ listCache' \in [age : 0 .. FacetTTL, values : SUBSET ListValues]
  BY <1>2, <1>3 DEF SecondPasses
<1>5. \A v \in ListValues :
        listGone'[v] = IF v \in DistinctValues THEN 0 ELSE Aging(listGone[v])
  BY DEF SecondPasses
<1>6. listGone' \in [ListValues -> Nat]
  BY <1>2, <1>3, ListAssumption DEF SecondPasses
<1>7. ListTypes' /\ IdsUnique'
  BY <1>1, <1>4, <1>6 DEF ListInv, ListTypes, IdsUnique
<1>8. WalkInv'
  BY <1>1, TableKept DEF ListInv, WalkInv, WalkTrue, Behind
<1>9. /\ DistinctValues' = DistinctValues /\ DistinctValues \subseteq ListValues
      /\ (IsLive' <=> IsLive) /\ (HasChoices' <=> HasChoices)
  <2>1. \A i \in 1 .. Len(listRows) : listRows[i].v \in ListValues
    BY ListedRows DEF ListInv, ListRow
  <2> QED BY <1>1, <2>1 DEF DistinctValues, IsLive, HasChoices
<1>10. FacetsTrue'
  <2>1. \A v \in DistinctValues' : listGone'[v] = 0
    BY <1>5, <1>9
  <2>2. ASSUME NEW v \in listCache.values, v \notin DistinctValues, ~HasChoices
        PROVE  IsLive' /\ listGone'[v] <= listCache'.age
    <3>1. IsLive /\ listGone[v] <= listCache.age
      BY <2>2 DEF ListInv, FacetsTrue
    <3>2. v \in ListValues /\ listGone[v] \in Nat /\ listCache.age \in Nat /\ listCache.age <= FacetTTL
      BY <1>3, ListAssumption
    <3> QED BY <1>2, <1>4, <1>5, <1>9, <2>2, <3>1, <3>2
  <2>3. HasChoices' /\ Cached' => listCache'.values = ListValues
    <3>1. listCache'.age < FacetTTL => listCache.age < FacetTTL
      BY <1>3, <1>4, ListAssumption DEF Aging
    <3> QED BY <1>4, <1>9, <3>1 DEF ListInv, FacetsTrue, Cached
  <2> QED BY <1>4, <1>9, <2>1, <2>2, <2>3 DEF FacetsTrue
<1> QED BY <1>7, <1>8, <1>10 DEF ListInv


\* OpenList, CountRows and SelectPage change the walk only.
LEMMA WalkStep ==
    ASSUME ListInv, UNCHANGED <<listRows, listCache, listGone>>, listWalk' \in WalkType,
           \A f \in {"list", "sort", "want", "col"} : listWalk'[f] = listWalk[f],
           WalkInv'
    PROVE  ListInv'
<1>1. ListTypes'
  BY DEF ListInv, ListTypes
<1>2. IdsUnique' /\ FacetsTrue'
  BY TableKept DEF ListInv, FacetsTrue, Cached
<1> QED BY <1>1, <1>2 DEF ListInv

LEMMA OpenListStep ==
    ASSUME ListInv, OpenList
    PROVE  ListInv'
<1>1. listWalk \in WalkType /\ ListedIds \subseteq Nat
  BY ListedRows DEF ListInv, ListTypes
<1>2. /\ listWalk' \in WalkType
      /\ \A f \in {"list", "sort", "want", "col"} : listWalk'[f] = listWalk[f]
      /\ listWalk'.at = "asked" /\ listWalk'.offset = 0
      /\ listWalk'.due = ListedIds /\ ~listWalk'.left
      /\ UNCHANGED <<listRows, listCache, listGone>>
  BY <1>1 DEF OpenList, WalkType
<1>3. ListedIds' = ListedIds /\ \A x : RankOf(x)' = RankOf(x)
  BY <1>2, TableKept
<1>4. \A x : RankOf(x) \in Nat
  BY ListedRows DEF ListInv
<1>5. Behind(0)'
  BY <1>3, <1>4 DEF Behind
<1>6. WalkInv'
  BY <1>2, <1>3, <1>5 DEF WalkInv, WalkTrue, Behind
<1> QED BY <1>2, <1>6, WalkStep

LEMMA CountRowsStep ==
    ASSUME ListInv, CountRows
    PROVE  ListInv'
<1>1. listWalk \in WalkType /\ Cardinality(ListedIds) \in Nat
  BY ListedRows DEF ListInv, ListTypes
<1>2. /\ listWalk' \in WalkType
      /\ \A f \in {"list", "sort", "want", "col", "offset", "seen", "due", "left", "slipped"} :
            listWalk'[f] = listWalk[f]
      /\ listWalk.at = "asked" /\ listWalk'.at = "counted"
      /\ listWalk'.total = Cardinality(ListedIds)
      /\ UNCHANGED <<listRows, listCache, listGone>>
  BY <1>1 DEF CountRows, WalkType
<1>3. ListedIds' = ListedIds /\ (\A x : RankOf(x)' = RankOf(x)) /\ (IsLive' <=> IsLive)
  BY <1>2, TableKept
<1>4. WalkInv'
  BY <1>1, <1>2, <1>3 DEF ListInv, WalkInv, WalkTrue, Behind
<1> QED BY <1>2, <1>4, WalkStep

LEMMA SelectPageStep ==
    ASSUME ListInv, SelectPage
    PROVE  ListInv'
<1>1. /\ listWalk \in WalkType /\ ListTypes /\ IdsUnique
      /\ listWalk.due \subseteq ListedIds /\ ListedIds \subseteq Nat
  BY ListedRows DEF ListInv, ListTypes, WalkInv
<1> DEFINE o == listWalk.offset
           page == PageOfRows(o)
<1>2. page \subseteq ListedIds
  BY DEF PageOfRows
<1> HIDE DEF page
<1>3. /\ listWalk' \in WalkType
      /\ \A f \in {"list", "sort", "want", "col", "offset", "total", "due", "left", "slipped"} :
            listWalk'[f] = listWalk[f]
      /\ listWalk.at = "counted" /\ listWalk'.at = "selected"
      /\ listWalk'.seen = listWalk.seen \cup page
      /\ UNCHANGED <<listRows, listCache, listGone>>
  BY <1>1, <1>2 DEF SelectPage, WalkType, page
<1>4. ListedIds' = ListedIds /\ (\A x : RankOf(x)' = RankOf(x)) /\ (IsLive' <=> IsLive)
  BY <1>3, TableKept
<1>5. o \in Nat /\ listWalk.total \in Nat
  BY <1>1 DEF WalkType
<1>6. ASSUME ~listWalk.slipped, ~listWalk.left PROVE WalkTrue'
  <2>1. Behind(o) /\ Cardinality(ListedIds) <= listWalk.total
    BY <1>3, <1>6 DEF ListInv, WalkInv, WalkTrue
  <2>2. ASSUME NEW x \in listWalk'.due \ listWalk'.seen
        PROVE  RankOf(x) >= o + ListLimit /\ RankOf(x) < listWalk.total
    <3>1. x \in ListedIds /\ RankOf(x) >= o /\ x \notin page
      BY <1>1, <1>3, <2>1, <2>2 DEF Behind
    <3>2. RankOf(x) >= o + ListLimit
      BY <1>1, <1>5, <3>1, PageTakes DEF page
    <3>3. RankOf(x) < Cardinality(ListedIds) /\ RankOf(x) \in Nat /\ Cardinality(ListedIds) \in Nat
      BY <1>1, <3>1, ListedRows
    <3> QED BY <1>5, <2>1, <3>2, <3>3
  <2>3. \A x : RankOf(x) \in Nat
    BY <1>1, ListedRows
  <2>4. o + ListLimit >= listWalk.total => listWalk'.due \subseteq listWalk'.seen
    BY <1>5, <2>2, <2>3, ListAssumption
  <2>5. Behind(o + ListLimit)'
    BY <1>3, <1>4, <2>2 DEF Behind
  <2> QED BY <1>3, <2>4, <2>5 DEF WalkTrue
<1>7. WalkInv'
  BY <1>3, <1>4, <1>6 DEF ListInv, WalkInv
<1> QED BY <1>3, <1>7, WalkStep

LEMMA AnswerListStep ==
    ASSUME ListInv, AnswerList
    PROVE  ListInv' /\ WalkLosesNothing' /\ FacetsReal
<1> DEFINE more == listWalk.offset + ListLimit < listWalk.total
<1>1. /\ listWalk \in WalkType /\ listWalk.offset \in Nat /\ listWalk.total \in Nat
      /\ listWalk.offset + ListLimit \in Nat
      /\ listCache \in [age : 0 .. FacetTTL, values : SUBSET ListValues]
  BY ListAssumption DEF ListInv, ListTypes, WalkType
<1>2. /\ listWalk' \in WalkType
      /\ \A f \in {"list", "sort", "want", "col", "total", "seen", "due", "left", "slipped"} :
            listWalk'[f] = listWalk[f]
      /\ listWalk.at = "selected"
      /\ more => listWalk'.at = "asked" /\ listWalk'.offset = listWalk.offset + ListLimit
      /\ ~more => listWalk'.at = "shown"
      /\ listRows' = listRows /\ listGone' = listGone
  BY <1>1 DEF AnswerList, WalkType
<1>3. /\ ListedIds' = ListedIds /\ (\A x : RankOf(x)' = RankOf(x)) /\ (IsLive' <=> IsLive)
      /\ (HasChoices' <=> HasChoices) /\ DistinctValues' = DistinctValues /\ IdsUnique'
  BY <1>2, TableKept DEF ListInv
<1>4. listWalk.slipped \/ listWalk.left \/ WalkTrue
  BY DEF ListInv, WalkInv
<1>5. WalkTrue => WalkTrue'
  <2> SUFFICES ASSUME WalkTrue PROVE WalkTrue'
    OBVIOUS
  <2>1. CASE more
    BY <1>1, <1>2, <1>3, <2>1 DEF WalkTrue, Behind
  <2>2. CASE ~more
    BY <1>1, <1>2, <1>3, <2>2 DEF WalkTrue
  <2> QED BY <2>1, <2>2
<1>6. WalkInv'
  BY <1>2, <1>3, <1>4, <1>5 DEF ListInv, WalkInv
<1>7. /\ listCache' = listCache /\ Cached
      \/ /\ listCache'.age = 0
         /\ HasChoices => listCache'.values = ListValues
         /\ ~HasChoices => listCache'.values \subseteq DistinctValues
         /\ listCache' \in [age : 0 .. FacetTTL, values : SUBSET ListValues]
  <2>1. DistinctValues \subseteq ListValues
    BY ListedRows DEF ListInv, DistinctValues, ListRow
  <2>2. /\ HasChoices => FacetValues = ListValues
        /\ ~HasChoices => FacetValues \subseteq DistinctValues
        /\ FacetValues \subseteq ListValues
    BY <2>1 DEF FacetValues
  <2> QED BY <2>2, ListAssumption DEF AnswerList
<1>8. ListTypes' /\ FacetsTrue'
  BY <1>1, <1>2, <1>3, <1>7 DEF ListInv, ListTypes, FacetsTrue, Cached
<1>9. ListInv'
  BY <1>3, <1>6, <1>8 DEF ListInv
<1>10. WalkLosesNothing'
  BY <1>2, <1>3, <1>6 DEF WalkInv, WalkTrue, WalkLosesNothing
<1>11. FacetsReal
  <2>0. HasChoices => DistinctValues \subseteq listCache'.values
    <3>1. DistinctValues \subseteq ListValues
      BY ListedRows DEF ListInv, DistinctValues, ListRow
    <3> QED BY <1>7, <3>1 DEF ListInv, FacetsTrue
  <2> SUFFICES ASSUME ~HasChoices, NEW v \in listCache'.values, v \notin DistinctValues
               PROVE  IsLive /\ listGone[v] < FacetTTL
    BY <2>0 DEF FacetsReal
  <2>1. listCache' = listCache /\ Cached
    BY <1>7
  <2>2. IsLive /\ listGone[v] <= listCache.age /\ listCache.age < FacetTTL
    BY <2>1 DEF ListInv, FacetsTrue, Cached
  <2>3. listGone[v] \in Nat /\ listCache.age \in Nat
    BY <1>1, <2>1, ListAssumption DEF ListInv, ListTypes
  <2> QED BY <2>2, <2>3, ListAssumption
<1> QED BY <1>9, <1>10, <1>11

\* Only an answer ends a walk, and only an answer offers choices.
LEMMA ListStep ==
    ASSUME ListInv, [ListNext]_listVars
    PROVE  ListInv' /\ [WalkLosesNothing' /\ FacetsReal]_listVars
<1>1. CASE RowInserted \/ RowUpdated \/ SecondPasses \/ OpenList \/ CountRows \/ SelectPage
  <2>1. ListInv'
    BY <1>1, RowInsertedStep, RowUpdatedStep, SecondPassesStep, OpenListStep, CountRowsStep,
       SelectPageStep
  <2>2. AnswerList => FacetsReal
    BY AnswerListStep
  <2>3. WalkLosesNothing'
    BY <2>1 DEF ListInv, WalkInv, WalkTrue, WalkLosesNothing
  <2> QED BY <2>1, <2>2, <2>3 DEF FacetsReal
<1>2. CASE AnswerList
  BY <1>2, AnswerListStep
<1>3. CASE UNCHANGED listVars
  <2>1. UNCHANGED <<listWalk, listRows, listCache, listGone>>
    BY <1>3 DEF listVars
  <2>2. /\ ListedIds' = ListedIds /\ (\A x : RankOf(x)' = RankOf(x)) /\ (IsLive' <=> IsLive)
        /\ (HasChoices' <=> HasChoices) /\ DistinctValues' = DistinctValues /\ (IdsUnique' <=> IdsUnique)
    BY <2>1, TableKept
  <2>3. ListInv'
    BY <2>1, <2>2 DEF ListInv, ListTypes, WalkInv, WalkTrue, Behind, FacetsTrue, Cached
  <2> QED BY <1>3, <2>3
<1> QED BY <1>1, <1>2, <1>3 DEF ListNext

\* The lists are honest for every page size, every number of rows and every
\* lifetime of the facets: a client that walks a list, in either order and
\* with rows coming in anywhere, misses none but for the two named reasons,
\* and the choices it is offered are values of rows, or the fixed list of a
\* column that has one.
THEOREM ListsAreHonest == ListSpec => ListsHonest
<1>1. ListInit => ListInv
  <2> SUFFICES ASSUME ListInit PROVE ListInv
    OBVIOUS
  <2>1. /\ listWalk \in WalkType /\ listWalk.at = "rest" /\ listWalk.due = {} /\ ~listWalk.left
    <3> DEFINE W == [list : WalkedLists, sort : {"desc", "asc"}, want : ListValues,
                     col : AllColumns, at : {"rest"}, offset : {0}, total : {0},
                     seen : {{}}, due : {{}}, left : {FALSE}, slipped : {FALSE}]
    <3>1. listWalk \in W
      BY DEF ListInit
    <3>2. {0} \subseteq Nat /\ {{}} \subseteq SUBSET Nat /\ {FALSE} \subseteq BOOLEAN
      OBVIOUS
    <3>3. W \subseteq WalkType
      BY <3>2, Zenon DEF WalkType
    <3>4. listWalk.at \in {"rest"} /\ listWalk.due \in {{}} /\ listWalk.left \in {FALSE}
      BY <3>1
    <3> QED BY <3>1, <3>3, <3>4
  <2>2. listRows = <<>> /\ Len(listRows) = 0 /\ listRows \in Seq(ListRow) /\ DistinctValues = {}
    BY DEF ListInit, DistinctValues
  <2>3. listCache = NoEntry /\ listGone \in [ListValues -> Nat]
    BY ListAssumption DEF ListInit
  <2>4. /\ listCache.values = {} /\ listCache \in [age : 0 .. FacetTTL, values : SUBSET ListValues]
        /\ ~Cached
    BY <2>3, ListAssumption DEF NoEntry, Cached
  <2> QED BY <2>1, <2>2, <2>3, <2>4
        DEF ListInv, ListTypes, IdsUnique, WalkInv, WalkTrue, FacetsTrue
<1>2. ListInv /\ [ListNext]_listVars => ListInv' /\ [WalkLosesNothing' /\ FacetsReal]_listVars
  BY ListStep
<1> QED BY <1>1, <1>2, PTL DEF ListSpec, ListsHonest

-----------------------------------------------------------------------------
(* EvidenceRules: the buffer holds observations of one scene, in any order *)
(* of time but none further from another than the longest window.  The     *)
(* rest is about the rules: the observation a rule chooses of a kind       *)
(* exists, and is at least as good as any other.                           *)

RuleInv ==
    /\ scene \in RuleScenes
    /\ buf \in Seq(scene)
    /\ WithinWindow(DOMAIN buf, MaxWindow)

\* A strict order on a finite set leaves an element that none is before.
LEMMA NoneIsBefore ==
    ASSUME NEW S, IsFiniteSet(S), S # {}, NEW R,
           \A x \in S : <<x, x>> \notin R,
           \A x, y, z \in S : <<x, y>> \in R /\ <<y, z>> \in R => <<x, z>> \in R
    PROVE  \E x \in S : \A y \in S : <<y, x>> \notin R
<1> DEFINE before(x) == {y \in S : <<y, x>> \in R}
           sizes == {Cardinality(before(x)) : x \in S}
<1>1. \A x \in S : IsFiniteSet(before(x)) /\ Cardinality(before(x)) \in Nat
  <2> TAKE x \in S
  <2>1. before(x) \in SUBSET S
    OBVIOUS
  <2> HIDE DEF before
  <2> QED BY <2>1, FS_Subset, FS_CardinalityType
<1>2. PICK n \in sizes : \A m \in sizes : n <= m
  <2>1. sizes \subseteq Nat /\ sizes # {}
    <3> HIDE DEF before
    <3> QED BY <1>1
  <2> HIDE DEF sizes
  <2> QED BY <2>1, LeastNumber
<1>3. PICK x \in S : n = Cardinality(before(x))
  BY <1>2
<1>4. ASSUME NEW y \in S, <<y, x>> \in R PROVE FALSE
  <2>1. before(y) \in SUBSET before(x) /\ y \in before(x) /\ y \notin before(y)
    BY <1>4
  <2>2. Cardinality(before(y)) <= Cardinality(before(x))
        /\ Cardinality(before(x)) # Cardinality(before(y))
    <3> HIDE DEF before
    <3> QED BY <2>1, <1>1, FS_Subset
  <2>3. Cardinality(before(x)) <= Cardinality(before(y))
    <3> HIDE DEF before
    <3>1. Cardinality(before(y)) \in sizes
      OBVIOUS
    <3> QED BY <1>2, <1>3, <3>1
  <2> HIDE DEF before
  <2> QED BY <1>1, <2>2, <2>3
<1> QED BY <1>4

\* What the rules take of a kind: the worst candidate, whichever way is worse.
LEMMA WorstCandidate ==
    ASSUME NEW cs, IsFiniteSet(cs), cs # {},
           \A c \in cs : c.pct \in Int /\ c.pos \in Int
    PROVE  /\ Highest(cs) \in cs /\ \A d \in cs : d.pct <= Highest(cs).pct
           /\ Lowest(cs) \in cs /\ \A d \in cs : Lowest(cs).pct <= d.pct
<1>1. \E c \in cs : \A d \in cs : c.pct > d.pct \/ (c.pct = d.pct /\ c.pos <= d.pos)
  <2> DEFINE R == {x \in cs \X cs : \/ x[1].pct > x[2].pct
                                    \/ x[1].pct = x[2].pct /\ x[1].pos < x[2].pos}
  <2>1. \A x, y \in cs : <<x, y>> \in R <=> (x.pct > y.pct \/ (x.pct = y.pct /\ x.pos < y.pos))
    OBVIOUS
  <2> HIDE DEF R
  <2>2. \A x \in cs : <<x, x>> \notin R
    BY <2>1
  <2>3. \A x, y, z \in cs : <<x, y>> \in R /\ <<y, z>> \in R => <<x, z>> \in R
    BY <2>1
  <2>4. PICK x \in cs : \A y \in cs : <<y, x>> \notin R
    BY <2>2, <2>3, NoneIsBefore
  <2>5. \A d \in cs : x.pct > d.pct \/ (x.pct = d.pct /\ x.pos <= d.pos)
    <3> TAKE d \in cs
    <3>1. ~(d.pct > x.pct \/ (d.pct = x.pct /\ d.pos < x.pos))
      BY <2>1, <2>4, Zenon
    <3>2. {x.pct, x.pos, d.pct, d.pos} \subseteq Int
      OBVIOUS
    <3> QED BY <3>1, <3>2
  <2> QED BY <2>5
<1>2. \E c \in cs : \A d \in cs : c.pct < d.pct \/ (c.pct = d.pct /\ c.pos <= d.pos)
  <2> DEFINE R == {x \in cs \X cs : \/ x[1].pct < x[2].pct
                                    \/ x[1].pct = x[2].pct /\ x[1].pos < x[2].pos}
  <2>1. \A x, y \in cs : <<x, y>> \in R <=> (x.pct < y.pct \/ (x.pct = y.pct /\ x.pos < y.pos))
    OBVIOUS
  <2> HIDE DEF R
  <2>2. \A x \in cs : <<x, x>> \notin R
    BY <2>1
  <2>3. \A x, y, z \in cs : <<x, y>> \in R /\ <<y, z>> \in R => <<x, z>> \in R
    BY <2>1
  <2>4. PICK x \in cs : \A y \in cs : <<y, x>> \notin R
    BY <2>2, <2>3, NoneIsBefore
  <2>5. \A d \in cs : x.pct < d.pct \/ (x.pct = d.pct /\ x.pos <= d.pos)
    <3> TAKE d \in cs
    <3>1. ~(d.pct < x.pct \/ (d.pct = x.pct /\ d.pos < x.pos))
      BY <2>1, <2>4, Zenon
    <3>2. {x.pct, x.pos, d.pct, d.pos} \subseteq Int
      OBVIOUS
    <3> QED BY <3>1, <3>2
  <2> QED BY <2>5
<1>3. /\ Highest(cs) \in cs
      /\ \A d \in cs : Highest(cs).pct > d.pct
                        \/ (Highest(cs).pct = d.pct /\ Highest(cs).pos <= d.pos)
  BY <1>1 DEF Highest
<1>4. /\ Lowest(cs) \in cs
      /\ \A d \in cs : Lowest(cs).pct < d.pct
                        \/ (Lowest(cs).pct = d.pct /\ Lowest(cs).pos <= d.pos)
  BY <1>2 DEF Lowest
<1> QED BY <1>3, <1>4

\* A percentage rounded down is below a whole one just if the exact one is.
LEMMA PercentBelow ==
    ASSUME NEW f \in Nat, NEW t \in Nat, t # 0, NEW n \in Nat
    PROVE  /\ (100 * f) \div t \in Nat
           /\ (100 * f) \div t < n <=> 100 * f < n * t
<1> DEFINE q == (100 * f) \div t
           r == (100 * f) % t
<1>1. q \in Nat /\ r \in Nat /\ r < t /\ 100 * f = t * q + r
  OBVIOUS
<1> HIDE DEF q, r
<1>2. ASSUME q < n PROVE 100 * f < n * t
  <2>1. t * (q + 1) <= t * n
    BY <1>1, <1>2
  <2>2. t * (q + 1) = t * q + t /\ t * n = n * t
    BY <1>1
  <2> QED BY <1>1, <2>1, <2>2
<1>3. ASSUME n <= q PROVE n * t <= 100 * f
  <2>1. t * n <= t * q
    BY <1>1, <1>3
  <2> QED BY <1>1, <2>1
<1>4. q \in Nat /\ (q < n <=> 100 * f < n * t)
  BY <1>1, <1>2, <1>3
<1> QED BY <1>4 DEF q

RowsTyped ==
    /\ Len(buf) \in Nat /\ DOMAIN buf = 1 .. Len(buf)
    /\ \A i \in DOMAIN buf : buf[i].at \in Nat /\ buf[i].val \in Nat

\* Some observation of kind k in P has more than n, or less.
Over(P, k, n) == \E i \in P : buf[i].kind = k /\ buf[i].val > n
Under(P, k, n) == \E i \in P : buf[i].kind = k /\ buf[i].val < n

\* A device that P reports has less than n percent free.
Short(P, free, total, n) ==
    \E i, j \in P : /\ buf[i].kind = free /\ buf[j].kind = total
                    /\ buf[i].key = buf[j].key
                    /\ 100 * buf[i].val < n * buf[j].val

\* More than n percent of a device is used, or less is free, by what P says.
HighUse(P, k, free, total, n) == Over(P, k, n) \/ Short(P, free, total, 100 - n)
LowFree(P, k, free, total, n) == Under(P, k, n) \/ Short(P, free, total, n)

Some(P, k) == \E i \in P : buf[i].kind = k

LEMMA MoreSaysMore ==
    ASSUME NEW P, NEW Q, P \subseteq Q
    PROVE  /\ \A k : Some(P, k) => Some(Q, k)
           /\ \A k, n : Over(P, k, n) => Over(Q, k, n)
           /\ \A k, n : Under(P, k, n) => Under(Q, k, n)
           /\ \A free, total, n : Short(P, free, total, n) => Short(Q, free, total, n)
           /\ \A k, free, total, n : HighUse(P, k, free, total, n) => HighUse(Q, k, free, total, n)
           /\ \A k, free, total, n : LowFree(P, k, free, total, n) => LowFree(Q, k, free, total, n)
<1>1. /\ \A k : Some(P, k) => Some(Q, k)
      /\ \A k, n : Over(P, k, n) => Over(Q, k, n)
      /\ \A k, n : Under(P, k, n) => Under(Q, k, n)
      /\ \A free, total, n : Short(P, free, total, n) => Short(Q, free, total, n)
  BY DEF Some, Over, Under, Short
<1> QED BY <1>1, Zenon DEF HighUse, LowFree

\* The last one to arrive.
LEMMA MaxIsIn ==
    ASSUME NEW n \in Nat, NEW S, S \subseteq 1 .. n, S # {}
    PROVE  Max(S) \in S /\ \A y \in S : y <= Max(S)
<1> DEFINE T == {y \in Nat : \A x \in S : x <= y}
<1>1. T \subseteq Nat /\ n \in T
  OBVIOUS
<1>2. PICK y \in T : \A z \in T : y <= z
  <2> HIDE DEF T
  <2> QED BY <1>1, LeastNumber
<1>3. y \in S
  <2> SUFFICES ASSUME y \notin S PROVE FALSE
    OBVIOUS
  <2>1. \A x \in S : x < y
    BY <1>2
  <2>2. PICK x \in S : TRUE
    OBVIOUS
  <2>3. x \in Nat /\ y \in Nat /\ x < y
    BY <1>2, <2>1
  <2>4. y - 1 \in T
    BY <2>1, <2>3
  <2> QED BY <1>2, <2>3, <2>4
<1>4. \A z \in S : y >= z
  BY <1>2
<1> QED BY <1>3, <1>4 DEF Max

LEMMA GroupFinite ==
    ASSUME RowsTyped, NEW G, G \subseteq DOMAIN buf
    PROVE  IsFiniteSet(G) /\ G \subseteq Nat
<1>1. IsFiniteSet(1 .. Len(buf)) /\ G \in SUBSET (1 .. Len(buf))
  BY FS_Interval DEF RowsTyped
<1> QED BY <1>1, FS_Subset

LEMMA DirectCandidates ==
    ASSUME RowsTyped, NEW G, G \subseteq DOMAIN buf, NEW k
    PROVE  /\ IsFiniteSet(Direct(G, k))
           /\ \A c \in Direct(G, k) : \E i \in G :
                 buf[i].kind = k /\ c = [pct |-> buf[i].val, obs |-> {i}, pos |-> i]
           /\ \A i \in G : buf[i].kind = k => \E c \in Direct(G, k) : c.pct = buf[i].val
<1> DEFINE f == [i \in G |-> [pct |-> buf[i].val, obs |-> {i}, pos |-> i]]
<1>1. \A c \in Direct(G, k) : \E i \in G :
         buf[i].kind = k /\ c = [pct |-> buf[i].val, obs |-> {i}, pos |-> i]
  BY DEF Direct, OfKind
<1>2. \A c \in Direct(G, k) : \E i \in G : f[i] = c
  BY <1>1
<1>3. IsFiniteSet(Direct(G, k))
  <2> HIDE DEF f
  <2> QED BY <1>2, GroupFinite, ImageNotLarger
<1>4. ASSUME NEW i \in G, buf[i].kind = k
      PROVE  \E c \in Direct(G, k) : c.pct = buf[i].val
  <2>1. [pct |-> buf[i].val, obs |-> {i}, pos |-> i] \in Direct(G, k)
    BY <1>4 DEF Direct, OfKind
  <2> QED BY <2>1
<1> QED BY <1>1, <1>3, <1>4

LastOf(G, k, key) == Max(Keyed(G, k, key))

Paired(G, free, total, key) ==
    \A k \in {free, total} : Keyed(G, k, key) # {} /\ buf[LastOf(G, k, key)].val # 0

PairOf(G, free, total, key) ==
    [pct |-> (100 * buf[LastOf(G, free, key)].val) \div buf[LastOf(G, total, key)].val,
     obs |-> {LastOf(G, free, key), LastOf(G, total, key)},
     pos |-> Len(buf) + Min(Keyed(G, free, key) \cup Keyed(G, total, key))]

LEMMA PairsAre ==
    ASSUME NEW G, NEW free, NEW total
    PROVE  PairUsage(G, free, total) =
             {PairOf(G, free, total, key) :
                 key \in {x \in {buf[i].key : i \in G} : Paired(G, free, total, x)}}
BY DEF PairUsage, PairOf, Paired, LastOf

LEMMA LastIsIn ==
    ASSUME RowsTyped, NEW G, G \subseteq DOMAIN buf, NEW k, NEW key, Keyed(G, k, key) # {}
    PROVE  /\ LastOf(G, k, key) \in G
           /\ buf[LastOf(G, k, key)].kind = k /\ buf[LastOf(G, k, key)].key = key
           /\ \A i \in Keyed(G, k, key) : i <= LastOf(G, k, key)
<1>1. Keyed(G, k, key) \subseteq 1 .. Len(buf) /\ Len(buf) \in Nat
  BY DEF Keyed, OfKind, RowsTyped
<1>2. LastOf(G, k, key) \in Keyed(G, k, key)
      /\ \A i \in Keyed(G, k, key) : i <= LastOf(G, k, key)
  BY <1>1, MaxIsIn DEF LastOf
<1> QED BY <1>2 DEF Keyed, OfKind

\* The candidate of a device: what it says of a whole percentage is exact.
IsPair(G, free, total, c) ==
    \E pct \in Nat, pos \in Nat, i \in G, j \in G :
        /\ c = [pct |-> pct, obs |-> {i, j}, pos |-> pos]
        /\ buf[i].kind = free /\ buf[j].kind = total /\ buf[i].key = buf[j].key
        /\ \A n \in Nat : pct < n <=> 100 * buf[i].val < n * buf[j].val

LEMMA PairCandidates ==
    ASSUME RowsTyped, NEW G, G \subseteq DOMAIN buf, NEW free, NEW total
    PROVE  /\ IsFiniteSet(PairUsage(G, free, total))
           /\ \A c \in PairUsage(G, free, total) : IsPair(G, free, total, c)
           /\ \A i, j \in Current(G), n \in Nat :
                 /\ NoZeroSize(G) /\ {free, total} \subseteq SizeKinds
                 /\ buf[i].kind = free /\ buf[j].kind = total /\ buf[i].key = buf[j].key
                 /\ 100 * buf[i].val < n * buf[j].val
                 => \E c \in PairUsage(G, free, total) : c.pct < n
<1> DEFINE keys == {x \in {buf[i].key : i \in G} : Paired(G, free, total, x)}
           f == [i \in G |-> PairOf(G, free, total, buf[i].key)]
<1>1. \A c \in PairUsage(G, free, total) : \E i \in G : f[i] = c
  BY PairsAre
<1>2. IsFiniteSet(PairUsage(G, free, total))
  <2> HIDE DEF f
  <2> QED BY <1>1, GroupFinite, ImageNotLarger
<1>3. ASSUME NEW c \in PairUsage(G, free, total)
      PROVE  IsPair(G, free, total, c)
  <2>1. PICK key : Paired(G, free, total, key) /\ c = PairOf(G, free, total, key)
    BY PairsAre
  <2> DEFINE i == LastOf(G, free, key)
             j == LastOf(G, total, key)
             pct == (100 * buf[i].val) \div buf[j].val
             pos == Len(buf) + Min(Keyed(G, free, key) \cup Keyed(G, total, key))
  <2>2. /\ i \in G /\ buf[i].kind = free /\ buf[i].key = key
        /\ j \in G /\ buf[j].kind = total /\ buf[j].key = key /\ buf[j].val # 0
    <3>1. /\ Keyed(G, free, key) # {} /\ Keyed(G, total, key) # {}
          /\ buf[LastOf(G, total, key)].val # 0
      BY <2>1 DEF Paired
    <3> QED BY <3>1, LastIsIn
  <2>3. c = [pct |-> pct, obs |-> {i, j}, pos |-> pos]
    BY <2>1 DEF PairOf
  <2>4. pos \in Nat
    <3>1. Keyed(G, free, key) \cup Keyed(G, total, key) \subseteq Nat
          /\ Keyed(G, free, key) \cup Keyed(G, total, key) # {}
      BY <2>1, GroupFinite DEF Keyed, OfKind, Paired
    <3>2. Min(Keyed(G, free, key) \cup Keyed(G, total, key)) \in Nat
      BY <3>1, MinIsIn
    <3> QED BY <3>2 DEF RowsTyped
  <2> HIDE DEF i, j, pos
  <2>5. buf[i].val \in Nat /\ buf[j].val \in Nat
    BY <2>2 DEF RowsTyped
  <2>6. pct \in Nat /\ \A n \in Nat : pct < n <=> 100 * buf[i].val < n * buf[j].val
    BY <2>2, <2>5, PercentBelow
  <2> HIDE DEF pct
  <2> QED BY <2>2, <2>3, <2>4, <2>6 DEF IsPair
<1>4. ASSUME NEW i \in Current(G), NEW j \in Current(G), NEW n \in Nat,
             NoZeroSize(G), {free, total} \subseteq SizeKinds,
             buf[i].kind = free, buf[j].kind = total, buf[i].key = buf[j].key,
             100 * buf[i].val < n * buf[j].val
      PROVE  \E c \in PairUsage(G, free, total) : c.pct < n
  <2> DEFINE key == buf[i].key
  <2>1. /\ i \in Keyed(G, free, key) /\ \A x \in Keyed(G, free, key) : x <= i
        /\ j \in Keyed(G, total, key) /\ \A x \in Keyed(G, total, key) : x <= j
        /\ i \in G /\ j \in G
    BY <1>4 DEF Current, Keyed, OfKind
  <2>2. i \in Nat /\ j \in Nat /\ G \subseteq Nat
    BY <2>1, GroupFinite
  <2>3. LastOf(G, free, key) = i /\ LastOf(G, total, key) = j
    <3>1. /\ LastOf(G, free, key) \in G /\ i <= LastOf(G, free, key)
          /\ LastOf(G, free, key) \in Keyed(G, free, key)
      BY <2>1, LastIsIn DEF Keyed, OfKind
    <3>2. /\ LastOf(G, total, key) \in G /\ j <= LastOf(G, total, key)
          /\ LastOf(G, total, key) \in Keyed(G, total, key)
      BY <2>1, LastIsIn DEF Keyed, OfKind
    <3> QED BY <2>1, <2>2, <3>1, <3>2
  <2>4. buf[i].val # 0 /\ buf[j].val # 0 /\ buf[i].val \in Nat /\ buf[j].val \in Nat
    BY <1>4, <2>1 DEF NoZeroSize, RowsTyped
  <2>5. Paired(G, free, total, key)
    BY <2>1, <2>3, <2>4 DEF Paired
  <2>6. PairOf(G, free, total, key) \in PairUsage(G, free, total)
    BY <2>1, <2>5, PairsAre
  <2>7. PairOf(G, free, total, key).pct = (100 * buf[i].val) \div buf[j].val
    BY <2>3 DEF PairOf
  <2>8. (100 * buf[i].val) \div buf[j].val < n
    BY <1>4, <2>4, PercentBelow
  <2> QED BY <2>6, <2>7, <2>8
<1> QED BY <1>2, <1>3, <1>4

\* The candidates of a usage rule: some pass the threshold just if some
\* observation does, or the sizes of some device.
LEMMA UsageCandidates ==
    ASSUME RowsTyped, NEW G, G \subseteq DOMAIN buf, NEW k, NEW free, NEW total,
           NEW n \in 0 .. 100
    PROVE  LET cs == Usage(G, k, free, total) IN
           /\ cs # {} => Highest(cs).obs \subseteq G /\ Highest(cs).obs # {}
           /\ cs # {} /\ Highest(cs).pct > n => HighUse(Highest(cs).obs, k, free, total, n)
           /\ NoZeroSize(G) /\ {free, total} \subseteq SizeKinds
              /\ HighUse(Current(G), k, free, total, n)
              => cs # {} /\ Highest(cs).pct > n
<1> DEFINE cs == Usage(G, k, free, total)
           PU == PairUsage(G, free, total)
           turned == {UsedFrom(c) : c \in PU}
           f == [c \in PU |-> UsedFrom(c)]
           found(P) == HighUse(P, k, free, total, n)
<1>1. cs = Direct(G, k) \cup turned
  BY DEF Usage
<1>2. IsFiniteSet(cs)
  <2>1. \A t \in turned : \E c \in PU : f[c] = t
    OBVIOUS
  <2>2. IsFiniteSet(PU)
    BY PairCandidates
  <2>3. IsFiniteSet(turned)
    <3> HIDE DEF f, turned, PU
    <3> QED BY <2>1, <2>2, ImageNotLarger
  <2> HIDE DEF turned, cs
  <2> QED BY <1>1, <2>3, DirectCandidates, FS_Union
<1>3. ASSUME NEW c \in Direct(G, k)
      PROVE  /\ c.pct \in Int /\ c.pos \in Int /\ c.obs \subseteq G /\ c.obs # {}
             /\ c.pct > n => found(c.obs)
  <2>1. PICK i \in G : buf[i].kind = k /\ c = [pct |-> buf[i].val, obs |-> {i}, pos |-> i]
    BY DirectCandidates
  <2>2. buf[i].val \in Nat /\ i \in Nat
    BY GroupFinite DEF RowsTyped
  <2>3. c.pct > n => found(c.obs)
    BY <2>1 DEF Over, HighUse
  <2> QED BY <2>1, <2>2, <2>3
<1>4. ASSUME NEW c \in PU
      PROVE  LET d == UsedFrom(c) IN
             /\ c.pct \in Nat /\ d.pct = 100 - c.pct
             /\ d.pos \in Int /\ d.obs \subseteq G /\ d.obs # {}
             /\ d.pct > n => found(d.obs)
  <2>1. PICK pct \in Nat, pos \in Nat, i \in G, j \in G :
           /\ c = [pct |-> pct, obs |-> {i, j}, pos |-> pos]
           /\ buf[i].kind = free /\ buf[j].kind = total /\ buf[i].key = buf[j].key
           /\ \A m \in Nat : pct < m <=> 100 * buf[i].val < m * buf[j].val
    <3>1. IsPair(G, free, total, c)
      BY PairCandidates
    <3> QED BY <3>1 DEF IsPair
  <2>2. UsedFrom(c) = [pct |-> 100 - pct, obs |-> {i, j}, pos |-> pos]
    BY <2>1 DEF UsedFrom
  <2>3. 100 - pct > n => 100 * buf[i].val < (100 - n) * buf[j].val
    <3>1. 100 - n \in Nat
      OBVIOUS
    <3>2. 100 - pct > n => pct < 100 - n
      OBVIOUS
    <3> QED BY <2>1, <3>1, <3>2
  <2>4. 100 - pct > n => found({i, j})
    BY <2>1, <2>3 DEF Short, HighUse
  <2>5. /\ c.pct = pct /\ UsedFrom(c).pct = 100 - pct
        /\ UsedFrom(c).pos = pos /\ UsedFrom(c).obs = {i, j}
    <3> HIDE DEF cs, PU, turned, f, found
    <3>1. c.pct = pct
      BY <2>1
    <3> QED BY <2>2, <3>1
  <2>6. UsedFrom(c).pct > n => found(UsedFrom(c).obs)
    BY <2>4, <2>5
  <2> HIDE DEF found
  <2> QED BY <2>5, <2>6
<1>5. /\ cs # {} => Highest(cs) \in cs
      /\ \A d \in cs : d.pct <= Highest(cs).pct /\ d.pct \in Int
      /\ cs # {} => Highest(cs).pct \in Int
  <2>1. \A c \in cs : c.pct \in Int /\ c.pos \in Int
    BY <1>1, <1>3, <1>4
  <2> HIDE DEF cs
  <2> QED BY <1>2, <2>1, WorstCandidate
<1>6. ASSUME NEW c \in cs
      PROVE  /\ c.obs \subseteq G /\ c.obs # {}
             /\ c.pct > n => found(c.obs)
  <2>1. CASE c \in Direct(G, k)
    <3> HIDE DEF found
    <3> QED BY <2>1, <1>3
  <2>2. CASE c \in turned
    <3>1. PICK u \in PU : c = UsedFrom(u)
      BY <2>2
    <3> HIDE DEF found
    <3> QED BY <3>1, <1>4
  <2> QED BY <1>1, <2>1, <2>2
<1>7. ASSUME NoZeroSize(G), {free, total} \subseteq SizeKinds, found(Current(G))
      PROVE  cs # {} /\ Highest(cs).pct > n
  <2>1. \E c \in cs : c.pct > n
    <3>1. CASE Over(Current(G), k, n)
      <4>1. PICK i \in G : buf[i].kind = k /\ buf[i].val > n
        BY <3>1 DEF Over, Current
      <4>2. PICK c \in Direct(G, k) : c.pct = buf[i].val
        BY <4>1, DirectCandidates
      <4> QED BY <1>1, <4>1, <4>2
    <3>2. CASE Short(Current(G), free, total, 100 - n)
      <4>1. 100 - n \in Nat
        OBVIOUS
      <4>2. PICK c \in PU : c.pct < 100 - n
        BY <1>7, <3>2, <4>1, PairCandidates DEF Short
      <4>3. c.pct \in Nat /\ UsedFrom(c).pct = 100 - c.pct
        BY <1>4
      <4>4. UsedFrom(c) \in cs
        BY <1>1
      <4>5. 100 - c.pct > n
        BY <4>2, <4>3
      <4> QED BY <4>3, <4>4, <4>5
    <3> QED BY <1>7, <3>1, <3>2 DEF HighUse, LowFree
  <2> HIDE DEF cs
  <2> QED BY <2>1, <1>5
<1> QED BY <1>5, <1>6, <1>7

\* The same of the rules that look for the least that is free.
LEMMA FreeCandidates ==
    ASSUME RowsTyped, NEW G, G \subseteq DOMAIN buf, NEW k, NEW free, NEW total,
           NEW n \in Nat
    PROVE  LET cs == FreePercent(G, k, free, total) IN
           /\ cs # {} => Lowest(cs).obs \subseteq G
           /\ cs # {} /\ Lowest(cs).pct < n => LowFree(Lowest(cs).obs, k, free, total, n)
           /\ NoZeroSize(G) /\ {free, total} \subseteq SizeKinds
              /\ LowFree(Current(G), k, free, total, n)
              => cs # {} /\ Lowest(cs).pct < n
<1> DEFINE cs == FreePercent(G, k, free, total)
           PU == PairUsage(G, free, total)
           found(P) == LowFree(P, k, free, total, n)
<1>1. cs = Direct(G, k) \cup PU
  BY DEF FreePercent
<1>2. IsFiniteSet(cs)
  <2>1. IsFiniteSet(PU)
    BY PairCandidates
  <2> HIDE DEF PU, cs
  <2> QED BY <1>1, <2>1, DirectCandidates, FS_Union
<1>3. ASSUME NEW c \in Direct(G, k)
      PROVE  /\ c.pct \in Int /\ c.pos \in Int /\ c.obs \subseteq G /\ c.obs # {}
             /\ c.pct < n => found(c.obs)
  <2>1. PICK i \in G : buf[i].kind = k /\ c = [pct |-> buf[i].val, obs |-> {i}, pos |-> i]
    BY DirectCandidates
  <2>2. buf[i].val \in Nat /\ i \in Nat
    BY GroupFinite DEF RowsTyped
  <2>3. c.pct < n => found(c.obs)
    BY <2>1 DEF Under, LowFree
  <2> QED BY <2>1, <2>2, <2>3
<1>4. ASSUME NEW c \in PU
      PROVE  /\ c.pct \in Int /\ c.pos \in Int /\ c.obs \subseteq G /\ c.obs # {}
             /\ c.pct < n => found(c.obs)
  <2>1. PICK pct \in Nat, pos \in Nat, i \in G, j \in G :
           /\ c = [pct |-> pct, obs |-> {i, j}, pos |-> pos]
           /\ buf[i].kind = free /\ buf[j].kind = total /\ buf[i].key = buf[j].key
           /\ \A m \in Nat : pct < m <=> 100 * buf[i].val < m * buf[j].val
    <3>1. IsPair(G, free, total, c)
      BY PairCandidates
    <3> QED BY <3>1 DEF IsPair
  <2>2. pct < n => found({i, j})
    BY <2>1 DEF Short, LowFree
  <2> QED BY <2>1, <2>2
<1>5. /\ cs # {} => Lowest(cs) \in cs
      /\ \A d \in cs : Lowest(cs).pct <= d.pct /\ d.pct \in Int
      /\ cs # {} => Lowest(cs).pct \in Int
  <2>1. \A c \in cs : c.pct \in Int /\ c.pos \in Int
    BY <1>1, <1>3, <1>4
  <2> HIDE DEF cs
  <2> QED BY <1>2, <2>1, WorstCandidate
<1>6. ASSUME NEW c \in cs
      PROVE  /\ c.obs \subseteq G /\ c.obs # {}
             /\ c.pct < n => found(c.obs)
  <2> HIDE DEF found
  <2> QED BY <1>1, <1>3, <1>4
<1>7. ASSUME NoZeroSize(G), {free, total} \subseteq SizeKinds, found(Current(G))
      PROVE  cs # {} /\ Lowest(cs).pct < n
  <2>1. \E c \in cs : c.pct < n
    <3>1. CASE Under(Current(G), k, n)
      <4>1. PICK i \in G : buf[i].kind = k /\ buf[i].val < n
        BY <3>1 DEF Under, Current
      <4>2. PICK c \in Direct(G, k) : c.pct = buf[i].val
        BY <4>1, DirectCandidates
      <4> QED BY <1>1, <4>1, <4>2
    <3>2. CASE Short(Current(G), free, total, n)
      <4>1. PICK c \in PU : c.pct < n
        BY <1>7, <3>2, PairCandidates DEF Short
      <4> QED BY <1>1, <4>1
    <3> QED BY <1>7, <3>1, <3>2 DEF HighUse, LowFree
  <2> HIDE DEF cs
  <2> QED BY <2>1, <1>5
<1> QED BY <1>5, <1>6, <1>7

\* What each rule needs, in the terms of its candidates.
LEMMA NeedsOfRules ==
    ASSUME NEW P
    PROVE  /\ Needs("resource", P) <=>
                 /\ Over(P, "cpu", 90)
                 /\ HighUse(P, "memory", "memory_free", "memory_total", 85)
                 /\ HighUse(P, "disk", "disk_free", "disk_total", 85)
           /\ Needs("service", P) <=> Some(P, "service_stopped") /\ Some(P, "event_error")
           /\ Needs("auth", P) <=> Some(P, "lockout") /\ Some(P, "membership_change")
           /\ Needs("backup", P) <=>
                 /\ Some(P, "job_failed")
                 /\ LowFree(P, "repo", "repo_free", "repo_total", 10)
           /\ Needs("vmware", P) <=>
                 /\ LowFree(P, "datastore", "datastore_free", "datastore_total", 15)
                 /\ Over(P, "snapshot", 7)
           /\ Needs("network", P) <=> Over(P, "interface_errors", 100) /\ Some(P, "port_change")
BY DEF Needs, Over, Under, Short, Some, HighUse, LowFree

\* A rule that chooses by arrival takes the first of a kind.
LEMMA FirstOfKind ==
    ASSUME RowsTyped, NEW G, G \subseteq DOMAIN buf, NEW k
    PROVE  /\ OfKind(G, k) # {} => Min(OfKind(G, k)) \in OfKind(G, k)
           /\ OfKind(G, k) \subseteq G
           /\ Some(Current(G), k) => OfKind(G, k) # {}
           /\ \A P, i : i \in OfKind(G, k) /\ i \in P => Some(P, k)
<1>1. OfKind(G, k) \subseteq G /\ OfKind(G, k) \subseteq Nat
  BY GroupFinite DEF OfKind
<1>2. OfKind(G, k) # {} => Min(OfKind(G, k)) \in OfKind(G, k)
  BY <1>1, MinIsIn
<1>3. Some(Current(G), k) => OfKind(G, k) # {}
  BY DEF Some, Current, OfKind
<1>4. \A P, i : i \in OfKind(G, k) /\ i \in P => Some(P, k)
  BY DEF Some, OfKind
<1> QED BY <1>1, <1>2, <1>3, <1>4

\* The worst of the direct measurements of a kind, or of those past n.
WorstOf(G, k, n, cs) ==
    /\ cs # {} => Highest(cs) \in cs /\ Highest(cs).obs \subseteq G /\ Highest(cs).obs # {}
    /\ cs # {} /\ Highest(cs).pct > n => Over(Highest(cs).obs, k, n)
    /\ Over(Current(G), k, n) => cs # {} /\ Highest(cs).pct > n

LEMMA WorstDirect ==
    ASSUME RowsTyped, NEW G, G \subseteq DOMAIN buf, NEW k, NEW n \in Nat,
           NEW cs \in SUBSET Direct(G, k), \A c \in Direct(G, k) : c.pct > n => c \in cs
    PROVE  WorstOf(G, k, n, cs)
<1>1. \A c \in cs : \E i \in G :
         buf[i].kind = k /\ c = [pct |-> buf[i].val, obs |-> {i}, pos |-> i]
  BY DirectCandidates
<1>2. \A i \in G : buf[i].val \in Nat /\ i \in Nat
  BY GroupFinite DEF RowsTyped
<1>3. \A c \in cs : c.pct \in Int /\ c.pos \in Int
  BY <1>1, <1>2
<1>4. IsFiniteSet(cs)
  <2> QED BY DirectCandidates, FS_Subset
<1>5. cs # {} => Highest(cs) \in cs /\ \A d \in cs : d.pct <= Highest(cs).pct
  BY <1>3, <1>4, WorstCandidate
<1>6. ASSUME cs # {}
      PROVE  /\ Highest(cs).obs \subseteq G /\ Highest(cs).obs # {}
             /\ Highest(cs).pct > n => Over(Highest(cs).obs, k, n)
  <2>1. PICK i \in G : /\ buf[i].kind = k
                       /\ Highest(cs) = [pct |-> buf[i].val, obs |-> {i}, pos |-> i]
    BY <1>1, <1>5, <1>6
  <2>2. Highest(cs).obs = {i} /\ Highest(cs).pct = buf[i].val
    BY <2>1
  <2> QED BY <2>1, <2>2 DEF Over
<1>7. ASSUME Over(Current(G), k, n) PROVE cs # {} /\ Highest(cs).pct > n
  <2>1. PICK i \in G : buf[i].kind = k /\ buf[i].val > n
    BY <1>7 DEF Over, Current
  <2>2. PICK c \in Direct(G, k) : c.pct = buf[i].val
    BY <2>1, DirectCandidates
  <2>3. c \in cs
    BY <2>1, <2>2
  <2>4. c.pct <= Highest(cs).pct /\ Highest(cs) \in cs
    BY <1>5, <2>3
  <2> QED BY <1>3, <2>1, <2>2, <2>3, <2>4
<1> QED BY <1>5, <1>6, <1>7 DEF WorstOf

\* A rule chooses within the group, enough to meet it, and whenever it is met.
RuleKept(type, G, M) ==
    /\ M \subseteq G
    /\ M # {} => Needs(type, M)
    /\ NoZeroSize(G) /\ Needs(type, Current(G)) => M # {}

LEMMA ResourceRule ==
    ASSUME RowsTyped, NEW G, G \subseteq DOMAIN buf
    PROVE  RuleKept("resource", G, ResourceMatch(G))
<1> DEFINE cpu == Direct(G, "cpu")
           mem == Usage(G, "memory", "memory_free", "memory_total")
           disk == Usage(G, "disk", "disk_free", "disk_total")
           some == cpu # {} /\ mem # {} /\ disk # {}
           high == Highest(cpu).pct > 90 /\ Highest(mem).pct > 85 /\ Highest(disk).pct > 85
           chosen == Highest(cpu).obs \cup Highest(mem).obs \cup Highest(disk).obs
<1>1. ResourceMatch(G) = IF some /\ high THEN chosen ELSE {}
  BY DEF ResourceMatch
<1>2. 90 \in Nat /\ 85 \in 0 .. 100
  OBVIOUS
<1>3. {"memory_free", "memory_total", "disk_free", "disk_total"} \subseteq SizeKinds
  BY DEF SizeKinds
<1>4. /\ cpu # {} => Highest(cpu).obs \subseteq G /\ Highest(cpu).obs # {}
      /\ cpu # {} /\ Highest(cpu).pct > 90 => Over(Highest(cpu).obs, "cpu", 90)
      /\ Over(Current(G), "cpu", 90) => cpu # {} /\ Highest(cpu).pct > 90
  <2>1. cpu \in SUBSET Direct(G, "cpu") /\ \A c \in Direct(G, "cpu") : c.pct > 90 => c \in cpu
    OBVIOUS
  <2> HIDE DEF cpu
  <2>2. WorstOf(G, "cpu", 90, cpu)
    BY <1>2, <2>1, WorstDirect
  <2> QED BY <2>2 DEF WorstOf
<1>5. /\ mem # {} => Highest(mem).obs \subseteq G
      /\ mem # {} /\ Highest(mem).pct > 85
         => HighUse(Highest(mem).obs, "memory", "memory_free", "memory_total", 85)
      /\ NoZeroSize(G) /\ HighUse(Current(G), "memory", "memory_free", "memory_total", 85)
         => mem # {} /\ Highest(mem).pct > 85
  BY <1>2, <1>3, UsageCandidates
<1>6. /\ disk # {} => Highest(disk).obs \subseteq G
      /\ disk # {} /\ Highest(disk).pct > 85
         => HighUse(Highest(disk).obs, "disk", "disk_free", "disk_total", 85)
      /\ NoZeroSize(G) /\ HighUse(Current(G), "disk", "disk_free", "disk_total", 85)
         => disk # {} /\ Highest(disk).pct > 85
  BY <1>2, <1>3, UsageCandidates
<1> HIDE DEF cpu, mem, disk
<1>7. ASSUME some, high PROVE chosen \subseteq G /\ chosen # {} /\ Needs("resource", chosen)
  <2>1. chosen \subseteq G /\ chosen # {}
    BY <1>4, <1>5, <1>6, <1>7
  <2>2. Over(chosen, "cpu", 90)
    BY <1>4, <1>7, MoreSaysMore
  <2>3. HighUse(chosen, "memory", "memory_free", "memory_total", 85)
    BY <1>5, <1>7, MoreSaysMore
  <2>4. HighUse(chosen, "disk", "disk_free", "disk_total", 85)
    BY <1>6, <1>7, MoreSaysMore
  <2> HIDE DEF chosen
  <2> QED BY <2>1, <2>2, <2>3, <2>4, NeedsOfRules
<1>8. NoZeroSize(G) /\ Needs("resource", Current(G)) => some /\ high
  BY <1>4, <1>5, <1>6, NeedsOfRules
<1> QED BY <1>1, <1>7, <1>8 DEF RuleKept

LEMMA ServiceRule ==
    ASSUME RowsTyped, NEW G, G \subseteq DOMAIN buf
    PROVE  RuleKept("service", G, ServiceMatch(G))
<1> DEFINE stopped == OfKind(G, "service_stopped")
           errors == OfKind(G, "event_error")
           same == {i \in Keyed(G, "event_error", buf[Min(stopped)].key) : buf[i].key # ""}
           event == Min(IF same # {} THEN same ELSE errors)
<1>1. ServiceMatch(G) = IF stopped # {} /\ errors # {} THEN {Min(stopped), event} ELSE {}
  BY DEF ServiceMatch
<1>2. same \subseteq errors /\ errors \subseteq Nat
  BY GroupFinite DEF Keyed, OfKind
<1>3. errors # {} => event \in errors
  <2>1. CASE same # {}
    <3> HIDE DEF same
    <3> QED BY <1>2, <2>1, MinIsIn
  <2>2. CASE same = {}
    BY <1>2, <2>2, MinIsIn
  <2> QED BY <2>1, <2>2
<1> HIDE DEF event, same
<1>4. /\ stopped # {} => Min(stopped) \in stopped
      /\ stopped \subseteq G /\ errors \subseteq G
      /\ \A P, i : i \in stopped /\ i \in P => Some(P, "service_stopped")
      /\ \A P, i : i \in errors /\ i \in P => Some(P, "event_error")
      /\ Some(Current(G), "service_stopped") => stopped # {}
      /\ Some(Current(G), "event_error") => errors # {}
  BY FirstOfKind
<1> HIDE DEF stopped, errors
<1>5. stopped # {} /\ errors # {} => Needs("service", {Min(stopped), event})
  BY <1>3, <1>4, NeedsOfRules
<1>6. Needs("service", Current(G)) => stopped # {} /\ errors # {}
  BY <1>4, NeedsOfRules
<1> QED BY <1>1, <1>3, <1>4, <1>5, <1>6 DEF RuleKept

LEMMA AuthRule ==
    ASSUME RowsTyped, NEW G, G \subseteq DOMAIN buf
    PROVE  RuleKept("auth", G, AuthMatch(G))
<1> DEFINE lockouts == OfKind(G, "lockout")
           changes == OfKind(G, "membership_change")
<1>1. AuthMatch(G) = IF lockouts # {} /\ changes # {} THEN {Min(lockouts), Min(changes)} ELSE {}
  BY DEF AuthMatch
<1>2. /\ lockouts # {} => Min(lockouts) \in lockouts
      /\ changes # {} => Min(changes) \in changes
      /\ lockouts \subseteq G /\ changes \subseteq G
      /\ \A P, i : i \in lockouts /\ i \in P => Some(P, "lockout")
      /\ \A P, i : i \in changes /\ i \in P => Some(P, "membership_change")
      /\ Some(Current(G), "lockout") => lockouts # {}
      /\ Some(Current(G), "membership_change") => changes # {}
  BY FirstOfKind
<1> HIDE DEF lockouts, changes
<1>3. lockouts # {} /\ changes # {} => Needs("auth", {Min(lockouts), Min(changes)})
  BY <1>2, NeedsOfRules
<1>4. Needs("auth", Current(G)) => lockouts # {} /\ changes # {}
  BY <1>2, NeedsOfRules
<1> QED BY <1>1, <1>2, <1>3, <1>4 DEF RuleKept

LEMMA BackupRule ==
    ASSUME RowsTyped, NEW G, G \subseteq DOMAIN buf
    PROVE  RuleKept("backup", G, BackupMatch(G))
<1> DEFINE failed == OfKind(G, "job_failed")
           low == FreePercent(G, "repo", "repo_free", "repo_total")
           some == failed # {} /\ low # {} /\ Lowest(low).pct < 10
           chosen == {Min(failed)} \cup Lowest(low).obs
<1>1. BackupMatch(G) = IF some THEN chosen ELSE {}
  BY DEF BackupMatch
<1>2. /\ failed # {} => Min(failed) \in failed
      /\ failed \subseteq G
      /\ \A P, i : i \in failed /\ i \in P => Some(P, "job_failed")
      /\ Some(Current(G), "job_failed") => failed # {}
  BY FirstOfKind
<1>3. {"repo_free", "repo_total"} \subseteq SizeKinds /\ 10 \in Nat
  BY DEF SizeKinds
<1>4. /\ low # {} => Lowest(low).obs \subseteq G
      /\ low # {} /\ Lowest(low).pct < 10
         => LowFree(Lowest(low).obs, "repo", "repo_free", "repo_total", 10)
      /\ NoZeroSize(G) /\ LowFree(Current(G), "repo", "repo_free", "repo_total", 10)
         => low # {} /\ Lowest(low).pct < 10
  BY <1>3, FreeCandidates
<1> HIDE DEF failed, low
<1>5. ASSUME some PROVE chosen \subseteq G /\ Needs("backup", chosen)
  <2>1. chosen \subseteq G
    BY <1>2, <1>4, <1>5
  <2>2. Some(chosen, "job_failed")
    BY <1>2, <1>5
  <2>3. LowFree(chosen, "repo", "repo_free", "repo_total", 10)
    BY <1>4, <1>5, MoreSaysMore
  <2> HIDE DEF chosen
  <2> QED BY <2>1, <2>2, <2>3, NeedsOfRules
<1>6. NoZeroSize(G) /\ Needs("backup", Current(G)) => some
  BY <1>2, <1>4, NeedsOfRules
<1> QED BY <1>1, <1>5, <1>6 DEF RuleKept

LEMMA VmwareRule ==
    ASSUME RowsTyped, NEW G, G \subseteq DOMAIN buf
    PROVE  RuleKept("vmware", G, VmwareMatch(G))
<1> DEFINE low == FreePercent(G, "datastore", "datastore_free", "datastore_total")
           snap == {i \in OfKind(G, "snapshot") : buf[i].val > 7}
           some == low # {} /\ snap # {} /\ Lowest(low).pct < 15
           chosen == Lowest(low).obs \cup {Min(snap)}
<1>1. VmwareMatch(G) = IF some THEN chosen ELSE {}
  BY DEF VmwareMatch
<1>2. snap \subseteq G /\ snap \subseteq Nat
  BY GroupFinite DEF OfKind
<1>3. /\ snap # {} => Min(snap) \in snap
      /\ \A P, i : i \in snap /\ i \in P => Over(P, "snapshot", 7)
      /\ Over(Current(G), "snapshot", 7) => snap # {}
  <2>1. snap # {} => Min(snap) \in snap
    <3> HIDE DEF snap
    <3> QED BY <1>2, MinIsIn
  <2>2. \A P, i : i \in snap /\ i \in P => Over(P, "snapshot", 7)
    BY DEF Over, OfKind
  <2>3. Over(Current(G), "snapshot", 7) => snap # {}
    BY DEF Over, OfKind, Current
  <2> QED BY <2>1, <2>2, <2>3
<1>4. {"datastore_free", "datastore_total"} \subseteq SizeKinds /\ 15 \in Nat
  BY DEF SizeKinds
<1>5. /\ low # {} => Lowest(low).obs \subseteq G
      /\ low # {} /\ Lowest(low).pct < 15
         => LowFree(Lowest(low).obs, "datastore", "datastore_free", "datastore_total", 15)
      /\ NoZeroSize(G) /\ LowFree(Current(G), "datastore", "datastore_free", "datastore_total", 15)
         => low # {} /\ Lowest(low).pct < 15
  BY <1>4, FreeCandidates
<1> HIDE DEF snap, low
<1>6. ASSUME some PROVE chosen \subseteq G /\ Needs("vmware", chosen)
  <2>1. chosen \subseteq G
    BY <1>2, <1>3, <1>5, <1>6
  <2>2. Over(chosen, "snapshot", 7)
    BY <1>3, <1>6
  <2>3. LowFree(chosen, "datastore", "datastore_free", "datastore_total", 15)
    BY <1>5, <1>6, MoreSaysMore
  <2> HIDE DEF chosen
  <2> QED BY <2>1, <2>2, <2>3, NeedsOfRules
<1>7. NoZeroSize(G) /\ Needs("vmware", Current(G)) => some
  BY <1>3, <1>5, NeedsOfRules
<1> QED BY <1>1, <1>6, <1>7 DEF RuleKept

LEMMA NetworkRule ==
    ASSUME RowsTyped, NEW G, G \subseteq DOMAIN buf
    PROVE  RuleKept("network", G, NetworkMatch(G))
<1> DEFINE high == {c \in Direct(G, "interface_errors") : c.pct > 100}
           changes == OfKind(G, "port_change")
           some == high # {} /\ changes # {}
           chosen == Highest(high).obs \cup {Min(changes)}
<1>1. NetworkMatch(G) = IF some THEN chosen ELSE {}
  BY DEF NetworkMatch
<1>2. /\ high # {} => Highest(high).obs \subseteq G
      /\ high # {} => Over(Highest(high).obs, "interface_errors", 100)
      /\ Over(Current(G), "interface_errors", 100) => high # {}
  <2>1. /\ high \in SUBSET Direct(G, "interface_errors")
        /\ \A c \in Direct(G, "interface_errors") : c.pct > 100 => c \in high
        /\ \A c \in high : c.pct > 100
        /\ 100 \in Nat
    OBVIOUS
  <2> HIDE DEF high
  <2>2. WorstOf(G, "interface_errors", 100, high)
    BY <2>1, WorstDirect
  <2> QED BY <2>1, <2>2 DEF WorstOf
<1>3. /\ changes # {} => Min(changes) \in changes
      /\ changes \subseteq G
      /\ \A P, i : i \in changes /\ i \in P => Some(P, "port_change")
      /\ Some(Current(G), "port_change") => changes # {}
  BY FirstOfKind
<1> HIDE DEF high, changes
<1>4. ASSUME some PROVE chosen \subseteq G /\ Needs("network", chosen)
  <2>1. chosen \subseteq G
    BY <1>2, <1>3, <1>4
  <2>2. Some(chosen, "port_change")
    BY <1>3, <1>4
  <2>3. Over(chosen, "interface_errors", 100)
    BY <1>2, <1>4, MoreSaysMore
  <2> HIDE DEF chosen
  <2> QED BY <2>1, <2>2, <2>3, NeedsOfRules
<1>5. Needs("network", Current(G)) => some
  BY <1>2, <1>3, NeedsOfRules
<1> QED BY <1>1, <1>4, <1>5 DEF RuleKept

LEMMA RulesKept ==
    ASSUME RowsTyped, NEW G, G \subseteq DOMAIN buf, NEW type \in RuleTypes
    PROVE  RuleKept(type, G, Match(type, G))
<1>1. CASE type = "resource"
  BY <1>1, ResourceRule DEF Match
<1>2. CASE type = "service"
  BY <1>2, ServiceRule DEF Match
<1>3. CASE type = "auth"
  BY <1>3, AuthRule DEF Match
<1>4. CASE type = "backup"
  BY <1>4, BackupRule DEF Match
<1>5. CASE type = "vmware"
  BY <1>5, VmwareRule DEF Match
<1>6. CASE type = "network"
  BY <1>6, NetworkRule DEF Match
<1> QED BY <1>1, <1>2, <1>3, <1>4, <1>5, <1>6 DEF RuleTypes

LEMMA BufferRows ==
    ASSUME RuleInv
    PROVE  RowsTyped
<1>1. Len(buf) \in Nat /\ DOMAIN buf = 1 .. Len(buf) /\ \A i \in DOMAIN buf : buf[i] \in scene
  BY ElementOfSeq, LenProperties DEF RuleInv
<1> QED BY <1>1, RuleAssumption DEF RuleInv, RowsTyped

LEMMA GroupsTogether ==
    ASSUME RuleInv, NEW type \in RuleTypes, NEW G \in Groups(type)
    PROVE  /\ G \subseteq DOMAIN buf
           /\ \A i, j \in G :
                /\ type \in {"auth", "vmware"} \/ OneTenantPerSource => buf[i].tenant = buf[j].tenant
                /\ type \notin {"auth", "vmware"} => buf[i].src = buf[j].src
<1>1. CASE type \in {"auth", "vmware"}
  BY <1>1 DEF Groups, ByTenant
<1>2. CASE type \notin {"auth", "vmware"}
  BY <1>2 DEF Groups, BySource, OneTenantPerSource
<1> QED BY <1>1, <1>2

\* What organize makes of a group.
LEMMA EvidenceOf ==
    ASSUME NEW e
    PROVE  e \in Organizations <=>
             \E type \in RuleTypes : \E G \in Groups(type) :
                /\ Match(type, G) # {}
                /\ WithinWindow(Match(type, G), WindowOf[type])
                /\ e = [type |-> type, obs |-> Match(type, G), q |-> Quality(type, Match(type, G))]
<1>1. \A type : e \in Evidence(type) <=>
         \E G \in Groups(type) :
            /\ Match(type, G) # {}
            /\ WithinWindow(Match(type, G), WindowOf[type])
            /\ e = [type |-> type, obs |-> Match(type, G), q |-> Quality(type, Match(type, G))]
  BY DEF Evidence
<1>2. e \in Organizations <=> \E type \in RuleTypes : e \in Evidence(type)
  BY DEF Organizations
<1> QED BY <1>1, <1>2

LEMMA RuleInvCorrect == ASSUME RuleInv PROVE RulesCorrect
<1>1. EvidenceSound
  <2> SUFFICES ASSUME NEW e \in Organizations
               PROVE  /\ Needs(e.type, e.obs)
                      /\ WithinWindow(e.obs, WindowOf[e.type])
                      /\ \A i, j \in e.obs :
                           /\ e.type \in {"auth", "vmware"} \/ OneTenantPerSource
                                => buf[i].tenant = buf[j].tenant
                           /\ e.type \notin {"auth", "vmware"} => buf[i].src = buf[j].src
                      /\ e.type = "resource" /\ (\E i \in e.obs : buf[i].q # 1) => e.q = 2
    BY DEF EvidenceSound
  <2>1. PICK type \in RuleTypes : \E G \in Groups(type) :
           /\ Match(type, G) # {}
           /\ WithinWindow(Match(type, G), WindowOf[type])
           /\ e = [type |-> type, obs |-> Match(type, G), q |-> Quality(type, Match(type, G))]
    BY EvidenceOf
  <2>2. PICK G \in Groups(type) :
           /\ Match(type, G) # {}
           /\ WithinWindow(Match(type, G), WindowOf[type])
           /\ e = [type |-> type, obs |-> Match(type, G), q |-> Quality(type, Match(type, G))]
    BY <2>1
  <2>3. /\ G \subseteq DOMAIN buf
        /\ \A i, j \in G :
             /\ type \in {"auth", "vmware"} \/ OneTenantPerSource => buf[i].tenant = buf[j].tenant
             /\ type \notin {"auth", "vmware"} => buf[i].src = buf[j].src
    BY GroupsTogether
  <2>4. Match(type, G) \subseteq G /\ Needs(type, Match(type, G))
    <3>1. RuleKept(type, G, Match(type, G))
      BY <2>3, BufferRows, RulesKept
    <3> QED BY <2>2, <3>1 DEF RuleKept
  <2>5. /\ e.type = type /\ e.obs = Match(type, G)
        /\ e.q = Quality(type, Match(type, G))
    BY <2>2
  <2>6. type = "resource" /\ (\E i \in Match(type, G) : buf[i].q # 1)
        => Quality(type, Match(type, G)) = 2
    BY DEF Quality
  <2> QED BY <2>2, <2>3, <2>4, <2>5, <2>6
<1>2. EvidenceComplete
  <2> SUFFICES ASSUME NEW type \in RuleTypes, NEW G \in Groups(type),
                      WindowOf[type] = MaxWindow \/ WithinWindow(G, WindowOf[type]),
                      NoZeroSize(G), Needs(type, Current(G))
               PROVE  \E e \in Organizations : e.type = type /\ e.obs \subseteq G
    BY DEF EvidenceComplete
  <2>1. G \subseteq DOMAIN buf
    BY GroupsTogether
  <2>2. Match(type, G) \subseteq G /\ Match(type, G) # {}
    <3>1. RuleKept(type, G, Match(type, G))
      BY <2>1, BufferRows, RulesKept
    <3> QED BY <3>1 DEF RuleKept
  <2>3. WithinWindow(Match(type, G), WindowOf[type])
    BY <2>1, <2>2 DEF RuleInv, WithinWindow
  <2> DEFINE e == [type |-> type, obs |-> Match(type, G), q |-> Quality(type, Match(type, G))]
  <2>4. e \in Organizations
    BY <2>2, <2>3, EvidenceOf
  <2>5. e.type = type /\ e.obs = Match(type, G)
    OBVIOUS
  <2> QED BY <2>2, <2>4, <2>5
<1> QED BY <1>1, <1>2 DEF RulesCorrect

\* Pruning keeps observations that were there, none too far from another.
LEMMA PrunedSpans ==
    ASSUME NEW S, \A o \in S : o.at \in Nat, NEW b \in Seq(S)
    PROVE  /\ Pruned(b) \in Seq(S)
           /\ \A i, j \in DOMAIN Pruned(b) : Pruned(b)[i].at <= Pruned(b)[j].at + MaxWindow
<1> DEFINE recent == {i \in DOMAIN b : \A j \in DOMAIN b : b[j].at <= b[i].at + MaxWindow}
           rank == [i \in recent |-> Cardinality({j \in recent : j <= i})]
           n == Cardinality(recent)
           place(m) == CHOOSE i \in recent : Cardinality({j \in recent : j <= i}) = m
<1>1. Len(b) \in Nat /\ DOMAIN b = 1 .. Len(b) /\ \A i \in DOMAIN b : b[i] \in S
  BY ElementOfSeq, LenProperties
<1>2. IsFiniteSet(recent) /\ recent \subseteq Nat /\ n \in Nat
  <2>1. recent \in SUBSET (1 .. Len(b)) /\ recent \subseteq Nat
    BY <1>1
  <2>2. IsFiniteSet(1 .. Len(b))
    BY <1>1, FS_Interval
  <2> HIDE DEF recent
  <2>3. IsFiniteSet(recent)
    BY <2>1, <2>2, FS_Subset
  <2> QED BY <2>1, <2>3, FS_CardinalityType
<1>3. \A i \in recent : b[i] \in S /\ \A j \in recent : b[i].at <= b[j].at + MaxWindow
  BY <1>1
<1>4. Pruned(b) = [m \in 1 .. n |-> b[place(m)]]
  BY DEF Pruned
<1> HIDE DEF recent
<1>5. \A i \in recent : /\ IsFiniteSet({j \in recent : j <= i})
                        /\ Cardinality({j \in recent : j <= i}) \in 1 .. n
  <2> TAKE i \in recent
  <2> DEFINE T == {j \in recent : j <= i}
  <2>1. T \in SUBSET recent /\ i \in T
    BY <1>2
  <2> HIDE DEF T
  <2>2. IsFiniteSet(T) /\ Cardinality(T) <= n /\ Cardinality(T) \in Nat /\ Cardinality(T) # 0
    BY <1>2, <2>1, FS_Subset, FS_CardinalityType, FS_EmptySet
  <2>3. IsFiniteSet(T) /\ Cardinality(T) \in 1 .. n
    BY <1>2, <2>2
  <2> QED BY <2>3 DEF T
<1>6. \A i, k \in recent : i < k => rank[i] # rank[k]
  <2> TAKE i, k \in recent
  <2> SUFFICES ASSUME i < k PROVE rank[i] # rank[k]
    OBVIOUS
  <2> DEFINE T == {j \in recent : j <= i}
             U == {j \in recent : j <= k}
  <2>1. T \in SUBSET U /\ k \in U /\ k \notin T
    <3>1. i \in Nat /\ k \in Nat /\ k <= k /\ ~(k <= i)
      BY <1>2
    <3>2. \A j \in recent : j <= i => j <= k
      BY <1>2, <3>1
    <3> QED BY <3>1, <3>2
  <2>2. IsFiniteSet(U)
    BY <1>5
  <2> HIDE DEF T, U
  <2>3. Cardinality(U) # Cardinality(T)
    BY <2>1, <2>2, FS_Subset
  <2> QED BY <2>3 DEF T, U
<1>7. rank \in Surjection(recent, 1 .. n)
  <2>1. rank \in [recent -> 1 .. n]
    BY <1>5
  <2>2. \A i, k \in recent : rank[i] = rank[k] => i = k
    BY <1>2, <1>6
  <2> HIDE DEF rank
  <2>3. rank \in Injection(recent, 1 .. n)
    BY <2>1, <2>2 DEF Injection, IsInjective
  <2>4. IsFiniteSet(1 .. n) /\ Cardinality(1 .. n) = n
    BY <1>2, FS_Interval
  <2> QED BY <2>3, <2>4, FS_Injection
<1>8. \A m \in 1 .. n : place(m) \in recent
  <2> TAKE m \in 1 .. n
  <2>1. PICK i \in recent : rank[i] = m
    BY <1>7 DEF Surjection
  <2>2. Cardinality({j \in recent : j <= i}) = m
    BY <2>1
  <2> QED BY <2>2
<1> HIDE DEF place, n
<1>9. Pruned(b) \in [1 .. n -> S]
  BY <1>3, <1>4, <1>8
<1>10. Pruned(b) \in Seq(S) /\ DOMAIN Pruned(b) = 1 .. n
  BY <1>2, <1>9
<1>11. \A i, j \in 1 .. n : Pruned(b)[i].at <= Pruned(b)[j].at + MaxWindow
  BY <1>3, <1>4, <1>8
<1> QED BY <1>10, <1>11

\* Evidence is found where there is some and nowhere else, for any windows and
\* any observations, in whatever order and at whatever distance they come.
THEOREM RulesFindEvidence == RuleSpec => []RulesCorrect
<1>1. RuleInit => RuleInv
  BY DEF RuleInit, RuleInv, WithinWindow
<1>2. RuleInv /\ [RuleNext]_ruleVars => RuleInv'
  <2> SUFFICES ASSUME RuleInv, [RuleNext]_ruleVars PROVE RuleInv'
    OBVIOUS
  <2>1. CASE \E o \in scene : Arrive(o)
    <3>1. PICK o \in scene : Arrive(o)
      BY <2>1
    <3>2. Append(buf, o) \in Seq(scene) /\ \A x \in scene : x.at \in Nat
      BY RuleAssumption DEF RuleInv
    <3>3. buf' = Pruned(Append(buf, o)) /\ scene' = scene
      BY <3>1 DEF Arrive
    <3> QED BY <3>2, <3>3, PrunedSpans DEF RuleInv, WithinWindow, MaxWindow
  <2>2. CASE CollectorRestarts
    BY <2>2 DEF CollectorRestarts, RuleInv, WithinWindow
  <2>3. CASE UNCHANGED ruleVars
    BY <2>3 DEF ruleVars, RuleInv, WithinWindow, MaxWindow
  <2> QED BY <2>1, <2>2, <2>3 DEF RuleNext
<1>3. RuleInv => RulesCorrect
  BY RuleInvCorrect
<1> QED BY <1>1, <1>2, <1>3, PTL DEF RuleSpec

=============================================================================
