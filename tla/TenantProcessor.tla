-------------------------- MODULE TenantProcessor --------------------------
(***************************************************************************)
(* BoundedTenantProcessor.process_all, called again and again by one       *)
(* cycle: batches of tasks under a semaphore that outlives the call.       *)
(* asyncio.gather raises the first failure and leaves the other tasks of   *)
(* the batch running; the caller may call again while they are.            *)
(***************************************************************************)
EXTENDS Naturals, FiniteSets

CONSTANTS MaxConcurrent,  \* MAX_CONCURRENT_TENANTS
          TenantBatch,    \* MAX_BATCH_SIZE
          TenantCount,    \* the tenants are 1 .. TenantCount
          MaxProcCalls    \* bound on the calls with tasks alive at a time

ASSUME ProcAssumption ==
    {MaxConcurrent, TenantBatch, TenantCount, MaxProcCalls} \subseteq Nat \ {0}

VARIABLES procCall,   \* the current or last call of process_all, 0 before the first
          procState,  \* "idle" between calls, "batch" while gather waits
          procStart,  \* tenants of earlier batches of this call
          task        \* [call, tenant] -> "none", "queued", "running", "done" or "failed"

procVars == <<procCall, procState, procStart, task>>

ProcTenants == 1 .. TenantCount
ProcTasks == (1 .. MaxProcCalls) \X ProcTenants

ProcInit ==
    /\ procCall = 0
    /\ procState = "idle"
    /\ procStart = 0
    /\ task = [t \in ProcTasks |-> "none"]

InState(s) == {t \in ProcTasks : task[t] = s}

Batch == {t \in ProcTasks : /\ t[1] = procCall
                            /\ t[2] > procStart /\ t[2] <= procStart + TenantBatch}

Alive(call) == {i \in ProcTenants : task[<<call, i>>] \in {"queued", "running"}}

Results(call) == {i \in ProcTenants : task[<<call, i>>] = "done"}

\* gather is given the tasks of one batch; they are created, none has run.
StartBatch(call, start) ==
    /\ procStart' = start
    /\ task' = [t \in ProcTasks |->
                  IF t[1] = call /\ t[2] > start /\ t[2] <= start + TenantBatch
                  THEN "queued"
                  ELSE IF t[1] = call /\ start = 0 THEN "none" ELSE task[t]]

\* Mutant: the next cycle does not wait for the call of the last one.
ProcessAllAgain ==
    /\ \E call \in 1 .. MaxProcCalls :
         /\ Alive(call) = {}
         /\ procCall' = call
         /\ StartBatch(call, 0)
    /\ procState' = "batch"

\* A call takes the number of one that has no task left.
ProcessAll ==
    /\ procState = "idle"
    /\ \E call \in 1 .. MaxProcCalls :
         /\ Alive(call) = {}
         /\ procCall' = call
         /\ StartBatch(call, 0)
    /\ procState' = "batch"

\* Mutant: the task does not wait for the semaphore.
EnterUnbounded(t) ==
    /\ task[t] = "queued"
    /\ task' = [task EXCEPT ![t] = "running"]
    /\ UNCHANGED <<procCall, procState, procStart>>

\* async with self._semaphore: tasks left over from earlier calls hold it too.
EnterTask(t) ==
    /\ task[t] = "queued"
    /\ Cardinality(InState("running")) < MaxConcurrent
    /\ task' = [task EXCEPT ![t] = "running"]
    /\ UNCHANGED <<procCall, procState, procStart>>

\* process_fn returns or raises; either way the semaphore is released.
LeaveTask(t) ==
    /\ task[t] = "running"
    /\ \E end \in {"done", "failed"} : task' = [task EXCEPT ![t] = end]
    /\ UNCHANGED <<procCall, procState, procStart>>

\* Mutant: the index of the batch is not moved on.
GatherReturnsSame ==
    /\ procState = "batch"
    /\ \A t \in Batch : task[t] = "done"
    /\ procStart + TenantBatch < TenantCount
    /\ StartBatch(procCall, procStart)
    /\ UNCHANGED <<procCall, procState>>

\* The batch is done: the next one, as long as there are tenants left.
GatherReturns ==
    /\ procState = "batch"
    /\ \A t \in Batch : task[t] = "done"
    /\ procStart + TenantBatch < TenantCount
    /\ StartBatch(procCall, procStart + TenantBatch)
    /\ UNCHANGED <<procCall, procState>>

\* Mutant: the last batch is not awaited.
ProcessAllReturnsEarly ==
    /\ procState = "batch"
    /\ procStart + TenantBatch >= TenantCount
    /\ procState' = "idle"
    /\ UNCHANGED <<procCall, procStart, task>>

ProcessAllReturns ==
    /\ procState = "batch"
    /\ \A t \in Batch : task[t] = "done"
    /\ procStart + TenantBatch >= TenantCount
    /\ procState' = "idle"
    /\ UNCHANGED <<procCall, procStart, task>>

\* The first failure leaves process_all: no later batch, and nobody waits for
\* the rest of this one.
ProcessAllRaises ==
    /\ procState = "batch"
    /\ \E t \in Batch : task[t] = "failed"
    /\ procState' = "idle"
    /\ UNCHANGED <<procCall, procStart, task>>

ProcLoop == ProcessAll \/ GatherReturns \/ ProcessAllReturns \/ ProcessAllRaises

ProcNext == ProcLoop \/ \E t \in ProcTasks : EnterTask(t) \/ LeaveTask(t)

ProcSpec == ProcInit /\ [][ProcNext]_procVars

\* Nothing blocks the event loop for ever: while a step is possible, one is
\* taken.
ProcFairness == WF_procVars(ProcNext)

-----------------------------------------------------------------------------
(* Properties                                                               *)

\* The bound of the semaphore holds over all calls, the tasks of a call that
\* raised and is long over included.
ConcurrencyBounded == Cardinality(InState("running")) <= MaxConcurrent

Failed(call) == \E i \in ProcTenants : task[<<call, i>>] = "failed"

\* A call that returned without raising has a result of every tenant.
ResultsComplete ==
    procCall > 0 /\ procState = "idle" => Results(procCall) = ProcTenants \/ Failed(procCall)

Doing(i) == {call \in 1 .. MaxProcCalls : i \in Alive(call)}

\* One tenant is in the hands of two calls at once only after a failure: the
\* tasks gather abandoned are the one way to overlap.
OverlapOnlyAfterFailure ==
    \A i \in ProcTenants : Cardinality(Doing(i)) > 1 => \E call \in Doing(i) : Failed(call)

\* What process_all promises although a failure leaves tasks behind.
ProcessorSound == ConcurrencyBounded /\ ResultsComplete /\ OverlapOnlyAfterFailure

\* Every call ends, though it may wait for the tasks an earlier one left.
ProcessAllEnds == []<>(procState = "idle")

=============================================================================
