-------------------------- MODULE ContextActivation ------------------------
(***************************************************************************)
(* The context activators and the table contexts, for one tenant.          *)
(*                                                                         *)
(* In every cycle an activator reads the tenant's evidence once and then,  *)
(* purpose by purpose, runs the coherence competition and saves the winner *)
(* in a transaction: take the advisory lock of (tenant, purpose),          *)
(* deactivate the active context of the purpose unless it is this one, and *)
(* INSERT ... ON CONFLICT (id) DO NOTHING.                                 *)
(*                                                                         *)
(* Evidence is append-only and a context id is a hash over the ids of all  *)
(* the evidence the competition saw, so the context of a purpose is named  *)
(* by how much evidence there was: version v of the evidence table.  The   *)
(* scores decide which mental model wins, not whether a context is active. *)
(***************************************************************************)
EXTENDS Naturals, FiniteSets

CONSTANTS
    Purpose,
    Activator,
    MaxEvidence,   \* bound on the versions of the evidence table
    MaxFaults,     \* bound on failed transactions and crashes
    NoOne          \* no activator holds the lock

ASSUME ActivationConstants ==
    /\ MaxEvidence \in Nat
    /\ MaxFaults \in Nat
    /\ NoOne \notin Activator

Version == 1..MaxEvidence

VARIABLES
    evidence,    \* current version of the evidence table, 0 when it is empty
    contexts,    \* Purpose -> Version -> "none" (no row), "active", "inactive"
    lock,        \* Purpose -> holder of pg_advisory_xact_lock
    act,         \* Activator -> [pc, seen, todo, cur, retired]
    faults

vars == <<evidence, contexts, lock, act, faults>>

ActivatorState ==
    [pc      : {"idle", "ready", "locked", "deactivated", "down", "off"},
     seen    : 0..MaxEvidence,        \* the evidence this cycle works on
     todo    : SUBSET Purpose,        \* purposes left in this cycle
     cur     : SUBSET Purpose,        \* the purpose being saved
     retired : SUBSET Version]        \* rows DEACTIVATE_CONTEXT updated, uncommitted
Fresh(pc) == [pc |-> pc, seen |-> 0, todo |-> {}, cur |-> {}, retired |-> {}]

Init ==
    /\ evidence = 0
    /\ contexts = [p \in Purpose |-> [v \in Version |-> "none"]]
    /\ lock = [p \in Purpose |-> NoOne]
    /\ act \in [Activator -> {Fresh("idle"), Fresh("off")}]   \* "off": not deployed
    /\ \E a \in Activator : act[a] = Fresh("idle")
    /\ faults = 0

\* The collector stores evidence.
Organize ==
    /\ evidence < MaxEvidence
    /\ evidence' = evidence + 1
    /\ UNCHANGED <<contexts, lock, act, faults>>

\* list_tenant_ids and list_evidence: a tenant without evidence is not visited.
ReadEvidence(a) ==
    /\ act[a].pc = "idle" /\ evidence > 0
    /\ act' = [act EXCEPT ![a] =
                [pc |-> "ready", seen |-> evidence, todo |-> Purpose,
                 cur |-> {}, retired |-> {}]]
    /\ UNCHANGED <<evidence, contexts, lock, faults>>

Enter(a, p) ==
    act' = [act EXCEPT ![a] = [act[a] EXCEPT !.pc = "locked", !.cur = {p}, !.todo = act[a].todo \ {p}]]

\* Mutant: the transaction starts without the advisory lock.
AcquireUnlocked(a, p) ==
    /\ act[a].pc = "ready" /\ p \in act[a].todo
    /\ Enter(a, p)
    /\ UNCHANGED <<evidence, contexts, lock, faults>>

\* save_context for the next purpose starts and gets the lock.
Acquire(a, p) ==
    /\ act[a].pc = "ready" /\ p \in act[a].todo
    /\ lock[p] = NoOne
    /\ lock' = [lock EXCEPT ![p] = a]
    /\ Enter(a, p)
    /\ UNCHANGED <<evidence, contexts, faults>>

Active(p) == {v \in Version : contexts[p][v] = "active"}

\* Mutant: two commits, as before the activation became one transaction.
DeactivateCommitted(a) ==
    /\ act[a].pc = "locked"
    /\ \E p \in act[a].cur :
        contexts' = [contexts EXCEPT ![p] =
                      [v \in Version |-> IF v \in Active(p) \ {act[a].seen}
                                         THEN "inactive" ELSE contexts[p][v]]]
    /\ act' = [act EXCEPT ![a] = [act[a] EXCEPT !.pc = "deactivated"]]
    /\ UNCHANGED <<evidence, lock, faults>>

\* Mutant: without "AND id <> :exclude_id".
DeactivateAll(a) ==
    /\ act[a].pc = "locked"
    /\ \E p \in act[a].cur :
        act' = [act EXCEPT ![a] = [act[a] EXCEPT !.pc = "deactivated", !.retired = Active(p)]]
    /\ UNCHANGED <<evidence, contexts, lock, faults>>

\* DEACTIVATE_CONTEXT: every active row of the purpose but the one to be saved.
Deactivate(a) ==
    /\ act[a].pc = "locked"
    /\ \E p \in act[a].cur :
        act' = [act EXCEPT ![a] = [act[a] EXCEPT !.pc = "deactivated",
                                                 !.retired = Active(p) \ {act[a].seen}]]
    /\ UNCHANGED <<evidence, contexts, lock, faults>>

\* The rows of the purpose once the transaction is committed: INSERT does
\* nothing when a row with this id exists, active or not.
Saved(a, p) ==
    [v \in Version |-> IF v \in act[a].retired THEN "inactive"
                       ELSE IF v = act[a].seen /\ contexts[p][v] = "none" THEN "active"
                       ELSE contexts[p][v]]

\* The transaction ends; the lock goes with it.
Leave(a) ==
    /\ lock' = [p \in Purpose |-> IF p \in act[a].cur THEN NoOne ELSE lock[p]]
    /\ act' = [act EXCEPT ![a] = [act[a] EXCEPT !.pc = "ready", !.cur = {}, !.retired = {}]]

InsertAndCommit(a) ==
    /\ act[a].pc = "deactivated"
    /\ \E p \in act[a].cur : contexts' = [contexts EXCEPT ![p] = Saved(a, p)]
    /\ Leave(a)
    /\ UNCHANGED <<evidence, faults>>

\* A statement raises and the transaction is rolled back, or the COMMIT took
\* effect and its answer is lost; the error is counted, the cycle goes on.
SaveError(a) ==
    /\ act[a].pc \in {"locked", "deactivated"} /\ faults < MaxFaults
    /\ \/ UNCHANGED contexts
       \/ /\ act[a].pc = "deactivated"
          /\ \E p \in act[a].cur : contexts' = [contexts EXCEPT ![p] = Saved(a, p)]
    /\ Leave(a)
    /\ faults' = faults + 1
    /\ UNCHANGED evidence

\* All purposes done: sleep until the next cycle.
EndCycle(a) ==
    /\ act[a].pc = "ready" /\ act[a].todo = {}
    /\ act' = [act EXCEPT ![a] = Fresh("idle")]
    /\ UNCHANGED <<evidence, contexts, lock, faults>>

\* The process dies or is shut down; the server aborts its transaction.
Crash(a) ==
    /\ act[a].pc \notin {"down", "off"} /\ faults < MaxFaults
    /\ lock' = [p \in Purpose |-> IF p \in act[a].cur THEN NoOne ELSE lock[p]]
    /\ act' = [act EXCEPT ![a] = Fresh("down")]
    /\ faults' = faults + 1
    /\ UNCHANGED <<evidence, contexts>>

Restart(a) ==
    /\ act[a].pc = "down"
    /\ act' = [act EXCEPT ![a] = Fresh("idle")]
    /\ UNCHANGED <<evidence, contexts, lock, faults>>

Cycle(a) ==
    \/ ReadEvidence(a) \/ EndCycle(a)
    \/ \E p \in Purpose : Acquire(a, p)
    \/ Deactivate(a) \/ InsertAndCommit(a)

Next ==
    \/ Organize
    \/ \E a \in Activator : Cycle(a) \/ SaveError(a) \/ Crash(a) \/ Restart(a)

Spec == Init /\ [][Next]_vars

\* Activation cycles run for ever and a dead activator is started again.
FairSpec == Spec /\ \A a \in Activator : WF_vars(Cycle(a) \/ Restart(a))

-----------------------------------------------------------------------------
(* Properties                                                              *)

TypeOK ==
    /\ evidence \in 0..MaxEvidence
    /\ contexts \in [Purpose -> [Version -> {"none", "active", "inactive"}]]
    /\ lock \in [Purpose -> Activator \cup {NoOne}]
    /\ act \in [Activator -> ActivatorState]
    /\ faults \in Nat

\* "No 2-active state even under concurrency": the lock alone keeps a purpose
\* to one active context, without the help of idx_contexts_unique_active.
AtMostOneActive ==
    \A p \in Purpose : \A v, w \in Active(p) : v = w

\* "Two racing requests can never both INSERT an active context and trip
\* idx_contexts_unique_active": what a transaction did not retire and would
\* find active at its INSERT is at most the row it is about to save.
IndexNeverTripped ==
    \A a \in Activator : act[a].pc = "deactivated" =>
        \A p \in act[a].cur : Active(p) \subseteq act[a].retired \cup {act[a].seen}

\* A single activator is deployed.
Single == \E a \in Activator : \A b \in Activator : act[b].pc # "off" <=> b = a

\* Comment of save_context: the transaction prevents "0-active" states: once a
\* purpose has a context, one of them is active.  Refuted when two activators
\* run, because a save that inserts nothing still deactivates ...
ActiveRemains ==
    \A p \in Purpose : (\E v \in Version : contexts[p][v] # "none") => Active(p) # {}

\* ... and true of a single activator, through every failure and crash: its
\* saves are never based on less evidence than an earlier one.
NeverZeroActive == Single => ActiveRemains

\* Once evidence stops arriving the active context of every purpose is, and
\* stays, the one of all the evidence (again for a single activator).
EventuallyCurrent ==
    Single => <>[](evidence > 0 => \A p \in Purpose : Active(p) = {evidence})
============================================================================
