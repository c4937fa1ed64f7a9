------------------------- MODULE LearningExecution -------------------------
(***************************************************************************)
(* The durable learning loop (H3).  Decision outcomes are appended as      *)
(* outcome revisions (phase 1), and every revision is then learned from in *)
(* a learning execution (phase 2) that appends its signals to the          *)
(* learning_memory ledger.                                                 *)
(*                                                                         *)
(* The state is the committed content of the tables outcome_revisions,     *)
(* decisions, learning_executions and learning_memory, the advisory locks  *)
(* PostgreSQL holds, and for each worker the call it is in: `pc' is the    *)
(* point it has reached and `tx' what its coroutine and its open           *)
(* transaction hold.  Nothing of an open transaction is in the tables:     *)
(* READ COMMITTED hides it from every other session.                       *)
(*                                                                         *)
(* A worker is one call of the store's interface: run_for_decision (mode   *)
(* "phase2": lock, claim, compute, persist, complete and commit in ONE     *)
(* transaction), begin_execution ("begin": lock and claim in a short       *)
(* transaction, complete or fail later) or reconcile_stale_execution       *)
(* ("reconcile").  The three share the advisory lock and the claim.        *)
(*                                                                         *)
(* Time is abstracted to the age of an execution's heartbeat: "fresh", or  *)
(* "expired" when it is older than STALE_THRESHOLD_SECONDS.                *)
(***************************************************************************)
EXTENDS Naturals

CONSTANTS
    Decision,    \* committed decisions, each a (tenant, id) pair
    Revision,    \* outcome revision ids (bounds the submissions of a model)
    Execution,   \* execution ids (bounds the executions of a model)
    Worker,      \* concurrent callers of the store
    Outcome,     \* values of actual_outcomes
    Artifact,    \* patterns, contexts and insights that can be learned about
    KindOf,      \* Artifact -> "pattern", "context" or "insight"
    Affected,    \* Decision -> the artifacts _trace_decision_to_artifacts finds
    LockKey,     \* Decision -> hashtext of "{tenant}:{decision}"
    Null,        \* SQL NULL / Python None
    OmittedBindIsNull
      \* What the statement _UPDATE_EXECUTION_STATUS does when a caller leaves
      \* some of its seven parameters out, as every caller does: TRUE, the
      \* parameter is NULL and COALESCE keeps the column; FALSE, it is refused
      \* (SQLAlchemy's text() makes every named parameter required).

Keys == {LockKey[d] : d \in Decision}

ASSUME ConstantsOK ==
    /\ Affected \in [Decision -> SUBSET Artifact]
    /\ DOMAIN LockKey = Decision
    /\ KindOf \in [Artifact -> {"pattern", "context", "insight"}]
    /\ Null \notin Decision \cup Revision \cup Execution \cup Worker \cup Outcome
    /\ OmittedBindIsNull \in BOOLEAN
    /\ Decision \cap Artifact = {}

VARIABLES
    revisions,   \* outcome_revisions: Revision -> row or NoRevision
    actual,      \* decisions.actual_outcomes (Null: outcome_status 'pending')
    exec,        \* learning_executions: Execution -> row, "absent" if none
    ledger,      \* learning_memory: the set of rows
    lock,        \* advisory lock key -> the worker holding it, or Null
    pc,          \* Worker -> control point of its call
    tx           \* Worker -> locals of its call and of its open transaction

tables == <<revisions, actual, exec, ledger>>
vars == <<revisions, actual, exec, ledger, lock, pc, tx>>

-----------------------------------------------------------------------------
(* Types and reads                                                         *)

Target == Decision \cup Artifact
OutcomeOrNull == Outcome \cup {Null}
Linked(t) == IF t \in Decision THEN {t} ELSE {d \in Decision : t \in Affected[d]}
Signal == UNION {[D -> OutcomeOrNull] : D \in SUBSET Decision}

NoRevision == [decision |-> Null, outcome |-> Null]
RevisionRow == [decision : Decision, outcome : Outcome] \cup {NoRevision}

Draft == [target : Target, signal : Signal]

Heartbeat == {"fresh", "expired"}
ACTIVE == {"running"}      \* no statement of the store inserts 'pending'
ExecRow == [status  : {"absent", "running", "completed", "failed", "stale"},
            rev     : Revision \cup {Null},
            attempt : Nat,
            parent  : Execution \cup {Null},
            beat    : Heartbeat,
            learned : SUBSET Draft]        \* signal_count is its cardinality
NoExec == [status |-> "absent", rev |-> Null, attempt |-> 0, parent |-> Null,
           beat |-> "expired", learned |-> {}]

LedgerRow == [target : Target, signal : Signal, execution : Execution]

ComputeSteps == {"consolidate", "pattern", "context", "insight"}
Phase2Open == ComputeSteps \cup {"commit"}    \* inside the phase 2 transaction
InTx == Phase2Open \cup {"claiming", "abandoned"}  \* holding the advisory lock
PC == InTx \cup {"idle", "locking", "working", "failing", "down"}

Tx == [mode   : {"phase2", "begin", "reconcile"},
       rev    : Revision \cup {Null},
       subject: Execution \cup {Null},  \* reconcile: the execution found stale
       seen   : Execution \cup {Null},  \* the active execution that was read
       beat   : Heartbeat,              \* the heartbeat of seen when it was read
       exec   : Execution \cup {Null},  \* the execution created by this call
       drafts : SUBSET Draft]           \* the signals computed so far
NoTx == [mode |-> "phase2", rev |-> Null, subject |-> Null, seen |-> Null,
         beat |-> "expired", exec |-> Null, drafts |-> {}]

DecisionOf(w) == revisions[tx[w].rev].decision
KeyOf(w) == LockKey[DecisionOf(w)]

ActiveFor(r) == {e \in Execution : exec[e].rev = r /\ exec[e].status \in ACTIVE}
IsStale(e) == exec[e].status = "running" /\ exec[e].beat = "expired"

\* Ids gen_random_uuid can still return.
FreshIds == {e \in Execution : exec[e] = NoExec /\ \A w \in Worker : tx[w].exec # e}

\* Rows an open transaction has updated: another UPDATE waits for its end.
RowLocked(e) == \E w \in Worker : pc[w] \in Phase2Open /\ tx[w].seen = e

\* Mutant: a retry starts its attempts again.
NewRowFirstAttempt(w, e) ==
    [status |-> "running", rev |-> tx[w].rev, attempt |-> 1,
     parent |-> tx[w].seen, beat |-> "fresh", learned |-> {}]

NewRow(w, e) ==
    LET s == tx[w].seen IN
    [status  |-> "running", rev |-> tx[w].rev,
     attempt |-> IF s = Null THEN 1 ELSE exec[s].attempt + 1,
     parent  |-> s, beat |-> "fresh", learned |-> {}]

-----------------------------------------------------------------------------
Init ==
    /\ revisions = [r \in Revision |-> NoRevision]
    /\ actual = [d \in Decision |-> Null]
    /\ exec = [e \in Execution |-> NoExec]
    /\ ledger = {}
    /\ lock = [k \in Keys |-> Null]
    /\ pc = [w \in Worker |-> "idle"]
    /\ tx = [w \in Worker |-> NoTx]

Goto(w, p) == pc' = [pc EXCEPT ![w] = p]
Return(w) == Goto(w, "idle") /\ tx' = [tx EXCEPT ![w] = NoTx]
Release(w) == lock' = [lock EXCEPT ![KeyOf(w)] = Null]

(***************************************************************************)
(* Phase 1.                                                                *)
(***************************************************************************)

\* submit_outcomes_with_revision, then the phase 2 call of the same request.
SubmitOutcomes(w, d, o) ==
    /\ pc[w] = "idle"
    /\ \E r \in Revision :
        /\ revisions[r] = NoRevision
        /\ revisions' = [revisions EXCEPT ![r] = [decision |-> d, outcome |-> o]]
        /\ tx' = [tx EXCEPT ![w] = [NoTx EXCEPT !.rev = r, !.mode = "phase2"]]
    /\ actual' = [actual EXCEPT ![d] = o]
    /\ Goto(w, "locking")
    /\ UNCHANGED <<exec, ledger, lock>>

\* create_outcome_revision: the revision alone, the decision is not touched.
CreateOutcomeRevision(w, d, o) ==
    /\ pc[w] = "idle"
    /\ \E r \in Revision :
        /\ revisions[r] = NoRevision
        /\ revisions' = [revisions EXCEPT ![r] = [decision |-> d, outcome |-> o]]
    /\ UNCHANGED <<actual, exec, ledger, lock, pc, tx>>

(***************************************************************************)
(* Entering one of the three locked calls for a committed revision.        *)
(***************************************************************************)

\* run_for_decision and begin_execution of a revision committed earlier, one
\* that find_orphaned_revisions returned for instance.
CallForRevision(w, r, mode) ==
    /\ pc[w] = "idle"
    /\ revisions[r] # NoRevision
    /\ tx' = [tx EXCEPT ![w] = [NoTx EXCEPT !.rev = r, !.mode = mode]]
    /\ Goto(w, "locking")
    /\ UNCHANGED <<revisions, actual, exec, ledger, lock>>

\* find_stale_executions returned e; the lock is taken in a later step.
CallReconcile(w, e) ==
    /\ pc[w] = "idle"
    /\ IsStale(e)
    /\ tx' = [tx EXCEPT ![w] = [NoTx EXCEPT !.rev = exec[e].rev,
                                            !.mode = "reconcile", !.subject = e]]
    /\ Goto(w, "locking")
    /\ UNCHANGED <<revisions, actual, exec, ledger, lock>>

\* Mutant: the read without pg_advisory_xact_lock.
BeginUnlocked(w) ==
    /\ pc[w] = "locking" /\ tx[w].mode # "reconcile"
    /\ lock' = [lock EXCEPT ![KeyOf(w)] = w]
    /\ \/ /\ ActiveFor(tx[w].rev) = {}
          /\ tx' = [tx EXCEPT ![w].seen = Null]
       \/ \E e \in ActiveFor(tx[w].rev) :
            tx' = [tx EXCEPT ![w] = [@ EXCEPT !.seen = e, !.beat = exec[e].beat]]
    /\ Goto(w, "claiming")
    /\ UNCHANGED tables

\* pg_advisory_xact_lock, then the read of the active execution.  What is read
\* is a snapshot: complete, fail and heartbeat take no advisory lock.
Begin(w) ==
    /\ pc[w] = "locking" /\ tx[w].mode # "reconcile"
    /\ lock[KeyOf(w)] = Null
    /\ lock' = [lock EXCEPT ![KeyOf(w)] = w]
    /\ \/ /\ ActiveFor(tx[w].rev) = {}
          /\ tx' = [tx EXCEPT ![w].seen = Null]
       \/ \E e \in ActiveFor(tx[w].rev) :
            tx' = [tx EXCEPT ![w] = [@ EXCEPT !.seen = e, !.beat = exec[e].beat]]
    /\ Goto(w, "claiming")
    /\ UNCHANGED tables

\* Mutant: reconciliation trusts the execution it was handed.
BeginReconcileUnchecked(w) ==
    /\ pc[w] = "locking" /\ tx[w].mode = "reconcile"
    /\ lock[KeyOf(w)] = Null
    /\ lock' = [lock EXCEPT ![KeyOf(w)] = w]
    /\ tx' = [tx EXCEPT ![w] = [@ EXCEPT !.seen = tx[w].subject, !.beat = "expired"]]
    /\ Goto(w, "claiming")
    /\ UNCHANGED tables

\* The same for reconcile_stale_execution: re-read the execution under the
\* lock; return when it is no longer stale or another one is active.
BeginReconcile(w) ==
    LET e == tx[w].subject IN
    /\ pc[w] = "locking" /\ tx[w].mode = "reconcile"
    /\ lock[KeyOf(w)] = Null
    /\ \/ /\ IsStale(e) /\ ActiveFor(tx[w].rev) \subseteq {e}
          /\ lock' = [lock EXCEPT ![KeyOf(w)] = w]
          /\ tx' = [tx EXCEPT ![w] = [@ EXCEPT !.seen = e, !.beat = "expired"]]
          /\ Goto(w, "claiming")
       \/ /\ ~(IsStale(e) /\ ActiveFor(tx[w].rev) \subseteq {e})
          /\ Return(w)
          /\ UNCHANGED lock
    /\ UNCHANGED tables

\* Mutant: the caller drops the unused session without the rollback.
SkipKeepsLock(w) ==
    /\ pc[w] = "claiming"
    /\ tx[w].seen # Null /\ tx[w].beat = "fresh"
    /\ Return(w)
    /\ UNCHANGED <<tables, lock>>

\* A live execution was found: rollback and report "skipped".
Skip(w) ==
    /\ pc[w] = "claiming"
    /\ tx[w].seen # Null /\ tx[w].beat = "fresh"
    /\ Release(w)
    /\ Return(w)
    /\ UNCHANGED tables

\* The claim can be made: nothing active was read, or a stale execution that
\* the status update can retire.
CanClaim(w) ==
    /\ pc[w] = "claiming"
    /\ tx[w].seen # Null => tx[w].beat = "expired" /\ OmittedBindIsNull

\* The stale execution is retired and the new one inserted ...
Claimed(w, e) ==
    [x \in Execution |->
        IF x = e THEN NewRow(w, e)
        ELSE IF x = tx[w].seen THEN [exec[x] EXCEPT !.status = "stale"]
        ELSE exec[x]]

\* ... and committed at once by begin_execution and reconcile_stale_execution;
\* the caller now works on the execution, without the lock.
ClaimAndCommit(w) ==
    /\ CanClaim(w) /\ tx[w].mode # "phase2"
    /\ \E e \in FreshIds :
        /\ exec' = Claimed(w, e)
        /\ tx' = [tx EXCEPT ![w].exec = e]
    /\ Release(w)
    /\ Goto(w, "working")
    /\ UNCHANGED <<revisions, actual, ledger>>

\* begin_phase2: both writes stay in the open transaction.
ClaimInSession(w) ==
    /\ CanClaim(w) /\ tx[w].mode = "phase2"
    /\ \E e \in FreshIds : tx' = [tx EXCEPT ![w].exec = e]
    /\ Goto(w, "consolidate")
    /\ UNCHANGED <<tables, lock>>

\* The claim raises in begin_execution or reconcile_stale_execution, whose
\* `async with' rolls back, or the statement failed in the server, which ends
\* the transaction there and frees its locks.
ClaimError(w) ==
    /\ pc[w] = "claiming"
    /\ Release(w)
    /\ Return(w)
    /\ UNCHANGED tables

\* The claim raises in the client, as the status update of a stale execution
\* with omitted parameters does before it is sent.  begin_phase2 entered its
\* session by hand and its caller calls it outside the try: nobody rolls back
\* or closes, and the transaction stays open with the advisory lock.
Phase2ClaimAbandoned(w) ==
    /\ pc[w] = "claiming" /\ tx[w].mode = "phase2"
    /\ Goto(w, "abandoned")
    /\ UNCHANGED <<tables, lock, tx>>

\* The garbage collector may find the session and drop its connection; nothing
\* says when.
SessionCollected(w) ==
    /\ pc[w] = "abandoned"
    /\ Release(w)
    /\ Return(w)
    /\ UNCHANGED tables

(***************************************************************************)
(* Phase 2 in one transaction: run_h3_learning_loop_for_decision.          *)
(***************************************************************************)
DraftFor(t) == [target |-> t, signal |-> [d \in Linked(t) |-> actual[d]]]

StageAfter(p) ==
    CASE p = "consolidate" -> "pattern"
      [] p = "pattern"     -> "context"
      [] p = "context"     -> "insight"
      [] p = "insight"     -> "commit"

\* Mutant: every signal is committed as it is computed, in a transaction of
\* its own (what the legacy loop was written to do).
ComputeAutocommit(w) ==
    LET d == DecisionOf(w)
        targets == IF pc[w] = "consolidate" THEN {d}
                   ELSE {a \in Affected[d] : KindOf[a] = pc[w]}
    IN
    /\ pc[w] \in ComputeSteps
    /\ tx' = [tx EXCEPT ![w].drafts = @ \cup {DraftFor(t) : t \in targets}]
    /\ ledger' = ledger \cup {[target |-> t, signal |-> DraftFor(t).signal,
                               execution |-> tx[w].exec] : t \in targets}
    /\ Goto(w, StageAfter(pc[w]))
    /\ UNCHANGED <<revisions, actual, exec, lock>>

\* build_consolidation of the decision as it is NOW, which a later submission
\* may have changed; then one read per kind of artifact, each with a session
\* of its own.  Only artifacts the decision's trace reaches are kept.
Compute(w) ==
    LET d == DecisionOf(w)
        targets == IF pc[w] = "consolidate" THEN {d}
                   ELSE {a \in Affected[d] : KindOf[a] = pc[w]}
    IN
    /\ pc[w] \in ComputeSteps
    /\ tx' = [tx EXCEPT ![w].drafts = @ \cup {DraftFor(t) : t \in targets}]
    /\ Goto(w, StageAfter(pc[w]))
    /\ UNCHANGED <<tables, lock>>

\* Mutant: the unique index without signal_hash.
AppendedOncePerTarget(w) ==
    {[target |-> x.target, signal |-> x.signal, execution |-> tx[w].exec] :
        x \in {y \in tx[w].drafts : \A row \in ledger : row.target # y.target}}

\* ON CONFLICT (target, signal_hash) DO NOTHING.
Appended(w) ==
    {[target |-> x.target, signal |-> x.signal, execution |-> tx[w].exec] :
        x \in {y \in tx[w].drafts :
                 \A row \in ledger : row.target # y.target \/ row.signal # y.signal}}

\* Persist every signal, complete the execution, COMMIT.
Commit(w) ==
    /\ pc[w] = "commit"
    /\ exec' = [Claimed(w, tx[w].exec) EXCEPT
                  ![tx[w].exec] = [@ EXCEPT !.status = "completed",
                                            !.learned = tx[w].drafts]]
    /\ ledger' = ledger \cup Appended(w)
    /\ Release(w)
    /\ UNCHANGED <<revisions, actual>>

PersistAndCommit(w) == Commit(w) /\ Return(w)

\* The server commits and the connection is lost before the answer: commit()
\* raises and the failure handler runs, for an execution that is committed.
CommitUnacknowledged(w) ==
    /\ Commit(w)
    /\ Goto(w, "failing")
    /\ UNCHANGED tx

\* Any exception of phase 2: rollback; the failure is recorded afterwards.
Phase2Error(w) ==
    /\ pc[w] \in Phase2Open
    /\ Release(w)
    /\ Goto(w, "failing")
    /\ UNCHANGED <<tables, tx>>

(***************************************************************************)
(* Status updates by id, without the advisory lock.                        *)
(***************************************************************************)

\* UPDATE learning_executions SET status WHERE id = e: no row, no effect.
SetStatus(e, s) ==
    exec' = IF exec[e] = NoExec THEN exec ELSE [exec EXCEPT ![e].status = s]

\* complete_execution / fail_execution by the caller that began the execution.
FinishExecution(w, s) ==
    /\ pc[w] = "working" /\ OmittedBindIsNull
    /\ ~RowLocked(tx[w].exec)
    /\ SetStatus(tx[w].exec, s)
    /\ Return(w)
    /\ UNCHANGED <<revisions, actual, ledger, lock>>

\* The status update raises, or the database is unreachable.
FinishError(w) ==
    /\ pc[w] = "working"
    /\ Return(w)
    /\ UNCHANGED <<tables, lock>>

\* fail_execution after the rollback of phase 2, and the re-raise.
FailAfterRollback(w) ==
    /\ pc[w] = "failing"
    /\ IF OmittedBindIsNull THEN SetStatus(tx[w].exec, "failed") ELSE UNCHANGED exec
    /\ Return(w)
    /\ UNCHANGED <<revisions, actual, ledger, lock>>

\* update_heartbeat ... WHERE status = 'running'.
UpdateHeartbeat(w) ==
    LET e == tx[w].exec IN
    /\ pc[w] = "working"
    /\ IsStale(e) /\ ~RowLocked(e)
    /\ exec' = [exec EXCEPT ![e].beat = "fresh"]
    /\ UNCHANGED <<revisions, actual, ledger, lock, pc, tx>>

-----------------------------------------------------------------------------
(* The environment: time passes, processes die.                            *)

HeartbeatExpires(e) ==
    /\ exec[e].status = "running" /\ exec[e].beat = "fresh"
    /\ exec' = [exec EXCEPT ![e].beat = "expired"]
    /\ UNCHANGED <<revisions, actual, ledger, lock, pc, tx>>

\* The server aborts the transaction of a lost connection.
Crash(w) ==
    /\ pc[w] \notin {"idle", "down"}
    /\ lock' = IF pc[w] \in InTx THEN [lock EXCEPT ![KeyOf(w)] = Null] ELSE lock
    /\ tx' = [tx EXCEPT ![w] = NoTx]
    /\ Goto(w, "down")
    /\ UNCHANGED tables

Restart(w) ==
    /\ pc[w] = "down"
    /\ Goto(w, "idle")
    /\ UNCHANGED <<tables, lock, tx>>

Progress(w) ==
    \/ Skip(w) \/ ClaimAndCommit(w) \/ ClaimInSession(w)
    \/ ClaimError(w) \/ Phase2ClaimAbandoned(w)
    \/ Compute(w) \/ PersistAndCommit(w) \/ FailAfterRollback(w)

Next ==
    \/ \E w \in Worker :
        \/ \E d \in Decision, o \in Outcome :
             SubmitOutcomes(w, d, o) \/ CreateOutcomeRevision(w, d, o)
        \/ \E r \in Revision, m \in {"phase2", "begin"} : CallForRevision(w, r, m)
        \/ \E e \in Execution : CallReconcile(w, e)
        \/ Begin(w) \/ BeginReconcile(w)
        \/ Progress(w)
        \/ Phase2Error(w) \/ CommitUnacknowledged(w)
        \/ \E s \in {"completed", "failed"} : FinishExecution(w, s)
        \/ FinishError(w) \/ UpdateHeartbeat(w)
        \/ SessionCollected(w) \/ Crash(w) \/ Restart(w)
    \/ \E e \in Execution : HeartbeatExpires(e)

Spec == Init /\ [][Next]_vars

\* A coroutine that is runnable runs (WF), and the lock manager queues its
\* waiters, so one for which the lock is free again and again gets it (SF).
\* No client is obliged to call anything, and nothing is assumed of failures
\* or of the garbage collector.
Fairness ==
    \A w \in Worker : WF_vars(Progress(w)) /\ SF_vars(Begin(w) \/ BeginReconcile(w))

FairSpec == Spec /\ Fairness

-----------------------------------------------------------------------------
(* Properties                                                              *)

TypeOK ==
    /\ revisions \in [Revision -> RevisionRow]
    /\ actual \in [Decision -> OutcomeOrNull]
    /\ exec \in [Execution -> ExecRow]
    /\ ledger \subseteq LedgerRow
    /\ lock \in [Keys -> Worker \cup {Null}]
    /\ pc \in [Worker -> PC]
    /\ tx \in [Worker -> Tx]

\* No two executions of an outcome revision are running at once.  The lock
\* protocol of begin_phase2, begin_execution and reconcile_stale_execution
\* gives this by itself: the model has no uq_learning_execution_active.
AtMostOneActive ==
    \A e1, e2 \in Execution :
        /\ exec[e1].status \in ACTIVE
        /\ exec[e2].status \in ACTIVE
        /\ exec[e1].rev = exec[e2].rev
        => e1 = e2

\* Phase 2 is all or nothing: a signal is in the ledger only if the execution
\* that learned it committed as completed, whatever failed or crashed on the
\* way.  (When the status update accepts omitted parameters, the handler of a
\* lost COMMIT answer can turn that execution into a failed one.)
LedgerOnlyFromCompleted ==
    \A row \in ledger :
        \/ exec[row.execution].status = "completed"
        \/ OmittedBindIsNull /\ exec[row.execution].status = "failed"

\* signal_count never counts a signal the ledger does not hold: what ON
\* CONFLICT skipped is there, under the execution that came first.
CountedSignalsAreStored ==
    \A e \in Execution : \A x \in exec[e].learned :
        \E row \in ledger : row.target = x.target /\ row.signal = x.signal

\* A retry continues the execution it replaces: same revision, next attempt,
\* and the parent has been retired.
AttemptChain ==
    \A e \in Execution :
        exec[e].parent # Null =>
            LET p == exec[e].parent IN
            /\ exec[p].rev = exec[e].rev
            /\ exec[e].attempt = exec[p].attempt + 1
            /\ exec[p].status \notin ACTIVE

\* An execution found stale is retried once, however many callers find it.
RetriedOnce ==
    \A e1, e2 \in Execution :
        exec[e1].parent # Null /\ exec[e1].parent = exec[e2].parent => e1 = e2

\* Retries are linear: reconcile_stale_execution links each attempt to the one
\* before it, and no execution is retried twice, whoever reconciles.
RetriesLinear == AttemptChain /\ RetriedOnce

\* A session nobody will end holds the lock w waits for.
LockAbandoned(w) ==
    \E v \in Worker : pc[v] = "abandoned" /\ KeyOf(v) = KeyOf(w)

\* A caller waiting for the advisory lock gets it or returns, unless a failed
\* claim of begin_phase2 left it to a session that is still open: the skip, the
\* commit, the rollback of phase 2, the short transactions and a dead process
\* all give the lock back, and once such a session is collected the waiter is
\* owed the lock again.
LockNotStarved ==
    \A w \in Worker : pc[w] = "locking" ~> pc[w] # "locking" \/ LockAbandoned(w)

\* begin_execution: None "if the execution is already completed (idempotent
\* skip)".  Refuted: _FIND_ACTIVE_EXECUTION never returns a completed one.
CompletedRevisionNotRerun ==
    \A e1, e2 \in Execution :
        /\ exec[e1].status = "completed"
        /\ exec[e2].status = "completed"
        /\ exec[e1].rev = exec[e2].rev
        => e1 = e2

=============================================================================
