----------------------- MODULE LearningExecutionProofs -----------------------
(***************************************************************************)
(* The safety invariants of LearningExecution hold for every number of     *)
(* decisions, revisions, executions and workers, with colliding advisory   *)
(* lock keys, and whatever the status update does with the parameters its  *)
(* callers leave out.                                                      *)
(***************************************************************************)
EXTENDS LearningExecution, TLAPS

(***************************************************************************)
(* The inductive invariant.  AtMostOneActive is not inductive: what makes  *)
(* a claim safe is that the claiming worker still holds the lock of its    *)
(* decision (Locks), so that nobody else made an execution of its revision *)
(* active since it looked (Seen).                                          *)
(***************************************************************************)

\* A call that has begun is about a committed revision.
CallOK(w) ==
    pc[w] \notin {"idle", "down"} =>
        tx[w].rev \in Revision /\ revisions[tx[w].rev] # NoRevision

\* An open transaction holds the lock of its decision.
LockOK(w) == pc[w] \in InTx => lock[KeyOf(w)] = w

\* What reconciliation was handed is a row of its revision.
SubjectOK(w) ==
    pc[w] = "locking" /\ tx[w].mode = "reconcile" =>
        /\ tx[w].subject \in Execution
        /\ exec[tx[w].subject].status # "absent"
        /\ exec[tx[w].subject].rev = tx[w].rev

\* Nothing but the execution a claim saw is active for its revision, and that
\* one has neither signals nor a successor.
SeenOK(w) ==
    pc[w] \in InTx =>
        /\ \A e \in Execution :
             exec[e].rev = tx[w].rev /\ exec[e].status \in ACTIVE => e = tx[w].seen
        /\ tx[w].seen # Null =>
             /\ exec[tx[w].seen].status # "absent"
             /\ exec[tx[w].seen].rev = tx[w].rev
             /\ \A row \in ledger : row.execution # tx[w].seen
             /\ \A e \in Execution : exec[e].parent # tx[w].seen

\* The execution a call created: not yet visible while phase 2 is open,
\* committed and without signals while its caller works on it.
OwnedOK(w) ==
    /\ pc[w] \in {"idle", "down", "locking", "claiming", "abandoned"} => tx[w].exec = Null
    /\ pc[w] \in Phase2Open => tx[w].exec \in Execution /\ exec[tx[w].exec] = NoExec
    /\ pc[w] = "working" =>
         /\ tx[w].exec \in Execution
         /\ exec[tx[w].exec].status # "absent"
         /\ \A row \in ledger : row.execution # tx[w].exec
    /\ pc[w] = "failing" => tx[w].exec \in Execution

WorkerInv(w) == CallOK(w) /\ LockOK(w) /\ SubjectOK(w) /\ SeenOK(w) /\ OwnedOK(w)

\* gen_random_uuid returns an id once.
Distinct ==
    \A w1, w2 \in Worker :
        tx[w1].exec # Null /\ tx[w1].exec = tx[w2].exec => w1 = w2

\* A row of learning_executions belongs to a committed revision.
Rows ==
    \A e \in Execution :
        /\ exec[e].status = "absent" => exec[e] = NoExec
        /\ exec[e].status # "absent" =>
             exec[e].rev \in Revision /\ revisions[exec[e].rev] # NoRevision

\* parent_execution_id refers to a row.
Parents ==
    \A e \in Execution :
        exec[e].parent # Null => exec[exec[e].parent].status # "absent"

TableInv == Rows /\ Parents /\ AtMostOneActive /\ AttemptChain /\ RetriedOnce

SignalInv == LedgerOnlyFromCompleted /\ CountedSignalsAreStored

IInv ==
    /\ TypeOK
    /\ \A w \in Worker : WorkerInv(w)
    /\ Distinct
    /\ TableInv
    /\ SignalInv

USE DEF ACTIVE, Heartbeat

-----------------------------------------------------------------------------
(* Types                                                                   *)

\* A claim writes well-formed rows.
LEMMA ClaimedType ==
    ASSUME TypeOK, NEW w \in Worker, NEW e \in Execution
    PROVE  Claimed(w, e) \in [Execution -> ExecRow]
<1>1. tx[w] \in Tx
  BY DEF TypeOK
<1>2. NewRow(w, e) \in ExecRow
  BY <1>1, ConstantsOK DEF TypeOK, NewRow, ExecRow, Tx
<1>3. \A x \in Execution : [exec[x] EXCEPT !.status = "stale"] \in ExecRow
  BY DEF TypeOK, ExecRow
<1> QED
  BY <1>2, <1>3 DEF Claimed, TypeOK

\* A computed signal is well formed.
LEMMA DraftType ==
    ASSUME TypeOK, NEW t \in Target
    PROVE  DraftFor(t) \in Draft
<1>1. Linked(t) \in SUBSET Decision
  BY DEF Linked
<1>2. [d \in Linked(t) |-> actual[d]] \in [Linked(t) -> OutcomeOrNull]
  BY <1>1 DEF TypeOK
<1> QED
  BY <1>1, <1>2 DEF DraftFor, Draft, Signal

\* So are the ledger rows made of them.
LEMMA AppendedType ==
    ASSUME TypeOK, NEW w \in Worker, tx[w].exec \in Execution
    PROVE  Appended(w) \subseteq LedgerRow
<1>1. tx[w].drafts \subseteq Draft
  BY DEF TypeOK, Tx
<1> QED
  BY <1>1 DEF Appended, Draft, LedgerRow

\* So is a call's record after it has read or created an execution.
LEMMA TxFields ==
    ASSUME NEW t \in Tx, NEW e \in Execution \cup {Null}, NEW b \in Heartbeat
    PROVE  /\ [t EXCEPT !.seen = e, !.beat = b] \in Tx
           /\ [t EXCEPT !.exec = e] \in Tx
           /\ t.subject \in Execution \cup {Null}
BY DEF Tx

\* Every action of the store and of its environment keeps the types.
LEMMA TypeStep ==
    ASSUME TypeOK, \A w \in Worker : CallOK(w) /\ OwnedOK(w), [Next]_vars
    PROVE  TypeOK'
<1> USE DEF TypeOK, Goto, Return, Release, PC, InTx, Phase2Open, ComputeSteps
<1> USE ConstantsOK
<1>tx. NoTx \in Tx
  BY DEF NoTx, Tx
<1>1. ASSUME NEW w \in Worker, NEW d \in Decision, NEW o \in Outcome,
             SubmitOutcomes(w, d, o) \/ CreateOutcomeRevision(w, d, o)
      PROVE  TypeOK'
  <2>1. PICK r \in Revision :
          /\ revisions' = [revisions EXCEPT ![r] = [decision |-> d, outcome |-> o]]
          /\ \/ tx' = [tx EXCEPT ![w] = [NoTx EXCEPT !.rev = r, !.mode = "phase2"]]
             \/ tx' = tx
    BY <1>1 DEF SubmitOutcomes, CreateOutcomeRevision
  <2>2. revisions' \in [Revision -> RevisionRow]
    BY <2>1 DEF RevisionRow
  <2>3. tx' \in [Worker -> Tx]
    <3>1. [NoTx EXCEPT !.rev = r, !.mode = "phase2"] \in Tx
      BY DEF NoTx, Tx
    <3> QED
      BY <2>1, <3>1
  <2>4. actual' \in [Decision -> OutcomeOrNull]
    BY <1>1 DEF SubmitOutcomes, CreateOutcomeRevision, OutcomeOrNull
  <2> QED
    BY <1>1, <2>2, <2>3, <2>4 DEF SubmitOutcomes, CreateOutcomeRevision
<1>2. ASSUME NEW w \in Worker, NEW r \in Revision, NEW m \in {"phase2", "begin"},
             CallForRevision(w, r, m)
      PROVE  TypeOK'
  BY <1>2 DEF CallForRevision, NoTx, Tx
<1>3. ASSUME NEW w \in Worker, NEW e \in Execution, CallReconcile(w, e)
      PROVE  TypeOK'
  BY <1>3 DEF CallReconcile, NoTx, Tx, ExecRow
<1>4. ASSUME NEW w \in Worker, Begin(w) PROVE TypeOK'
  <2>1. lock' \in [Keys -> Worker \cup {Null}]
    BY <1>4 DEF Begin
  <2>2. tx' \in [Worker -> Tx]
    <3>0. tx[w] \in Tx
      OBVIOUS
    <3>1. CASE tx' = [tx EXCEPT ![w].seen = Null]
      <4>1. [tx[w] EXCEPT !.seen = Null] \in Tx
        BY <3>0 DEF Tx
      <4> QED
        BY <3>1, <4>1
    <3>2. ASSUME NEW e \in Execution,
                 tx' = [tx EXCEPT ![w] = [@ EXCEPT !.seen = e, !.beat = exec[e].beat]]
          PROVE  tx' \in [Worker -> Tx]
      <4>1. exec[e].beat \in Heartbeat
        BY DEF ExecRow
      <4>2. [tx[w] EXCEPT !.seen = e, !.beat = exec[e].beat] \in Tx
        BY <3>0, <4>1, TxFields
      <4> QED
        BY <3>2, <4>2
    <3> QED
      BY <1>4, <3>1, <3>2 DEF Begin, ActiveFor
  <2> QED
    BY <1>4, <2>1, <2>2 DEF Begin, tables
<1>5. ASSUME NEW w \in Worker, BeginReconcile(w) PROVE TypeOK'
  <2>1. lock' \in [Keys -> Worker \cup {Null}]
    BY <1>5 DEF BeginReconcile
  <2>2. tx' \in [Worker -> Tx]
    <3>1. tx[w] \in Tx /\ "expired" \in Heartbeat
      OBVIOUS
    <3>2. tx[w].subject \in Execution \cup {Null}
      BY <3>1, TxFields
    <3>3. [tx[w] EXCEPT !.seen = tx[w].subject, !.beat = "expired"] \in Tx
      BY ONLY <3>1, <3>2, TxFields
    <3> QED
      BY <1>5, <1>tx, <3>3 DEF BeginReconcile
  <2> QED
    BY <1>5, <2>1, <2>2 DEF BeginReconcile, tables
<1>6. ASSUME NEW w \in Worker, Skip(w) \/ ClaimError(w) \/ SessionCollected(w)
      PROVE  TypeOK'
  BY <1>6, <1>tx DEF Skip, ClaimError, SessionCollected, tables
<1>6a. ASSUME NEW w \in Worker, Phase2ClaimAbandoned(w) PROVE TypeOK'
  BY <1>6a DEF Phase2ClaimAbandoned, tables
<1>7. ASSUME NEW w \in Worker, ClaimAndCommit(w) PROVE TypeOK'
  <2>1. PICK e \in Execution :
          /\ exec' = Claimed(w, e)
          /\ tx' = [tx EXCEPT ![w].exec = e]
    BY <1>7 DEF ClaimAndCommit, FreshIds
  <2>2. exec' \in [Execution -> ExecRow]
    BY <2>1, ClaimedType
  <2>3. tx' \in [Worker -> Tx]
    <3>1. [tx[w] EXCEPT !.exec = e] \in Tx
      BY TxFields
    <3> QED
      BY <2>1, <3>1
  <2> QED
    BY <1>7, <2>2, <2>3 DEF ClaimAndCommit
<1>8. ASSUME NEW w \in Worker, ClaimInSession(w) PROVE TypeOK'
  <2>1. tx' \in [Worker -> Tx]
    <3>1. \A e \in Execution : [tx[w] EXCEPT !.exec = e] \in Tx
      BY TxFields
    <3> QED
      BY <1>8, <3>1 DEF ClaimInSession, FreshIds
  <2> QED
    BY <1>8, <2>1 DEF ClaimInSession, tables
<1>9. ASSUME NEW w \in Worker, Compute(w) PROVE TypeOK'
  <2>1. DecisionOf(w) \in Decision
    BY <1>9 DEF Compute, CallOK, DecisionOf, RevisionRow
  <2>2. PICK T \in SUBSET Target :
          tx' = [tx EXCEPT ![w].drafts = @ \cup {DraftFor(t) : t \in T}]
    <3> DEFINE T == IF pc[w] = "consolidate" THEN {DecisionOf(w)}
                    ELSE {a \in Affected[DecisionOf(w)] : KindOf[a] = pc[w]}
    <3>1. T \in SUBSET Target
      BY <2>1 DEF Target
    <3>2. tx' = [tx EXCEPT ![w].drafts = @ \cup {DraftFor(t) : t \in T}]
      BY <1>9 DEF Compute
    <3> QED
      BY <3>1, <3>2
  <2>3. {DraftFor(t) : t \in T} \subseteq Draft
    BY DraftType
  <2>4. tx' \in [Worker -> Tx]
    <3>1. [tx[w] EXCEPT !.drafts = @ \cup {DraftFor(t) : t \in T}] \in Tx
      BY <2>3 DEF Tx
    <3> QED
      BY <2>2, <3>1
  <2>5. StageAfter(pc[w]) \in PC
    BY <1>9 DEF Compute, StageAfter
  <2> QED
    BY <1>9, <2>4, <2>5 DEF Compute, tables
<1>10. ASSUME NEW w \in Worker, PersistAndCommit(w) \/ CommitUnacknowledged(w)
       PROVE  TypeOK'
  <2>0. Commit(w)
    BY <1>10 DEF PersistAndCommit, CommitUnacknowledged
  <2>1. tx[w].exec \in Execution /\ tx[w].drafts \subseteq Draft
    BY <2>0 DEF Commit, OwnedOK, Tx
  <2> DEFINE C == Claimed(w, tx[w].exec)
  <2>2. C \in [Execution -> ExecRow]
    BY <2>1, ClaimedType
  <2> HIDE DEF C
  <2>3. exec' = [C EXCEPT ![tx[w].exec] = [@ EXCEPT !.status = "completed",
                                                    !.learned = tx[w].drafts]]
    BY <2>0 DEF Commit, C
  <2>4. exec' \in [Execution -> ExecRow]
    <3>1. [C[tx[w].exec] EXCEPT !.status = "completed", !.learned = tx[w].drafts] \in ExecRow
      <4>1. C[tx[w].exec] \in ExecRow
        BY <2>1, <2>2
      <4> QED
        BY <2>1, <4>1 DEF ExecRow
    <3> QED
      BY <2>2, <2>3, <3>1
  <2>5. ledger' \subseteq LedgerRow
    BY <2>0, <2>1, AppendedType DEF Commit
  <2>6. tx' \in [Worker -> Tx] /\ pc' \in [Worker -> PC]
    BY <1>10, <1>tx DEF PersistAndCommit, CommitUnacknowledged
  <2> QED
    BY <2>0, <2>4, <2>5, <2>6 DEF Commit
<1>11. ASSUME NEW w \in Worker, Phase2Error(w) PROVE TypeOK'
  BY <1>11 DEF Phase2Error, tables
<1>12. ASSUME NEW w \in Worker, NEW s \in {"completed", "failed"},
              FinishExecution(w, s)
       PROVE  TypeOK'
  <2>1. tx[w].exec \in Execution
    BY <1>12 DEF FinishExecution, OwnedOK
  <2>2. [exec[tx[w].exec] EXCEPT !.status = s] \in ExecRow
    BY <2>1 DEF ExecRow
  <2>3. exec' \in [Execution -> ExecRow]
    BY <1>12, <2>1, <2>2 DEF FinishExecution, SetStatus
  <2> QED
    BY <1>12, <1>tx, <2>3 DEF FinishExecution
<1>13. ASSUME NEW w \in Worker, FinishError(w) PROVE TypeOK'
  BY <1>13, <1>tx DEF FinishError, tables
<1>14. ASSUME NEW w \in Worker, FailAfterRollback(w) PROVE TypeOK'
  BY <1>14, <1>tx DEF FailAfterRollback, SetStatus, ExecRow
<1>15. ASSUME NEW w \in Worker, UpdateHeartbeat(w) PROVE TypeOK'
  <2>1. tx[w].exec \in Execution
    BY <1>15 DEF UpdateHeartbeat, OwnedOK
  <2>2. [exec[tx[w].exec] EXCEPT !.beat = "fresh"] \in ExecRow
    BY <2>1 DEF ExecRow
  <2> QED
    BY <1>15, <2>1, <2>2 DEF UpdateHeartbeat
<1>16. ASSUME NEW w \in Worker, Crash(w) PROVE TypeOK'
  BY <1>16, <1>tx DEF Crash, tables
<1>17. ASSUME NEW w \in Worker, Restart(w) PROVE TypeOK'
  BY <1>17 DEF Restart, tables
<1>18. ASSUME NEW e \in Execution, HeartbeatExpires(e) PROVE TypeOK'
  BY <1>18 DEF HeartbeatExpires, ExecRow
<1>19. CASE UNCHANGED vars
  BY <1>19 DEF vars
<1> QED
  BY <1>1, <1>2, <1>3, <1>4, <1>5, <1>6, <1>6a, <1>7, <1>8, <1>9, <1>10, <1>11, <1>12,
     <1>13, <1>14, <1>15, <1>16, <1>17, <1>18, <1>19
  DEF Next, Progress

-----------------------------------------------------------------------------
(***************************************************************************)
(* What every step of Next does to the tables, seen from the workers that  *)
(* do not take it: rows keep their identity, at most one execution x is    *)
(* created, by a worker w that holds the lock of its decision, and ledger  *)
(* rows are only added for an execution nobody else knows.                 *)
(***************************************************************************)
Kept(x) ==
    /\ exec'[x].rev = exec[x].rev
    /\ exec'[x].attempt = exec[x].attempt
    /\ exec'[x].parent = exec[x].parent
    /\ exec'[x].status = "absent" => exec[x].status = "absent"
    /\ exec[x].status = "absent" => exec'[x] = exec[x]
    /\ exec'[x].status \in ACTIVE => exec[x].status \in ACTIVE

Created(w, x) ==
    /\ w \in Worker /\ pc[w] \in InTx
    /\ exec[x] = NoExec
    /\ exec'[x].status # "absent"
    /\ exec'[x].rev = tx[w].rev
    /\ exec'[x].parent = tx[w].seen
    /\ tx[w].seen # Null =>
         /\ exec'[x].attempt = exec[tx[w].seen].attempt + 1
         /\ exec'[tx[w].seen].status \notin ACTIVE
    /\ \A v \in Worker : v # w => tx[v].exec # x

TableStep(w, x) ==
    /\ \A r \in Revision : revisions[r] # NoRevision => revisions'[r] = revisions[r]
    /\ \A y \in Execution : Kept(y) \/ (y = x /\ Created(w, x))
    /\ \A row \in ledger' : row \in ledger \/ exec[row.execution] = NoExec

Bystander(w, v) ==
    /\ pc'[v] = pc[v] /\ tx'[v] = tx[v]
    /\ \A k \in Keys : lock[k] = v => lock'[k] = v

\* The status of an id that has no row.
LEMMA AbsentStatus == NoExec.status = "absent"
BY DEF NoExec

\* A call that has begun knows its decision and the key of its lock.
LEMMA KeyType ==
    ASSUME TypeOK, NEW v \in Worker, CallOK(v), pc[v] \notin {"idle", "down"}
    PROVE  DecisionOf(v) \in Decision /\ KeyOf(v) \in Keys
BY DEF TypeOK, CallOK, DecisionOf, KeyOf, Keys, RevisionRow

\* A worker that does not move keeps its invariant: an execution created for
\* its revision would need the lock it holds.
LEMMA BystanderKeeps ==
    ASSUME IInv, NEW w, NEW x, TableStep(w, x),
           NEW v \in Worker, v # w, Bystander(w, v)
    PROVE  WorkerInv(v)'
<1> USE DEF IInv, WorkerInv, Bystander
<1> USE ConstantsOK
<1>1. CallOK(v)'
  BY DEF CallOK, TableStep
<1>2. LockOK(v)'
  <2> SUFFICES ASSUME pc[v] \in InTx PROVE lock'[KeyOf(v)'] = v
    BY DEF LockOK
  <2>1. KeyOf(v)' = KeyOf(v) /\ KeyOf(v) \in Keys
    BY KeyType DEF KeyOf, DecisionOf, CallOK, TableStep, InTx, Phase2Open, ComputeSteps
  <2> QED
    BY <2>1 DEF LockOK
<1>3. SubjectOK(v)'
  <2>1. ASSUME NEW e \in Execution, exec[e].status # "absent" PROVE Kept(e)
    BY <2>1, AbsentStatus DEF TableStep, Created
  <2>2. SubjectOK(v)
    OBVIOUS
  <2>3. ASSUME tx[v].subject \in Execution, exec[tx[v].subject].status # "absent"
        PROVE  /\ exec'[tx[v].subject].status # "absent"
               /\ exec'[tx[v].subject].rev = exec[tx[v].subject].rev
    BY <2>1, <2>3 DEF Kept
  <2> QED
    BY <2>2, <2>3 DEF SubjectOK
<1>4. SeenOK(v)'
  <2> SUFFICES ASSUME pc[v] \in InTx PROVE SeenOK(v)'
    BY DEF SeenOK
  <2>0. /\ tx[v].rev \in Revision /\ lock[KeyOf(v)] = v
        /\ tx[v].seen \in Execution \cup {Null}
    BY DEF CallOK, LockOK, InTx, Phase2Open, ComputeSteps, TypeOK, Tx
  <2>1. ASSUME Created(w, x) PROVE tx[w].rev # tx[v].rev
    BY <2>1, <2>0 DEF Created, LockOK, KeyOf, DecisionOf
  <2>2. ASSUME NEW e \in Execution, exec'[e].rev = tx[v].rev, exec'[e].status \in ACTIVE
        PROVE  e = tx[v].seen
    BY <2>1, <2>2 DEF SeenOK, TableStep, Kept, Created
  <2>3. ASSUME tx[v].seen # Null
        PROVE  /\ exec'[tx[v].seen].status # "absent"
               /\ exec'[tx[v].seen].rev = tx[v].rev
               /\ \A row \in ledger' : row.execution # tx[v].seen
    <3>1. tx[v].seen \in Execution /\ exec[tx[v].seen].status # "absent"
      BY <2>0, <2>3 DEF SeenOK
    <3>2. Kept(tx[v].seen)
      BY <3>1 DEF TableStep, Created, NoExec
    <3> QED
      BY <2>3, <3>1, <3>2 DEF SeenOK, TableStep, Kept, NoExec
  <2>4. ASSUME tx[v].seen # Null, NEW e \in Execution
        PROVE  exec'[e].parent # tx[v].seen
    <3>1. CASE Kept(e)
      BY <2>4, <3>1 DEF SeenOK, Kept
    <3>2. CASE Created(w, x) /\ e = x
      <4>1. tx[w].seen # tx[v].seen
        <5> SUFFICES ASSUME tx[w].seen = tx[v].seen PROVE FALSE
          OBVIOUS
        <5> QED
          BY <2>1, <2>4, <3>2 DEF Created, SeenOK
      <4> QED
        BY <3>2, <4>1 DEF Created
    <3> QED
      BY <3>1, <3>2 DEF TableStep
  <2> QED
    BY <2>2, <2>3, <2>4 DEF SeenOK
<1>5. OwnedOK(v)'
  <2>1. ASSUME tx[v].exec \in Execution PROVE Kept(tx[v].exec)
    BY <2>1 DEF TableStep, Created
  <2>2. ASSUME pc[v] \in Phase2Open PROVE exec'[tx[v].exec] = NoExec
    BY <2>1, <2>2, AbsentStatus DEF OwnedOK, Kept
  <2>3. ASSUME pc[v] = "working"
        PROVE  /\ exec'[tx[v].exec].status # "absent"
               /\ \A row \in ledger' : row.execution # tx[v].exec
    BY <2>1, <2>3 DEF OwnedOK, Kept, TableStep, NoExec
  <2> QED
    BY <2>2, <2>3 DEF OwnedOK
<1> QED
  BY <1>1, <1>2, <1>3, <1>4, <1>5

\* The identity part of the table invariant follows from the shape of the step:
\* a created execution replaces the only active one of its revision.
LEMMA TableKeeps ==
    ASSUME IInv, NEW w, NEW x, TableStep(w, x), TypeOK'
    PROVE  TableInv'
<1> USE DEF IInv, TableInv
<1> USE ConstantsOK, AbsentStatus
<1>0. ASSUME Created(w, x)
      PROVE  WorkerInv(w)
  BY <1>0 DEF Created
<1>1. Rows'
  <2> SUFFICES ASSUME NEW e \in Execution
               PROVE  /\ exec'[e].status = "absent" => exec'[e] = NoExec
                      /\ exec'[e].status # "absent" =>
                           exec'[e].rev \in Revision /\ revisions'[exec'[e].rev] # NoRevision
    BY DEF Rows
  <2>1. CASE Kept(e)
    BY <2>1 DEF Kept, Rows, TableStep
  <2>2. CASE e = x /\ Created(w, x)
    BY <2>2, <1>0 DEF Created, WorkerInv, CallOK, TableStep, InTx, Phase2Open, ComputeSteps
  <2> QED
    BY <2>1, <2>2 DEF TableStep
<1>2. Parents' /\ AttemptChain'
  <2> SUFFICES ASSUME NEW e \in Execution, exec'[e].parent # Null
               PROVE  /\ exec'[exec'[e].parent].status # "absent"
                      /\ exec'[exec'[e].parent].rev = exec'[e].rev
                      /\ exec'[e].attempt = exec'[exec'[e].parent].attempt + 1
                      /\ exec'[exec'[e].parent].status \notin ACTIVE
    BY DEF Parents, AttemptChain
  <2> DEFINE p == exec'[e].parent
  <2>0. p \in Execution
    BY DEF TypeOK, ExecRow
  <2>1. CASE Kept(e)
    <3>1. /\ exec[p].status # "absent" /\ exec[p].rev = exec[e].rev
          /\ exec[e].attempt = exec[p].attempt + 1 /\ exec[p].status \notin ACTIVE
      BY <2>1 DEF Kept, Parents, AttemptChain
    <3>2. Kept(p)
      BY <2>0, <3>1 DEF TableStep, Created
    <3> QED
      BY <2>1, <3>1, <3>2 DEF Kept
  <2>2. CASE e = x /\ Created(w, x)
    <3>1. p = tx[w].seen /\ exec[p].status # "absent" /\ exec[p].rev = tx[w].rev
      BY <2>2, <1>0 DEF Created, WorkerInv, SeenOK
    <3>2. Kept(p)
      BY <2>0, <3>1 DEF TableStep, Created
    <3> QED
      BY <2>2, <3>1, <3>2 DEF Kept, Created
  <2> QED
    BY <2>1, <2>2 DEF TableStep
<1>3. AtMostOneActive'
  <2> SUFFICES ASSUME NEW e1 \in Execution, NEW e2 \in Execution,
                      exec'[e1].status \in ACTIVE, exec'[e2].status \in ACTIVE,
                      exec'[e1].rev = exec'[e2].rev, e1 # e2
               PROVE  FALSE
    BY DEF AtMostOneActive
  <2>1. CASE Kept(e1) /\ Kept(e2)
    BY <2>1 DEF Kept, AtMostOneActive
  <2>2. ASSUME NEW a \in {e1, e2}, NEW b \in {e1, e2}, a # b,
               a = x, Created(w, x), Kept(b)
        PROVE  FALSE
    <3>1. b = tx[w].seen
      BY <2>2, <1>0 DEF Created, Kept, WorkerInv, SeenOK
    <3> QED
      BY <2>2, <3>1 DEF Created
  <2> QED
    BY <2>1, <2>2 DEF TableStep
<1>4. RetriedOnce'
  <2> SUFFICES ASSUME NEW e1 \in Execution, NEW e2 \in Execution,
                      exec'[e1].parent # Null, exec'[e1].parent = exec'[e2].parent,
                      e1 # e2
               PROVE  FALSE
    BY DEF RetriedOnce
  <2>1. CASE Kept(e1) /\ Kept(e2)
    BY <2>1 DEF Kept, RetriedOnce
  <2>2. ASSUME NEW a \in {e1, e2}, NEW b \in {e1, e2}, a # b,
               a = x, Created(w, x), Kept(b)
        PROVE  FALSE
    BY <2>2, <1>0 DEF Created, Kept, WorkerInv, SeenOK
  <2> QED
    BY <2>1, <2>2 DEF TableStep
<1> QED
  BY <1>1, <1>2, <1>3, <1>4

-----------------------------------------------------------------------------
(* Putting the parts of a step together                                    *)

\* A step whose parts are proved keeps the whole invariant.
LEMMA StepKeeps ==
    ASSUME IInv, TypeOK', NEW w, NEW x, TableStep(w, x),
           \A v \in Worker : v # w => Bystander(w, v),
           w \in Worker => WorkerInv(w)',
           Distinct', SignalInv'
    PROVE  IInv'
<1>1. \A v \in Worker : WorkerInv(v)'
  BY BystanderKeeps
<1>2. TableInv'
  BY TableKeeps
<1> QED
  BY <1>1, <1>2 DEF IInv

\* A step that at most adds revisions is a table step that creates nothing.
LEMMA QuietTables ==
    ASSUME IInv, NEW w, UNCHANGED <<exec, ledger>>,
           \A r \in Revision : revisions[r] # NoRevision => revisions'[r] = revisions[r]
    PROVE  TableStep(w, Null) /\ SignalInv'
<1>1. \A y \in Execution : Kept(y)
  BY DEF Kept
<1> QED
  BY <1>1 DEF IInv, TableStep, SignalInv, LedgerOnlyFromCompleted, CountedSignalsAreStored

\* When one worker moves, touching no lock but its own, the rest stand by.
LEMMA OneMoves ==
    ASSUME TypeOK, NEW w \in Worker, NEW p, NEW t,
           pc' = [pc EXCEPT ![w] = p], tx' = [tx EXCEPT ![w] = t],
           \/ lock' = lock
           \/ /\ lock[KeyOf(w)] \in {w, Null}
              /\ \E l : lock' = [lock EXCEPT ![KeyOf(w)] = l]
    PROVE  /\ \A v \in Worker : v # w => Bystander(w, v)
           /\ pc'[w] = p /\ tx'[w] = t
BY ConstantsOK DEF TypeOK, Bystander

\* Ids stay distinct when the one a worker takes is its own, none or fresh.
LEMMA StaysDistinct ==
    ASSUME TypeOK, Distinct, NEW w \in Worker, NEW t, tx' = [tx EXCEPT ![w] = t],
           \/ t.exec \in {Null, tx[w].exec}
           \/ \A v \in Worker : tx[v].exec # t.exec
    PROVE  Distinct'
BY DEF TypeOK, Distinct

\* A worker outside every call satisfies its invariant.
LEMMA RestingWorker ==
    ASSUME NEW w \in Worker, pc'[w] \in {"idle", "down"}, tx'[w] = NoTx
    PROVE  WorkerInv(w)'
BY DEF WorkerInv, CallOK, LockOK, SubjectOK, SeenOK, OwnedOK, InTx, Phase2Open,
       ComputeSteps, NoTx

\* So does one that has just entered a locked call for a committed revision.
LEMMA WaitingWorker ==
    ASSUME NEW w \in Worker, pc'[w] = "locking", tx'[w].exec = Null,
           tx'[w].rev \in Revision, revisions'[tx'[w].rev] # NoRevision,
           tx'[w].mode # "reconcile"
    PROVE  WorkerInv(w)'
BY DEF WorkerInv, CallOK, LockOK, SubjectOK, SeenOK, OwnedOK, InTx, Phase2Open,
       ComputeSteps

\* Entering run_for_decision or begin_execution.
LEMMA CallKeeps ==
    ASSUME IInv, TypeOK', NEW w \in Worker, NEW r \in Revision,
           UNCHANGED <<exec, ledger, lock>>,
           pc[w] = "idle", pc' = [pc EXCEPT ![w] = "locking"],
           \A q \in Revision : revisions[q] # NoRevision => revisions'[q] = revisions[q],
           revisions'[r] # NoRevision,
           NEW m \in {"phase2", "begin"},
           tx' = [tx EXCEPT ![w] = [NoTx EXCEPT !.rev = r, !.mode = m]]
    PROVE  IInv'
<1> DEFINE t == [NoTx EXCEPT !.rev = r, !.mode = m]
<1>1. t.rev = r /\ t.mode = m /\ t.exec = Null
  BY DEF NoTx
<1> HIDE DEF t
<1>2. tx' = [tx EXCEPT ![w] = t]
  BY DEF t
<1>3. (\A v \in Worker : v # w => Bystander(w, v)) /\ pc'[w] = "locking" /\ tx'[w] = t
  <2>1. TypeOK /\ lock' = lock
    BY DEF IInv
  <2> QED
    BY ONLY <2>1, <1>2, OneMoves, pc' = [pc EXCEPT ![w] = "locking"], w \in Worker
<1>4. WorkerInv(w)'
  BY <1>1, <1>3, WaitingWorker
<1>5. Distinct'
  BY <1>1, <1>2, StaysDistinct DEF IInv
<1> QED
  BY <1>3, <1>4, <1>5, QuietTables, StepKeeps

\* Leaving a call, or dying in it, with the tables untouched.
LEMMA ReturnKeeps ==
    ASSUME IInv, TypeOK', NEW w \in Worker, NEW p \in {"idle", "down"},
           UNCHANGED tables, pc' = [pc EXCEPT ![w] = p],
           tx' = [tx EXCEPT ![w] = NoTx],
           \/ lock' = lock
           \/ /\ lock[KeyOf(w)] \in {w, Null}
              /\ \E l : lock' = [lock EXCEPT ![KeyOf(w)] = l]
    PROVE  IInv'
<1>1. (\A v \in Worker : v # w => Bystander(w, v)) /\ pc'[w] = p /\ tx'[w] = NoTx
  BY OneMoves DEF IInv
<1>2. WorkerInv(w)'
  BY <1>1, RestingWorker
<1>3. Distinct'
  <2>1. NoTx.exec = Null
    BY DEF NoTx
  <2> QED
    BY <2>1, StaysDistinct DEF IInv
<1> QED
  BY <1>1, <1>2, <1>3, QuietTables, StepKeeps DEF tables

-----------------------------------------------------------------------------
(* The steps that leave the tables alone                                   *)

\* find_stale_executions handing an execution to reconciliation.
LEMMA CallReconcileKeeps ==
    ASSUME IInv, TypeOK', NEW w \in Worker, NEW e \in Execution, CallReconcile(w, e)
    PROVE  IInv'
<1> DEFINE t == [NoTx EXCEPT !.rev = exec[e].rev, !.mode = "reconcile", !.subject = e]
<1>1. t.rev = exec[e].rev /\ t.subject = e /\ t.exec = Null
  BY DEF NoTx
<1> HIDE DEF t
<1>2. /\ tx' = [tx EXCEPT ![w] = t] /\ pc' = [pc EXCEPT ![w] = "locking"]
      /\ UNCHANGED <<revisions, exec, ledger, lock>> /\ exec[e].status = "running"
      /\ TypeOK /\ Distinct /\ Rows
  BY DEF CallReconcile, Goto, IsStale, IInv, TableInv, t
<1>3. (\A v \in Worker : v # w => Bystander(w, v)) /\ pc'[w] = "locking" /\ tx'[w] = t
  BY ONLY <1>2, OneMoves, w \in Worker
<1>4. WorkerInv(w)'
  BY <1>1, <1>2, <1>3
  DEF WorkerInv, CallOK, LockOK, SubjectOK, SeenOK, OwnedOK, InTx, Phase2Open,
      ComputeSteps, Rows
<1>5. Distinct'
  BY <1>1, <1>2, StaysDistinct
<1>6. TableStep(w, Null) /\ SignalInv'
  BY <1>2, QuietTables
<1> QED
  BY <1>3, <1>4, <1>5, <1>6, StepKeeps

\* Taking the lock: what is active now is all that is active, and an active
\* execution has neither signals nor a successor.
LEMMA LockedRead ==
    ASSUME IInv, TypeOK', NEW w \in Worker, pc[w] = "locking",
           lock[KeyOf(w)] = Null, lock' = [lock EXCEPT ![KeyOf(w)] = w],
           pc' = [pc EXCEPT ![w] = "claiming"], UNCHANGED tables,
           NEW s \in Execution \cup {Null}, NEW b \in Heartbeat,
           s # Null => exec[s].rev = tx[w].rev /\ exec[s].status \in ACTIVE,
           s = Null => ActiveFor(tx[w].rev) = {},
           tx' = [tx EXCEPT ![w] = [@ EXCEPT !.seen = s, !.beat = b]]
    PROVE  IInv'
<1> DEFINE t == [tx[w] EXCEPT !.seen = s, !.beat = b]
<1>0. TypeOK /\ Distinct /\ WorkerInv(w) /\ tx[w] \in Tx
  BY DEF IInv, TypeOK
<1>1. t.rev = tx[w].rev /\ t.seen = s /\ t.exec = tx[w].exec
  BY <1>0 DEF Tx
<1> HIDE DEF t
<1>2. tx' = [tx EXCEPT ![w] = t]
  BY DEF t
<1>3. (\A v \in Worker : v # w => Bystander(w, v)) /\ pc'[w] = "claiming" /\ tx'[w] = t
  <2>1. lock[KeyOf(w)] \in {w, Null} /\ \E l : lock' = [lock EXCEPT ![KeyOf(w)] = l]
    OBVIOUS
  <2> QED
    BY ONLY <1>0, <1>2, <2>1, OneMoves, pc' = [pc EXCEPT ![w] = "claiming"], w \in Worker
<1>4. WorkerInv(w)'
  <2>1. CallOK(w)' /\ tx[w].exec = Null
    BY <1>0, <1>1, <1>3 DEF WorkerInv, CallOK, OwnedOK, tables
  <2>2. LockOK(w)'
    <3>1. KeyOf(w) \in Keys
      BY <1>0, KeyType DEF WorkerInv
    <3>2. KeyOf(w)' = KeyOf(w)
      BY <1>1, <1>3 DEF KeyOf, DecisionOf, tables
    <3> QED
      BY <1>0, <3>1, <3>2 DEF LockOK, TypeOK
  <2>3. SeenOK(w)'
    <3>1. \A e \in Execution : exec[e].rev = tx[w].rev /\ exec[e].status \in ACTIVE => e = s
      BY DEF ActiveFor, IInv, TableInv, AtMostOneActive
    <3>2. s # Null => /\ exec[s].status # "absent"
                      /\ \A row \in ledger : row.execution # s
                      /\ \A e \in Execution : exec[e].parent # s
      BY DEF IInv, SignalInv, TableInv, LedgerOnlyFromCompleted, AttemptChain
    <3> QED
      BY <1>1, <1>3, <3>1, <3>2 DEF SeenOK, tables
  <2> QED
    BY <1>1, <1>3, <2>1, <2>2, <2>3 DEF WorkerInv, SubjectOK, OwnedOK, Phase2Open, ComputeSteps
<1>5. Distinct'
  BY <1>0, <1>1, <1>2, StaysDistinct
<1>6. TableStep(w, Null) /\ SignalInv'
  BY QuietTables DEF tables
<1> QED
  BY <1>3, <1>4, <1>5, <1>6, StepKeeps

\* begin_phase2 and begin_execution up to the read of the active execution.
LEMMA BeginKeeps ==
    ASSUME IInv, TypeOK', NEW w \in Worker, Begin(w)
    PROVE  IInv'
<1>0. tx[w] \in Tx /\ \A e \in Execution : exec[e].beat \in Heartbeat
  BY DEF IInv, TypeOK, ExecRow
<1>1. CASE ActiveFor(tx[w].rev) = {} /\ tx' = [tx EXCEPT ![w].seen = Null]
  <2>1. [tx[w] EXCEPT !.seen = Null] = [tx[w] EXCEPT !.seen = Null, !.beat = tx[w].beat]
    BY <1>0 DEF Tx
  <2>2. tx' = [tx EXCEPT ![w] = [@ EXCEPT !.seen = Null, !.beat = tx[w].beat]]
    BY <1>1, <2>1
  <2>3. tx[w].beat \in Heartbeat
    BY <1>0 DEF Tx
  <2> QED
    BY <1>1, <2>2, <2>3, LockedRead DEF Begin, Goto
<1>2. ASSUME NEW e \in ActiveFor(tx[w].rev),
             tx' = [tx EXCEPT ![w] = [@ EXCEPT !.seen = e, !.beat = exec[e].beat]]
      PROVE  IInv'
  <2>1. /\ e \in Execution /\ e # Null /\ exec[e].beat \in Heartbeat
        /\ exec[e].rev = tx[w].rev /\ exec[e].status \in ACTIVE
    BY <1>0, ConstantsOK DEF ActiveFor
  <2> QED
    BY <1>2, <2>1, LockedRead DEF Begin, Goto
<1> QED
  BY <1>1, <1>2 DEF Begin

\* reconcile_stale_execution up to its decision.
LEMMA BeginReconcileKeeps ==
    ASSUME IInv, TypeOK', NEW w \in Worker, BeginReconcile(w)
    PROVE  IInv'
<1>1. CASE /\ IsStale(tx[w].subject)
           /\ lock' = [lock EXCEPT ![KeyOf(w)] = w]
           /\ tx' = [tx EXCEPT ![w] = [@ EXCEPT !.seen = tx[w].subject, !.beat = "expired"]]
           /\ Goto(w, "claiming")
  <2>0. SubjectOK(w)
    BY DEF IInv, WorkerInv
  <2>1. /\ tx[w].subject \in Execution /\ tx[w].subject # Null
        /\ exec[tx[w].subject].rev = tx[w].rev
        /\ exec[tx[w].subject].status \in ACTIVE
    BY <1>1, <2>0, ConstantsOK DEF BeginReconcile, IsStale, SubjectOK
  <2> QED
    BY <1>1, <2>1, LockedRead DEF BeginReconcile, Goto
<1>2. CASE Return(w) /\ UNCHANGED lock
  BY <1>2, ReturnKeeps DEF BeginReconcile, Return, Goto
<1> QED
  BY <1>1, <1>2 DEF BeginReconcile

\* Leaving an open transaction: the lock being released is one's own.
LEMMA OwnLock ==
    ASSUME IInv, NEW w \in Worker, pc[w] \in InTx
    PROVE  lock[KeyOf(w)] \in {w, Null}
BY DEF IInv, WorkerInv, LockOK

\* The skip, the failed claim that ends its transaction, and the end of a
\* session that was left open.
LEMMA GiveUpKeeps ==
    ASSUME IInv, TypeOK', NEW w \in Worker,
           Skip(w) \/ ClaimError(w) \/ SessionCollected(w)
    PROVE  IInv'
<1>1. lock[KeyOf(w)] \in {w, Null}
  BY OwnLock DEF Skip, ClaimError, SessionCollected, InTx
<1> QED
  BY <1>1, ReturnKeeps DEF Skip, ClaimError, SessionCollected, Release, Return, Goto

\* A session left open keeps the lock, and with it what it saw.
LEMMA AbandonKeeps ==
    ASSUME IInv, TypeOK', NEW w \in Worker, Phase2ClaimAbandoned(w)
    PROVE  IInv'
<1>0. TypeOK /\ Distinct /\ WorkerInv(w) /\ pc[w] = "claiming"
  BY DEF IInv, Phase2ClaimAbandoned
<1>1. tx' = [tx EXCEPT ![w] = tx[w]]
  BY <1>0 DEF Phase2ClaimAbandoned, TypeOK
<1>2. /\ \A v \in Worker : v # w => Bystander(w, v)
      /\ pc'[w] = "abandoned" /\ tx'[w] = tx[w]
  BY <1>0, <1>1, OneMoves DEF Phase2ClaimAbandoned, Goto
<1>3. WorkerInv(w)'
  <2> USE <1>0, <1>2 DEF Phase2ClaimAbandoned, tables, InTx, Phase2Open, ComputeSteps
  <2>1. CallOK(w)'
    BY DEF WorkerInv, CallOK
  <2>2. LockOK(w)'
    BY DEF WorkerInv, LockOK, KeyOf, DecisionOf
  <2>3. SeenOK(w)'
    BY DEF WorkerInv, SeenOK
  <2> QED
    BY <2>1, <2>2, <2>3 DEF WorkerInv, SubjectOK, OwnedOK
<1>4. Distinct'
  BY <1>0, <1>1, StaysDistinct
<1>5. TableStep(w, Null) /\ SignalInv'
  BY QuietTables DEF Phase2ClaimAbandoned, tables
<1> QED
  BY <1>2, <1>3, <1>4, <1>5, StepKeeps

\* The server aborts the transaction of a dead worker.
LEMMA CrashKeeps ==
    ASSUME IInv, TypeOK', NEW w \in Worker, Crash(w)
    PROVE  IInv'
<1>1. CASE pc[w] \in InTx
  <2>1. lock[KeyOf(w)] \in {w, Null}
    BY <1>1, OwnLock
  <2> QED
    BY <1>1, <2>1, ReturnKeeps DEF Crash, Goto
<1>2. CASE pc[w] \notin InTx
  BY <1>2, ReturnKeeps DEF Crash, Goto
<1> QED
  BY <1>1, <1>2

\* A restarted worker starts with nothing.
LEMMA RestartKeeps ==
    ASSUME IInv, TypeOK', NEW w \in Worker, Restart(w)
    PROVE  IInv'
<1>0. TypeOK /\ Distinct /\ WorkerInv(w)
  BY DEF IInv
<1>1. tx' = [tx EXCEPT ![w] = tx[w]]
  BY <1>0 DEF Restart, TypeOK
<1>2. (\A v \in Worker : v # w => Bystander(w, v)) /\ pc'[w] = "idle" /\ tx'[w] = tx[w]
  BY <1>0, <1>1, OneMoves DEF Restart, Goto
<1>3. WorkerInv(w)'
  BY <1>0, <1>2 DEF WorkerInv, CallOK, LockOK, SubjectOK, SeenOK, OwnedOK, InTx,
     Phase2Open, ComputeSteps, Restart
<1>4. Distinct'
  BY <1>0, <1>1, StaysDistinct
<1>5. TableStep(w, Null) /\ SignalInv'
  BY QuietTables DEF Restart, tables
<1> QED
  BY <1>2, <1>3, <1>4, <1>5, StepKeeps

\* begin_phase2 claims: the id is taken, the tables are not touched yet.
LEMMA ClaimInSessionKeeps ==
    ASSUME IInv, TypeOK', NEW w \in Worker, ClaimInSession(w)
    PROVE  IInv'
<1>0. TypeOK /\ Distinct /\ WorkerInv(w) /\ tx[w] \in Tx /\ pc[w] = "claiming"
  BY DEF IInv, TypeOK, ClaimInSession, CanClaim
<1>1. PICK e \in FreshIds : tx' = [tx EXCEPT ![w].exec = e]
  BY DEF ClaimInSession
<1> DEFINE t == [tx[w] EXCEPT !.exec = e]
<1>2. /\ t.rev = tx[w].rev /\ t.seen = tx[w].seen /\ t.exec = e
      /\ e \in Execution /\ exec[e] = NoExec /\ \A v \in Worker : tx[v].exec # e
  BY <1>0 DEF Tx, FreshIds
<1> HIDE DEF t
<1>3. tx' = [tx EXCEPT ![w] = t]
  BY <1>1 DEF t
<1>4. (\A v \in Worker : v # w => Bystander(w, v)) /\ pc'[w] = "consolidate" /\ tx'[w] = t
  BY <1>0, <1>3, OneMoves DEF ClaimInSession, Goto
<1>5. WorkerInv(w)'
  <2> USE <1>0, <1>2, <1>4 DEF ClaimInSession, tables, InTx, Phase2Open, ComputeSteps
  <2>1. CallOK(w)'
    BY DEF WorkerInv, CallOK
  <2>2. LockOK(w)'
    BY DEF WorkerInv, LockOK, KeyOf, DecisionOf
  <2>3. SeenOK(w)'
    BY DEF WorkerInv, SeenOK
  <2> QED
    BY <2>1, <2>2, <2>3 DEF WorkerInv, SubjectOK, OwnedOK
<1>6. Distinct'
  BY <1>0, <1>2, <1>3, StaysDistinct
<1>7. TableStep(w, Null) /\ SignalInv'
  BY QuietTables DEF ClaimInSession, tables
<1> QED
  BY <1>4, <1>5, <1>6, <1>7, StepKeeps

\* A computation stage only adds drafts.
LEMMA ComputeKeeps ==
    ASSUME IInv, TypeOK', NEW w \in Worker, Compute(w)
    PROVE  IInv'
<1>0. TypeOK /\ Distinct /\ WorkerInv(w) /\ tx[w] \in Tx /\ pc[w] \in ComputeSteps
  BY DEF IInv, TypeOK, Compute
<1>1. PICK D : tx' = [tx EXCEPT ![w].drafts = D]
  BY DEF Compute
<1> DEFINE t == [tx[w] EXCEPT !.drafts = D]
<1>2. t.rev = tx[w].rev /\ t.seen = tx[w].seen /\ t.exec = tx[w].exec
  BY <1>0 DEF Tx
<1> HIDE DEF t
<1>3. tx' = [tx EXCEPT ![w] = t]
  BY <1>1 DEF t
<1>4. /\ \A v \in Worker : v # w => Bystander(w, v)
      /\ pc'[w] = StageAfter(pc[w]) /\ tx'[w] = t
  BY <1>0, <1>3, OneMoves DEF Compute, Goto
<1>5. pc'[w] \in Phase2Open
  BY <1>0, <1>4 DEF StageAfter, ComputeSteps, Phase2Open
<1>6. WorkerInv(w)'
  <2> USE <1>0, <1>2, <1>4, <1>5 DEF Compute, tables, InTx, Phase2Open, ComputeSteps
  <2>1. CallOK(w)'
    BY DEF WorkerInv, CallOK
  <2>2. LockOK(w)'
    BY DEF WorkerInv, LockOK, KeyOf, DecisionOf
  <2>3. SeenOK(w)'
    BY DEF WorkerInv, SeenOK
  <2>4. OwnedOK(w)'
    BY DEF WorkerInv, OwnedOK
  <2> QED
    BY <2>1, <2>2, <2>3, <2>4 DEF WorkerInv, SubjectOK
<1>7. Distinct'
  BY <1>0, <1>2, <1>3, StaysDistinct
<1>8. TableStep(w, Null) /\ SignalInv'
  BY QuietTables DEF Compute, tables
<1> QED
  BY <1>4, <1>6, <1>7, <1>8, StepKeeps

\* Ending phase 2 with an error: the row is not there, the id is kept.
LEMMA Phase2ErrorKeeps ==
    ASSUME IInv, TypeOK', NEW w \in Worker, Phase2Error(w)
    PROVE  IInv'
<1>0. TypeOK /\ Distinct /\ WorkerInv(w) /\ pc[w] \in Phase2Open
  BY DEF IInv, Phase2Error
<1>1. tx' = [tx EXCEPT ![w] = tx[w]] /\ lock[KeyOf(w)] \in {w, Null}
  BY <1>0, OwnLock DEF Phase2Error, TypeOK, InTx
<1>2. (\A v \in Worker : v # w => Bystander(w, v)) /\ pc'[w] = "failing" /\ tx'[w] = tx[w]
  BY <1>0, <1>1, OneMoves DEF Phase2Error, Goto, Release
<1>3. WorkerInv(w)'
  BY <1>0, <1>2 DEF WorkerInv, CallOK, LockOK, SubjectOK, SeenOK, OwnedOK, InTx,
     Phase2Open, ComputeSteps, Phase2Error, tables
<1>4. Distinct'
  BY <1>0, <1>1, StaysDistinct
<1>5. TableStep(w, Null) /\ SignalInv'
  BY QuietTables DEF Phase2Error, tables
<1> QED
  BY <1>2, <1>3, <1>4, <1>5, StepKeeps

-----------------------------------------------------------------------------
(* The steps that write learning_executions and the ledger                 *)

\* A claim retires what it saw and creates e.
LEMMA ClaimedRows ==
    ASSUME IInv, NEW w \in Worker, pc[w] \in InTx,
           NEW e \in Execution, exec[e] = NoExec,
           NEW y \in Execution
    PROVE  /\ Claimed(w, e)[y].learned = exec[y].learned
           /\ y # e => /\ Claimed(w, e)[y].rev = exec[y].rev
                       /\ Claimed(w, e)[y].attempt = exec[y].attempt
                       /\ Claimed(w, e)[y].parent = exec[y].parent
                       /\ y = tx[w].seen => Claimed(w, e)[y].status = "stale"
                       /\ y # tx[w].seen => Claimed(w, e)[y] = exec[y]
           /\ /\ Claimed(w, e)[e].rev = tx[w].rev
              /\ Claimed(w, e)[e].parent = tx[w].seen
              /\ Claimed(w, e)[e].status = "running"
              /\ tx[w].seen # Null =>
                   Claimed(w, e)[e].attempt = exec[tx[w].seen].attempt + 1
           /\ tx[w].seen # e
           /\ tx[w].seen # Null => exec[tx[w].seen].status # "absent"
<1>0. /\ exec[y] \in ExecRow /\ SeenOK(w) /\ NoExec.status = "absent"
      /\ NoExec.learned = {}
  BY DEF IInv, TypeOK, WorkerInv, NoExec
<1>1. tx[w].seen # e /\ (tx[w].seen # Null => exec[tx[w].seen].status # "absent")
  BY <1>0, ConstantsOK DEF SeenOK
<1>2. Claimed(w, e)[e] = NewRow(w, e)
  BY DEF Claimed
<1>3. /\ NewRow(w, e).rev = tx[w].rev /\ NewRow(w, e).parent = tx[w].seen
      /\ NewRow(w, e).status = "running" /\ NewRow(w, e).learned = {}
      /\ tx[w].seen # Null => NewRow(w, e).attempt = exec[tx[w].seen].attempt + 1
  BY DEF NewRow
<1>4. ASSUME y # e, y = tx[w].seen
      PROVE  Claimed(w, e)[y] = [exec[y] EXCEPT !.status = "stale"]
  BY <1>4 DEF Claimed
<1>5. ASSUME y # e, y # tx[w].seen PROVE Claimed(w, e)[y] = exec[y]
  BY <1>5 DEF Claimed
<1> QED
  BY <1>0, <1>1, <1>2, <1>3, <1>4, <1>5 DEF ExecRow

\* begin_execution and reconcile_stale_execution claim and commit.
LEMMA ClaimAndCommitKeeps ==
    ASSUME IInv, TypeOK', NEW w \in Worker, ClaimAndCommit(w)
    PROVE  IInv'
<1>0. /\ TypeOK /\ Distinct /\ WorkerInv(w) /\ SignalInv
      /\ tx[w] \in Tx /\ pc[w] = "claiming" /\ pc[w] \in InTx
  BY DEF IInv, TypeOK, ClaimAndCommit, CanClaim, InTx
<1>1. PICK e \in FreshIds : exec' = Claimed(w, e) /\ tx' = [tx EXCEPT ![w].exec = e]
  BY DEF ClaimAndCommit
<1> DEFINE t == [tx[w] EXCEPT !.exec = e]
<1>2. /\ t.rev = tx[w].rev /\ t.seen = tx[w].seen /\ t.exec = e
      /\ e \in Execution /\ exec[e] = NoExec /\ \A v \in Worker : tx[v].exec # e
  BY <1>0 DEF Tx, FreshIds
<1> HIDE DEF t
<1>3. tx' = [tx EXCEPT ![w] = t] /\ lock[KeyOf(w)] \in {w, Null}
  BY <1>0, <1>1, OwnLock DEF t
<1>4. (\A v \in Worker : v # w => Bystander(w, v)) /\ pc'[w] = "working" /\ tx'[w] = t
  BY <1>0, <1>3, OneMoves DEF ClaimAndCommit, Goto, Release
<1>5. TableStep(w, e)
  <2>1. Created(w, e)
    BY <1>0, <1>1, <1>2, ClaimedRows DEF Created, TypeOK, Tx
  <2>2. ASSUME NEW y \in Execution, y # e PROVE Kept(y)
    <3>1. CASE y = tx[w].seen
      BY <2>2, <3>1, <1>0, <1>1, <1>2, ConstantsOK, ClaimedRows DEF Kept
    <3>2. CASE y # tx[w].seen
      <4>1. exec'[y] = exec[y]
        BY <2>2, <3>2, <1>0, <1>1, <1>2, ClaimedRows
      <4> QED
        BY <4>1 DEF Kept
    <3> QED
      BY <3>1, <3>2
  <2> QED
    BY <2>1, <2>2 DEF TableStep, ClaimAndCommit
<1>6. \A row \in ledger : row.execution # e
  BY <1>0, <1>2, AbsentStatus DEF SignalInv, LedgerOnlyFromCompleted
<1>7. WorkerInv(w)'
  <2>1. CallOK(w)'
    BY <1>0, <1>2, <1>4 DEF WorkerInv, CallOK, ClaimAndCommit
  <2>2. exec'[e].status = "running"
    BY <1>0, <1>1, <1>2, ClaimedRows
  <2> QED
    BY <1>2, <1>4, <1>6, <2>1, <2>2
    DEF WorkerInv, LockOK, SubjectOK, SeenOK, OwnedOK, InTx, Phase2Open, ComputeSteps,
        ClaimAndCommit
<1>8. Distinct'
  BY <1>0, <1>2, <1>3, StaysDistinct
<1>9. SignalInv'
  <2>1. LedgerOnlyFromCompleted'
    <3> SUFFICES ASSUME NEW row \in ledger
                 PROVE  exec'[row.execution] = exec[row.execution]
      BY <1>0 DEF ClaimAndCommit, SignalInv, LedgerOnlyFromCompleted
    <3>1. row.execution \in Execution /\ row.execution # e
      BY <1>0, <1>6 DEF TypeOK, LedgerRow
    <3>2. row.execution # tx[w].seen
      BY <1>0, <3>1, ConstantsOK DEF WorkerInv, SeenOK
    <3> QED
      BY <1>0, <1>1, <1>2, <3>1, <3>2, ClaimedRows
  <2>2. CountedSignalsAreStored'
    BY <1>0, <1>1, <1>2, ClaimedRows DEF ClaimAndCommit, SignalInv, CountedSignalsAreStored
  <2> QED
    BY <2>1, <2>2 DEF SignalInv
<1> QED
  BY <1>4, <1>5, <1>7, <1>8, <1>9, StepKeeps

\* COMMIT of phase 2: the claim, the completion and the signals at once.
LEMMA CommitFacts ==
    ASSUME IInv, NEW w \in Worker, Commit(w), NEW e, e = tx[w].exec
    PROVE  /\ e \in Execution /\ exec[e] = NoExec
           /\ exec'[e].rev = tx[w].rev /\ exec'[e].parent = tx[w].seen
           /\ exec'[e].status = "completed" /\ exec'[e].learned = tx[w].drafts
           /\ tx[w].seen # Null => exec'[e].attempt = exec[tx[w].seen].attempt + 1
           /\ tx[w].seen # Null => exec'[tx[w].seen].status = "stale"
           /\ tx[w].seen # e
           /\ \A y \in Execution : y # e =>
                 /\ Kept(y)
                 /\ exec'[y].learned = exec[y].learned
                 /\ y # tx[w].seen => exec'[y] = exec[y]
<1>0. pc[w] \in InTx /\ e \in Execution /\ exec[e] = NoExec
  BY DEF IInv, WorkerInv, OwnedOK, Commit, InTx, Phase2Open
<1> DEFINE C == Claimed(w, e)
<1>1. C \in [Execution -> ExecRow]
  BY <1>0, ClaimedType DEF IInv
<1> HIDE DEF C
<1>2. exec' = [C EXCEPT ![e] = [@ EXCEPT !.status = "completed", !.learned = tx[w].drafts]]
  BY DEF Commit, C
<1>3. exec'[e] = [C[e] EXCEPT !.status = "completed", !.learned = tx[w].drafts]
  BY <1>0, <1>1, <1>2
<1>4. /\ exec'[e].rev = C[e].rev /\ exec'[e].parent = C[e].parent
      /\ exec'[e].attempt = C[e].attempt
      /\ exec'[e].status = "completed" /\ exec'[e].learned = tx[w].drafts
  <2>1. C[e] \in ExecRow
    BY <1>0, <1>1
  <2> QED
    BY <1>3, <2>1 DEF ExecRow
<1>5. \A y \in Execution : y # e => exec'[y] = C[y]
  BY <1>1, <1>2
<1>6. tx[w].seen # e /\ tx[w].seen \in Execution \cup {Null}
  BY <1>0, ClaimedRows DEF IInv, TypeOK, Tx
<1>7. ASSUME NEW y \in Execution, y # e
      PROVE  /\ Kept(y)
             /\ exec'[y].learned = exec[y].learned
             /\ y # tx[w].seen => exec'[y] = exec[y]
             /\ y = tx[w].seen => exec'[y].status = "stale"
  <2>1. /\ exec'[y].rev = exec[y].rev /\ exec'[y].attempt = exec[y].attempt
        /\ exec'[y].parent = exec[y].parent
        /\ exec'[y].learned = exec[y].learned
        /\ y # tx[w].seen => exec'[y] = exec[y]
        /\ y = tx[w].seen => exec'[y].status = "stale" /\ exec[y].status # "absent"
    BY <1>0, <1>5, <1>7, ClaimedRows, ConstantsOK DEF C
  <2> QED
    BY <2>1 DEF Kept
<1>8. /\ C[e].rev = tx[w].rev /\ C[e].parent = tx[w].seen
      /\ tx[w].seen # Null => C[e].attempt = exec[tx[w].seen].attempt + 1
  BY <1>0, ClaimedRows DEF C
<1> QED
  BY <1>0, <1>4, <1>6, <1>7, <1>8

\* The commit of phase 2, whether or not its answer arrives.
LEMMA CommitKeeps ==
    ASSUME IInv, TypeOK', NEW w \in Worker, PersistAndCommit(w) \/ CommitUnacknowledged(w)
    PROVE  IInv'
<1> DEFINE e == tx[w].exec
<1>0. /\ TypeOK /\ Distinct /\ WorkerInv(w) /\ SignalInv
      /\ Commit(w) /\ pc[w] \in InTx /\ tx[w] \in Tx
  BY DEF IInv, TypeOK, PersistAndCommit, CommitUnacknowledged, Commit, InTx, Phase2Open
<1>1. /\ e \in Execution /\ exec[e] = NoExec
      /\ exec'[e].rev = tx[w].rev /\ exec'[e].parent = tx[w].seen
      /\ exec'[e].status = "completed" /\ exec'[e].learned = tx[w].drafts
      /\ tx[w].seen # Null => exec'[e].attempt = exec[tx[w].seen].attempt + 1
      /\ tx[w].seen # Null => exec'[tx[w].seen].status = "stale"
      /\ \A y \in Execution : y # e =>
            /\ Kept(y)
            /\ exec'[y].learned = exec[y].learned
            /\ y # tx[w].seen => exec'[y] = exec[y]
  BY <1>0, CommitFacts
<1>2. \A row \in ledger' : row \in ledger \/ row.execution = e
  BY <1>0 DEF Commit, Appended
<1>3. TableStep(w, e)
  <2>1. \A v \in Worker : v # w => tx[v].exec # e
    BY <1>0, <1>1, ConstantsOK DEF Distinct
  <2>2. Created(w, e)
    BY <1>0, <1>1, <2>1 DEF Created
  <2> QED
    BY <1>0, <1>1, <1>2, <2>2 DEF TableStep, Commit
<1>4. PICK p \in {"idle", "failing"}, t \in {NoTx, tx[w]} :
        /\ pc' = [pc EXCEPT ![w] = p] /\ tx' = [tx EXCEPT ![w] = t]
        /\ p = "idle" => t = NoTx
        /\ p = "failing" => t = tx[w]
  <2>1. CASE PersistAndCommit(w)
    BY <2>1 DEF PersistAndCommit, Return, Goto
  <2>2. CASE CommitUnacknowledged(w)
    <3>1. tx = [tx EXCEPT ![w] = tx[w]]
      BY <1>0 DEF TypeOK
    <3> QED
      BY <2>2, <3>1 DEF CommitUnacknowledged, Goto
  <2> QED
    BY <2>1, <2>2
<1>5. (\A v \in Worker : v # w => Bystander(w, v)) /\ pc'[w] = p /\ tx'[w] = t
  <2>1. lock[KeyOf(w)] \in {w, Null} /\ \E l : lock' = [lock EXCEPT ![KeyOf(w)] = l]
    BY <1>0, OwnLock DEF Commit, Release
  <2> QED
    BY <1>0, <1>4, <2>1, OneMoves
<1>6. WorkerInv(w)'
  <2>1. CASE p = "idle"
    BY <2>1, <1>4, <1>5, RestingWorker
  <2>2. CASE p = "failing"
    BY <2>2, <1>0, <1>1, <1>4, <1>5
    DEF WorkerInv, CallOK, LockOK, SubjectOK, SeenOK, OwnedOK, InTx, Phase2Open,
        ComputeSteps, Commit
  <2> QED
    BY <2>1, <2>2
<1>7. Distinct'
  <2>1. NoTx.exec = Null
    BY DEF NoTx
  <2> QED
    BY <1>0, <1>4, <2>1, StaysDistinct
<1>8. LedgerOnlyFromCompleted'
  <2> SUFFICES ASSUME NEW row \in ledger', row.execution # e
               PROVE  exec'[row.execution] = exec[row.execution]
    BY <1>0, <1>1, <1>2 DEF SignalInv, LedgerOnlyFromCompleted
  <2>1. row \in ledger /\ row.execution \in Execution
    BY <1>0, <1>2 DEF TypeOK, LedgerRow
  <2>2. row.execution # tx[w].seen
    BY <1>0, <2>1, ConstantsOK DEF WorkerInv, SeenOK
  <2> QED
    BY <1>1, <2>1, <2>2
<1>9. CountedSignalsAreStored'
  <2> SUFFICES ASSUME NEW y \in Execution, NEW x \in exec'[y].learned
               PROVE  \E row \in ledger' : row.target = x.target /\ row.signal = x.signal
    BY DEF CountedSignalsAreStored
  <2>0. ledger' = ledger \cup Appended(w)
    BY <1>0 DEF Commit
  <2>1. CASE y = e
    <3>1. CASE \A row \in ledger : row.target # x.target \/ row.signal # x.signal
      <4>1. [target |-> x.target, signal |-> x.signal, execution |-> e] \in Appended(w)
        BY <1>1, <2>1, <3>1 DEF Appended
      <4> QED
        BY <2>0, <4>1
    <3> QED
      BY <2>0, <3>1
  <2>2. CASE y # e
    BY <1>0, <1>1, <2>0, <2>2 DEF SignalInv, CountedSignalsAreStored
  <2> QED
    BY <2>1, <2>2
<1> QED
  BY <1>3, <1>5, <1>6, <1>7, <1>8, <1>9, StepKeeps DEF SignalInv

\* A status written by id: a row that is there stays, retired.
LEMMA SetStatusRows ==
    ASSUME TypeOK, Rows, NEW e \in Execution, NEW s \in {"completed", "failed"},
           exec' = exec \/ SetStatus(e, s)
    PROVE  \A y \in Execution :
              /\ Kept(y)
              /\ exec'[y].learned = exec[y].learned
              /\ y # e => exec'[y] = exec[y]
              /\ exec'[y].status \in {exec[y].status, s}
<1>1. CASE exec' = exec
  BY <1>1 DEF Kept
<1>2. CASE exec[e] # NoExec /\ exec' = [exec EXCEPT ![e].status = s] /\ exec[e].status # "absent"
  <2>1. /\ exec'[e].rev = exec[e].rev /\ exec'[e].attempt = exec[e].attempt
        /\ exec'[e].parent = exec[e].parent /\ exec'[e].status = s
        /\ exec'[e].learned = exec[e].learned
    <3>1. exec[e] \in ExecRow /\ exec'[e] = [exec[e] EXCEPT !.status = s]
      BY <1>2 DEF TypeOK
    <3> QED
      BY <3>1 DEF ExecRow
  <2>2. \A y \in Execution : y # e => exec'[y] = exec[y]
    BY <1>2 DEF TypeOK
  <2> QED
    BY <1>2, <2>1, <2>2 DEF Kept
<1> QED
  BY <1>1, <1>2 DEF SetStatus, Rows

\* Returning after such a write.
LEMMA StatusKeeps ==
    ASSUME IInv, TypeOK', NEW w \in Worker,
           NEW e \in Execution, NEW s \in {"completed", "failed"},
           exec' = exec \/ SetStatus(e, s),
           \/ OmittedBindIsNull /\ s = "failed"
           \/ \A row \in ledger : row.execution # e,
           UNCHANGED <<revisions, ledger, lock>>, Return(w)
    PROVE  IInv'
<1>0. TypeOK /\ Distinct /\ SignalInv /\ Rows
  BY DEF IInv, TableInv
<1>1. \A y \in Execution :
        /\ Kept(y) /\ exec'[y].learned = exec[y].learned
        /\ y # e => exec'[y] = exec[y]
        /\ exec'[y].status \in {exec[y].status, s}
  BY <1>0, SetStatusRows
<1>2. TableStep(w, Null)
  BY <1>1 DEF TableStep
<1>3. (\A v \in Worker : v # w => Bystander(w, v)) /\ pc'[w] = "idle" /\ tx'[w] = NoTx
  BY <1>0, OneMoves DEF Return, Goto
<1>4. WorkerInv(w)'
  BY <1>3, RestingWorker
<1>5. Distinct'
  <2>1. NoTx.exec = Null
    BY DEF NoTx
  <2> QED
    BY <1>0, <2>1, StaysDistinct DEF Return
<1>6. SignalInv'
  <2>1. \A row \in ledger : row.execution \in Execution
    BY <1>0 DEF TypeOK, LedgerRow
  <2>2. LedgerOnlyFromCompleted'
    BY <1>0, <1>1, <2>1 DEF SignalInv, LedgerOnlyFromCompleted
  <2>3. CountedSignalsAreStored'
    BY <1>0, <1>1 DEF SignalInv, CountedSignalsAreStored
  <2> QED
    BY <2>2, <2>3 DEF SignalInv
<1> QED
  BY <1>2, <1>3, <1>4, <1>5, <1>6, StepKeeps

\* A heartbeat written or grown old: only the age changes.
LEMMA BeatKeeps ==
    ASSUME IInv, TypeOK', NEW e \in Execution, NEW b \in Heartbeat,
           exec[e].status = "running", exec' = [exec EXCEPT ![e].beat = b],
           UNCHANGED <<revisions, ledger, lock, pc, tx>>
    PROVE  IInv'
<1>0. /\ TypeOK /\ Distinct /\ SignalInv /\ exec[e] \in ExecRow
      /\ Null \notin Worker
  BY ConstantsOK DEF IInv, TypeOK
<1>1. \A y \in Execution :
        Kept(y) /\ exec'[y].learned = exec[y].learned /\ exec'[y].status = exec[y].status
  <2>1. exec'[e] = [exec[e] EXCEPT !.beat = b] /\ \A y \in Execution : y # e => exec'[y] = exec[y]
    BY <1>0 DEF TypeOK
  <2>2. /\ exec'[e].rev = exec[e].rev /\ exec'[e].attempt = exec[e].attempt
        /\ exec'[e].parent = exec[e].parent /\ exec'[e].status = exec[e].status
        /\ exec'[e].learned = exec[e].learned
    BY <1>0, <2>1 DEF ExecRow
  <2> QED
    BY <2>1, <2>2 DEF Kept
<1>2. TableStep(Null, Null)
  BY <1>1 DEF TableStep
<1>3. \A v \in Worker : Bystander(Null, v)
  BY DEF Bystander
<1>4. SignalInv'
  <2>1. \A row \in ledger : row.execution \in Execution
    BY <1>0 DEF TypeOK, LedgerRow
  <2> QED
    BY <1>0, <1>1, <2>1 DEF SignalInv, LedgerOnlyFromCompleted, CountedSignalsAreStored
<1>5. Distinct'
  BY <1>0 DEF Distinct
<1> QED
  BY <1>0, <1>2, <1>3, <1>4, <1>5, StepKeeps

\* Phase 1 only adds a revision.
LEMMA PhaseOneKeeps ==
    ASSUME IInv, TypeOK', NEW w \in Worker, NEW d \in Decision, NEW o \in Outcome,
           SubmitOutcomes(w, d, o) \/ CreateOutcomeRevision(w, d, o)
    PROVE  IInv'
<1>0. PICK r \in Revision :
        /\ revisions[r] = NoRevision
        /\ revisions' = [revisions EXCEPT ![r] = [decision |-> d, outcome |-> o]]
        /\ SubmitOutcomes(w, d, o) =>
             tx' = [tx EXCEPT ![w] = [NoTx EXCEPT !.rev = r, !.mode = "phase2"]]
  <2>1. CASE SubmitOutcomes(w, d, o)
    BY <2>1 DEF SubmitOutcomes
  <2>2. CASE CreateOutcomeRevision(w, d, o)
    <3>1. pc'[w] = "idle"
      BY <2>2 DEF CreateOutcomeRevision
    <3>2. ~SubmitOutcomes(w, d, o)
      BY <3>1 DEF SubmitOutcomes, Goto, IInv, TypeOK
    <3> QED
      BY <2>2, <3>2 DEF CreateOutcomeRevision
  <2> QED
    BY <2>1, <2>2
<1>1. /\ \A q \in Revision : revisions[q] # NoRevision => revisions'[q] = revisions[q]
      /\ revisions'[r] # NoRevision
  <2>1. [decision |-> d, outcome |-> o] # NoRevision
    BY ConstantsOK DEF NoRevision
  <2> QED
    BY <1>0, <2>1 DEF IInv, TypeOK
<1>2. CASE SubmitOutcomes(w, d, o)
  BY <1>0, <1>1, <1>2, CallKeeps DEF SubmitOutcomes, Goto
<1>3. CASE CreateOutcomeRevision(w, d, o)
  <2>1. UNCHANGED <<exec, ledger, lock, pc, tx>>
    BY <1>3 DEF CreateOutcomeRevision
  <2>2. TableStep(Null, Null) /\ SignalInv'
    BY <1>1, <2>1, QuietTables
  <2>3. (\A v \in Worker : Bystander(Null, v)) /\ Distinct' /\ Null \notin Worker
    BY <2>1, ConstantsOK DEF Bystander, IInv, Distinct
  <2> QED
    BY <2>2, <2>3, StepKeeps
<1> QED
  BY <1>2, <1>3

-----------------------------------------------------------------------------
(* The invariant is inductive                                              *)

\* The invariant holds in the empty store.
LEMMA InitIInv == Init => IInv
<1> SUFFICES ASSUME Init PROVE IInv
  OBVIOUS
<1> USE DEF Init
<1>1. TypeOK
  BY ConstantsOK DEF TypeOK, RevisionRow, OutcomeOrNull, ExecRow, NoExec, LedgerRow,
     PC, InTx, Phase2Open, ComputeSteps, Tx, NoTx
<1>2. \A w \in Worker : WorkerInv(w)
  BY DEF WorkerInv, CallOK, LockOK, SubjectOK, SeenOK, OwnedOK, InTx, Phase2Open,
     ComputeSteps, NoTx
<1>3. Distinct
  BY DEF Distinct, NoTx
<1>4. TableInv
  BY DEF TableInv, Rows, Parents, AtMostOneActive, AttemptChain, RetriedOnce, NoExec
<1>5. SignalInv
  BY DEF SignalInv, LedgerOnlyFromCompleted, CountedSignalsAreStored, NoExec
<1> QED
  BY <1>1, <1>2, <1>3, <1>4, <1>5 DEF IInv

\* Every step keeps the invariant.
LEMMA NextIInv == IInv /\ [Next]_vars => IInv'
<1> SUFFICES ASSUME IInv, [Next]_vars PROVE IInv'
  OBVIOUS
<1>0. TypeOK' /\ TypeOK /\ \A w \in Worker : WorkerInv(w)
  BY TypeStep DEF IInv, WorkerInv
<1>1. ASSUME NEW w \in Worker, NEW d \in Decision, NEW o \in Outcome,
             SubmitOutcomes(w, d, o) \/ CreateOutcomeRevision(w, d, o)
      PROVE  IInv'
  BY <1>0, <1>1, PhaseOneKeeps
<1>2. ASSUME NEW w \in Worker, NEW r \in Revision, NEW m \in {"phase2", "begin"},
             CallForRevision(w, r, m)
      PROVE  IInv'
  BY <1>0, <1>2, CallKeeps DEF CallForRevision, Goto
<1>3. ASSUME NEW w \in Worker, NEW e \in Execution, CallReconcile(w, e)
      PROVE  IInv'
  BY <1>0, <1>3, CallReconcileKeeps
<1>4. ASSUME NEW w \in Worker, Begin(w) PROVE IInv'
  BY <1>0, <1>4, BeginKeeps
<1>5. ASSUME NEW w \in Worker, BeginReconcile(w) PROVE IInv'
  BY <1>0, <1>5, BeginReconcileKeeps
<1>6. ASSUME NEW w \in Worker, Skip(w) \/ ClaimError(w) \/ SessionCollected(w)
      PROVE  IInv'
  BY <1>0, <1>6, GiveUpKeeps
<1>6a. ASSUME NEW w \in Worker, Phase2ClaimAbandoned(w) PROVE IInv'
  BY <1>0, <1>6a, AbandonKeeps
<1>7. ASSUME NEW w \in Worker, ClaimAndCommit(w) PROVE IInv'
  BY <1>0, <1>7, ClaimAndCommitKeeps
<1>8. ASSUME NEW w \in Worker, ClaimInSession(w) PROVE IInv'
  BY <1>0, <1>8, ClaimInSessionKeeps
<1>9. ASSUME NEW w \in Worker, Compute(w) PROVE IInv'
  BY <1>0, <1>9, ComputeKeeps
<1>10. ASSUME NEW w \in Worker, PersistAndCommit(w) \/ CommitUnacknowledged(w)
       PROVE  IInv'
  BY <1>0, <1>10, CommitKeeps
<1>11. ASSUME NEW w \in Worker, Phase2Error(w) PROVE IInv'
  BY <1>0, <1>11, Phase2ErrorKeeps
<1>12. ASSUME NEW w \in Worker, NEW s \in {"completed", "failed"},
              FinishExecution(w, s)
       PROVE  IInv'
  <2>1. tx[w].exec \in Execution /\ \A row \in ledger : row.execution # tx[w].exec
    BY <1>0, <1>12 DEF FinishExecution, WorkerInv, OwnedOK
  <2> QED
    BY <1>0, <1>12, <2>1, StatusKeeps DEF FinishExecution
<1>13. ASSUME NEW w \in Worker, FinishError(w) PROVE IInv'
  BY <1>0, <1>13, ReturnKeeps DEF FinishError, Return, Goto
<1>14. ASSUME NEW w \in Worker, FailAfterRollback(w) PROVE IInv'
  <2>1. tx[w].exec \in Execution
    BY <1>0, <1>14 DEF FailAfterRollback, WorkerInv, OwnedOK
  <2>2. CASE OmittedBindIsNull
    BY <1>0, <1>14, <2>1, <2>2, StatusKeeps DEF FailAfterRollback
  <2>3. CASE ~OmittedBindIsNull
    BY <1>0, <1>14, <2>3, ReturnKeeps DEF FailAfterRollback, Return, Goto, tables
  <2> QED
    BY <2>2, <2>3
<1>15. ASSUME NEW w \in Worker, UpdateHeartbeat(w) PROVE IInv'
  <2>1. tx[w].exec \in Execution
    BY <1>0, <1>15 DEF UpdateHeartbeat, WorkerInv, OwnedOK
  <2> QED
    BY <1>0, <1>15, <2>1, BeatKeeps DEF UpdateHeartbeat, IsStale
<1>16. ASSUME NEW w \in Worker, Crash(w) PROVE IInv'
  BY <1>0, <1>16, CrashKeeps
<1>17. ASSUME NEW w \in Worker, Restart(w) PROVE IInv'
  BY <1>0, <1>17, RestartKeeps
<1>18. ASSUME NEW e \in Execution, HeartbeatExpires(e) PROVE IInv'
  BY <1>0, <1>18, BeatKeeps DEF HeartbeatExpires
<1>19. CASE UNCHANGED vars
  <2>1. TableStep(Null, Null) /\ SignalInv'
    BY <1>19, QuietTables DEF vars
  <2>2. (\A v \in Worker : Bystander(Null, v)) /\ Distinct' /\ Null \notin Worker
    BY <1>19, ConstantsOK DEF vars, Bystander, IInv, Distinct
  <2> QED
    BY <1>0, <2>1, <2>2, StepKeeps
<1> QED
  BY <1>1, <1>2, <1>3, <1>4, <1>5, <1>6, <1>6a, <1>7, <1>8, <1>9, <1>10, <1>11, <1>12,
     <1>13, <1>14, <1>15, <1>16, <1>17, <1>18, <1>19
  DEF Next, Progress

\* The inductive invariant holds in every reachable state of the learning loop.
THEOREM Invariance == Spec => []IInv
BY InitIInv, NextIInv, PTL DEF Spec

\* Every reachable state of the four tables, the advisory locks and the calls
\* of the learning execution store is well formed.
THEOREM TypeCorrect == Spec => []TypeOK
<1>1. IInv => TypeOK
  BY DEF IInv
<1> QED
  BY <1>1, Invariance, PTL

\* begin_phase2, begin_execution and reconcile_stale_execution never leave two
\* running executions of one revision, without any help from the unique index.
THEOREM OneActiveExecution == Spec => []AtMostOneActive
<1>1. IInv => AtMostOneActive
  BY DEF IInv, TableInv
<1> QED
  BY <1>1, Invariance, PTL

\* Phase 2 is atomic: no error, crash or lost COMMIT answer leaves a signal in
\* learning_memory whose execution did not complete.
THEOREM PhaseTwoAtomic == Spec => []LedgerOnlyFromCompleted
<1>1. IInv => LedgerOnlyFromCompleted
  BY DEF IInv, SignalInv
<1> QED
  BY <1>1, Invariance, PTL

\* What an execution counts in signal_count is stored in learning_memory.
THEOREM CountedStored == Spec => []CountedSignalsAreStored
<1>1. IInv => CountedSignalsAreStored
  BY DEF IInv, SignalInv
<1> QED
  BY <1>1, Invariance, PTL

\* Retries form a chain: the parent is a retired execution of the same revision,
\* one attempt earlier, and has no other retry.
THEOREM RetryChain == Spec => []RetriesLinear
<1>1. IInv => RetriesLinear
  BY DEF IInv, TableInv, RetriesLinear
<1> QED
  BY <1>1, Invariance, PTL
=============================================================================
