-------------------------- MODULE DecisionLifecycle --------------------------
(***************************************************************************)
(* The lifecycle fields of one decision, written through the gateway:      *)
(* record_execution stores an execution record and then, in a transaction  *)
(* of its own, the decision's status; submit_decision_outcomes stores the  *)
(* outcomes and runs the learning loop, along one of three paths that the  *)
(* gateway's configuration chooses.  Requests interleave and fail at any   *)
(* await; a client may ask again.  The handlers require the commit action, *)
(* which AccessRules models.                                               *)
(***************************************************************************)
EXTENDS Naturals, FiniteSets

CONSTANTS LifeClients,    \* concurrent requests to record an execution
          OutClients,     \* and to submit outcomes
          ExecTimes,      \* values of executed_at
          ExecKinds,      \* the execution statuses the clients report
          MaxLifeFaults   \* bound on failing database calls

ExecutionStatuses == {"executed", "failed", "cancelled", "unknown"}

ASSUME LifeAssumption ==
    0 \notin ExecTimes /\ ExecKinds \subseteq ExecutionStatuses /\ MaxLifeFaults \in Nat

VARIABLES learning,    \* the configuration: "h3", "legacy" or "none"
          life,        \* the decision's lifecycle fields
          execRecord,  \* executed_at -> status of the record, "none" where there is none
          lastRecord,  \* executed_at of the latest record (created_at), 0 at first
          execReq,     \* requests to record an execution
          outReq,      \* requests to submit outcomes: "idle", "learn" or the answer
          lifeFaults,
          disturbed    \* history: something interfered since a request last began alone

lifeVars == <<learning, life, execRecord, lastRecord, execReq, outReq, lifeFaults, disturbed>>

OutcomeAnswers == {"completed", "skipped", "failed", "pending", "error"}
NoExecRequest == [stage |-> "idle", status |-> "none", at |-> 0]

LifeInit ==
    /\ learning \in {"h3", "legacy", "none"}
    /\ life = [status |-> "absent", outcome |-> "pending"]
    /\ execRecord = [t \in ExecTimes |-> "none"]
    /\ lastRecord = 0
    /\ execReq = [c \in LifeClients |-> NoExecRequest]
    /\ outReq = [c \in OutClients |-> "idle"]
    /\ lifeFaults = 0
    /\ disturbed = FALSE

\* The decision service inserts the row; its content never changes afterwards.
DecisionCommitted ==
    /\ life.status = "absent"
    /\ life' = [life EXCEPT !.status = "committed"]
    /\ UNCHANGED <<learning, execRecord, lastRecord, execReq, outReq, lifeFaults, disturbed>>

-----------------------------------------------------------------------------
(* record_execution                                                         *)

InFlight == {c \in LifeClients : execReq[c].stage \in {"verified", "recorded"}}

\* The request is valid and the decision exists; otherwise the handler answers
\* 400 or 404 and nothing changes.  A body without executed_at takes the time
\* of the attempt, so asking again may name another time.
VerifyExecution(c) ==
    /\ execReq[c].stage \in {"idle", "again"}
    /\ life.status # "absent"
    /\ \E s \in ExecKinds, t \in ExecTimes :
         /\ execReq[c].stage = "again" => s = execReq[c].status
         /\ execReq' = [execReq EXCEPT ![c] = [stage |-> "verified", status |-> s, at |-> t]]
    /\ disturbed' = (InFlight # {})
    /\ UNCHANGED <<learning, life, execRecord, lastRecord, outReq, lifeFaults>>

\* Mutant: one record per decision, whatever the time: a later one is dropped.
StoredUnderNoTime(t) == IF lastRecord = 0 THEN t ELSE lastRecord

\* The id of a record: tenant, decision and executed_at.
StoredUnder(t) == t

\* INSERT ... ON CONFLICT (id) DO NOTHING, committed on its own.  The handler
\* does not look whether its row went in.
InsertRecord(c) ==
    LET r == execReq[c]
        key == StoredUnder(r.at)
    IN
    /\ r.stage = "verified"
    /\ execRecord' = [execRecord EXCEPT ![key] = IF @ = "none" THEN r.status ELSE @]
    /\ lastRecord' = IF execRecord[key] = "none" THEN key ELSE lastRecord
    /\ execReq' = [execReq EXCEPT ![c].stage = "recorded"]
    /\ disturbed' = (disturbed \/ execRecord[r.at] \notin {"none", r.status}
                              \/ (execRecord[r.at] = r.status /\ lastRecord # r.at))
    /\ UNCHANGED <<learning, life, outReq, lifeFaults>>

DecisionStatus(s) == IF s \in {"failed", "cancelled"} THEN "rolled_back" ELSE "executing"

\* Mutant: the status is written before the record.
UpdateDecisionFirst(c) ==
    /\ execReq[c].stage \in {"verified", "recorded"}
    /\ life' = [life EXCEPT !.status = DecisionStatus(execReq[c].status)]
    /\ execReq' = [execReq EXCEPT ![c] = NoExecRequest]
    /\ UNCHANGED <<learning, execRecord, lastRecord, outReq, lifeFaults, disturbed>>

\* The decision's status (and executed_at), without a look at what they were.
UpdateDecision(c) ==
    /\ execReq[c].stage = "recorded"
    /\ life' = [life EXCEPT !.status = DecisionStatus(execReq[c].status)]
    /\ execReq' = [execReq EXCEPT ![c] = NoExecRequest]
    /\ UNCHANGED <<learning, execRecord, lastRecord, outReq, lifeFaults, disturbed>>

\* A database call fails: 500, and what was committed before stays.
ExecutionFails(c) ==
    /\ execReq[c].stage \in {"verified", "recorded"}
    /\ lifeFaults < MaxLifeFaults
    /\ lifeFaults' = lifeFaults + 1
    /\ execReq' = [execReq EXCEPT ![c] = [@ EXCEPT !.stage = "again", !.at = 0]]
    /\ disturbed' = TRUE
    /\ UNCHANGED <<learning, life, execRecord, lastRecord, outReq>>

-----------------------------------------------------------------------------
(* submit_decision_outcomes                                                 *)

\* The outcomes are stored (with executed_at, which nothing here reads): one
\* transaction, of LearningExecutionStore or of DecisionReadStore.
OutcomesStored(c) ==
    /\ outReq[c] = "idle"
    /\ life.status # "absent"
    /\ life' = [life EXCEPT !.outcome = "observed"]
    /\ outReq' = [outReq EXCEPT ![c] = IF learning = "none" THEN "pending" ELSE "learn"]
    /\ UNCHANGED <<learning, execRecord, lastRecord, execReq, lifeFaults, disturbed>>

\* Mutant: the answer of the other paths too is that the outcomes were stored.
OutcomesRefusedAnyway(c) ==
    /\ outReq[c] = "idle"
    /\ life.status = "absent" \/ lifeFaults < MaxLifeFaults
    /\ lifeFaults' = IF life.status = "absent" THEN lifeFaults ELSE lifeFaults + 1
    /\ outReq' = [outReq EXCEPT ![c] = "failed"]
    /\ UNCHANGED <<learning, life, execRecord, lastRecord, execReq, disturbed>>

\* No such decision, no outcomes, or a database error.  On the H3 path the
\* same "except" as for the learning loop answers.
OutcomesRefused(c) ==
    /\ outReq[c] = "idle"
    /\ life.status = "absent" \/ lifeFaults < MaxLifeFaults
    /\ lifeFaults' = IF life.status = "absent" THEN lifeFaults ELSE lifeFaults + 1
    /\ outReq' = [outReq EXCEPT ![c] = IF learning = "h3" THEN "failed" ELSE "error"]
    /\ UNCHANGED <<learning, life, execRecord, lastRecord, execReq, disturbed>>

\* The learning loop runs after the outcomes are committed and cannot undo
\* them.  The H3 loop may find its work done; the legacy loop computes its
\* signals and then always raises, as it calls _persist_learning_signal with
\* positional arguments that the function does not take.
LearningEnds(c) ==
    /\ outReq[c] = "learn"
    /\ \E end \in IF learning = "h3" THEN {"completed", "skipped", "failed"} ELSE {"failed"} :
         outReq' = [outReq EXCEPT ![c] = end]
    /\ UNCHANGED <<learning, life, execRecord, lastRecord, execReq, lifeFaults, disturbed>>

OutcomesAnswered(c) ==
    /\ outReq[c] \in OutcomeAnswers
    /\ outReq' = [outReq EXCEPT ![c] = "idle"]
    /\ UNCHANGED <<learning, life, execRecord, lastRecord, execReq, lifeFaults, disturbed>>

LifeNext ==
    \/ DecisionCommitted
    \/ \E c \in LifeClients :
         VerifyExecution(c) \/ InsertRecord(c) \/ UpdateDecision(c) \/ ExecutionFails(c)
    \/ \E c \in OutClients :
         OutcomesStored(c) \/ OutcomesRefused(c) \/ LearningEnds(c) \/ OutcomesAnswered(c)

LifeSpec == LifeInit /\ [][LifeNext]_lifeVars

-----------------------------------------------------------------------------
(* Properties                                                               *)

\* No decision counts as carried out without an execution record of it: the
\* record is committed first, whatever fails afterwards.
StatusHasRecord ==
    life.status \in {"executing", "rolled_back"} => \E t \in ExecTimes : execRecord[t] # "none"

\* With no request under way, the status is the one the latest record calls
\* for, unless requests overlapped, one failed between its two transactions,
\* or one named a time that already had another record.
StatusFollowsLast ==
    InFlight = {} /\ ~disturbed /\ lastRecord # 0 =>
        life.status = IF execRecord[lastRecord] \in {"failed", "cancelled"}
                      THEN "rolled_back" ELSE "executing"

\* An answer other than an error means that the outcomes are stored, except
\* "failed" on the H3 path, which also covers outcomes that were refused.
OutcomeAnswerTrue ==
    \A c \in OutClients :
        \/ outReq[c] \in {"completed", "skipped", "pending"}
        \/ outReq[c] = "failed" /\ learning # "h3"
        => life.outcome = "observed"

\* The decision's row tells the truth: its status rests on the records that
\* record_execution wrote, its outcomes on the answers of submit_outcomes.
LifecycleTrue == StatusHasRecord /\ StatusFollowsLast /\ OutcomeAnswerTrue

=============================================================================
