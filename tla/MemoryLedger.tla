---------------------------- MODULE MemoryLedger ----------------------------
(***************************************************************************)
(* MemoryStore.persist (libs/memory/memory_ledger.py), as the gateway's    *)
(* persist_learning_memory calls it: several requests present signals for *)
(* one target.  A signal already stored is not stored again; the answer   *)
(* is then the latest record of the target, read in another session.      *)
(*                                                                         *)
(* created_at is the start of the inserting transaction (DEFAULT now()).  *)
(* An insert waits for another transaction that holds the same key.       *)
(***************************************************************************)
EXTENDS Naturals, FiniteSets

CONSTANTS
    LedgerCallers,   \* requests in flight at once
    LedgerSignals,   \* signals of the target, by their hash
    MaxPersists,     \* bound: calls made
    MaxLedgerFaults  \* bound: transactions that fail

VARIABLES
    ledgerRows,        \* committed rows of learning_memory for the target
    persister,     \* the calls in progress
    ledgerClock,   \* transactions begun
    ledgerFaults   \* failures so far

ledgerVars == <<ledgerRows, persister, ledgerClock, ledgerFaults>>

NoRecord == [sig |-> "none", at |-> 0]
Unasked == [at |-> "rest", sig |-> "none", began |-> 0, answer |-> NoRecord]

LedgerInit ==
    /\ ledgerRows = {}
    /\ persister = [c \in LedgerCallers |-> Unasked]
    /\ ledgerClock = 0
    /\ ledgerFaults = 0
-----------------------------------------------------------------------------
\* persist_learning_memory with a valid target: the transaction begins.
PersistBegins(c, s) ==
    /\ persister[c].at \in {"rest", "answered"}
    /\ ledgerClock < MaxPersists
    /\ ledgerClock' = ledgerClock + 1
    /\ persister' = [persister EXCEPT ![c] =
            [at |-> "begun", sig |-> s, began |-> ledgerClock + 1, answer |-> NoRecord]]
    /\ UNCHANGED <<ledgerRows, ledgerFaults>>

\* Mutant: the conflict is on the target, without signal_hash.
ConflictsByTarget(c) == ledgerRows # {}

\* ON CONFLICT (tenant_id, target_type, target_id, signal_hash).
Conflicts(c) == \E r \in ledgerRows : r.sig = persister[c].sig

\* _INSERT_SQL, once no other transaction holds the key.
PersistInserts(c) ==
    /\ persister[c].at = "begun"
    /\ \A o \in LedgerCallers : persister[o].at = "inserted" => persister[o].sig # persister[c].sig
    /\ persister' = [persister EXCEPT ![c].at = IF Conflicts(c) THEN "conflict" ELSE "inserted"]
    /\ UNCHANGED <<ledgerRows, ledgerClock, ledgerFaults>>

\* session.commit: the new row is the answer.
PersistCommits(c) ==
    LET row == [sig |-> persister[c].sig, at |-> persister[c].began] IN
    /\ persister[c].at = "inserted"
    /\ ledgerRows' = ledgerRows \cup {row}
    /\ persister' = [persister EXCEPT ![c].at = "answered", ![c].answer = row]
    /\ UNCHANGED <<ledgerClock, ledgerFaults>>

\* get_latest: ORDER BY created_at DESC LIMIT 1.
GetLatest == CHOOSE r \in ledgerRows : \A q \in ledgerRows : q.at <= r.at

\* The signal was stored before: the latest record of the target is answered.
PersistRefetches(c) ==
    /\ persister[c].at = "conflict"
    /\ persister' = [persister EXCEPT ![c].at = "answered", ![c].answer = GetLatest]
    /\ UNCHANGED <<ledgerRows, ledgerClock, ledgerFaults>>

\* A statement fails: the transaction is rolled back and the request fails.
PersistFails(c) ==
    /\ persister[c].at \in {"begun", "inserted", "conflict"}
    /\ ledgerFaults < MaxLedgerFaults
    /\ ledgerFaults' = ledgerFaults + 1
    /\ persister' = [persister EXCEPT ![c] = Unasked]
    /\ UNCHANGED <<ledgerRows, ledgerClock>>

\* The client takes the answer.
PersistTaken(c) ==
    /\ persister[c].at = "answered"
    /\ persister' = [persister EXCEPT ![c] = Unasked]
    /\ UNCHANGED <<ledgerRows, ledgerClock, ledgerFaults>>

\* The bound on calls is reached and every answer taken.
LedgerQuiet ==
    /\ ledgerClock = MaxPersists
    /\ \A c \in LedgerCallers : persister[c].at = "rest"
    /\ UNCHANGED ledgerVars
-----------------------------------------------------------------------------
LedgerNext ==
    \/ LedgerQuiet
    \/ \E c \in LedgerCallers :
        \/ \E s \in LedgerSignals : PersistBegins(c, s)
        \/ PersistInserts(c) \/ PersistCommits(c) \/ PersistRefetches(c)
        \/ PersistFails(c) \/ PersistTaken(c)

LedgerSpec == LedgerInit /\ [][LedgerNext]_ledgerVars
-----------------------------------------------------------------------------
\* An answered call means that the presented signal is stored, once, and the
\* answer is no older than its row.  The answer may be the record of another
\* signal: one that was presented before the answer and is more recent.
AnswerMeansStored ==
    \A c \in LedgerCallers : persister[c].at = "answered" =>
        /\ Cardinality({r \in ledgerRows : r.sig = persister[c].sig}) = 1
        /\ \A r \in ledgerRows : r.sig = persister[c].sig => r.at <= persister[c].answer.at
=============================================================================
