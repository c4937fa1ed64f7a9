---------------------- MODULE ContextActivationProofs ----------------------
(***************************************************************************)
(* For any number of activators, purposes, versions and failures a purpose *)
(* has at most one active context and no INSERT meets another one (IInv),  *)
(* and with a single activator a purpose that has contexts has an active   *)
(* one (SInv).  The first rests on the lock: what a transaction retired is *)
(* still all there is when it inserts, because nobody else can have        *)
(* committed for this purpose since.  The second also needs that a single  *)
(* activator never works on older evidence than the contexts it has saved. *)
(***************************************************************************)
EXTENDS ContextActivation, TLAPS

InTransaction(a) == act[a].pc \in {"locked", "deactivated"}

\* A transaction holds the lock of its purpose, and of no other.
LockDiscipline ==
    \A a \in Activator :
        /\ InTransaction(a) => \E p \in Purpose : act[a].cur = {p} /\ lock[p] = a
        /\ ~InTransaction(a) => act[a].cur = {}
        /\ act[a].pc \in {"ready", "locked", "deactivated"} => act[a].seen \in Version

\* What a transaction has retired is what is active and not its own.
RetiredIsActive ==
    \A a \in Activator : act[a].pc = "deactivated" =>
        \A p \in act[a].cur : act[a].retired = Active(p) \ {act[a].seen}

IInv == TypeOK /\ LockDiscipline /\ RetiredIsActive /\ AtMostOneActive

-----------------------------------------------------------------------------
(* The lock                                                                *)

LEMMA InitIInv == Init => IInv
<1>. SUFFICES ASSUME Init PROVE IInv
    OBVIOUS
<1>1. Fresh("idle") \in ActivatorState /\ Fresh("off") \in ActivatorState
    BY ActivationConstants DEF Fresh, ActivatorState, Version
<1>2. TypeOK
    BY <1>1, ActivationConstants DEF Init, TypeOK
<1>3. LockDiscipline /\ RetiredIsActive
    <2>1. \A a \in Activator : act[a] \in {Fresh("idle"), Fresh("off")}
        BY DEF Init
    <2>2. \A a \in Activator : act[a].pc \in {"idle", "off"} /\ act[a].cur = {}
        BY <2>1 DEF Fresh
    <2>. QED BY <2>2 DEF LockDiscipline, RetiredIsActive, InTransaction
<1>4. AtMostOneActive
    BY DEF Init, AtMostOneActive, Active
<1>. QED BY <1>2, <1>3, <1>4 DEF IInv

\* A step of an activator a that keeps the contexts, and the locks of the
\* others, only has to be right about a itself.
LEMMA QuietStep ==
    ASSUME IInv, NEW a \in Activator, NEW y \in ActivatorState,
           act' = [act EXCEPT ![a] = y], UNCHANGED contexts,
           evidence' \in 0..MaxEvidence, faults' \in Nat,
           lock' \in [Purpose -> Activator \cup {NoOne}],
           \A p \in Purpose : lock[p] # a /\ lock[p] # NoOne => lock'[p] = lock[p],
           y.pc \in {"locked", "deactivated"} => \E p \in Purpose : y.cur = {p} /\ lock'[p] = a,
           y.pc \notin {"locked", "deactivated"} => y.cur = {},
           y.pc \in {"ready", "locked", "deactivated"} => y.seen \in Version,
           y.pc = "deactivated" => \A p \in y.cur : y.retired = Active(p) \ {y.seen}
    PROVE  IInv'
<1>1. \A b \in Activator : act'[b] = IF b = a THEN y ELSE act[b]
    BY DEF IInv, TypeOK
<1>2. TypeOK'
    BY DEF IInv, TypeOK
<1>3. LockDiscipline'
    <2>. SUFFICES ASSUME NEW b \in Activator
                  PROVE  /\ InTransaction(b)' => \E p \in Purpose : act'[b].cur = {p} /\ lock'[p] = b
                         /\ ~InTransaction(b)' => act'[b].cur = {}
                         /\ act'[b].pc \in {"ready", "locked", "deactivated"} => act'[b].seen \in Version
        BY DEF LockDiscipline
    <2>1. CASE b = a
        BY <1>1, <2>1 DEF InTransaction
    <2>2. CASE b # a
        BY <1>1, <2>2, ActivationConstants DEF IInv, LockDiscipline, InTransaction
    <2>. QED BY <2>1, <2>2
<1>4. RetiredIsActive' /\ AtMostOneActive'
    <2>1. \A p : Active(p)' = Active(p)
        BY DEF Active
    <2>. QED BY <1>1, <2>1 DEF IInv, RetiredIsActive, AtMostOneActive
<1>. QED BY <1>2, <1>3, <1>4 DEF IInv

\* The end of a transaction of a, with the contexts of its purpose p replaced
\* by rows with at most one active.
LEMMA Ends ==
    ASSUME IInv, NEW a \in Activator, InTransaction(a), NEW y \in ActivatorState,
           act' = [act EXCEPT ![a] = y], y.cur = {}, y.pc \in {"ready", "down"},
           y.pc = "ready" => y.seen = act[a].seen,
           lock' = [p \in Purpose |-> IF p \in act[a].cur THEN NoOne ELSE lock[p]],
           evidence' \in 0..MaxEvidence, faults' \in Nat,
           NEW rows \in [Version -> {"none", "active", "inactive"}],
           \A v, w \in Version : rows[v] = "active" /\ rows[w] = "active" => v = w,
           \E p \in act[a].cur : contexts' = [contexts EXCEPT ![p] = rows]
    PROVE  IInv'
<1>1. PICK p \in Purpose : act[a].cur = {p} /\ lock[p] = a
    BY DEF IInv, LockDiscipline
<1>2. contexts' = [contexts EXCEPT ![p] = rows]
    BY <1>1
<1>3. \A b \in Activator : act'[b] = IF b = a THEN y ELSE act[b]
    BY DEF IInv, TypeOK
<1>4. \A q \in Purpose : contexts'[q] = IF q = p THEN rows ELSE contexts[q]
    BY <1>2 DEF IInv, TypeOK
<1>5. TypeOK'
    BY <1>2 DEF IInv, TypeOK
<1>6. \A b \in Activator \ {a} : InTransaction(b) => p \notin act[b].cur
    BY <1>1 DEF IInv, LockDiscipline
<1>7. LockDiscipline'
    <2>. SUFFICES ASSUME NEW b \in Activator
                  PROVE  /\ InTransaction(b)' => \E q \in Purpose : act'[b].cur = {q} /\ lock'[q] = b
                         /\ ~InTransaction(b)' => act'[b].cur = {}
                         /\ act'[b].pc \in {"ready", "locked", "deactivated"} => act'[b].seen \in Version
        BY DEF LockDiscipline
    <2>1. CASE b = a
        BY <1>3, <2>1 DEF InTransaction, IInv, LockDiscipline
    <2>2. CASE b # a
        BY <1>1, <1>3, <1>6, <2>2 DEF InTransaction, IInv, LockDiscipline
    <2>. QED BY <2>1, <2>2
<1>8. RetiredIsActive'
    <2>. SUFFICES ASSUME NEW b \in Activator, act'[b].pc = "deactivated", NEW q \in act'[b].cur
                  PROVE  act'[b].retired = Active(q)' \ {act'[b].seen}
        BY DEF RetiredIsActive
    <2>1. b # a /\ act'[b] = act[b]
        BY <1>3
    <2>2. q # p /\ q \in Purpose
        BY <1>1, <1>6, <2>1 DEF InTransaction, IInv, LockDiscipline
    <2>3. Active(q)' = Active(q)
        BY <1>4, <2>2 DEF Active
    <2>. QED BY <2>1, <2>3 DEF IInv, RetiredIsActive
<1>9. AtMostOneActive'
    <2>. SUFFICES ASSUME NEW q \in Purpose, NEW v \in Active(q)', NEW w \in Active(q)'
                  PROVE  v = w
        BY DEF AtMostOneActive
    <2>1. CASE q = p
        BY <1>4, <2>1 DEF Active
    <2>2. CASE q # p
        BY <1>4, <2>2 DEF Active, IInv, AtMostOneActive
    <2>. QED BY <2>1, <2>2
<1>. QED BY <1>5, <1>7, <1>8, <1>9 DEF IInv

\* The rows a transaction commits: its own or none is active.
LEMMA SavedRows ==
    ASSUME IInv, NEW a \in Activator, act[a].pc = "deactivated", NEW p \in act[a].cur
    PROVE  /\ p \in Purpose /\ act[a].seen \in Version
           /\ Saved(a, p) \in [Version -> {"none", "active", "inactive"}]
           /\ \A v \in Version : Saved(a, p)[v] = "active" => v = act[a].seen
<1>1. p \in Purpose /\ act[a].seen \in Version /\ act[a].retired = Active(p) \ {act[a].seen}
    BY DEF IInv, TypeOK, LockDiscipline, InTransaction, RetiredIsActive
<1>2. contexts[p] \in [Version -> {"none", "active", "inactive"}]
    BY <1>1 DEF IInv, TypeOK
<1>. QED BY <1>1, <1>2 DEF Saved, Active

LEMMA NextIInv == IInv /\ [Next]_vars => IInv'
<1>. SUFFICES ASSUME IInv, [Next]_vars PROVE IInv'
    OBVIOUS
<1>. USE ActivationConstants
<1>0. /\ evidence \in 0..MaxEvidence /\ faults \in Nat /\ faults + 1 \in Nat
      /\ lock \in [Purpose -> Activator \cup {NoOne}]
      /\ \A a \in Activator : act[a] \in ActivatorState
    BY DEF IInv, TypeOK
<1>1. CASE Organize
    <2>1. TypeOK'
        BY <1>1 DEF Organize, IInv, TypeOK
    <2>2. LockDiscipline' /\ RetiredIsActive' /\ AtMostOneActive'
        BY <1>1 DEF Organize, IInv, LockDiscipline, RetiredIsActive, AtMostOneActive, Active, InTransaction
    <2>. QED BY <2>1, <2>2 DEF IInv
<1>2. ASSUME NEW a \in Activator, ReadEvidence(a) PROVE IInv'
    <2>. DEFINE y == [pc |-> "ready", seen |-> evidence, todo |-> Purpose, cur |-> {}, retired |-> {}]
    <2>1. y \in ActivatorState
        BY <1>0 DEF ActivatorState
    <2>2. y.pc = "ready" /\ y.cur = {} /\ y.seen \in Version
        BY <1>0, <1>2 DEF ReadEvidence, Version
    <2>3. act' = [act EXCEPT ![a] = y] /\ UNCHANGED <<evidence, contexts, lock, faults>>
        BY <1>2 DEF ReadEvidence
    <2>. HIDE DEF y
    <2>. QED BY <1>0, <2>1, <2>2, <2>3, QuietStep
<1>3. ASSUME NEW a \in Activator, NEW x \in {"idle", "down"}, ~InTransaction(a),
             act' = [act EXCEPT ![a] = Fresh(x)], UNCHANGED <<evidence, contexts, lock>>, faults' \in Nat
      PROVE  IInv'
    <2>1. Fresh(x) \in ActivatorState
        BY DEF Fresh, ActivatorState, Version
    <2>2. Fresh(x).pc = x /\ Fresh(x).cur = {}
        BY DEF Fresh
    <2>. QED BY <1>0, <1>3, <2>1, <2>2, QuietStep
<1>4. ASSUME NEW a \in Activator, EndCycle(a) \/ Restart(a) PROVE IInv'
    BY <1>0, <1>3, <1>4 DEF EndCycle, Restart, InTransaction
<1>5. ASSUME NEW a \in Activator, NEW p \in Purpose, Acquire(a, p) PROVE IInv'
    <2>. DEFINE x == act[a]
                y == [x EXCEPT !.pc = "locked", !.cur = {p}, !.todo = x.todo \ {p}]
    <2>1. x \in ActivatorState /\ x.seen \in Version
        BY <1>0, <1>5 DEF Acquire, IInv, LockDiscipline
    <2>2. act' = [act EXCEPT ![a] = y] /\ lock' = [lock EXCEPT ![p] = a] /\ lock[p] = NoOne
          /\ UNCHANGED <<evidence, contexts, faults>>
        BY <1>5 DEF Acquire, Enter
    <2>3. y \in ActivatorState /\ y.pc = "locked" /\ y.cur = {p} /\ y.seen \in Version
        <3>. HIDE DEF x
        <3>. QED BY <2>1 DEF ActivatorState
    <2>4. lock' \in [Purpose -> Activator \cup {NoOne}] /\ lock'[p] = a
          /\ \A q \in Purpose : lock[q] # a /\ lock[q] # NoOne => lock'[q] = lock[q]
        BY <1>0, <2>2
    <2>. HIDE DEF y
    <2>. QED BY <1>0, <2>2, <2>3, <2>4, QuietStep
<1>6. ASSUME NEW a \in Activator, Deactivate(a) PROVE IInv'
    <2>1. PICK p \in Purpose : act[a].cur = {p} /\ lock[p] = a
        BY <1>6 DEF Deactivate, IInv, LockDiscipline, InTransaction
    <2>. DEFINE x == act[a]
                y == [x EXCEPT !.pc = "deactivated", !.retired = Active(p) \ {x.seen}]
    <2>2. x \in ActivatorState /\ x.cur = {p} /\ x.seen \in Version
        BY <1>0, <1>6, <2>1 DEF Deactivate, IInv, LockDiscipline
    <2>3. act' = [act EXCEPT ![a] = y] /\ UNCHANGED <<evidence, contexts, lock, faults>>
        BY <1>6, <2>1 DEF Deactivate
    <2>4. /\ y \in ActivatorState /\ y.pc = "deactivated" /\ y.cur = {p} /\ y.seen = x.seen
          /\ y.retired = Active(p) \ {y.seen}
        <3>. HIDE DEF x
        <3>1. Active(p) \ {x.seen} \in SUBSET Version
            BY DEF Active
        <3>. QED BY <2>2, <3>1 DEF ActivatorState
    <2>5. y.seen \in Version
        BY <2>2, <2>4
    <2>. HIDE DEF y, x
    <2>. QED BY <1>0, <2>1, <2>3, <2>4, <2>5, QuietStep
<1>7. ASSUME NEW a \in Activator, InTransaction(a), Leave(a), evidence' = evidence, faults' \in Nat,
             \/ UNCHANGED contexts
             \/ /\ act[a].pc = "deactivated"
                /\ \E p \in act[a].cur : contexts' = [contexts EXCEPT ![p] = Saved(a, p)]
      PROVE  IInv'
    <2>. DEFINE x == act[a]
                y == [x EXCEPT !.pc = "ready", !.cur = {}, !.retired = {}]
    <2>1. x \in ActivatorState
        BY <1>0
    <2>2. act' = [act EXCEPT ![a] = y]
          /\ lock' = [p \in Purpose |-> IF p \in act[a].cur THEN NoOne ELSE lock[p]]
        BY <1>7 DEF Leave
    <2>3. y \in ActivatorState /\ y.pc = "ready" /\ y.cur = {} /\ y.seen = x.seen
        <3>. HIDE DEF x
        <3>. QED BY <2>1 DEF ActivatorState
    <2>4. PICK p \in Purpose : act[a].cur = {p}
        BY <1>7 DEF IInv, LockDiscipline
    <2>5. CASE UNCHANGED contexts
        <3>1. contexts' = [contexts EXCEPT ![p] = contexts[p]]
            BY <2>5 DEF IInv, TypeOK
        <3>2. /\ contexts[p] \in [Version -> {"none", "active", "inactive"}]
              /\ \A v, w \in Version : contexts[p][v] = "active" /\ contexts[p][w] = "active" => v = w
            BY DEF IInv, TypeOK, AtMostOneActive, Active
        <3>. HIDE DEF y
        <3>. QED BY <1>0, <1>7, <2>2, <2>3, <2>4, <3>1, <3>2, Ends
    <2>6. CASE act[a].pc = "deactivated" /\ contexts' = [contexts EXCEPT ![p] = Saved(a, p)]
        <3>1. /\ Saved(a, p) \in [Version -> {"none", "active", "inactive"}]
              /\ \A v, w \in Version : Saved(a, p)[v] = "active" /\ Saved(a, p)[w] = "active" => v = w
            BY <2>4, <2>6, SavedRows
        <3>. HIDE DEF y
        <3>. QED BY <1>0, <1>7, <2>2, <2>3, <2>4, <2>6, <3>1, Ends
    <2>. QED BY <1>7, <2>4, <2>5, <2>6
<1>8. ASSUME NEW a \in Activator, InsertAndCommit(a) PROVE IInv'
    BY <1>0, <1>7, <1>8 DEF InsertAndCommit, InTransaction
<1>9. ASSUME NEW a \in Activator, SaveError(a) PROVE IInv'
    BY <1>0, <1>7, <1>9 DEF SaveError, InTransaction
<1>10. ASSUME NEW a \in Activator, Crash(a) PROVE IInv'
    <2>1. /\ act' = [act EXCEPT ![a] = Fresh("down")] /\ UNCHANGED <<evidence, contexts>>
          /\ lock' = [p \in Purpose |-> IF p \in act[a].cur THEN NoOne ELSE lock[p]]
          /\ faults' \in Nat
        BY <1>0, <1>10 DEF Crash
    <2>2. CASE InTransaction(a)
        <3>1. PICK p \in Purpose : act[a].cur = {p}
            BY <2>2 DEF IInv, LockDiscipline
        <3>2. contexts' = [contexts EXCEPT ![p] = contexts[p]]
            BY <2>1 DEF IInv, TypeOK
        <3>3. /\ contexts[p] \in [Version -> {"none", "active", "inactive"}]
              /\ \A v, w \in Version : contexts[p][v] = "active" /\ contexts[p][w] = "active" => v = w
            BY DEF IInv, TypeOK, AtMostOneActive, Active
        <3>4. Fresh("down") \in ActivatorState /\ Fresh("down").pc = "down" /\ Fresh("down").cur = {}
            BY DEF Fresh, ActivatorState, Version
        <3>. QED BY <1>0, <2>1, <2>2, <3>1, <3>2, <3>3, <3>4, Ends
    <2>3. CASE ~InTransaction(a)
        <3>1. lock' = lock
            BY <1>0, <2>1, <2>3 DEF IInv, LockDiscipline
        <3>. QED BY <1>3, <2>1, <2>3, <3>1
    <2>. QED BY <2>2, <2>3
<1>11. CASE UNCHANGED vars
    BY <1>11 DEF vars, IInv, TypeOK, LockDiscipline, RetiredIsActive, AtMostOneActive, Active, InTransaction
<1>. QED
    BY <1>1, <1>2, <1>4, <1>5, <1>6, <1>8, <1>9, <1>10, <1>11 DEF Next, Cycle

-----------------------------------------------------------------------------
(* A single activator                                                      *)

Row(p, v) == contexts[p][v] # "none"

\* No context is of more evidence than there is, or than a running cycle saw.
CycleIsNewest ==
    /\ \A p \in Purpose, v \in Version : Row(p, v) =>
        /\ v <= evidence
        /\ \A a \in Activator : act[a].pc \in {"ready", "locked", "deactivated"} => v <= act[a].seen
    /\ \A a \in Activator : act[a].pc \in {"ready", "locked", "deactivated"} => act[a].seen <= evidence

\* The context of the most evidence is active.
NewestIsActive ==
    \A p \in Purpose :
        \/ \A v \in Version : ~Row(p, v)
        \/ \E v \in Version : contexts[p][v] = "active" /\ \A w \in Version : Row(p, w) => w <= v

SInv == Single /\ CycleIsNewest /\ NewestIsActive

LEMMA InitSInv == Single /\ Init => SInv
<1>. SUFFICES ASSUME Single, Init PROVE SInv
    OBVIOUS
<1>1. \A a \in Activator : act[a].pc \in {"idle", "off"}
    <2>1. \A a \in Activator : act[a] \in {Fresh("idle"), Fresh("off")}
        BY DEF Init
    <2>. QED BY <2>1 DEF Fresh
<1>2. \A p \in Purpose, v \in Version : ~Row(p, v)
    BY DEF Init, Row
<1>. QED BY <1>1, <1>2 DEF SInv, CycleIsNewest, NewestIsActive

\* A step that keeps the contexts keeps SInv, if a cycle that goes on keeps
\* what it saw and one that starts sees all the evidence.
LEMMA QuietSInv ==
    ASSUME IInv, SInv, Single', UNCHANGED contexts, evidence' \in Nat, evidence <= evidence',
           \A a \in Activator : act'[a].pc \in {"ready", "locked", "deactivated"} =>
                \/ act[a].pc \in {"ready", "locked", "deactivated"} /\ act'[a].seen = act[a].seen
                \/ act'[a].seen = evidence
    PROVE  SInv'
<1>1. evidence \in Nat /\ Version \subseteq Nat
    BY ActivationConstants DEF IInv, TypeOK, Version
<1>2. CycleIsNewest'
    <2>1. \A a \in Activator : act[a].seen \in Nat
        BY ActivationConstants DEF IInv, TypeOK, ActivatorState
    <2>2. \A p, v : Row(p, v)' <=> Row(p, v)
        BY DEF Row
    <2>3. ASSUME NEW p \in Purpose, NEW v \in Version, Row(p, v)
          PROVE  /\ v <= evidence'
                 /\ \A a \in Activator : act'[a].pc \in {"ready", "locked", "deactivated"} => v <= act'[a].seen
        <3>1. v \in Nat /\ v <= evidence
            BY <1>1, <2>3 DEF SInv, CycleIsNewest
        <3>2. \A a \in Activator : act[a].pc \in {"ready", "locked", "deactivated"} => v <= act[a].seen
            BY <2>3 DEF SInv, CycleIsNewest
        <3>. QED BY <1>1, <3>1, <3>2
    <2>4. ASSUME NEW a \in Activator, act'[a].pc \in {"ready", "locked", "deactivated"}
          PROVE  act'[a].seen <= evidence'
        <3>1. act[a].pc \in {"ready", "locked", "deactivated"} => act[a].seen <= evidence
            BY DEF SInv, CycleIsNewest
        <3>. QED BY <1>1, <2>1, <2>4, <3>1
    <2>. QED BY <2>2, <2>3, <2>4 DEF CycleIsNewest
<1>3. NewestIsActive'
    BY DEF SInv, NewestIsActive, Row
<1>. QED BY <1>2, <1>3 DEF SInv

\* The commit of the only activator.
LEMMA CommitSInv ==
    ASSUME IInv, SInv, Single', NEW a \in Activator, act[a].pc = "deactivated", Leave(a), evidence' = evidence,
           NEW p \in act[a].cur, contexts' = [contexts EXCEPT ![p] = Saved(a, p)]
    PROVE  SInv'
<1>. DEFINE n == act[a].seen
<1>1. p \in Purpose /\ n \in Version /\ Version \subseteq Nat /\ evidence \in Nat
    BY SavedRows, ActivationConstants DEF IInv, TypeOK, Version
<1>2. act[a].retired = Active(p) \ {n}
    BY DEF IInv, RetiredIsActive
<1>3. \A v \in Version : contexts'[p][v] =
        IF v \in act[a].retired THEN "inactive"
        ELSE IF v = n /\ contexts[p][v] = "none" THEN "active" ELSE contexts[p][v]
    BY <1>1 DEF IInv, TypeOK, Saved
<1>4. \A q \in Purpose \ {p} : contexts'[q] = contexts[q]
    BY <1>1 DEF IInv, TypeOK
<1>5. \A v \in Version : Row(p, v) => v <= n /\ v <= evidence
    BY <1>1 DEF SInv, CycleIsNewest
<1>6. act'[a].seen = n /\ \A b \in Activator : b # a => act'[b].pc = "off"
    <2>1. act[a] \in ActivatorState
        BY DEF IInv, TypeOK
    <2>2. act'[a] = [act[a] EXCEPT !.pc = "ready", !.cur = {}, !.retired = {}]
        BY DEF Leave, IInv, TypeOK
    <2>3. act'[a].pc = "ready" /\ act'[a].seen = n
        BY <2>1, <2>2 DEF ActivatorState
    <2>. QED BY <2>3 DEF Single
<1>7. contexts[p][n] # "none" => contexts[p][n] = "active"
    <2>. SUFFICES ASSUME Row(p, n) PROVE contexts[p][n] = "active"
        BY DEF Row
    <2>1. PICK v \in Version : contexts[p][v] = "active" /\ \A w \in Version : Row(p, w) => w <= v
        BY <1>1 DEF SInv, NewestIsActive
    <2>2. v <= n /\ n <= v /\ v \in Nat /\ n \in Nat
        BY <1>1, <1>5, <2>1 DEF Row
    <2>3. v = n
        BY <2>2
    <2>. QED BY <2>1, <2>3
<1>8. contexts'[p][n] = "active"
    BY <1>1, <1>2, <1>3, <1>7
<1>9. \A v \in Version : Row(p, v)' => v <= n
    <2>. SUFFICES ASSUME NEW v \in Version, contexts'[p][v] # "none" PROVE v <= n
        BY DEF Row
    <2>1. v = n \/ contexts[p][v] # "none"
        BY <1>2, <1>3 DEF Active
    <2>. QED BY <1>1, <1>5, <2>1 DEF Row
<1>10. NewestIsActive'
    <2>. SUFFICES ASSUME NEW q \in Purpose
                  PROVE  \/ \A v \in Version : ~Row(q, v)'
                         \/ \E v \in Version : contexts'[q][v] = "active"
                                              /\ \A w \in Version : Row(q, w)' => w <= v
        BY DEF NewestIsActive
    <2>1. CASE q = p
        BY <1>1, <1>8, <1>9, <2>1
    <2>2. CASE q # p
        BY <1>4, <2>2 DEF SInv, NewestIsActive, Row
    <2>. QED BY <2>1, <2>2
<1>11. n <= evidence
    BY DEF SInv, CycleIsNewest
<1>12. CycleIsNewest'
    <2>1. ASSUME NEW q \in Purpose, NEW v \in Version, Row(q, v)' PROVE v <= n /\ v <= evidence
        <3>1. CASE q = p
            <4>1. v <= n
                BY <1>9, <2>1, <3>1
            <4>2. v \in Nat /\ n \in Nat
                BY <1>1
            <4>. HIDE DEF n
            <4>. QED BY <1>1, <1>11, <4>1, <4>2
        <3>2. CASE q # p
            <4>1. Row(q, v)
                BY <1>4, <2>1, <3>2 DEF Row
            <4>. QED BY <4>1 DEF SInv, CycleIsNewest
        <3>. QED BY <3>1, <3>2
    <2>. HIDE DEF n
    <2>. QED BY <1>6, <1>11, <2>1 DEF CycleIsNewest
<1>. QED BY <1>10, <1>12 DEF SInv

\* No activator is deployed or removed later.
LEMMA SingleKept == IInv /\ [Next]_vars /\ Single' => Single
<1>. SUFFICES ASSUME IInv, [Next]_vars PROVE \A b \in Activator : act'[b].pc = "off" <=> act[b].pc = "off"
    BY DEF Single
<1>0. \A a \in Activator : act[a] \in ActivatorState
    BY DEF IInv, TypeOK
<1>1. ASSUME NEW a \in Activator, NEW y, act' = [act EXCEPT ![a] = y], y.pc # "off", act[a].pc # "off"
      PROVE  \A b \in Activator : act'[b].pc = "off" <=> act[b].pc = "off"
    <2>1. \A b \in Activator : act'[b] = IF b = a THEN y ELSE act[b]
        BY <1>1 DEF IInv, TypeOK
    <2>. QED BY <1>1, <2>1
<1>2. ASSUME NEW a \in Activator, ReadEvidence(a) \/ EndCycle(a) \/ Restart(a) \/ Crash(a)
      PROVE  \A b \in Activator : act'[b].pc = "off" <=> act[b].pc = "off"
    <2>1. Fresh("idle").pc = "idle" /\ Fresh("down").pc = "down"
        BY DEF Fresh
    <2>. QED BY <1>1, <1>2, <2>1 DEF ReadEvidence, EndCycle, Restart, Crash
<1>3. ASSUME NEW a \in Activator, Deactivate(a) \/ InsertAndCommit(a) \/ SaveError(a) \/ \E p \in Purpose : Acquire(a, p)
      PROVE  \A b \in Activator : act'[b].pc = "off" <=> act[b].pc = "off"
    <2>. DEFINE x == act[a]
    <2>1. x \in ActivatorState /\ x.pc # "off"
        BY <1>0, <1>3 DEF Deactivate, InsertAndCommit, SaveError, Acquire
    <2>2. \/ \E R : act' = [act EXCEPT ![a] = [x EXCEPT !.pc = "deactivated", !.retired = R]]
          \/ act' = [act EXCEPT ![a] = [x EXCEPT !.pc = "ready", !.cur = {}, !.retired = {}]]
          \/ \E p : act' = [act EXCEPT ![a] = [x EXCEPT !.pc = "locked", !.cur = {p}, !.todo = x.todo \ {p}]]
        BY <1>3 DEF Deactivate, InsertAndCommit, SaveError, Leave, Acquire, Enter
    <2>. HIDE DEF x
    <2>3. /\ \A R : [x EXCEPT !.pc = "deactivated", !.retired = R].pc = "deactivated"
          /\ [x EXCEPT !.pc = "ready", !.cur = {}, !.retired = {}].pc = "ready"
          /\ \A p : [x EXCEPT !.pc = "locked", !.cur = {p}, !.todo = x.todo \ {p}].pc = "locked"
        BY <2>1 DEF ActivatorState
    <2>4. act[a].pc # "off"
        BY <2>1 DEF x
    <2>. QED BY <1>1, <2>2, <2>3, <2>4
<1>4. CASE Organize \/ UNCHANGED vars
    BY <1>4 DEF Organize, vars
<1>. QED BY <1>2, <1>3, <1>4 DEF Next, Cycle

LEMMA NextSInv == IInv /\ SInv /\ Single' /\ [Next]_vars => SInv'
<1>. SUFFICES ASSUME IInv, SInv, Single', [Next]_vars PROVE SInv'
    OBVIOUS
<1>. DEFINE Cycling == {"ready", "locked", "deactivated"}
<1>0. /\ evidence \in Nat /\ evidence <= evidence /\ evidence + 1 \in Nat /\ evidence <= evidence + 1
      /\ \A a \in Activator : act[a] \in ActivatorState
    BY ActivationConstants DEF IInv, TypeOK
<1>1. CASE Organize
    BY <1>0, <1>1, QuietSInv DEF Organize
<1>2. ASSUME NEW a \in Activator, NEW y, act' = [act EXCEPT ![a] = y],
             UNCHANGED <<evidence, contexts>>,
             y.pc \in Cycling => (act[a].pc \in Cycling /\ y.seen = act[a].seen) \/ y.seen = evidence
      PROVE  SInv'
    <2>1. \A b \in Activator : act'[b] = IF b = a THEN y ELSE act[b]
        BY <1>2 DEF IInv, TypeOK
    <2>. QED BY <1>0, <1>2, <2>1, QuietSInv
<1>3. ASSUME NEW a \in Activator, ReadEvidence(a) PROVE SInv'
    BY <1>2, <1>3 DEF ReadEvidence
<1>4. ASSUME NEW a \in Activator, EndCycle(a) \/ Restart(a) \/ Crash(a) PROVE SInv'
    <2>1. Fresh("idle").pc = "idle" /\ Fresh("down").pc = "down"
        BY DEF Fresh
    <2>. QED BY <1>2, <1>4, <2>1 DEF EndCycle, Restart, Crash
<1>5. ASSUME NEW a \in Activator, NEW p \in Purpose, Acquire(a, p) PROVE SInv'
    <2>. DEFINE x == act[a]
                y == [x EXCEPT !.pc = "locked", !.cur = {p}, !.todo = x.todo \ {p}]
    <2>1. act' = [act EXCEPT ![a] = y] /\ UNCHANGED <<evidence, contexts>> /\ x.pc \in Cycling
        BY <1>5 DEF Acquire, Enter
    <2>2. y.seen = x.seen
        <3>1. x \in ActivatorState
            BY <1>0
        <3>. HIDE DEF x
        <3>. QED BY <3>1 DEF ActivatorState
    <2>. HIDE DEF y
    <2>. QED BY <1>2, <2>1, <2>2
<1>6. ASSUME NEW a \in Activator, Deactivate(a) PROVE SInv'
    <2>1. PICK p \in act[a].cur :
            act' = [act EXCEPT ![a] = [act[a] EXCEPT !.pc = "deactivated",
                                                     !.retired = Active(p) \ {act[a].seen}]]
        BY <1>6 DEF Deactivate
    <2>. DEFINE x == act[a]
                y == [x EXCEPT !.pc = "deactivated", !.retired = Active(p) \ {x.seen}]
    <2>2. act' = [act EXCEPT ![a] = y] /\ UNCHANGED <<evidence, contexts>> /\ x.pc \in Cycling
        BY <1>6, <2>1 DEF Deactivate
    <2>3. y.seen = x.seen
        <3>1. x \in ActivatorState
            BY <1>0
        <3>. HIDE DEF x
        <3>. QED BY <3>1 DEF ActivatorState
    <2>. HIDE DEF y
    <2>. QED BY <1>2, <2>2, <2>3
<1>7. ASSUME NEW a \in Activator, act[a].pc \in Cycling, Leave(a), UNCHANGED <<evidence, contexts>>
      PROVE  SInv'
    <2>. DEFINE x == act[a]
                y == [x EXCEPT !.pc = "ready", !.cur = {}, !.retired = {}]
    <2>1. act' = [act EXCEPT ![a] = y]
        BY <1>7 DEF Leave
    <2>2. y.seen = x.seen
        <3>1. x \in ActivatorState
            BY <1>0
        <3>. HIDE DEF x
        <3>. QED BY <3>1 DEF ActivatorState
    <2>. HIDE DEF y
    <2>. QED BY <1>2, <1>7, <2>1, <2>2
<1>8. ASSUME NEW a \in Activator, InsertAndCommit(a) PROVE SInv'
    BY <1>8, CommitSInv DEF InsertAndCommit
<1>9. ASSUME NEW a \in Activator, SaveError(a) PROVE SInv'
    BY <1>7, <1>9, CommitSInv DEF SaveError
<1>10. CASE UNCHANGED vars
    BY <1>10 DEF vars, SInv, Single, CycleIsNewest, NewestIsActive, Row
<1>. QED BY <1>1, <1>3, <1>4, <1>5, <1>6, <1>8, <1>9, <1>10 DEF Next, Cycle

-----------------------------------------------------------------------------
(* Theorems                                                                *)

\* The invariant of the lock protocol of save_context.
THEOREM ActivationInvariance == Spec => []IInv
BY InitIInv, NextIInv, PTL DEF Spec

\* The variables keep their types, whatever fails in save_context.
THEOREM ActivationTypes == Spec => []TypeOK
<1>1. IInv => TypeOK
    BY DEF IInv
<1>. QED BY <1>1, ActivationInvariance, PTL

\* The advisory lock of save_context alone, without the partial index, keeps a
\* purpose to one active context, whatever fails and however many activators
\* run.
THEOREM LockSuffices == Spec => []AtMostOneActive
<1>1. IInv => AtMostOneActive
    BY DEF IInv
<1>. QED BY <1>1, ActivationInvariance, PTL

\* No INSERT of save_context meets an active context it has not retired.
THEOREM NoUniqueViolation == Spec => []IndexNeverTripped
<1>1. IInv => IndexNeverTripped
    BY DEF IInv, RetiredIsActive, IndexNeverTripped
<1>. QED BY <1>1, ActivationInvariance, PTL

\* With a single activator save_context never leaves a purpose that has
\* contexts without an active one.
THEOREM SingleNeverZero == Spec => []NeverZeroActive
<1>1. SInv => ActiveRemains
    BY DEF SInv, NewestIsActive, ActiveRemains, Active, Row
<1>2. Init => (Single => SInv)
    BY InitSInv
<1>3. IInv /\ (Single => SInv) /\ [Next]_vars => (Single => SInv)'
    BY NextSInv, SingleKept
<1>. QED BY <1>1, <1>2, <1>3, ActivationInvariance, PTL DEF Spec, NeverZeroActive
============================================================================
