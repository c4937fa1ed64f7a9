------------------------ MODULE MCLearningExecution ------------------------
(* Small instances of LearningExecution for TLC.                           *)
EXTENDS LearningExecution, TLC

CONSTANTS d1, d2, a1, a2

\* a1 is a pattern both decisions rest on, a2 an insight of d1 alone.
MCKindOf == [a \in Artifact |-> IF a = a1 THEN "pattern" ELSE "insight"]
MCAffected == [d \in Decision |-> IF d = d1 THEN Artifact ELSE {a1}]

\* hashtext does not collide on the decisions of the model.
MCLockKey == [d \in Decision |-> d]

Symmetry == Permutations(Worker) \cup Permutations(Revision) \cup Permutations(Execution)
============================================================================
