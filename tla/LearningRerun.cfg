SPECIFICATION Spec
CONSTANTS
    d1 = d1
    d2 = d2
    a1 = a1
    a2 = a2
    Decision = {d1}
    Revision = {r1, r2}
    Execution = {e1, e2}
    Worker = {w1, w2}
    Outcome = {up, down}
    Artifact = {a1}
    Null = Null
    OmittedBindIsNull = FALSE
    KindOf <- MCKindOf
    Affected <- MCAffected
    LockKey <- MCLockKey
INVARIANT
    CompletedRevisionNotRerun
