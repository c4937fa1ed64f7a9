----------------------- MODULE MCObservationCollector ----------------------
(* Small instances of ObservationCollector for TLC.  Of the organization   *)
(* rules the one about authentication anomalies is used: the first lockout *)
(* and the first group change of a tenant, if they are within an hour.     *)
EXTENDS ObservationCollector

CONSTANTS lockout, change, late

\* The hour of the rule is one unit of time; `late' is a lockout two units
\* after the first one.
MCCapturedAt ==
    [o \in Obs |-> CASE o = lockout -> 0 [] o = change -> 1
                     [] o = late -> 2]

MCEvidence == {e \in {{lockout, change}, {late, change}} : e \subseteq Obs}
MCCites == [e \in Evidence |-> e]

First(S) == CHOOSE i \in S : \A j \in S : i <= j

MCOrganize(buffer) ==
    LET lockouts == {i \in DOMAIN buffer : buffer[i] \in {lockout, late}}
        changes == {i \in DOMAIN buffer : buffer[i] = change}
        matched == {buffer[First(lockouts)], buffer[First(changes)]}
    IN  IF lockouts = {} \/ changes = {} THEN {}
        ELSE IF \A o, p \in matched : MCCapturedAt[o] - MCCapturedAt[p] <= 1
             THEN {matched} ELSE {}
============================================================================
