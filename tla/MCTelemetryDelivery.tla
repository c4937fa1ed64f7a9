------------------------ MODULE MCTelemetryDelivery ------------------------
(* Small instances of TelemetryDelivery for TLC.                           *)
EXTENDS TelemetryDelivery, TLC

CONSTANTS p1, p2, p3

\* p1 and p2 carry the same kinds of samples with other values.
MCFactTypes == [p \in Payload |-> IF p = p3 THEN <<"cpu">> ELSE <<"cpu", "disk">>]

Symmetry == Permutations(Handler) \cup Permutations(Installation)
============================================================================
