---------------------- MODULE MCObservationPublisher -----------------------
(* Small instances of ObservationPublisher for TLC.                        *)
EXTENDS ObservationPublisher

CONSTANTS o1, o2

\* One observation per row, the layout _publish_one reads ...
MCObservations == {[layout |-> "observation", ids |-> {o}] : o \in Id}

\* ... and with documents of another layout among them.
MCMixed == MCObservations \cup {[layout |-> "batch", ids |-> Id]}

============================================================================
