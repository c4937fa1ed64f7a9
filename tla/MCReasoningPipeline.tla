------------------------ MODULE MCReasoningPipeline ------------------------
(* Two mental models of the libraries: one with a schedule tolerance and   *)
(* hypothesis templates (two of its three), and one with a clustering      *)
(* tolerance, which no template covers.                                    *)
EXTENDS ReasoningPipeline

McModel == {"resource_pressure", "service_failure"}
McMinOccurrences == [resource_pressure |-> 3, service_failure |-> 3]
McMaxActivations == [resource_pressure |-> 1, service_failure |-> 1]
McTemplates == [resource_pressure |-> 2, service_failure |-> 0]
============================================================================
