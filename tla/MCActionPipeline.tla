-------------------------- MODULE MCActionPipeline --------------------------
(* Evidence of class Q1 (weight 0.875), all of it explained: C = 1 and     *)
(* S = 0.7058, 0.8520 for one and two rows.                                *)
EXTENDS ActionPipeline

McSupport == <<8529, 9260>>
============================================================================
