---------------------------- MODULE OutboxTable ----------------------------
(***************************************************************************)
(* The table observation_outbox, shared by the ingest endpoint, which      *)
(* inserts its rows, and by the publishers, which move them through their  *)
(* life cycle.                                                             *)
(*                                                                         *)
(* The column `observation' is a JSON document.  Of its content only the   *)
(* observation ids it carries and its layout matter: "observation" is one  *)
(* observation at the top level (keys id, tenant_id, source_id, ...),      *)
(* "batch" the document of a whole batch (keys batch_id, observation_ids,  *)
(* observations).  next_attempt_at is abstracted to whether it has passed. *)
(***************************************************************************)
EXTENDS Naturals

Document(ids) == [layout : {"observation", "batch"}, ids : SUBSET ids]

NoDocument == [layout |-> "observation", ids |-> {}]

OutboxRow(ids) ==
    [status   : {"absent", "pending", "published", "failed", "dead_letter"},
     attempts : Nat,
     due      : {"yes", "no"},
     doc      : Document(ids)]

NoRow == [status |-> "absent", attempts |-> 0, due |-> "no", doc |-> NoDocument]

NewRow(doc) == [status |-> "pending", attempts |-> 0, due |-> "yes", doc |-> doc]

Terminal == {"published", "dead_letter"}
============================================================================
