----------------------------- MODULE MCJobQueue -----------------------------
(* Three jobs of two types with one retry each. *)
EXTENDS JobQueue
=============================================================================
