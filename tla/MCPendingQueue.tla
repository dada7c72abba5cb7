--------------------------- MODULE MCPendingQueue ---------------------------
(* A few tasks and two workers. *)
EXTENDS PendingQueue

CONSTANTS w1, w2

=============================================================================
