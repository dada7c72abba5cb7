--------------------------- MODULE MCLoopDispatch ---------------------------
(* One LINE request and the repairs of one process on a handful of runs. *)
EXTENDS LoopDispatch

=============================================================================
