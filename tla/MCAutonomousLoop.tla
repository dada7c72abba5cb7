--------------------------- MODULE MCAutonomousLoop ---------------------------
(* Two tasks of the reviewed catalog: one in the tracked queue, one that    *)
(* only refill can add.                                                     *)
EXTENDS AutonomousLoop

MCTracked == <<"t1">>

=============================================================================
