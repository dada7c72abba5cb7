------------------------ MODULE MCDevelopmentRun ------------------------
(* Two requests over one worktree, the code's budget of three rounds for     *)
(* each gate, and two contents besides the original one.                     *)
EXTENDS DevelopmentRun
=============================================================================
