------------------------------ MODULE WorkerRepo ------------------------------
(***************************************************************************)
(* What the development workers share: one process at a time over one git  *)
(* working copy.                                                           *)
(***************************************************************************)
EXTENDS Naturals, FiniteSets, Sequences, GitRepo

VARIABLES
  program,  \* which worker this is
  pc,       \* where it is
  repo,     \* [tree, index, head]
  mem       \* what it remembers

shared == <<program, pc, repo, mem>>
=============================================================================
