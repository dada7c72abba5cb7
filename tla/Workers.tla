------------------------------- MODULE Workers -------------------------------
(***************************************************************************)
(* The development workers, one at a time over one worktree: what each of  *)
(* them may commit.                                                        *)
(***************************************************************************)
EXTENDS PatchWorker, DiffWorker, AppBuilder

PatchStart(file) ==
  [file |-> file, task |-> "", touched |-> FALSE, gate |-> "test",
   tries |-> [test |-> 0, review |-> 0], passed |-> <<>>]

WorkersInit ==
  /\ pc = "idle"
  /\ \/ /\ program \in {"roles", "patch"}
        /\ repo = Fresh(Text0)
        /\ mem \in {PatchStart(f) : f \in IF program = "roles" THEN DOMAIN Text0 ELSE OtherFiles}
     \/ /\ program \in {"v1", "nightly"}
        /\ repo = Fresh(DiffFiles) /\ mem = DiffStart
     \/ /\ program \in {"app", "scaffold"}
        /\ \E present \in SUBSET AppFiles :
             repo = Fresh(AppContents(present)) /\ mem = AppStart("main", present)
     \/ /\ program \in {"universal", "builder"}
        /\ repo = Fresh(AppContents({}))
        /\ \E remote \in {"absent", "empty", "other", "main"}, present \in SUBSET AppFiles :
             /\ remote \in {"absent", "empty"} => present = {}
             /\ mem = AppStart(remote, present)

WorkersNext == RoleStep \/ PatchStep \/ DiffStep \/ AppStep

WorkersSpec == WorkersInit /\ [][WorkersNext]_shared

-----------------------------------------------------------------------------
(* Properties                                                              *)

OnText == program \in {"roles", "patch"}

\* No committed edit drops or rewrites a test the file had: validate_plan promises it
\* of one plan (_test_definitions_unchanged), here of what any run of plans, repairs,
\* salvaged repairs and refactorings ends up committing.
TestsKept == OnText => KeepsTests(Text0[mem.file], repo.head[mem.file])

\* What a worker commits is what its last passing test run saw.  (Not of v1, which adds
\* the chosen files and tests them all, nor of the builder; see the README.)
TestedIsCommitted ==
  [][(pc \in {"land", "commit", "deliver"} /\ repo'.head # repo.head) =>
       /\ OnText => repo'.head[mem.file] = mem.passed
       /\ program \in {"nightly", "app", "universal"} => repo'.head = mem.passed]_shared

\* A reviewed task that still has a usable plan keeps it whatever other task of the same
\* file is committed before it: its anchors survive, in every order.
Plannable(task, text) ==
  Verdict(DeterministicPlan(task, text), text, TRUE) \in {"ok", "no_change"}

PlansStayApplicable ==
  [][program = "roles" /\ mem.file \in TableFiles /\ repo'.head # repo.head =>
       \A task \in {t \in TargetedTasks : Target(t) = mem.file} :
         Plannable(task, repo.head[mem.file]) => Plannable(task, repo'.head[mem.file])]_shared
=============================================================================
