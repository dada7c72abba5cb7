----------------------------- MODULE AppBuilder -----------------------------
(***************************************************************************)
(* Whole files turned into commits: scripts/app_development_worker.py      *)
(* ("app", under apps/ of this repository), scripts/universal_app_builder  *)
(* .py ("universal") and scripts/empty_repo_app_builder.py ("builder"),    *)
(* which build in a repository of the app's own, and                       *)
(* scripts/create_app_scaffold.py ("scaffold").  A file holds NoFile,   *)
(* what was there before, or what the plan of an attempt made of it.       *)
(***************************************************************************)
EXTENDS WorkerRepo

NoFile      == 0
Earlier     == 1
AppFiles    == {"run", "tests", "page"}
MaxAttempts == 3     \* MAX_REPAIR_ATTEMPTS + 1
MaxBuilds   == 3     \* of the builder, by its workflow
Builders    == {"app", "universal", "builder", "scaffold"}

\* validate_files: an app of its own has an entry point and tests; under apps/ any new
\* files will do.
Plans(present) ==
  IF program = "app" THEN SUBSET (AppFiles \ present) \ {{}}
  ELSE {plan \in SUBSET AppFiles : {"run", "tests"} \subseteq plan}

\* What was there: of this repository only what an earlier run of the same name left.
AppContents(present) == [p \in AppFiles |-> IF p \in present THEN Earlier ELSE NoFile]

\* remote: "absent", "empty", "other" (a head, no main) or "main".
AppStart(remote, present) ==
  [plan |-> {}, made |-> {}, attempt |-> 0, runs |-> 1, emptyAnswer |-> FALSE,
   remote |-> remote, present |-> present, created |-> FALSE, pushed |-> FALSE,
   passed |-> AppContents({})]

\* write_files, of the files of this attempt's plan, and cleanup/clear_generated_files.
Content == 2 + mem.attempt
Wrote(r, paths)   == [r EXCEPT !.tree = [p \in AppFiles |-> IF p \in paths THEN Content ELSE @[p]]]
Cleared(r, paths) == [r EXCEPT !.tree = [p \in AppFiles |-> IF p \in paths THEN NoFile ELSE @[p]]]
Present(r)        == {p \in AppFiles : r.tree[p] # NoFile}

\* main returns, the builder's to its workflow, which runs it again when its log says
\* that an answer was empty: any answer, of any attempt to plan.
Return(r) ==
  /\ repo' = r
  /\ IF program = "builder" /\ mem.emptyAnswer /\ mem.runs < MaxBuilds
     THEN /\ pc' = "idle"
          /\ mem' = [AppStart(mem.remote, mem.present) EXCEPT !.runs = mem.runs + 1,
                                                              !.pushed = mem.pushed]
     ELSE pc' = "exit" /\ UNCHANGED mem

-----------------------------------------------------------------------------
(* Repositories of their own                                               *)

\* ask, and plan_with_bounded_retries: a first plan, or none.
PlanFirst ==
  /\ program \in {"universal", "builder"} /\ pc = "idle"
  /\ \/ pc' = "exit" /\ UNCHANGED <<repo, mem>>
     \/ \E empty \in BOOLEAN :
          /\ empty => program = "builder"
          /\ pc' = "create" /\ mem' = [mem EXCEPT !.emptyAnswer = empty] /\ UNCHANGED repo
     \/ /\ program = "builder" /\ mem.runs < MaxBuilds   \* nothing but empty answers
        /\ mem' = [mem EXCEPT !.runs = @ + 1] /\ UNCHANGED <<pc, repo>>
  /\ UNCHANGED program

\* create_repository: GET, POST, and GET again when another run was first.
CreateRepository ==
  /\ program \in {"universal", "builder"} /\ pc = "create"
  /\ \/ /\ pc' = "clone" /\ UNCHANGED repo
        /\ mem' = [mem EXCEPT !.remote = IF @ = "absent" THEN "empty" ELSE @]
     \/ Return(repo)
  /\ UNCHANGED program

\* Another run for the same requirement: it creates, and it pushes main.
AnotherRun ==
  /\ program \in {"universal", "builder"} /\ pc \in {"create", "clone", "base"}
  /\ \/ mem.remote = "absent" /\ mem' = [mem EXCEPT !.remote = "empty"]
     \/ mem.remote = "empty" /\ mem' = [mem EXCEPT !.remote = "main"]
  /\ UNCHANGED <<program, pc, repo>>

CloneRepo ==
  /\ program \in {"universal", "builder"} /\ pc = "clone"
  /\ \/ /\ repo' = Fresh(AppContents(mem.present))
        /\ pc' = IF program = "builder" /\ mem.remote # "main" THEN "base" ELSE "plan"
        /\ UNCHANGED mem
     \/ Return(repo)
  /\ UNCHANGED program

\* ensure_main_base, and the branch from it: without main, push one; the push is refused
\* where another run's main is there first.
EnsureMainBase ==
  /\ program = "builder" /\ pc = "base"
  /\ \/ /\ mem.remote # "main" /\ pc' = "plan"
        /\ mem' = [mem EXCEPT !.remote = "main"] /\ UNCHANGED repo
     \/ Return(repo)
  /\ UNCHANGED program

-----------------------------------------------------------------------------
(* A plan, its files and their tests, up to MaxAttempts times              *)

RetryApp(r) ==
  IF mem.attempt + 1 < MaxAttempts
  THEN repo' = r /\ pc' = "plan" /\ mem' = [mem EXCEPT !.attempt = @ + 1]
  ELSE Return(r)

\* A plan that cannot be read costs the app worker an attempt; one that is not valid ends
\* it, and that includes a repair of the very files it wrote.
PlanApp ==
  /\ program = "app" /\ pc \in {"idle", "plan"}
  /\ \/ IF mem.attempt + 1 < MaxAttempts THEN RetryApp(repo) ELSE Return(Cleared(repo, mem.made))
     \/ Return(Cleared(repo, mem.made))
     \/ \E plan \in Plans(Present(repo)) :
          \/ /\ pc' = "tests" /\ repo' = Wrote(Cleared(repo, mem.made), plan)
             /\ mem' = [mem EXCEPT !.made = plan]
          \/ \E part \in SUBSET plan :       \* a write fails: nobody removes the part
               Return(Wrote(Cleared(repo, mem.made), part))
  /\ UNCHANGED program

\* The builder goes on after a plan that is not valid; a repair that cannot be read ends
\* both.  What an attempt wrote the next one deletes, also where main had the file.
PlanFiles ==
  /\ program \in {"universal", "builder"} /\ pc = "plan"
  /\ \/ program = "builder" /\ mem.attempt > 0 /\ RetryApp(repo)
     \/ (program = "universal" \/ mem.attempt > 0) /\ Return(repo)
     \/ \E plan \in Plans({}) :
          LET cleared == Cleared(repo, mem.made)
              refused == program = "universal" /\ plan \cap Present(cleared) # {}
          IN  \/ /\ ~refused
                 /\ pc' = "tests" /\ repo' = Wrote(cleared, plan)
                 /\ mem' = [mem EXCEPT !.made = plan]
              \/ \E part \in (SUBSET plan) \ {plan} : Return(Wrote(cleared, part))
  /\ UNCHANGED program

\* compileall, pytest.  A test that takes too long ends the process.
TestApp ==
  /\ program \in Builders /\ pc = "tests"
  /\ \/ pc' = "deliver" /\ mem' = [mem EXCEPT !.passed = repo.tree] /\ UNCHANGED repo
     \/ IF mem.attempt + 1 < MaxAttempts THEN RetryApp(repo)
        ELSE Return(IF program = "app" THEN Cleared(repo, mem.made) ELSE repo)
     \/ Return(repo)
  /\ UNCHANGED program

\* git add of the last attempt's files, git commit: the app worker removes its files
\* when either fails.
CommitApp ==
  /\ program \in Builders /\ pc = "deliver"
  /\ LET staged  == Staged(repo, mem.made)
         dropped(r) == IF program = "app" THEN Cleared(r, mem.made) ELSE r
     IN  \/ Return(dropped(repo))
         \/ Return(dropped(staged))
         \/ /\ staged.index # repo.head
            /\ repo' = Committed(staged) /\ pc' = "push" /\ UNCHANGED mem
  /\ UNCHANGED program

\* The branch has the same name in every run of one workflow run: a second push of it
\* is refused.
PushApp ==
  /\ program \in Builders /\ pc = "push"
  /\ \/ ~mem.pushed /\ pc' = "request" /\ mem' = [mem EXCEPT !.pushed = TRUE] /\ UNCHANGED repo
     \/ Return(repo)
  /\ UNCHANGED program

RequestApp ==
  /\ program \in Builders /\ pc = "request"
  /\ \/ pc' = "exit" /\ mem' = [mem EXCEPT !.created = TRUE] /\ UNCHANGED repo
     \/ program # "scaffold" /\ Return(repo)
  /\ UNCHANGED program

\* create_app: two new files in a directory that is not there, tested by nobody.
Scaffold ==
  /\ program = "scaffold" /\ pc = "idle"
  /\ \/ /\ Present(repo) = {}
        /\ \/ /\ pc' = "deliver" /\ repo' = Wrote(repo, {"page", "run"})
              /\ mem' = [mem EXCEPT !.made = {"page", "run"}]
           \/ \E part \in {{}, {"page"}} : Return(Wrote(repo, part))
     \/ Return(repo)
  /\ UNCHANGED program

AppStep ==
  \/ PlanFirst \/ CreateRepository \/ AnotherRun \/ CloneRepo \/ EnsureMainBase
  \/ PlanApp \/ PlanFiles \/ TestApp \/ CommitApp \/ PushApp \/ RequestApp \/ Scaffold
=============================================================================
