--------------------------- MODULE RepairPipeline ---------------------------
(***************************************************************************)
(* The graph's repair pipeline: debug -> fix -> patch candidates -> patch  *)
(* -> test -> commit -> deploy -> finalizer, over the one working copy that*)
(* REPO_WORKDIR names.  Every message of every user runs through its own   *)
(* copy of the graph's state, in a thread of its own, and nothing locks    *)
(* the working copy.  The nightly worker runs the same graph once, over a  *)
(* working copy nobody else uses.                                          *)
(*                                                                         *)
(* A file's content is the set of runs whose patch is in it.               *)
(***************************************************************************)
EXTENDS FiniteSets, GitRepo

CONSTANTS
  Repairs,   \* runs of the pipeline for users
  Nightly,   \* the nightly worker's run
  Files      \* paths of the repository

ASSUME RepairAssumption == Nightly \notin Repairs

VARIABLES
  work,      \* of each run, where it is and what its graph state holds
  copy       \* the working copy: [tree, index, head, branch, settings, nightly]

repairVars == <<work, copy>>

AllRepairs == Repairs \cup {Nightly}
NoTree     == [f \in Files |-> {}]
NoPatch    == [files |-> {}, applies |-> FALSE]
NoCommit   == [tree |-> {}]
Unknown    == "unknown"      \* the target of a block that names no file

Idle == [at |-> "idle", error |-> "none", base |-> {}, patch |-> NoPatch,
         candidates |-> {}, applied |-> FALSE, saw |-> {}, passed |-> FALSE, commit |-> NoCommit,
         deploy |-> "skipped", status |-> "none", undisturbed |-> TRUE]

RepairInit ==
  /\ work = [r \in AllRepairs |-> Idle]
  /\ \E apply, deploy, autofix, nightly \in BOOLEAN :
       /\ nightly => apply /\ ~deploy
       /\ copy = [tree |-> NoTree, index |-> NoTree, head |-> NoTree, branch |-> "main",
                   nightly |-> nightly,
                   settings |-> [apply |-> apply, deploy |-> deploy, autofix |-> autofix]]

Running(r)  == work[r].at \notin {"idle", "end"}
Go(r, new)  == work' = [work EXCEPT ![r] = new]

-----------------------------------------------------------------------------
(* Debug                                                                   *)

\* get_render_logs, whose failures are no logs, and no logs at all for the nightly
\* worker's CI failure.
GotLogs       == {"quiet", "traceback"}
FetchedLogs   == {"none"} \cup GotLogs
RenderLogs(r) == IF r = Nightly THEN {"none"} ELSE FetchedLogs

\* collect_error: a traceback of the logs goes before one in the message.
Traceback(message, logs) == "traceback" \in {logs, message}

\* What the traceback is about: a KeyError whose key the code around it does not name
\* (or whose file cannot be read) is one that Fix does not guess about.
Errors == {"other", "key_found", "key_not_found"}

Started(r) ==
  [q \in AllRepairs |->
     IF q = r THEN [work[q] EXCEPT !.undisturbed = /\ \A p \in AllRepairs \ {r} : ~Running(p)
                                                   /\ copy.index = copy.head]
     ELSE IF Running(q) THEN [work[q] EXCEPT !.undisturbed = FALSE] ELSE work[q]]

\* route_from_debug: only an actual traceback goes on to Fix.
RouteFromDebug(traceback) == IF traceback THEN "fix" ELSE "finalizer"

Debug(r, message) ==
  /\ work[r].at = (IF r = Nightly THEN "repair" ELSE "idle")
  /\ copy.nightly = (r = Nightly)
  /\ \E logs \in RenderLogs(r), error \in Errors :
       LET traceback == Traceback(message, logs)
           new   == [Started(r)[r] EXCEPT !.error = IF traceback THEN error ELSE "none",
                                          !.at = RouteFromDebug(traceback)]
       IN  work' = [Started(r) EXCEPT ![r] = new]
  /\ UNCHANGED copy

-----------------------------------------------------------------------------
(* Fix and the candidates                                                  *)

\* What a model's diff may be; the files of one that does not apply are anybody's guess.
Diffs == {NoPatch} \cup [files : (SUBSET Files) \ {{}}, applies : BOOLEAN]

\* git apply --check of a diff written for `base`: over another content of its files it
\* may or may not fit.
Fits(patch, base) ==
  IF patch.files = {} \/ ~patch.applies THEN {FALSE}
  ELSE IF \A f \in patch.files : copy.tree[f] = base[f] THEN {TRUE} ELSE BOOLEAN

\* fix_agent_node up to the model: the code as it is now.
ReadCode(r) ==
  /\ work[r].at = "fix"
  /\ Go(r, IF work[r].error = "key_not_found"
           THEN [work[r] EXCEPT !.at = "candidates"]
           ELSE [work[r] EXCEPT !.at = "answer", !.error = "none", !.base = copy.tree])
  /\ UNCHANGED copy

\* The rest of it: a diff that does not apply is asked for once more; when the second
\* does not either, the first one stays, and anything that fails leaves none.
Answer(r) ==
  /\ work[r].at = "answer"
  /\ \E first, second \in Diffs :
       \E kept \in {NoPatch}
             \cup (IF TRUE \in Fits(first, work[r].base) THEN {first} ELSE {})
             \cup (IF FALSE \in Fits(first, work[r].base)
                   THEN (IF TRUE  \in Fits(second, work[r].base) THEN {second} ELSE {})
                   \cup (IF FALSE \in Fits(second, work[r].base) THEN {first} ELSE {})
                   ELSE {}) :
         Go(r, [work[r] EXCEPT !.at = "candidates", !.patch = kept])
  /\ UNCHANGED copy

\* generate_patch_candidates: one for each block of the diff.  It names a file of the
\* block, of which there may be more (the old path of a rename, a section without a
\* "diff --git" of its own), or none (a rename alone, a removed line that looks like a
\* header).  Whether it is "safe to apply" is written on it and used by nobody.
Candidates(patch) ==
  IF patch.files = {} THEN {{}} ELSE SUBSET (patch.files \cup {Unknown}) \ {{}}

Generate(r) ==
  /\ work[r].at = "candidates"
  /\ \E paths \in Candidates(work[r].patch) :
       Go(r, [work[r] EXCEPT !.at = "patch", !.candidates = paths])
  /\ UNCHANGED copy

-----------------------------------------------------------------------------
(* Patch: check, branch, apply                                             *)

ToTest(r, applied) == [work[r] EXCEPT !.at = "test", !.applied = applied]

CheckPatch(r) ==
  /\ work[r].at = "patch"
  /\ IF copy.settings.apply
     THEN \E fits \in Fits(work[r].patch, work[r].base) :
            Go(r, IF fits THEN [work[r] EXCEPT !.at = "branch"] ELSE ToTest(r, FALSE))
     ELSE Go(r, ToTest(r, FALSE))
  /\ UNCHANGED copy

\* git checkout -b, from whatever is checked out, with whatever is in the worktree.
Branch(r) ==
  /\ work[r].at = "branch"
  /\ \/ Go(r, [work[r] EXCEPT !.at = "apply"]) /\ copy' = [copy EXCEPT !.branch = r]
     \/ Go(r, ToTest(r, FALSE)) /\ UNCHANGED copy

ApplyPatch(r) ==
  /\ work[r].at = "apply"
  /\ \E fits \in Fits(work[r].patch, work[r].base) :
       /\ Go(r, ToTest(r, fits))
       /\ copy' = IF fits
                  THEN [copy EXCEPT !.tree = [f \in Files |->
                          IF f \in work[r].patch.files THEN @[f] \cup {r} ELSE @[f]]]
                  ELSE copy

-----------------------------------------------------------------------------
(* Test, commit, deploy                                                    *)

\* run_tests sees the whole worktree; a failure or a timeout leaves it as it is.
TestOutcomes == BOOLEAN

RunTests(r) ==
  /\ work[r].at = "test"
  /\ LET after == [work[r] EXCEPT !.at = "add", !.base = {}]
     IN  IF work[r].applied
         THEN \E passed \in TestOutcomes : Go(r, [after EXCEPT !.passed = passed, !.saw = copy.tree])
         ELSE Go(r, after)
  /\ UNCHANGED copy

ToDeploy(r, commit) == [work[r] EXCEPT !.at = "deploy", !.commit = commit]

\* _candidate_paths, git add -- paths: all of them or, when one is not there, none.
CandidatePaths(r) == work[r].candidates   \* a path that leaves the repository: git applied none

\* Mutant: git add . instead of the candidates' paths.
AddEverything(r) ==
  /\ work[r].at = "add"
  /\ IF work[r].passed /\ CandidatePaths(r) # {} /\ Unknown \notin CandidatePaths(r)
     THEN /\ copy' = Staged(copy, Files)
          /\ Go(r, [work[r] EXCEPT !.at = "commit"])
     ELSE Go(r, ToDeploy(r, NoCommit)) /\ UNCHANGED copy

Add(r) ==
  /\ work[r].at = "add"
  /\ IF work[r].passed /\ CandidatePaths(r) # {} /\ Unknown \notin CandidatePaths(r)
     THEN /\ copy' = Staged(copy, CandidatePaths(r))
          /\ Go(r, [work[r] EXCEPT !.at = "commit"])
     ELSE Go(r, ToDeploy(r, NoCommit)) /\ UNCHANGED copy

\* git commit: the whole index, on the branch that is checked out by now.
Commit(r) ==
  /\ work[r].at = "commit"
  /\ \/ /\ copy.index # copy.head
        /\ copy' = Committed(copy)
        /\ Go(r, ToDeploy(r, [tree |-> copy.index, parent |-> copy.head, branch |-> copy.branch]))
     \/ Go(r, ToDeploy(r, NoCommit)) /\ UNCHANGED copy

\* trigger_deploy starts a deploy of the service's own branch: nobody pushed the commit.
Triggered == {"deployed", "failed"}

Deploy(r) ==
  /\ work[r].at = "deploy"
  /\ \E deploy \in IF work[r].commit = NoCommit THEN {"skipped"}
                   ELSE IF copy.settings.deploy THEN Triggered ELSE {"pending"} :
       Go(r, [work[r] EXCEPT !.at = "finalizer", !.deploy = deploy])
  /\ UNCHANGED copy

\* finalize_node shows what each node left.
Finalize(r) ==
  /\ work[r].at = "finalizer"
  /\ Go(r, [work[r] EXCEPT !.at = IF r = Nightly THEN "report" ELSE "end"])
  /\ UNCHANGED copy

-----------------------------------------------------------------------------
(* The nightly worker                                                      *)

\* The smoke test and pytest, each once; a repair is opt-in.
NightlyBaseline ==
  /\ copy.nightly /\ work[Nightly].at = "idle"
  /\ \E status \in {"baseline_smoke_failed", "no_failure", "to_repair"} :
       Go(Nightly, IF status = "to_repair" /\ copy.settings.autofix
                   THEN [work[Nightly] EXCEPT !.at = "repair"]
                   ELSE [work[Nightly] EXCEPT !.at = "end",
                           !.status = IF status = "to_repair"
                                      THEN "pytest_failed_autofix_disabled" ELSE status])
  /\ UNCHANGED copy

\* invoke_one_shot_repair returns, its output cut to its last 12000 characters: a payload
\* that does not parse any more is a repair that failed.
RepairSucceeded(r) == work[r].passed /\ work[r].commit # NoCommit

NightlyReport ==
  /\ work[Nightly].at = "report"
  /\ \E parsed \in BOOLEAN :
       Go(Nightly, [work[Nightly] EXCEPT !.at = "end",
                      !.status = IF parsed /\ RepairSucceeded(Nightly)
                                 THEN "repair_succeeded" ELSE "repair_failed_no_retry"])
  /\ UNCHANGED copy

\* It takes longer than COMMAND_TIMEOUT_SECONDS: main raises, wherever the graph was.
NightlyTimeout ==
  /\ Running(Nightly) /\ work[Nightly].at # "report"
  /\ Go(Nightly, [work[Nightly] EXCEPT !.at = "end", !.status = "raised"])
  /\ UNCHANGED copy

RepairNext ==
  \/ \E r \in AllRepairs :
       \/ \E message \in {"plain", "traceback"} : Debug(r, message)
       \/ ReadCode(r) \/ Answer(r) \/ Generate(r)
       \/ CheckPatch(r) \/ Branch(r) \/ ApplyPatch(r)
       \/ RunTests(r) \/ Add(r) \/ Commit(r) \/ Deploy(r) \/ Finalize(r)
  \/ NightlyBaseline \/ NightlyReport \/ NightlyTimeout

-----------------------------------------------------------------------------
RepairTypeOK ==
  /\ DOMAIN work = AllRepairs
  /\ \A f \in Files : copy.tree[f] \cup copy.index[f] \cup copy.head[f] \subseteq AllRepairs
  /\ copy.branch \in AllRepairs \cup {"main"}
  /\ \A r \in AllRepairs :
       /\ work[r].candidates \subseteq Files \cup {Unknown}
       /\ work[r].commit = NoCommit \/ work[r].commit.branch \in AllRepairs \cup {"main"}

\* A run that no other run overlapped, over a clean index, commits of its patch the files
\* its candidates name, which may not be all, and nothing else of the worktree, as its
\* passing tests saw them, on the branch it made; and the nightly worker reports no success
\* without a commit of its own.
CommitsItsPatch ==
  /\ \A r \in AllRepairs :
       LET commit == work[r].commit
       IN  commit # NoCommit /\ work[r].undisturbed =>
             /\ commit.branch = r
             /\ \A f \in Files :
                  /\ commit.tree[f] # commit.parent[f] =>
                       f \in work[r].patch.files \cap work[r].candidates
                  /\ f \in work[r].candidates => commit.tree[f] = work[r].saw[f]
  /\ work[Nightly].status = "repair_succeeded" =>
       Nightly \in UNION {work[Nightly].commit.tree[f] : f \in Files}
=============================================================================
