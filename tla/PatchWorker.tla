----------------------------- MODULE PatchWorker -----------------------------
(***************************************************************************)
(* Search-and-replace plans turned into commits: the roles of              *)
(* core/line_development_runtime.py ("roles") and the stand-alone          *)
(* scripts/line_development_worker_v2.py ("patch").  DevelopmentRun has    *)
(* the roles' stops, kills and failing git commands; here is what they do  *)
(* to the file: which plan is made, how it is validated, repaired and      *)
(* applied, and what of it is tested and committed.                        *)
(*                                                                         *)
(* A model may answer anything of Replies, or fail, each time it is asked. *)
(***************************************************************************)
EXTENDS TestPlans, WorkerRepo

CONSTANTS
  Text0,       \* [file -> text]: the repository, at the first request
  GateRounds   \* rounds of each quality gate

\* Files outside the table: ordinary code, an ordinary test file, the protected
\* dispatcher line_development.py, the tests of operational requests.
OtherFiles == {"code", "spec", "dispatcher", "operations"}
TableFiles == DOMAIN Text0 \ OtherFiles
IsTest(file) == file \notin {"code", "dispatcher"}

\* The repository is a function, and only its test files define tests.
ASSUME PatchAssumption ==
  /\ Text0 = [file \in DOMAIN Text0 |-> Text0[file]]
  /\ OtherFiles \subseteq DOMAIN Text0
  /\ \A file \in DOMAIN Text0 : ~IsTest(file) => TestNames(Text0[file]) = {}

Flow    == Code("_WORKFLOW_FILE")
Comment == Code("# comment")

File == mem.file
Text == repo.tree[File]

-----------------------------------------------------------------------------
(* Plans and their repairs                                                 *)

\* What a model can make of the text it is shown.
Replies(text) ==
  LET last  == text[Len(text)]
      first == TestPieces(text)
      rewrites == {<<Code("new")>>, <<Code("new"), Marker>>, <<Broken>>}
  IN  {NoChange, Refused, Raised, Plan("count", <<>>, <<>>, FALSE), Plan("fields", <<>>, <<>>, FALSE)}
      \cup {Edit(<<Code("absent")>>, <<Code("new")>>), Plan("edit", <<text[1]>>, <<Code("new")>>, TRUE)}
      \cup {Edit(<<text[1]>>, new) : new \in rewrites}
      \cup {Edit(<<last>>, <<last, Piece("added", "new")>>)}
      \cup {Edit(<<first[1]>>, new) :
              new \in IF first = <<>> THEN {}
                      ELSE {<<>>, <<Piece(first[1].test, "weak")>>,
                            <<Piece(first[1].test, "weak"), Piece("added", "new")>>,
                            <<first[1], Piece(first[1].test, "weak")>>}}

\* _is_allowed_comment_test_change: the one edit of a protected file.
CommentAllowed(plan) == plan.old = <<Flow>> /\ plan.new = <<Flow, Comment>>

Judgement(plan, verdict) == [plan |-> plan, verdict |-> verdict]

Judge(file, text, plan) ==
  Judgement(plan, IF file = "dispatcher" /\ plan.shape = "edit" /\ ~CommentAllowed(plan)
                  THEN "refused" ELSE Verdict(plan, text, IsTest(file)))

\* What asking once more comes to.
Asked(file, text) == {Judge(file, text, reply) : reply \in Replies(text)}

Those(found, verdict) == {j \in found : j.verdict = verdict}

\* A repair that is no better leaves the old plan and its own verdict.  (Asking a
\* second time for the fields, as the stand-alone worker does, finds the same.)
Repair(found, verdict, asked) ==
  (found \ Those(found, verdict))
  \cup {IF Valid(a.verdict) THEN a ELSE Judgement(j.plan, a.verdict)
          : j \in Those(found, verdict), a \in asked}

Recount(found, asked) ==
  LET bad == "invalid_change_count" IN
  (found \ Those(found, bad))
  \cup {IF a.verdict \in {"ok", "raised"} THEN a
        ELSE Judgement(j.plan, "invalid_change_count_repair_failed") : j \in Those(found, bad), a \in asked}

\* A rewrite of an existing test is replaced by one that only adds a test, or by
\* the one test it adds.
OnlyAdd(found, asked, text) ==
  LET bad == "existing_test_modified"
      failed(j) == Judgement(j.plan, "existing_test_modified_repair_failed")
  IN  (found \ Those(found, bad))
      \cup {IF a.verdict = "raised" \/ (a.verdict = "ok" /\ AddsOneTest(a.plan, text)) THEN a
            ELSE IF Salvage(a.plan, text).shape = "edit" THEN Judgement(Salvage(a.plan, text), "ok")
            ELSE failed(j) : j \in Those(found, bad), a \in asked}

\* validate_plan_with_bounded_repairs, but for its last stage the same as main's.
Shaped(file, text, plan) ==
  LET asked == Asked(file, text)
      fields == Repair({Judge(file, text, plan)}, "invalid_old_new", asked)
      plain  == Repair(Recount(fields, asked), "diff_marker_in_replacement", asked)
  IN  Repair(plain, "change_too_large", asked)

Bounded(file, text, plan) == OnlyAdd(Shaped(file, text, plan), Asked(file, text), text)

\* apply_plan_with_bounded_anchor_repair: the plan itself, or a repair of it, where
\* its anchor occurs once; or nothing, with the file as it was.
Applications(file, text, plan) ==
  LET valid == {plan} \cup {j.plan : j \in Those(Asked(file, text), "ok")}
  IN  {Replaced(text, p.old, p.new) : p \in {q \in valid : Unique(text, q.old)}}

\* What the model-backed branches of the executor come to, from a text and what was
\* asked first: [ok, edited, text, why].
Result(ok, edited, text, why) == [ok |-> ok, edited |-> edited, text |-> text, why |-> why]

Outcomes(file, text, first) ==
  LET found == UNION {Bounded(file, text, plan) : plan \in first}
  IN  {Result(Valid(j.verdict), FALSE, text, j.verdict) : j \in found \ Those(found, "ok")}
      \cup {Result(FALSE, FALSE, text, "apply")}
      \cup {Result(TRUE, TRUE, new, "ok")
              : new \in UNION {Applications(file, text, j.plan) : j \in Those(found, "ok")}}

\* A plan nobody may repair: valid and applied as it is, or rejected.
Direct(file, text, plan) ==
  LET verdict == Judge(file, text, plan).verdict
  IN  IF verdict = "no_change" THEN {Result(TRUE, FALSE, text, verdict)}
      ELSE IF verdict = "ok" /\ Unique(text, plan.old)
      THEN {Result(TRUE, TRUE, Replaced(text, plan.old, plan.new), "ok")}
      ELSE {Result(FALSE, FALSE, text, verdict)}

-----------------------------------------------------------------------------
(* The roles                                                               *)

\* What a request asks for; a table task is its own request.
Requests(file) ==
  CASE file = "code"       -> {"model"}
    [] file = "spec"       -> {"model", "gap"}
    [] file = "dispatcher" -> {"comment"}
    [] file = "operations" -> {"operational"}
    [] OTHER               -> {task \in TargetedTasks : Target(task) = file}

FromTable(task) == task \in TargetedTasks

\* The manager: a table task goes to its target, anything else to an eligible file.
\* Without the table, one landed request is enough.
BeginRole ==
  /\ program = "roles" /\ pc = "idle"
  /\ File \in TableFiles \/ repo.head[File] = Text0[File]
  /\ \E task \in Requests(File) :
       mem' = [mem EXCEPT !.task = task, !.touched = FALSE, !.gate = "test",
                          !.tries = [test |-> 0, review |-> 0], !.passed = <<>>]
  /\ pc' = "implementer"
  /\ UNCHANGED <<program, repo>>

Next1 == [implementer |-> "tester", tester |-> "reviewer", debugger |-> "refactorer",
          refactorer |-> "tester", reviewer |-> "integrator", integrator |-> "land"]

\* Mutant: the review gate's repair is not tested again.
RouteUntested(ok, m) ==
  IF ok THEN /\ pc' = IF pc = "refactorer" /\ m.gate = "review" THEN "reviewer" ELSE Next1[pc]
             /\ mem' = [m EXCEPT !.gate = IF pc = "tester" THEN "review" ELSE @]
  ELSE IF pc \in {"tester", "reviewer"} /\ m.tries[m.gate] < GateRounds - 1
  THEN pc' = "debugger" /\ mem' = [m EXCEPT !.tries[m.gate] = @ + 1]
  ELSE pc' = "rollback" /\ mem' = m

\* QualityRuntime.run: where a result of the role at pc leads.
Route(ok, m) ==
  IF ok THEN /\ pc' = Next1[pc]
             /\ mem' = [m EXCEPT !.gate = IF pc = "tester" THEN "review" ELSE @]
  ELSE IF pc \in {"tester", "reviewer"} /\ m.tries[m.gate] < GateRounds - 1
  THEN pc' = "debugger" /\ mem' = [m EXCEPT !.tries[m.gate] = @ + 1]
  ELSE pc' = "rollback" /\ mem' = m

\* A role that writes: touched follows what it applied, not what it gave up.
Write(base, result, untouched) ==
  /\ repo' = Written(base, File, result.text)
  /\ Route(result.ok, [mem EXCEPT !.touched = IF result.edited THEN TRUE
                                              ELSE IF untouched /\ result.ok THEN FALSE ELSE @])
  /\ UNCHANGED program

\* What a model writes for an append-only test: one test, one of a name that is
\* there, or something else.
AppendPlans(text) ==
  {NoChange, Refused}
  \cup {AppendOnlyPlan(p, text) : p \in {Piece("gap", "new"), Code("helper"),
                                         Piece(TestPieces(text)[1].test, "weak")}}

Implementations ==
  LET task == mem.task IN
  CASE FromTable(task)      -> Direct(File, Text, DeterministicPlan(task, Text))
    [] task = "gap"         -> UNION {Direct(File, Text, plan) : plan \in AppendPlans(Text)}
    [] task = "operational" -> Direct(File, Text, InsertBefore(Text, "operational_phrase", "read_only_guard"))
    [] task = "comment"     -> Outcomes(File, Text, {CommentPlan(Text, Comment, Flow)})
    [] task = "model"       -> Outcomes(File, Text, Replies(Text))

ImplementRole ==
  /\ program = "roles" /\ pc = "implementer"
  /\ \E result \in Implementations : Write(repo, result, TRUE)

\* py_compile, then pytest: of the whole suite, or of the target where a table task
\* has nothing to change.
TestRole ==
  /\ program = "roles" /\ pc = "tester"
  /\ \E ok \in BOOLEAN :
       /\ ok => ~mem.touched \/ Parses(Text)
       /\ Route(ok, IF ok THEN [mem EXCEPT !.passed = Text] ELSE mem)
  /\ UNCHANGED <<program, repo>>

\* The debugger starts again from the index, unless it has nothing to do with it.
DebugRole ==
  /\ program = "roles" /\ pc = "debugger"
  /\ LET base == Restored(repo, IF mem.touched THEN {File} ELSE {})
         text == base.tree[File]
     IN  IF FromTable(mem.task) THEN Write(repo, Result(FALSE, FALSE, Text, "table"), FALSE)
         ELSE IF mem.task = "comment" THEN Write(repo, Result(TRUE, FALSE, Text, "retry"), FALSE)
         ELSE \E result \in Outcomes(File, text, Replies(text)) :
                Write(base, [result EXCEPT !.ok = @ /\ result.edited], FALSE)

\* The refactorer works on what is there; an unusable plan of its own is no failure.
RefactorRole ==
  /\ program = "roles" /\ pc = "refactorer"
  /\ LET skipped == {"invalid_change_count_repair_failed", "invalid_old_new",
                     "diff_marker_in_replacement", "change_too_large"}
     IN  IF FromTable(mem.task) \/ mem.task = "comment"
         THEN Write(repo, Result(TRUE, FALSE, Text, "none"), FALSE)
         ELSE \E result \in Outcomes(File, Text, Replies(Text)) :
                Write(repo, [result EXCEPT !.ok = @ \/ result.why \in skipped], FALSE)

\* git diff of what was touched; git status of anything.
ReviewRole ==
  /\ program = "roles" /\ pc \in {"reviewer", "integrator"}
  /\ \E ok \in BOOLEAN :
       /\ ok => (mem.touched => Text # repo.index[File])
       /\ Route(ok, mem)
  /\ UNCHANGED <<program, repo>>

\* The rest of execute: commit what was touched, or back to the baseline.
Land ==
  /\ program = "roles" /\ pc \in {"land", "rollback"}
  /\ repo' = IF pc = "land" /\ mem.touched THEN Committed(Staged(repo, {File})) ELSE Reset(repo)
  /\ pc' = "idle" /\ UNCHANGED <<program, mem>>

RoleStep ==
  BeginRole \/ ImplementRole \/ TestRole \/ DebugRole \/ RefactorRole \/ ReviewRole \/ Land

-----------------------------------------------------------------------------
(* The stand-alone worker: main of worker_v2                               *)

Stop(r) == pc' = "exit" /\ repo' = r /\ UNCHANGED mem

\* choose_file, and the plan: of a comment, of a model, or none for a protected file.
PlanPatch ==
  /\ program = "patch" /\ pc = "idle"
  /\ LET first == IF File = "dispatcher"
                  THEN {CommentPlan(Text, Comment, Flow), Refused} ELSE Replies(Text)
         found == UNION {Shaped(File, Text, plan) : plan \in first}
     IN  \/ Stop(repo)
         \/ /\ Those(found, "no_change") # {}
            /\ pc' = "tests" /\ UNCHANGED <<repo, mem>>
         \/ \E j \in Those(found, "ok") : \E new \in Applications(File, Text, j.plan) :
              /\ pc' = "tests" /\ repo' = Written(repo, File, new)
              /\ mem' = [mem EXCEPT !.touched = TRUE]
  /\ UNCHANGED program

\* One repair, from the restored file and unless it does not even compile; a time
\* out of pytest ends the worker with the file as it is.
TestPatch ==
  /\ program = "patch" /\ pc = "tests"
  /\ \/ /\ mem.touched => Parses(Text)
        /\ IF mem.touched THEN pc' = "commit" ELSE pc' = "exit"
        /\ mem' = [mem EXCEPT !.passed = Text] /\ UNCHANGED repo
     \/ ~mem.touched /\ Stop(repo)
     \/ mem.touched /\ (~Parses(Text) \/ mem.tries.test = 1) /\ Stop(Restored(repo, {File}))
     \/ /\ mem.touched /\ Parses(Text) /\ mem.tries.test = 0
        /\ pc' = "repair" /\ repo' = Restored(repo, {File})
        /\ mem' = [mem EXCEPT !.tries.test = 1]
     \/ mem.touched /\ Stop(repo)
  /\ UNCHANGED program

RepairPatch ==
  /\ program = "patch" /\ pc = "repair"
  /\ LET plans == IF File = "dispatcher"
                  THEN {CommentPlan(Text, Comment, Flow), Refused} ELSE Replies(Text)
         results == UNION {Direct(File, Text, plan) : plan \in plans}
     IN  \/ \E result \in results :
              /\ result.edited
              /\ pc' = "tests" /\ repo' = Written(repo, File, result.text) /\ UNCHANGED mem
         \/ Stop(repo)
  /\ UNCHANGED program

\* git add, commit and checkout -B; each may fail, and restore() takes the index.
CommitPatch ==
  /\ program = "patch" /\ pc = "commit"
  /\ LET staged == Staged(repo, {File})
     IN  \/ Stop(Restored(repo, {File}))
         \/ Stop(Restored(staged, {File}))
         \/ Stop(Committed(staged))
  /\ UNCHANGED program

PatchStep == PlanPatch \/ TestPatch \/ RepairPatch \/ CommitPatch
=============================================================================
