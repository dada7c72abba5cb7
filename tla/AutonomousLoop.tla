---------------------------- MODULE AutonomousLoop ----------------------------
(***************************************************************************)
(* Runs of the distributed autonomous loop, one after the other (the       *)
(* workflow's concurrency group holds the next one back).  A run loads the *)
(* durable state from its branch, may resume one held task with a human's  *)
(* approval, refills the queue, launches one task at a time behind its     *)
(* gates, publishes what it produced, saves the completed ids and the      *)
(* Recovery AI records in two pushes, reports, and may be followed by a    *)
(* run that Chain Job AI asked for.                                        *)
(*                                                                         *)
(* Everything under /tmp is `local`, and lost with the run: only the three *)
(* pushes reach anything that lasts, and a run may be cancelled between    *)
(* any two steps (the job's time limit, or an operator).                   *)
(***************************************************************************)
EXTENDS LoopPolicy

CONSTANTS
  Tracked,      \* the tasks of the tracked queue file, in order
  Approved,     \* catalog tasks that carry execution_approved
  MaxAdditions, \* max_additions_per_run of the catalog
  MaxTasks,     \* the run's --max-tasks
  MaxDepth,     \* --max-depth of Chain Job AI
  Human         \* TRUE: an operator may stop, approve and meddle

ASSUME LoopAssumption ==
  /\ Tracked \in Seq(Task) /\ IsInjective(Tracked)
  /\ Approved \subseteq Task /\ IsFiniteSet(Approved)
  /\ MaxAdditions \in Nat \ {0} /\ MaxTasks \in Nat \ {0} /\ MaxDepth \in Nat \ {0}
  /\ Human \in BOOLEAN

VARIABLES
  branch,  \* .autonomous-loop-state.json on its branch: [completed, recs]
  local,   \* the run's copies of the two state files: [completed, recs]
  run,     \* what the run was started with: [depth, approval, registered]
  pc,      \* the step the run is at
  queue,   \* the runtime queue
  todo,    \* the tasks the loop picked
  index,   \* and the one it is at
  base,    \* the HEAD the current decision is bound to
  tree,    \* HEAD of the runner's checkout
  dirty,   \* whether that checkout has uncommitted changes
  stop,    \* the stop file of the runner
  result,  \* the row of the current task, before it is settled
  tries,   \* transient retries of the current task
  rows,    \* the result rows of the run
  marker,  \* "none", or the sentinel of a run without a task
  gates,   \* the outcomes of the steps
  pushed,  \* what the run pushed to its development branch
  verdict  \* [report, chain]: the final report and Chain Job AI's decision

vars == <<branch, local, run, pc, queue, todo, index, base, tree, dirty, stop, result,
          tries, rows, marker, gates, pushed, verdict>>

taskVars   == <<queue, todo, index, base, result, tries, rows>>
outVars    == <<marker, gates, pushed, verdict>>
Start      == <<>>                \* GITHUB_SHA
NoGates    == [g \in {"loop", "publish", "state", "recovery", "sheets"} |-> "skipped"]
NoResult   == Refused("none", "", 0, Start, Start)
NoState    == [completed |-> {}, recs |-> [t \in Task |-> NoRecord]]
NoRun      == [depth |-> 0, approval |-> "none", registered |-> Task]
Held       == {t \in Task : Blocks(local.recs[t])}
Done       == local.completed \cup {rows[i].task : i \in DOMAIN rows}
Current    == todo[index]
Outcome(b) == IF b THEN "success" ELSE "failure"

\* A durable state a run may find first: some task may have been resumed by an
\* earlier run and still await its review.
Init ==
  /\ \E recs \in [Task -> {NoRecord, [NoRecord EXCEPT !.review = TRUE]}] :
       branch = [completed |-> {}, recs |-> recs]
  /\ local = NoState /\ run = NoRun /\ pc = "idle" /\ queue = <<>> /\ todo = <<>>
  /\ index = 0 /\ base = Start /\ tree = Start /\ dirty = FALSE /\ stop = FALSE
  /\ result = NoResult /\ tries = 0 /\ rows = <<>> /\ marker = "none" /\ gates = NoGates
  /\ pushed = Start /\ verdict = [report |-> "none", chain |-> "none"]

\* The run ends, and what its runner held is gone.
EndRun(report, chain) ==
  /\ pc' = "idle" /\ verdict' = [report |-> report, chain |-> chain]
  /\ local' = NoState /\ queue' = <<>> /\ todo' = <<>> /\ index' = 0 /\ base' = Start
  /\ tree' = Start /\ dirty' = FALSE /\ stop' = FALSE /\ result' = NoResult /\ tries' = 0
  /\ rows' = <<>> /\ marker' = "none" /\ gates' = NoGates /\ pushed' = Start
  /\ run' = [run EXCEPT !.approval = "none", !.registered = Task]

-----------------------------------------------------------------------------
(* Before the loop                                                         *)

\* Mutant: a run that cannot read the branch starts from an empty state.
StartRunAnyway(depth, approval, registered) ==
  /\ pc = "idle" /\ depth = (IF verdict.chain = "continue" THEN run.depth + 1 ELSE 0)
  /\ run' = [depth |-> depth, approval |-> approval, registered |-> registered]
  /\ local' \in {branch, NoState} /\ pc' = (IF approval = "none" THEN "refill" ELSE "resume")
  /\ verdict' = [report |-> "none", chain |-> "none"]
  /\ UNCHANGED <<branch, taskVars, tree, dirty, stop, marker, gates, pushed>>

\* A schedule or a human (depth 0), or Chain Job AI, starts a run; a human may
\* name a held task whose cause is fixed and reviewed.  `registered` is the
\* catalog at the commit that is checked out.
StartRun(depth, approval, registered) ==
  /\ pc = "idle" /\ depth = (IF verdict.chain = "continue" THEN run.depth + 1 ELSE 0)
  /\ run' = [depth |-> depth, approval |-> approval, registered |-> registered]
  /\ local' = branch /\ pc' = (IF approval = "none" THEN "refill" ELSE "resume")
  /\ verdict' = [report |-> "none", chain |-> "none"]
  /\ UNCHANGED <<branch, taskVars, tree, dirty, stop, marker, gates, pushed>>

\* The two resume scripts, on the run's local files.
ResumeApproved ==
  /\ pc = "resume"
  /\ LET t == run.approval
         ok == t \in run.registered /\ t \notin local.completed /\ local.recs[t].held
     IN  IF ok THEN /\ local' = [local EXCEPT !.recs[t] = Confirm(Resume(@))] /\ pc' = "refill"
                    /\ UNCHANGED <<run, taskVars, tree, dirty, stop, outVars>>
               ELSE EndRun("BLOCKED", "source_run_not_success")
  /\ UNCHANGED branch

Refill ==
  /\ pc = "refill" /\ pc' = "select" /\ base' = tree
  /\ queue' \in RuntimeQueues(Tracked, Approved \cap run.registered, MaxAdditions,
                              local.completed, local.recs)
  /\ UNCHANGED <<branch, local, run, todo, index, tree, dirty, stop, result, tries, rows, outVars>>

-----------------------------------------------------------------------------
(* run_minimal_autonomous_loop                                             *)

Row(res, scan, kept, allow) ==
  [task |-> res.task, status |-> res.status, exit |-> res.exit, base |-> res.base,
   produced |-> res.produced, why |-> res.why, rea |-> GateOpen(scan),
   verified |-> kept.verified, allow |-> allow]

\* A row that is written without going through Recovery AI.
PlainRow(task, status, exit, why) ==
  Row([Refused(task, why, exit, base, tree) EXCEPT !.status = status], "none",
      [verified |-> FALSE], FALSE)

EndLoop(exit, mark) ==
  /\ pc' = "publish" /\ marker' = mark
  /\ gates' = [gates EXCEPT !.loop = Outcome(exit = 0 \/ mark # "none")]

StopLoop(row) ==
  /\ rows' = Append(rows, row) /\ EndLoop(row.exit, "none")
  /\ UNCHANGED <<todo, index, base, result, tries>>

\* The sentinel the workflow leaves for exit code 78.
NotRunMarker ==
  LET catalog == run.registered
      eligible == (Approved \cap catalog) \ (ToSet(Tracked) \cup local.completed \cup Held)
  IN  IF eligible = {} /\ Held \cap catalog # {} THEN "held" ELSE "notrun"

\* main() up to the first launch.  `kill` is the repository's kill switch.
Select(kill) ==
  /\ pc = "select"
  /\ LET pick == SelectNext(queue, run.registered, local.completed, Held, base, tree)
         open == Among(queue, Task \ (local.completed \cup Held))
         size == IF Len(open) < MaxTasks THEN Len(open) ELSE MaxTasks
     IN  IF kill \/ ~ RegistryPreflight(queue, run.registered)
               \/ (pick.act = "HOLD" /\ pick.why # "task_held")
           THEN StopLoop(PlainRow("none", "BLOCKED", 80, "control_tower"))
         ELSE IF pick.act = "SELECT"
           THEN /\ todo' = SubSeq(open, 1, size) /\ index' = 1 /\ pc' = "gate"
                /\ UNCHANGED <<base, result, tries, rows, marker, gates>>
         ELSE /\ rows' = <<IF pick.act = "HOLD" THEN PlainRow("none", "BLOCKED", 79, "") ELSE PlainRow("none", "NOT_RUN", 78, "")>>
              /\ EndLoop(78, IF pick.act = "HOLD" THEN "held" ELSE NotRunMarker)
              /\ UNCHANGED <<todo, index, base, result, tries>>
  /\ UNCHANGED <<branch, local, run, queue, tree, dirty, stop, pushed, verdict>>

\* The gates of one iteration, in their order.
Gate(scan) ==
  /\ pc = "gate"
  /\ LET t    == Current
         pick == SelectNext(queue, run.registered, Done, Held, base, tree)
     IN  IF index > 1 /\ ~ Reselects(pick, t)
           THEN StopLoop(PlainRow(t, "BLOCKED", 80, "reselection"))
         ELSE IF stop THEN StopLoop(PlainRow(t, "STOPPED", 1, "stop"))
         ELSE IF tree # base \/ Blocks(local.recs[t])
           THEN StopLoop(PlainRow(t, "BLOCKED", 80, "gate"))
         ELSE /\ tries' = 0 /\ UNCHANGED <<todo, index, base, rows, marker, gates>>
              /\ IF ~ Authorized(t, run.registered, tree, base)
                   THEN pc' = "settle" /\ result' = Refused(t, "gate", 1, base, tree)
                 ELSE IF ~ GateOpen(scan)
                   THEN pc' = "settle" /\ result' = Refused(t, "rea", 80, base, tree)
                 ELSE pc' = "launch" /\ UNCHANGED result
  /\ scan \in ScanOutcomes(dirty)
  /\ UNCHANGED <<branch, local, run, queue, tree, dirty, stop, pushed, verdict>>

(* What the guarded runtime may leave behind: [exit, summary, says, head,  *)
(* code, reasoned] with the state of the checkout.  It scans again first,  *)
(* commits its change or restores the checkout, and says so in its         *)
(* summary; a process that is killed does neither.                         *)
Children(t) ==
  LET Leaves(exit, summary, says, code, head, mess) ==
        [child |-> [exit |-> exit, summary |-> summary, says |-> says, code |-> code,
                    head |-> head, reasoned |-> FALSE],
         dirty |-> mess]
      made == {Append(tree, t), Append(tree, "outside")}
  IN  {Leaves(0, TRUE, "PASS", "none", h, FALSE) : h \in {tree} \cup made}
        \cup {Leaves(80, TRUE, "BLOCKED", "none", tree, dirty)}
        \cup {Leaves(1, TRUE, "FAIL", c, tree, d) :
                c \in {"none", "invalid_task"} \cup Transient, d \in {dirty, TRUE}}
        \cup {Leaves(1, FALSE, "FAIL", "none", h, h = tree) : h \in {tree, Append(tree, t)}}

\* run_task: the HEAD is compared once more, then the child runs to its end, to
\* the time limit or to a stop.
RunTask(child, killed, stopped) ==
  /\ pc \in {"launch", "again"}
  /\ child \in Children(Current) /\ (stopped => stop)
  /\ killed # "no" => ~ child.child.summary
  /\ killed = "stop" => stop
  /\ IF tree # base
       THEN /\ result' = (IF pc = "launch" THEN Refused(Current, "head_changed", 1, base, tree) ELSE result)
            /\ pc' = "settle" /\ UNCHANGED <<tree, dirty>>
       ELSE /\ result' = Judge(Current, child.child, killed, stopped, base, child.child.head)
            /\ tree' = child.child.head /\ dirty' = child.dirty /\ pc' = "retry"
  /\ UNCHANGED <<branch, local, run, queue, todo, index, base, stop, tries, rows, outVars>>

\* A transient provider failure is tried again, after a pause, on the same HEAD.
Retry ==
  /\ pc = "retry"
  /\ IF tries < MaxRetries /\ RetryIsSafe(result, tree, ~ dirty) /\ ~ stop
       THEN pc' = "again" /\ tries' = tries + 1 /\ base' = tree
       ELSE pc' = "settle" /\ UNCHANGED <<tries, base>>
  /\ UNCHANGED <<branch, local, run, queue, todo, index, tree, dirty, stop, result, rows, outVars>>

\* The outcome is recorded, observed and judged; a success that the
\* orchestrator does not allow becomes a recorded failure.  Either file may
\* refuse to be written.
Settle(saves, observes) ==
  /\ pc = "settle"
  /\ LET t    == Current
         scan == IF result.why = "rea" THEN "incomplete" ELSE "pass"
         kept == IF saves THEN Record(local.recs[t], result, tries + 1)
                 ELSE [rec |-> local.recs[t], recorded |-> FALSE, verified |-> FALSE, result |-> result]
         allow == AllowsContinue(kept.result, scan, observes, kept)
         lost  == kept.result.status \in Successful /\ ~ allow
         final == IF lost THEN [kept.result EXCEPT !.status = "FAIL", !.exit = 1, !.why = "evidence"]
                  ELSE kept.result
         rec   == IF lost /\ saves THEN RecordFailure(kept.rec, "invalid_evidence", 1) ELSE kept.rec
         more  == allow /\ index < Len(todo)
     IN  /\ rows' = Append(rows, Row(final, scan, kept, allow))
         /\ local' = [local EXCEPT !.recs[t] = rec]
         /\ IF more THEN /\ index' = index + 1 /\ base' = tree /\ pc' = "gate"
                         /\ UNCHANGED <<marker, gates>>
                    ELSE EndLoop(IF allow THEN 0 ELSE 1, "none") /\ UNCHANGED <<index, base>>
  /\ result' = NoResult /\ tries' = 0
  /\ UNCHANGED <<branch, run, queue, todo, tree, dirty, stop, pushed, verdict>>

-----------------------------------------------------------------------------
(* After the loop                                                          *)

Publish(reaches) ==
  /\ pc = "publish" /\ pc' = "complete"
  /\ LET idle  == marker # "none" /\ tree = Start
         ready == marker = "none" /\ Publishable(rows, MaxTasks, queue, Start, tree)
         ok    == idle \/ (ready /\ (tree = Start \/ reaches))
     IN  IF gates.loop # "success" THEN UNCHANGED <<gates, pushed>>
         ELSE /\ gates' = [gates EXCEPT !.publish = Outcome(ok)]
              /\ pushed' = (IF ok THEN tree ELSE pushed)
  /\ UNCHANGED <<branch, local, run, taskVars, tree, dirty, stop, marker, verdict>>

\* Mutant: the completed ids are saved before the publish step's outcome is known.
PersistUnpublished(reaches) ==
  /\ pc = "complete" /\ pc' = "remember"
  /\ LET due == gates.loop = "success" /\ marker = "none"
     IN  /\ branch' = (IF due /\ reaches THEN
                         [branch EXCEPT !.completed = @ \cup {rows[i].task : i \in DOMAIN rows}]
                       ELSE branch)
         /\ gates' = [gates EXCEPT !.state = Outcome(~ due \/ reaches)]
  /\ UNCHANGED <<local, run, taskVars, tree, dirty, stop, marker, pushed, verdict>>

\* The completed ids go to the branch; the run's own copy stays as it was.
PersistCompleted(reaches) ==
  /\ pc = "complete" /\ pc' = "remember"
  /\ LET due == gates.publish = "success" /\ marker = "none"
     IN  /\ branch' = (IF due /\ reaches THEN
                         [branch EXCEPT !.completed = @ \cup {rows[i].task : i \in DOMAIN rows}]
                       ELSE branch)
         /\ gates' = (IF gates.publish # "success" THEN gates
                      ELSE [gates EXCEPT !.state = Outcome(~ due \/ reaches)])
  /\ UNCHANGED <<local, run, taskVars, tree, dirty, stop, marker, pushed, verdict>>

\* Mutant: only the records of the tasks that have a row are saved.
PersistRows(reaches) ==
  /\ pc = "remember" /\ pc' = "report"
  /\ branch' = (IF marker = "none" /\ reaches
                THEN [branch EXCEPT !.recs = [t \in Task |->
                        IF \E i \in DOMAIN rows : rows[i].task = t THEN local.recs[t] ELSE NoRecord]]
                ELSE branch)
  /\ gates' = [gates EXCEPT !.recovery = Outcome(marker # "none" \/ reaches)]
  /\ UNCHANGED <<local, run, taskVars, tree, dirty, stop, marker, pushed, verdict>>

\* The Recovery AI records go there in a push of their own, also after a
\* failure of the steps before.
PersistRecovery(reaches) ==
  /\ pc = "remember" /\ pc' = "report"
  /\ branch' = (IF marker = "none" /\ reaches THEN [branch EXCEPT !.recs = local.recs] ELSE branch)
  /\ gates' = [gates EXCEPT !.recovery = Outcome(marker # "none" \/ reaches)]
  /\ UNCHANGED <<local, run, taskVars, tree, dirty, stop, marker, pushed, verdict>>

\* The ledger row, the final report, and Chain Job AI on the uploaded artifact.
Report(ledger, kill) ==
  /\ pc = "report" /\ UNCHANGED branch
  /\ LET all == [gates EXCEPT !.sheets = Outcome(ledger)]
         conclusion == Outcome(\A g \in DOMAIN all : all[g] = "success")
     IN  EndRun(ClassifyFinal([i \in DOMAIN rows |-> rows[i].status], all, marker = "notrun",
                  marker = "held", MaxTasks, QueueOpen(queue, local.completed, rows)),
                ChainDecision(conclusion, kill, run.depth, MaxDepth, rows, local.completed))

-----------------------------------------------------------------------------
(* The surroundings                                                        *)

\* The stop file, or its remote form, appears while the run is under way.
OperatorStops ==
  /\ Human /\ pc \in {"gate", "launch", "retry"} /\ ~ stop /\ stop' = TRUE
  /\ UNCHANGED <<branch, local, run, pc, taskVars, tree, dirty, outVars>>

\* Something else than the loop moves HEAD; once is enough.
HeadMoves ==
  /\ Human /\ pc \in {"select", "launch", "again", "publish"}
  /\ ~ Contains(tree, "stray") /\ tree' = Append(tree, "stray")
  /\ UNCHANGED <<branch, local, run, pc, taskVars, dirty, stop, outVars>>

\* The review workflow, in the same concurrency group: it confirms a resumed
\* task on the branch itself.
ConfirmReview(t) ==
  /\ Human /\ pc = "idle" /\ ~ branch.recs[t].held /\ branch.recs[t].review
  /\ branch' = [branch EXCEPT !.recs[t] = Confirm(@)]
  /\ UNCHANGED <<local, run, pc, taskVars, tree, dirty, stop, outVars>>

\* The job reaches its time limit or is cancelled.
Cancel ==
  /\ pc # "idle" /\ EndRun("none", "source_run_not_success") /\ UNCHANGED branch

Next ==
  \/ \E d \in 0 .. MaxDepth, a \in Task \cup {"none"}, reg \in {Task, Task \ ToSet(Tracked)} :
       (a # "none" => Human) /\ StartRun(d, a, reg)
  \/ ResumeApproved \/ Refill \/ \E kill \in BOOLEAN : Select(kill)
  \/ \E scan \in {"incomplete", "high", "pass"} : Gate(scan)
  \/ \E child \in (IF pc \in {"launch", "again"} THEN Children(Current) ELSE {}),
        killed \in {"no", "timeout", "stop"}, stopped \in BOOLEAN :
       RunTask(child, killed, stopped)
  \/ Retry
  \/ \E saves, observes \in BOOLEAN : Settle(saves, observes)
  \/ \E reaches \in BOOLEAN : Publish(reaches) \/ PersistCompleted(reaches) \/ PersistRecovery(reaches)
  \/ \E ledger, kill \in BOOLEAN : Report(ledger, kill)
  \/ \E t \in Task : ConfirmReview(t)
  \/ OperatorStops \/ HeadMoves \/ Cancel

Spec == Init /\ [][Next]_vars

-----------------------------------------------------------------------------
(* Properties                                                              *)

(***************************************************************************)
(* A task that the durable branch holds, or whose review is still open     *)
(* there, and a task that is completed there, is never launched -- unless  *)
(* this very run was started with a human's approval for it.  The loop     *)
(* decides on copies it made at its start, and writes its records back     *)
(* only at the end.                                                        *)
(***************************************************************************)
HoldBinds ==
  pc \in {"launch", "again"} =>
    /\ Current \notin branch.completed
    /\ Blocks(branch.recs[Current]) => run.approval = Current

(***************************************************************************)
(* A hold, or an open review, disappears from the durable branch only      *)
(* through a human: at the end of a run that was approved for that task,   *)
(* or, once the task was resumed, by the review workflow.  Saving the      *)
(* records of other tasks never lifts it.                                  *)
(***************************************************************************)
HoldNeedsAHuman ==
  [][\A t \in Task : Blocks(branch.recs[t]) /\ ~ Blocks(branch'.recs[t]) =>
       run.approval = t \/ (pc = "idle" /\ ~ branch.recs[t].held)]_vars

(***************************************************************************)
(* A task id enters the completed list only after the publish step of the  *)
(* same run accepted a verified success of it, and never leaves the list.  *)
(***************************************************************************)
CompletedWasPublished ==
  [][/\ branch.completed \subseteq branch'.completed
     /\ \A t \in branch'.completed \ branch.completed :
          \E k \in DOMAIN rows :
            /\ rows[k].task = t /\ rows[k].verified /\ rows[k].allow
            /\ IsPrefix(rows[k].produced, pushed)]_vars

(***************************************************************************)
(* The final report tells the truth about the branch: after COMPLETED each *)
(* task of the run is completed there with no failure on record and all it *)
(* made is pushed; after NOT_RUN nothing was committed, and no task of the *)
(* catalog is held or waits for its review.                                *)
(***************************************************************************)
ReportIsTrue ==
  [][pc = "report" /\ pc' = "idle" =>
       /\ verdict'.report = "COMPLETED" =>
            /\ pushed = tree
            /\ \A k \in DOMAIN rows :
                 /\ rows[k].task \in branch.completed
                 /\ ~ Blocks(branch.recs[rows[k].task]) /\ branch.recs[rows[k].task].count = 0
       /\ verdict'.report = "NOT_RUN" =>
            /\ tree = Start /\ Held \cap run.registered = {}]_vars

(***************************************************************************)
(* Chain Job AI, by its own words, "authorizes the next bounded job when   *)
(* runtime, Control Tower, and durable completion evidence all agree": it  *)
(* stops for want of a durable completion only if one is wanting.          *)
(***************************************************************************)
ChainReadsDurable ==
  [][verdict'.chain = "durable_completion_not_confirmed" /\ pc = "report" =>
       \E k \in DOMAIN rows : rows[k].task \notin branch.completed]_vars
=============================================================================
