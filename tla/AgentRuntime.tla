----------------------------- MODULE AgentRuntime -----------------------------
(***************************************************************************)
(* core/agent_runtime.py: a development run of implementer, tester,        *)
(* reviewer and integrator with its bounded repairs.  Every result passes  *)
(* the execution safety gate, and a run stops at the first one that is     *)
(* refused, raised or unsuccessful.                                        *)
(***************************************************************************)
EXTENDS Naturals, Sequences, TaskGraphs

CONSTANT MaxRounds

ASSUME RuntimeAssumption == MaxRounds \in 1 .. 3

VARIABLE team   \* the development: its current tasks, what completed, the report

RequiredRoles == {"implementer", "tester", "reviewer", "integrator"}
RuntimeRoles  == RequiredRoles \cup {"repairer"}
NoReport      == [status |-> "none", task |-> "none"]

RuntimeInit ==
  \E equipped \in {E \in SUBSET RuntimeRoles : Cardinality(RuntimeRoles \ E) <= 1} :
    team = [at |-> "idle", executors |-> equipped, current |-> << >>, done |-> {},
            completed |-> << >>, repairs |-> 0, failed |-> "none", report |-> NoReport,
            observed |-> 0]

\* _finalize_development: the control tower sees every report once, and none of its
\* failures is one of the run.
Finalized(status, task) ==
  [team EXCEPT !.at = "end", !.report = [status |-> status, task |-> task], !.observed = @ + 1]

Task(role, deps) == [role |-> role, resources |-> {}, deps |-> deps]

\* run_development's own plan: one task of each role, with any dependencies.
Start(tasks) ==
  /\ team.at = "idle"
  /\ team' = IF ~ RequiredRoles \subseteq {tasks[t].role : t \in DOMAIN tasks} \/ ~GraphIsValid(tasks)
             THEN Finalized("error", "none")
             ELSE [team EXCEPT !.at = "running", !.current = tasks]

\* What execute and the gate's verify make of a task.
Outcomes == {"ok", "failed", "raised", "unverified"}

\* _run_batch and the loop of run: a missing executor stops the run before the batch;
\* after a result that is not one, none of the batch's counts; after an unsuccessful one,
\* those before it do.
RunTasks(batch) ==
  /\ team.at \in {"running", "repairing"}
  /\ batch \in Batches(team.current, team.done)
  /\ LET Logged(kept)        == IF kept = {} THEN team.completed
                               ELSE Append(team.completed, {team.current[t].role : t \in kept})
         Stopped(task, kept) == [team EXCEPT !.at = IF @ = "repairing" THEN "unrepaired" ELSE "stopped",
                                             !.failed = task, !.completed = Logged(kept)]
         missing == {t \in batch : team.current[t].role \notin team.executors}
         after   == [team EXCEPT !.done = @ \cup batch, !.completed = Logged(batch)]
     IN  IF missing # {} THEN \E task \in missing : team' = Stopped(task, {})
         ELSE \/ \E task \in batch, outcome \in Outcomes \ {"ok"} :
                   IF outcome = "failed"
                   THEN \E kept \in SUBSET (batch \ {task}) : team' = Stopped(task, kept)
                   ELSE team' = Stopped(task, {})
              \/ team' = IF after.done # DOMAIN team.current THEN after
                         ELSE [after EXCEPT !.at = IF @ = "repairing" THEN "repaired" ELSE "gated"]

\* A failed test or review is repaired while attempts are left; anything else is final.
Judge ==
  /\ team.at = "stopped"
  /\ team' = IF team.current[team.failed].role \notin {"tester", "reviewer"}
                \/ team.repairs >= MaxRounds - 1
             THEN Finalized("failed", team.failed)
             ELSE [team EXCEPT !.at = "planning", !.repairs = @ + 1]

\* repair_planner.repair_task: none there, one that raises or returns no repairer's task
\* ends the run.
PlanRepair ==
  /\ team.at = "planning"
  /\ \/ team' = Finalized("failed", team.failed)
     \/ team' = [team EXCEPT !.at = "repairing", !.done = {},
                             !.current = [repair |-> Task("repairer", {})]]

RepairFailed ==
  /\ team.at = "unrepaired"
  /\ team' = Finalized("failed", team.failed)

\* Mutant: the gate follows the test.
UnreviewedFollowUp ==
  [retest |-> Task("tester", {}), review |-> Task("reviewer", {}),
   gate |-> Task("integrator", {"retest"})]

\* _follow_up_tasks: test again, then review again, then the gate again.
FollowUp ==
  [retest |-> Task("tester", {}), review |-> Task("reviewer", {"retest"}),
   gate |-> Task("integrator", {"review"})]

NextRound ==
  /\ team.at = "repaired"
  /\ team' = [team EXCEPT !.at = "running", !.current = FollowUp, !.done = {}, !.failed = "none"]

IntegrationReady ==
  /\ team.at = "gated"
  /\ team' = Finalized("ready", "none")

RuntimeNext ==
  \/ team.at = "idle"
     /\ \E roles \in SUBSET RequiredRoles :
          \E deps \in [roles -> SUBSET roles] : Start([r \in roles |-> Task(r, deps[r])])
  \/ team.at \in {"running", "repairing"} /\ \E batch \in SUBSET DOMAIN team.current : RunTasks(batch)
  \/ Judge \/ PlanRepair \/ RepairFailed \/ NextRound \/ IntegrationReady
-----------------------------------------------------------------------------
RuntimeTypeOK ==
  /\ team.done \subseteq DOMAIN team.current
  /\ team.repairs \in 0 .. MaxRounds - 1
  /\ team.report.status \in {"none", "error", "failed", "ready"}
  /\ team.observed = (IF team.at = "end" THEN 1 ELSE 0)

\* A run that reports itself ready for integration has passed every role or, when
\* something was repaired, a test, then a review, then the gate, after the last repair.
\* (What the first plan had not run by then is never run.)
GateFollowsRepair ==
  team.report.status = "ready" =>
    LET log  == team.completed
        last == {i \in DOMAIN log : "repairer" \in log[i]}
    IN  IF last = {} THEN RequiredRoles \subseteq UNION {log[i] : i \in DOMAIN log}
        ELSE \E i, j, k \in DOMAIN log :
               /\ \A l \in last : l < i
               /\ i < j /\ j < k
               /\ "tester" \in log[i] /\ "reviewer" \in log[j] /\ "integrator" \in log[k]
=============================================================================
