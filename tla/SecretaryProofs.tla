--------------------------- MODULE SecretaryProofs ---------------------------
(***************************************************************************)
(* The programs that answer or act for one message, or for one run of a    *)
(* workflow, proved for any number of repairs, files, roles, tasks,        *)
(* requests and cycles.                                                    *)
(*                                                                         *)
(* They share no state: one section finds the inductive invariant of each  *)
(* (its type, and what must be true at every position of its program for   *)
(* the property to hold at the end), and the last puts them together.      *)
(***************************************************************************)
EXTENDS Secretary, FiniteSetTheorems, SequenceTheorems, TLAPS

------------------------------------------------------------------------------
\* AgentRuntime: the team of agents that answers one request.

-----------------------------------------------------------------------------
(* The agent runtime *)

TaskNames   == RequiredRoles \cup {"repair", "retest", "review", "gate"}
RepairPlan  == [repair |-> Task("repairer", {})]
FirstPlans  == {plan \in [RequiredRoles -> [role : RequiredRoles, resources : {{}},
                                            deps : SUBSET RequiredRoles]] :
                  \A r \in RequiredRoles : plan[r].role = r}

TeamType ==
  [at : {"idle", "running", "gated", "stopped", "planning", "repairing", "unrepaired",
         "repaired", "end"},
   executors : SUBSET RuntimeRoles, current : FirstPlans \cup {<< >>, RepairPlan, FollowUp},
   done : SUBSET TaskNames, completed : Seq(SUBSET RuntimeRoles), repairs : 0 .. MaxRounds - 1,
   failed : TaskNames \cup {"none"},
   report : [status : {"none", "error", "failed", "ready"}, task : TaskNames \cup {"none"}],
   observed : {0, 1}]

\* The batches in which a repairer worked, and those after the last of them.
RepairsIn(log)  == {i \in DOMAIN log : "repairer" \in log[i]}
Late(log)       == {i \in DOMAIN log : \A l \in RepairsIn(log) : l < i}

\* What the log shows of the follow-up tasks that are done.
Retested(log)   == \E i \in Late(log) : "tester" \in log[i]
Rereviewed(log) == \E i \in Late(log), j \in DOMAIN log :
                     i < j /\ "tester" \in log[i] /\ "reviewer" \in log[j]
Regated(log)    == \E i \in Late(log), j, k \in DOMAIN log :
                     /\ i < j /\ j < k
                     /\ "tester" \in log[i] /\ "reviewer" \in log[j] /\ "integrator" \in log[k]

\* What is done of the first plan is in the log, beside no repair; what is done of the
\* follow-up tasks is in it behind the last repair, in their order.
LogShows ==
  LET log == team.completed
  IN  /\ team.current \in FirstPlans =>
           RepairsIn(log) = {} /\ \A t \in team.done : \E i \in DOMAIN log : t \in log[i]
      /\ team.current = FollowUp =>
           /\ RepairsIn(log) # {}
           /\ "retest" \in team.done => Retested(log)
           /\ "review" \in team.done => Rereviewed(log)
           /\ "gate" \in team.done => Regated(log)

\* Where a run is says which plan it works on, and how far.
Phases ==
  /\ team.done \subseteq DOMAIN team.current
  /\ team.at = "idle" => team.current = << >> /\ team.completed = << >>
  /\ team.at \in {"running", "gated"} => team.current \in FirstPlans \cup {FollowUp}
  /\ team.at \in {"repairing", "unrepaired", "repaired"} => team.current = RepairPlan
  /\ team.at = "repaired" => RepairsIn(team.completed) # {}
  /\ team.at = "gated" => team.done = DOMAIN team.current
  /\ (team.at = "end") <=> team.report.status # "none"
  /\ team.observed = (IF team.at = "end" THEN 1 ELSE 0)

RuntimeInv == team \in TeamType /\ Phases /\ LogShows /\ GateFollowsRepair

\* The three kinds of plan differ by their domains.
LEMMA PlansDiffer ==
  /\ DOMAIN RepairPlan = {"repair"} /\ RepairPlan["repair"].role = "repairer"
  /\ DOMAIN FollowUp = {"retest", "review", "gate"}
  /\ FollowUp["retest"] = Task("tester", {}) /\ FollowUp["review"] = Task("reviewer", {"retest"})
  /\ FollowUp["gate"] = Task("integrator", {"review"})
  /\ \A plan \in FirstPlans : DOMAIN plan = RequiredRoles /\ \A r \in RequiredRoles : plan[r].role = r
  /\ RepairPlan # FollowUp /\ RepairPlan \notin FirstPlans /\ FollowUp \notin FirstPlans
  /\ << >> \notin FirstPlans \cup {RepairPlan, FollowUp}
<1>1. DOMAIN RepairPlan = {"repair"} /\ RepairPlan["repair"].role = "repairer"
  BY DEF RepairPlan, Task
<1>2. /\ DOMAIN FollowUp = {"retest", "review", "gate"}
      /\ FollowUp["retest"] = Task("tester", {}) /\ FollowUp["review"] = Task("reviewer", {"retest"})
      /\ FollowUp["gate"] = Task("integrator", {"review"})
  BY DEF FollowUp
<1>3. \A plan \in FirstPlans : DOMAIN plan = RequiredRoles /\ \A r \in RequiredRoles : plan[r].role = r
  BY DEF FirstPlans
<1>4. "implementer" \in RequiredRoles /\ DOMAIN << >> = {}
  BY DEF RequiredRoles
<1> QED BY <1>1, <1>2, <1>3, <1>4 DEF RequiredRoles

\* A log that grows by a batch without a repairer keeps what it shows.
LEMMA LogGrows ==
  ASSUME NEW log \in Seq(SUBSET RuntimeRoles), NEW roles \in SUBSET RuntimeRoles,
         "repairer" \notin roles
  PROVE  LET new == Append(log, roles)
         IN  /\ new \in Seq(SUBSET RuntimeRoles)
             /\ RepairsIn(new) = RepairsIn(log)
             /\ \A r : (\E i \in DOMAIN log : r \in log[i]) => \E i \in DOMAIN new : r \in new[i]
             /\ \A r \in roles : \E i \in DOMAIN new : r \in new[i]
             /\ Retested(log) \/ "tester" \in roles => Retested(new)
             /\ Rereviewed(log) \/ (Retested(log) /\ "reviewer" \in roles) => Rereviewed(new)
             /\ Regated(log) \/ (Rereviewed(log) /\ "integrator" \in roles) => Regated(new)
<1> DEFINE new == Append(log, roles)
           n   == Len(log)
<1>1. /\ n \in Nat /\ DOMAIN log = 1 .. n
      /\ new \in Seq(SUBSET RuntimeRoles) /\ DOMAIN new = 1 .. n + 1
      /\ \A i \in 1 .. n : new[i] = log[i]
      /\ new[n + 1] = roles
  OBVIOUS
<1>2. RepairsIn(new) = RepairsIn(log)
  BY <1>1 DEF RepairsIn
<1>3. Late(log) \subseteq Late(new) /\ n + 1 \in Late(new) /\ Late(log) \subseteq 1 .. n
  BY <1>1, <1>2 DEF Late, RepairsIn
<1> HIDE DEF new, n
<1>4. Retested(log) \/ "tester" \in roles => Retested(new)
  BY <1>1, <1>3 DEF Retested
<1>5. Rereviewed(log) \/ (Retested(log) /\ "reviewer" \in roles) => Rereviewed(new)
  BY <1>1, <1>3 DEF Retested, Rereviewed
<1>6. Regated(log) \/ (Rereviewed(log) /\ "integrator" \in roles) => Regated(new)
  BY <1>1, <1>3 DEF Rereviewed, Regated
<1> QED BY <1>1, <1>2, <1>4, <1>5, <1>6 DEF new

\* The roles that the log is told of.
RolesOf(B)   == {team.current[t].role : t \in B}
Logged(kept) == IF kept = {} THEN team.completed ELSE Append(team.completed, RolesOf(kept))

\* Whatever part of a batch is logged, what the log showed it still shows; and it shows
\* the whole batch, which follows what it depends on.
LEMMA LoggedShows ==
  ASSUME RuntimeInv, NEW kept \in SUBSET DOMAIN team.current
  PROVE  /\ Logged(kept) \in Seq(SUBSET RuntimeRoles)
         /\ LogShows /\ team.current # RepairPlan =>
              LET log == Logged(kept)
              IN  /\ team.current \in FirstPlans =>
                       /\ RepairsIn(log) = {}
                       /\ \A t \in team.done \cup kept : \E i \in DOMAIN log : t \in log[i]
                  /\ team.current = FollowUp =>
                       /\ RepairsIn(log) # {}
                       /\ "retest" \in team.done \cup kept => Retested(log)
                       /\ "review" \in team.done \/ ("review" \in kept /\ "retest" \in team.done) => Rereviewed(log)
                       /\ "gate" \in team.done \/ ("gate" \in kept /\ "review" \in team.done) => Regated(log)
<1>1. /\ team.completed \in Seq(SUBSET RuntimeRoles)
      /\ team.current \in FirstPlans \cup {<< >>, RepairPlan, FollowUp}
  BY DEF RuntimeInv, TeamType
<1>2. RolesOf(kept) \in SUBSET RuntimeRoles
  BY <1>1, PlansDiffer DEF RolesOf, RuntimeRoles, RequiredRoles, Task
<1>3. CASE kept = {}
  BY <1>1, <1>3 DEF Logged, LogShows
<1>4. CASE kept # {} /\ team.current = RepairPlan
  BY <1>1, <1>2, <1>4 DEF Logged
<1>5. CASE kept # {} /\ team.current = << >>
  BY <1>5
<1>6. CASE kept # {} /\ team.current \in FirstPlans
  <2>1. "repairer" \notin RolesOf(kept) /\ kept \subseteq RolesOf(kept)
    BY <1>6, PlansDiffer DEF RolesOf, RequiredRoles
  <2>2. Logged(kept) = Append(team.completed, RolesOf(kept))
    BY <1>6 DEF Logged
  <2>3. /\ RepairsIn(Logged(kept)) = RepairsIn(team.completed)
        /\ \A r : (\E i \in DOMAIN team.completed : r \in team.completed[i])
                   => \E i \in DOMAIN Logged(kept) : r \in Logged(kept)[i]
        /\ \A r \in RolesOf(kept) : \E i \in DOMAIN Logged(kept) : r \in Logged(kept)[i]
        /\ Logged(kept) \in Seq(SUBSET RuntimeRoles)
    BY <1>1, <1>2, <2>1, <2>2, LogGrows
  <2> QED BY <1>6, <2>1, <2>3, PlansDiffer DEF LogShows
<1>7. CASE kept # {} /\ team.current = FollowUp
  <2>1. /\ "repairer" \notin RolesOf(kept)
        /\ "retest" \in kept => "tester" \in RolesOf(kept)
        /\ "review" \in kept => "reviewer" \in RolesOf(kept)
        /\ "gate" \in kept => "integrator" \in RolesOf(kept)
    BY <1>7, PlansDiffer DEF RolesOf, Task
  <2>2. Logged(kept) = Append(team.completed, RolesOf(kept))
    BY <1>7 DEF Logged
  <2> QED BY <1>1, <1>2, <1>7, <2>1, <2>2, LogGrows, PlansDiffer DEF LogShows
<1> QED BY <1>1, <1>3, <1>4, <1>5, <1>6, <1>7

\* A batch that stops the run leaves its plan behind, one that does not adds to it.
LEMMA RunTasksInv ==
  ASSUME RuntimeInv, NEW batch \in SUBSET DOMAIN team.current, RunTasks(batch)
  PROVE  RuntimeInv'
<1>1. /\ team \in TeamType /\ Phases /\ LogShows
      /\ team.at \in {"running", "repairing"}
      /\ team.report.status = "none"
  BY DEF RuntimeInv, RunTasks, Phases
<1>2. /\ batch # {} /\ batch \subseteq TaskNames
      /\ \A t \in batch : team.current[t].deps \subseteq team.done
  <2>1. /\ batch # {} /\ batch \subseteq Ready(team.current, team.done)
    BY DEF RunTasks, Batches
  <2>2. team.current \in FirstPlans \cup {<< >>, RepairPlan, FollowUp}
    BY <1>1 DEF TeamType
  <2>3. DOMAIN team.current \subseteq TaskNames
    BY <2>2, PlansDiffer DEF TaskNames
  <2> QED BY <2>1, <2>3 DEF Ready
<1>3. /\ team.at = "running" => team.current \in FirstPlans \cup {FollowUp}
      /\ team.at = "repairing" => team.current = RepairPlan
  BY <1>1 DEF Phases
<1>4. ASSUME NEW task \in batch, NEW kept \in SUBSET batch,
             team' = [team EXCEPT !.at = IF @ = "repairing" THEN "unrepaired" ELSE "stopped",
                                  !.failed = task, !.completed = Logged(kept)]
      PROVE  RuntimeInv'
  <2>1. /\ team' \in TeamType
        /\ team'.completed = Logged(kept) /\ UNCHANGED <<team.current, team.done, team.report, team.observed>>
        /\ team'.at = IF team.at = "repairing" THEN "unrepaired" ELSE "stopped"
    BY <1>1, <1>2, <1>4, LoggedShows DEF TeamType
  <2>2. Phases'
    BY <1>1, <1>3, <2>1 DEF Phases
  <2>3. LogShows'
    BY <1>1, <1>3, <2>1, LoggedShows, PlansDiffer DEF LogShows
  <2>4. GateFollowsRepair'
    BY <1>1, <2>1 DEF GateFollowsRepair
  <2> QED BY <2>1, <2>2, <2>3, <2>4 DEF RuntimeInv
<1>5. ASSUME NEW at \in {"running", "repairing", "repaired", "gated"},
             team' = [team EXCEPT !.at = at, !.done = @ \cup batch, !.completed = Logged(batch)],
             at \in {"running", "repairing"} => at = team.at,
             at = "repaired" => team.at = "repairing",
             at = "gated" => team.at = "running" /\ team.done \cup batch = DOMAIN team.current
      PROVE  RuntimeInv'
  <2>1. /\ team' \in TeamType
        /\ team'.completed = Logged(batch) /\ team'.done = team.done \cup batch
        /\ UNCHANGED <<team.current, team.report, team.observed>> /\ team'.at = at
    BY <1>1, <1>2, <1>5, LoggedShows DEF TeamType
  <2>2. at = "repaired" => RepairsIn(team'.completed) # {}
    <3> SUFFICES ASSUME at = "repaired" PROVE RepairsIn(team'.completed) # {}
      OBVIOUS
    <3>1. batch = {"repair"} /\ "repairer" \in RolesOf(batch)
      BY <1>2, <1>3, <1>5, PlansDiffer DEF RolesOf
    <3>2. team.completed \in Seq(SUBSET RuntimeRoles)
      BY <1>1 DEF TeamType
    <3>3. team'.completed = Append(team.completed, RolesOf(batch))
      BY <1>2, <2>1 DEF Logged
    <3> QED BY <3>1, <3>2, <3>3 DEF RepairsIn
  <2>3. Phases'
    BY <1>1, <1>3, <1>5, <2>1, <2>2 DEF Phases
  <2>4. LogShows'
    <3>1. team.current = FollowUp /\ "review" \in batch => "retest" \in team.done
      BY <1>2, PlansDiffer DEF Task
    <3>2. team.current = FollowUp /\ "gate" \in batch => "review" \in team.done
      BY <1>2, PlansDiffer DEF Task
    <3> QED BY <1>1, <1>3, <2>1, <3>1, <3>2, LoggedShows, PlansDiffer DEF LogShows
  <2>5. GateFollowsRepair'
    BY <1>1, <2>1 DEF GateFollowsRepair
  <2> QED BY <2>1, <2>3, <2>4, <2>5 DEF RuntimeInv
<1>6. \/ \E task \in batch, kept \in SUBSET batch :
           team' = [team EXCEPT !.at = IF @ = "repairing" THEN "unrepaired" ELSE "stopped",
                                !.failed = task, !.completed = Logged(kept)]
      \/ \E at \in {"running", "repairing", "repaired", "gated"} :
           /\ team' = [team EXCEPT !.at = at, !.done = @ \cup batch, !.completed = Logged(batch)]
           /\ at \in {"running", "repairing"} => at = team.at
           /\ at = "repaired" => team.at = "repairing"
           /\ at = "gated" => team.at = "running" /\ team.done \cup batch = DOMAIN team.current
  <2> DEFINE after == [team EXCEPT !.done = @ \cup batch, !.completed = Logged(batch)]
  <2>1. \/ \E task \in batch, kept \in SUBSET batch :
           team' = [team EXCEPT !.at = IF @ = "repairing" THEN "unrepaired" ELSE "stopped",
                                !.failed = task, !.completed = Logged(kept)]
        \/ team' = IF after.done # DOMAIN team.current THEN after
                   ELSE [after EXCEPT !.at = IF @ = "repairing" THEN "repaired" ELSE "gated"]
    BY DEF RunTasks, Logged, RolesOf
  <2>2. after.done = team.done \cup batch /\ after.at = team.at
    BY <1>1 DEF TeamType
  <2>3. after = [team EXCEPT !.at = team.at, !.done = @ \cup batch, !.completed = Logged(batch)]
    BY <1>1 DEF TeamType
  <2>4. \A at : [after EXCEPT !.at = at] = [team EXCEPT !.at = at, !.done = @ \cup batch, !.completed = Logged(batch)]
    BY <1>1 DEF TeamType
  <2> HIDE DEF after
  <2> QED BY <1>1, <2>1, <2>2, <2>3, <2>4
<1> QED BY <1>4, <1>5, <1>6

\* Every run of a development reports once; one that was not ready shows nothing.
LEMMA FinalizedInv ==
  ASSUME RuntimeInv, NEW status \in {"error", "failed", "ready"}, NEW task \in TaskNames \cup {"none"},
         team.at # "end", team' = Finalized(status, task),
         status = "ready" => team.at = "gated"
  PROVE  RuntimeInv'
<1>1. /\ team \in TeamType /\ Phases /\ LogShows
      /\ team.observed = 0
  BY DEF RuntimeInv, Phases
<1>2. /\ team' \in TeamType /\ team'.at = "end" /\ team'.report.status = status /\ team'.observed = 1
      /\ UNCHANGED <<team.current, team.done, team.completed>>
  <2> DEFINE report == [status |-> status, task |-> task]
  <2>1. team' = [team EXCEPT !.at = "end", !.report = report, !.observed = 1]
    BY <1>1 DEF Finalized, TeamType
  <2>2. /\ report \in [status : {"none", "error", "failed", "ready"}, task : TaskNames \cup {"none"}]
        /\ report.status = status
    OBVIOUS
  <2> HIDE DEF report
  <2> QED BY <1>1, <2>1, <2>2 DEF TeamType
<1>3. Phases' /\ LogShows'
  BY <1>1, <1>2 DEF Phases, LogShows
<1>4. ASSUME status = "ready" PROVE GateFollowsRepair'
  <2>1. /\ team.done = DOMAIN team.current
        /\ team.current \in FirstPlans \/ team.current = FollowUp
    BY <1>1, <1>4 DEF Phases
  <2>2. CASE team.current \in FirstPlans
    <3>1. RepairsIn(team.completed) = {}
      BY <1>1, <2>2 DEF LogShows
    <3>2. RequiredRoles \subseteq UNION {team.completed[i] : i \in DOMAIN team.completed}
      BY <1>1, <2>1, <2>2, PlansDiffer DEF LogShows
    <3> QED BY <1>2, <3>1, <3>2 DEF GateFollowsRepair, RepairsIn
  <2>3. CASE team.current = FollowUp
    <3>1. RepairsIn(team.completed) # {} /\ Regated(team.completed)
      BY <1>1, <2>1, <2>3, PlansDiffer DEF LogShows
    <3> QED BY <1>2, <3>1 DEF GateFollowsRepair, RepairsIn, Regated, Late
  <2> QED BY <2>1, <2>2, <2>3
<1>5. GateFollowsRepair'
  BY <1>2, <1>4 DEF GateFollowsRepair
<1> QED BY <1>2, <1>3, <1>5 DEF RuntimeInv

\* Every other step of a development: the start, the judgement of a failure, the repair
\* and its follow-up.
LEMMA RuntimeMoves ==
  ASSUME RuntimeInv, RuntimeNext,
         \A batch \in SUBSET DOMAIN team.current : ~RunTasks(batch)
  PROVE  RuntimeInv'
<1>1. /\ team \in TeamType /\ Phases /\ LogShows /\ MaxRounds \in 1 .. 3
      /\ team.failed \in TaskNames \cup {"none"} /\ "none" \in TaskNames \cup {"none"}
  BY RuntimeAssumption DEF RuntimeInv, TeamType
<1>2. ASSUME NEW roles \in SUBSET RequiredRoles, NEW deps \in [roles -> SUBSET roles],
             Start([r \in roles |-> Task(r, deps[r])])
      PROVE  RuntimeInv'
  <2> DEFINE tasks == [r \in roles |-> Task(r, deps[r])]
  <2>1. CASE team' = Finalized("error", "none")
    BY <1>1, <1>2, <2>1, FinalizedInv DEF Start
  <2>2. CASE /\ RequiredRoles \subseteq {tasks[t].role : t \in DOMAIN tasks}
             /\ team' = [team EXCEPT !.at = "running", !.current = tasks]
    <3>1. roles = RequiredRoles
      BY <2>2 DEF Task
    <3>2. tasks \in FirstPlans
      BY <3>1 DEF FirstPlans, Task
    <3> HIDE DEF tasks
    <3>3. /\ team.at = "idle" /\ team.done = {} /\ team.completed = << >>
          /\ team.report.status = "none" /\ team.observed = 0
      BY <1>1, <1>2, PlansDiffer DEF Start, Phases
    <3>4. /\ team' \in TeamType
          /\ team'.at = "running" /\ team'.current = tasks
          /\ UNCHANGED <<team.done, team.completed, team.report, team.observed>>
      BY <1>1, <2>2, <3>2 DEF TeamType
    <3>5. Phases'
      BY <3>2, <3>3, <3>4 DEF Phases
    <3>6. LogShows'
      BY <3>2, <3>3, <3>4, PlansDiffer DEF LogShows, RepairsIn
    <3>7. GateFollowsRepair'
      BY <3>3, <3>4 DEF GateFollowsRepair
    <3> QED BY <3>4, <3>5, <3>6, <3>7 DEF RuntimeInv
  <2> QED BY <1>2, <2>1, <2>2 DEF Start
<1>3. ASSUME Judge PROVE RuntimeInv'
  <2>1. CASE team' = Finalized("failed", team.failed)
    BY <1>1, <1>3, <2>1, FinalizedInv DEF Judge
  <2>2. CASE team.repairs < MaxRounds - 1 /\ team' = [team EXCEPT !.at = "planning", !.repairs = @ + 1]
    <3>0. team.repairs + 1 \in 0 .. MaxRounds - 1
      BY <1>1, <2>2 DEF TeamType
    <3>1. /\ team' \in TeamType /\ team'.at = "planning" /\ team.at = "stopped"
          /\ UNCHANGED <<team.current, team.done, team.completed, team.report, team.observed>>
      BY <1>1, <1>3, <2>2, <3>0 DEF TeamType, Judge
    <3> QED BY <1>1, <3>1 DEF RuntimeInv, Phases, LogShows, GateFollowsRepair
  <2>3. team.repairs \in Nat
    BY <1>1 DEF TeamType
  <2> QED BY <1>1, <1>3, <2>1, <2>2, <2>3 DEF Judge
<1>4. ASSUME PlanRepair PROVE RuntimeInv'
  <2>1. CASE team' = Finalized("failed", team.failed)
    BY <1>1, <1>4, <2>1, FinalizedInv DEF PlanRepair
  <2>2. CASE team' = [team EXCEPT !.at = "repairing", !.done = {}, !.current = RepairPlan]
    <3>1. /\ team' \in TeamType /\ team'.at = "repairing" /\ team.at = "planning"
          /\ team'.current = RepairPlan /\ team'.done = {}
          /\ UNCHANGED <<team.completed, team.report, team.observed>>
      BY <1>1, <1>4, <2>2 DEF TeamType, PlanRepair
    <3> QED BY <1>1, <3>1, PlansDiffer DEF RuntimeInv, Phases, LogShows, GateFollowsRepair
  <2> QED BY <1>4, <2>1, <2>2 DEF PlanRepair, RepairPlan
<1>5. ASSUME NextRound PROVE RuntimeInv'
  <2>1. /\ team' \in TeamType /\ team'.at = "running" /\ team.at = "repaired"
        /\ team'.current = FollowUp /\ team'.done = {}
        /\ UNCHANGED <<team.completed, team.report, team.observed>>
    BY <1>1, <1>5 DEF TeamType, NextRound
  <2> QED BY <1>1, <2>1, PlansDiffer DEF RuntimeInv, Phases, LogShows, GateFollowsRepair
<1>6. ASSUME RepairFailed \/ IntegrationReady PROVE RuntimeInv'
  BY <1>1, <1>6, FinalizedInv DEF RepairFailed, IntegrationReady
<1> QED BY <1>2, <1>3, <1>4, <1>5, <1>6 DEF RuntimeNext

\* A run starts with nothing done.
LEMMA RuntimeInvInit == RuntimeInit => RuntimeInv
<1> SUFFICES ASSUME RuntimeInit PROVE RuntimeInv
  OBVIOUS
<1>1. PICK equipped \in SUBSET RuntimeRoles :
        team = [at |-> "idle", executors |-> equipped, current |-> << >>, done |-> {},
                completed |-> << >>, repairs |-> 0, failed |-> "none", report |-> NoReport,
                observed |-> 0]
  BY DEF RuntimeInit
<1>2. team \in TeamType
  BY <1>1, RuntimeAssumption DEF TeamType, NoReport
<1> QED BY <1>1, <1>2, PlansDiffer DEF RuntimeInv, Phases, LogShows, GateFollowsRepair, NoReport

\* Every step of a run keeps it.
LEMMA RuntimeInvStep == RuntimeInv /\ [RuntimeNext]_team => RuntimeInv'
<1> SUFFICES ASSUME RuntimeInv, [RuntimeNext]_team PROVE RuntimeInv'
  OBVIOUS
<1>1. CASE UNCHANGED team
  BY <1>1 DEF RuntimeInv, Phases, LogShows, GateFollowsRepair
<1>2. CASE RuntimeNext
  BY <1>2, RunTasksInv, RuntimeMoves
<1> QED BY <1>1, <1>2

------------------------------------------------------------------------------
\* Management: the task scheduler.

-----------------------------------------------------------------------------
(* The management *)

Names    == TaskIds \cup Roles
TaskType == [role : Roles \cup OtherRoles, resources : SUBSET (Resources \cup Roles),
             deps : SUBSET TaskIds]
Plans    == UNION {[ids -> TaskType] : ids \in SUBSET Names}
MailType == [sender : Roles \cup OtherRoles, recipient : {Management}, type : {"task_result"},
             constraints : {ResultConstraints}, task : Names, long : BOOLEAN]

DeskType ==
  [at : {"idle", "planning", "executing", "posting", "end"}, detected : SUBSET Roles,
   approved : SUBSET Roles, registered : SUBSET Roles, plan : Plans, ran : Seq(SUBSET Names),
   succeeded : SUBSET Names, box : Seq(MailType), posts : Seq(MailType),
   reply : {"none", "legacy", "denied", "failure", "combined"}]

RolesIn(plan) == {plan[t].role : t \in DOMAIN plan}

\* What the plan and the results have to do with each other, at every position of a
\* request: while it goes on, everything that ran succeeded.
Progress ==
  /\ desk.at \in {"idle", "planning"} => desk.ran = << >> /\ desk.succeeded = {}
  /\ desk.at = "end" <=> desk.reply # "none"
  /\ desk.at \in {"executing", "posting"} => RolesIn(desk.plan) = desk.detected
  /\ desk.at = "executing" => desk.succeeded = Scheduled
  /\ desk.at = "posting" /\ desk.succeeded = Scheduled => Scheduled = DOMAIN desk.plan
  /\ desk.succeeded \subseteq Scheduled /\ Scheduled \subseteq DOMAIN desk.plan
  /\ Len(desk.box) <= MaxMessages

DeskInv == desk \in DeskType /\ Progress /\ NothingRunsTwice /\ PlanIsKept

\* A mailbox is a mailbox however many messages make room for the newest.
LEMMA PostedFacts ==
  ASSUME NEW S, NEW box \in Seq(S), NEW m \in S, NEW max \in Nat \ {0}, Len(box) <= max
  PROVE  Posted(box, m, max) \in Seq(S) /\ Len(Posted(box, m, max)) <= max
<1> DEFINE all == Append(box, m)
<1>1. all \in Seq(S) /\ Len(all) = Len(box) + 1 /\ Len(box) \in Nat
  OBVIOUS
<1>2. CASE Len(all) > max
  <2>1. Posted(box, m, max) = SubSeq(all, Len(all) - max + 1, Len(all))
    BY <1>2 DEF Posted
  <2> HIDE DEF all
  <2>2. /\ SubSeq(all, Len(all) - max + 1, Len(all)) \in Seq(S)
        /\ Len(SubSeq(all, Len(all) - max + 1, Len(all))) = max
    BY <1>1, <1>2
  <2> QED BY <2>1, <2>2
<1>3. CASE ~(Len(all) > max)
  BY <1>1, <1>3 DEF Posted
<1> QED BY <1>2, <1>3

\* A restricted plan names tasks the plan may have, for the roles detected and all of them.
LEMMA RestrictedFacts ==
  ASSUME desk \in DeskType, NEW answer \in ModelPlans
  PROVE  Restricted(answer) \in Plans /\ RolesIn(Restricted(answer)) = desk.detected
<1> DEFINE kept == Filtered(answer)
           new  == Restricted(answer)
<1>1. desk.detected \subseteq Roles /\ TaskIds \cap Roles = {}
  BY ManagementAssumption DEF DeskType
<1>2. /\ DOMAIN answer \subseteq TaskIds
      /\ \A t \in DOMAIN answer : answer[t] \in Tasks
  BY DEF ModelPlans
<1>3. /\ DOMAIN kept \subseteq TaskIds
      /\ \A t \in DOMAIN kept : kept[t] \in Tasks /\ kept[t].role \in desk.detected
  BY <1>2 DEF Filtered
<1>4. /\ DOMAIN new = DOMAIN kept \cup Missing(kept) /\ Missing(kept) \subseteq desk.detected
      /\ \A t \in DOMAIN kept : new[t] = kept[t]
      /\ \A t \in Missing(kept) : new[t] = Fallback(t)
      /\ new = [t \in DOMAIN new |-> new[t]]
  BY <1>1, <1>3 DEF Restricted, Missing
<1> HIDE DEF new, kept
<1>5. \A t \in DOMAIN new : new[t] \in TaskType
  BY <1>1, <1>3, <1>4 DEF Tasks, TaskType, Fallback
<1>6. new \in Plans
  <2>1. DOMAIN new \in SUBSET Names
    BY <1>1, <1>3, <1>4 DEF Names
  <2>2. new \in [DOMAIN new -> TaskType]
    BY <1>4, <1>5
  <2> QED BY <2>1, <2>2 DEF Plans
<1>7. RolesIn(new) = desk.detected
  <2>1. \A t \in DOMAIN new : new[t].role \in desk.detected
    BY <1>3, <1>4 DEF Fallback
  <2>2. ASSUME NEW r \in desk.detected, r \notin Missing(kept)
        PROVE  \E t \in DOMAIN new : new[t].role = r
    BY <1>4, <2>2 DEF Missing
  <2>3. \A r \in Missing(kept) : r \in DOMAIN new /\ new[r].role = r
    BY <1>4 DEF Fallback
  <2> QED BY <2>1, <2>2, <2>3 DEF RolesIn
<1> QED BY <1>6, <1>7 DEF new

\* Before anything ran, a request ends or gets its plan.
LEMMA BeforeWork ==
  ASSUME DeskInv, desk.ran = << >>, desk.succeeded = {}, desk.at \in {"idle", "planning"},
         desk' \in DeskType, UNCHANGED <<desk.ran, desk.succeeded, desk.box>>,
         desk'.at # "posting", desk'.reply # "combined",
         desk'.at = "end" <=> desk'.reply # "none",
         desk'.at = "executing" => RolesIn(desk'.plan) = desk'.detected
  PROVE  DeskInv'
<1>1. Scheduled' = {} /\ desk'.ran = << >> /\ desk'.succeeded = {}
  BY DEF Scheduled
<1>2. Progress'
  BY <1>1 DEF Progress, DeskInv
<1>3. NothingRunsTwice' /\ PlanIsKept'
  BY <1>1 DEF NothingRunsTwice, PlanIsKept
<1> QED BY <1>2, <1>3 DEF DeskInv

\* The end of a request that is not combined, or one that goes on to its end.
LEMMA AfterWork ==
  ASSUME DeskInv, desk.at \in {"executing", "posting"}, desk' \in DeskType,
         UNCHANGED <<desk.ran, desk.succeeded, desk.plan, desk.detected, desk.approved, desk.registered>>,
         Len(desk'.box) <= MaxMessages,
         \/ desk'.at = "end" /\ desk'.reply = "failure"
         \/ desk'.at = desk.at /\ desk'.reply = desk.reply
         \/ desk.at = "posting" /\ desk'.at = "end" /\ desk'.reply = "combined" /\ Scheduled = desk.succeeded
  PROVE  DeskInv'
<1>1. Progress /\ NothingRunsTwice /\ PlanIsKept /\ desk.reply = "none"
  BY DEF DeskInv, Progress
<1>2. Scheduled' = Scheduled /\ Executors' = Executors
  BY DEF Scheduled, Executors
<1>3. Progress'
  BY <1>1, <1>2 DEF Progress
<1>4. NothingRunsTwice'
  BY <1>1, <1>2 DEF NothingRunsTwice
<1>5. PlanIsKept'
  BY <1>1, <1>2 DEF PlanIsKept, Progress, RolesIn
<1> QED BY <1>3, <1>4, <1>5 DEF DeskInv

\* The roles a message asks for are known before any plan.
LEMMA DetectInv ==
  ASSUME DeskInv, NEW detected \in SUBSET Roles, Detect(detected)
  PROVE  DeskInv'
<1>1. desk \in DeskType /\ desk.at = "idle" /\ desk.reply = "none" /\ desk.ran = << >> /\ desk.succeeded = {}
  BY DEF DeskInv, Progress, Detect
<1>2. \E at \in {"end", "planning"}, reply \in {"none", "denied", "legacy"} :
        /\ desk' = [desk EXCEPT !.detected = detected, !.at = at, !.reply = reply]
        /\ at = "end" <=> reply # "none"
  BY <1>1 DEF Detect, DeskType
<1>3. PICK at \in {"end", "planning"}, reply \in {"none", "denied", "legacy"} :
        /\ desk' = [desk EXCEPT !.detected = detected, !.at = at, !.reply = reply]
        /\ at = "end" <=> reply # "none"
  BY <1>2
<1>4. /\ desk' \in DeskType /\ desk'.at = at /\ desk'.reply = reply
      /\ UNCHANGED <<desk.ran, desk.succeeded, desk.box>>
  BY <1>1, <1>3 DEF DeskType
<1> QED BY <1>1, <1>3, <1>4, BeforeWork

\* A plan is of the roles detected, all of them; a request that has none goes on or is refused.
LEMMA PlanningInv ==
  ASSUME DeskInv, PlanningError \/ \E answer \in ModelPlans : Plan(answer)
  PROVE  DeskInv'
<1>1. desk \in DeskType /\ desk.at = "planning" /\ desk.reply = "none" /\ desk.ran = << >> /\ desk.succeeded = {}
  BY DEF DeskInv, Progress, PlanningError, Plan
<1>2. \E at \in {"end", "executing"}, reply \in {"none", "denied", "legacy", "failure"}, plan \in Plans :
        /\ desk' = [desk EXCEPT !.at = at, !.reply = reply, !.plan = plan]
        /\ at = "end" <=> reply # "none"
        /\ at = "executing" => RolesIn(plan) = desk.detected
  <2>1. CASE PlanningError
    <3>1. desk' = [desk EXCEPT !.at = "end", !.reply = "legacy", !.plan = desk.plan] /\ desk.plan \in Plans
      BY <1>1, <2>1 DEF PlanningError, Legacy, ReplyWith, DeskType
    <3> QED BY <3>1
  <2>2. ASSUME NEW answer \in ModelPlans, Plan(answer)
        PROVE  \E at \in {"end", "executing"}, reply \in {"none", "denied", "legacy", "failure"}, plan \in Plans :
                 /\ desk' = [desk EXCEPT !.at = at, !.reply = reply, !.plan = plan]
                 /\ at = "end" <=> reply # "none"
                 /\ at = "executing" => RolesIn(plan) = desk.detected
    <3> DEFINE plan == Restricted(answer)
    <3>1. plan \in Plans /\ RolesIn(plan) = desk.detected /\ desk.plan \in Plans
      BY <1>1, RestrictedFacts DEF DeskType
    <3>2. \/ desk' = ExecutionFailure \/ desk' = ReplyWith("denied")
          \/ desk' = [ExecutionFailure EXCEPT !.plan = plan]
          \/ desk' = [desk EXCEPT !.at = "executing", !.plan = plan]
      BY <2>2 DEF Plan
    <3> HIDE DEF plan
    <3>3. \/ desk' = [desk EXCEPT !.at = "end", !.reply = "failure", !.plan = desk.plan]
          \/ desk' = [desk EXCEPT !.at = "end", !.reply = "denied", !.plan = desk.plan]
          \/ desk' = [desk EXCEPT !.at = "end", !.reply = "failure", !.plan = plan]
          \/ desk' = [desk EXCEPT !.at = "executing", !.reply = "none", !.plan = plan]
      BY <1>1, <3>2 DEF ExecutionFailure, ReplyWith, DeskType
    <3> QED BY <3>1, <3>3
  <2> QED BY <2>1, <2>2
<1>3. PICK at \in {"end", "executing"}, reply \in {"none", "denied", "legacy", "failure"}, plan \in Plans :
        /\ desk' = [desk EXCEPT !.at = at, !.reply = reply, !.plan = plan]
        /\ at = "end" <=> reply # "none"
        /\ at = "executing" => RolesIn(plan) = desk.detected
  BY <1>2
<1>4. /\ desk' \in DeskType /\ desk'.at = at /\ desk'.reply = reply /\ desk'.plan = plan
      /\ UNCHANGED <<desk.ran, desk.succeeded, desk.box, desk.detected>>
  BY <1>1, <1>3 DEF DeskType
<1> QED BY <1>1, <1>3, <1>4, BeforeWork

\* The results that are posted fit the mailbox.
LEMMA PostInv ==
  ASSUME DeskInv, NEW t \in Unposted, NEW long \in BOOLEAN, Post(t, long)
  PROVE  DeskInv'
<1> DEFINE m == Observation(t, long)
<1>1. desk \in DeskType /\ desk.at = "posting" /\ Len(desk.box) <= MaxMessages /\ MaxMessages \in Nat \ {0}
  BY ManagementAssumption DEF DeskInv, Progress, Post
<1>2. CASE desk' = ExecutionFailure
  <2>1. /\ desk' \in DeskType /\ desk'.at = "end" /\ desk'.reply = "failure" /\ desk'.box = desk.box
        /\ UNCHANGED <<desk.ran, desk.succeeded, desk.plan, desk.detected, desk.approved, desk.registered>>
    BY <1>1, <1>2 DEF ExecutionFailure, ReplyWith, DeskType
  <2> QED BY <1>1, <2>1, AfterWork
<1>3. CASE desk' = [desk EXCEPT !.box = Posted(@, m, MaxMessages), !.posts = Append(@, m)]
  <2>1. t \in DOMAIN desk.plan /\ t \in Names /\ desk.plan[t] \in TaskType
    BY <1>1 DEF Unposted, DeskInv, Progress, DeskType, Plans
  <2>2. m \in MailType
    BY <2>1 DEF Observation, MailType, TaskType
  <2> HIDE DEF m
  <2>3. desk.box \in Seq(MailType) /\ desk.posts \in Seq(MailType)
    BY <1>1 DEF DeskType
  <2>4. Posted(desk.box, m, MaxMessages) \in Seq(MailType) /\ Len(Posted(desk.box, m, MaxMessages)) <= MaxMessages
    BY <1>1, <2>2, <2>3, PostedFacts
  <2>5. Append(desk.posts, m) \in Seq(MailType)
    BY <2>2, <2>3
  <2>6. /\ desk' \in DeskType /\ desk'.at = desk.at /\ desk'.reply = desk.reply
        /\ desk'.box = Posted(desk.box, m, MaxMessages)
        /\ UNCHANGED <<desk.ran, desk.succeeded, desk.plan, desk.detected, desk.approved, desk.registered>>
    BY <1>1, <1>3, <2>4, <2>5 DEF DeskType
  <2> QED BY <1>1, <2>4, <2>6, AfterWork
<1> QED BY <1>2, <1>3 DEF Post

\* A combined reply is of everything that was planned.
LEMMA ReplyInv ==
  ASSUME DeskInv, Reply
  PROVE  DeskInv'
<1>1. desk \in DeskType /\ desk.at = "posting" /\ Len(desk.box) <= MaxMessages
  BY DEF DeskInv, Progress, Reply
<1>2. \E reply \in {"failure", "combined"} :
        /\ desk' = [desk EXCEPT !.at = "end", !.reply = reply]
        /\ reply = "combined" => Scheduled = desk.succeeded
  BY DEF Reply, ExecutionFailure, ReplyWith
<1>3. /\ desk' \in DeskType /\ desk'.at = "end" /\ desk'.box = desk.box
      /\ desk'.reply = "failure" \/ (desk'.reply = "combined" /\ Scheduled = desk.succeeded)
      /\ UNCHANGED <<desk.ran, desk.succeeded, desk.plan, desk.detected, desk.approved, desk.registered>>
  BY <1>1, <1>2 DEF DeskType
<1> QED BY <1>1, <1>3, AfterWork

\* A batch is of tasks that have not run, whose dependencies all have, and that share no
\* resource; it stands behind all the others.
LEMMA RunBatchInv ==
  ASSUME DeskInv, NEW batch \in SUBSET DOMAIN desk.plan, RunBatch(batch)
  PROVE  DeskInv'
<1>1. desk \in DeskType /\ desk.at = "executing" /\ desk.reply = "none" /\ Len(desk.box) <= MaxMessages
  BY DEF DeskInv, Progress, RunBatch
<1>2. /\ batch # {} /\ batch \cap Scheduled = {}
      /\ \A t \in batch : desk.plan[t].deps \subseteq Scheduled
      /\ \A s, t \in batch : s # t => ~Conflict(desk.plan[s], desk.plan[t])
  BY DEF RunBatch, Batches, Ready
<1>3. batch \subseteq Names
  BY <1>1 DEF DeskType, Plans
<1>4. CASE desk' = ExecutionFailure
  <2>1. /\ desk' \in DeskType /\ desk'.at = "end" /\ desk'.reply = "failure" /\ desk'.box = desk.box
        /\ UNCHANGED <<desk.ran, desk.succeeded, desk.plan, desk.detected, desk.approved, desk.registered>>
    BY <1>1, <1>4 DEF ExecutionFailure, ReplyWith, DeskType
  <2> QED BY <1>1, <2>1, AfterWork
<1>5. ASSUME NEW good \in SUBSET batch, NEW at \in {"executing", "posting", "end"},
             NEW reply \in {"none", "failure"},
             \A t \in batch : desk.plan[t].role \in Executors,
             desk' = [desk EXCEPT !.ran = Append(@, batch), !.succeeded = @ \cup good,
                                  !.at = at, !.reply = reply],
             at = "end" <=> reply # "none",
             at = "executing" => good = batch,
             at = "posting" => good # batch \/ Scheduled \cup batch = DOMAIN desk.plan
      PROVE  DeskInv'
  <2> DEFINE n == Len(desk.ran)
  <2>1. n \in Nat /\ DOMAIN desk.ran = 1 .. n /\ desk.ran \in Seq(SUBSET Names)
    BY <1>1 DEF DeskType
  <2>2. /\ desk' \in DeskType /\ desk'.at = at /\ desk'.reply = reply
        /\ desk'.ran = Append(desk.ran, batch) /\ desk'.succeeded = desk.succeeded \cup good
        /\ UNCHANGED <<desk.plan, desk.detected, desk.approved, desk.registered, desk.box>>
    <3>1. /\ Append(desk.ran, batch) \in Seq(SUBSET Names)
          /\ desk.succeeded \cup good \in SUBSET Names
      BY <1>1, <1>3, <2>1 DEF DeskType
    <3> QED BY <1>1, <1>5, <3>1 DEF DeskType
  <2>3. /\ DOMAIN desk'.ran = 1 .. n + 1
        /\ \A i \in 1 .. n : desk'.ran[i] = desk.ran[i]
        /\ desk'.ran[n + 1] = batch
    BY <2>1, <2>2
  <2> HIDE DEF n
  <2>4. Scheduled' = Scheduled \cup batch /\ Executors' = Executors
    BY <2>1, <2>2, <2>3 DEF Scheduled, Executors
  <2>5. /\ desk.succeeded = Scheduled /\ Scheduled \subseteq DOMAIN desk.plan
        /\ RolesIn(desk.plan) = desk.detected
    BY <1>1 DEF DeskInv, Progress
  <2>6. Progress'
    BY <1>1, <1>2, <1>5, <2>2, <2>4, <2>5 DEF Progress
  <2>7. NothingRunsTwice'
    <3>1. /\ \A i, j \in 1 .. n : i # j => desk.ran[i] \cap desk.ran[j] = {}
          /\ \A i \in 1 .. n : desk.ran[i] \subseteq Scheduled
          /\ \A t \in Scheduled : desk.plan[t].role \in desk.detected \cap Executors
      BY <2>1 DEF DeskInv, NothingRunsTwice, Scheduled
    <3>2. \A i, j \in 1 .. n + 1 : i # j => desk'.ran[i] \cap desk'.ran[j] = {}
      BY <1>2, <2>1, <2>3, <3>1
    <3>3. \A t \in batch : desk.plan[t].role \in desk.detected \cap Executors
      BY <1>5, <2>5 DEF RolesIn
    <3> QED BY <1>5, <2>2, <2>3, <2>4, <3>1, <3>2, <3>3 DEF NothingRunsTwice
  <2>8. PlanIsKept'
    <3>1. ASSUME NEW i \in 1 .. n, NEW t \in desk'.ran[i]
          PROVE  /\ desk'.plan[t].deps \subseteq desk'.succeeded \cap UNION {desk'.ran[j] : j \in 1 .. i - 1}
                 /\ \A s \in desk'.ran[i] \ {t} : ~Conflict(desk'.plan[s], desk'.plan[t])
      <4>1. t \in desk.ran[i] /\ \A j \in 1 .. i - 1 : desk'.ran[j] = desk.ran[j]
        BY <2>1, <2>3, <3>1
      <4>2. /\ desk.plan[t].deps \subseteq desk.succeeded \cap UNION {desk.ran[j] : j \in 1 .. i - 1}
            /\ \A s \in desk.ran[i] \ {t} : ~Conflict(desk.plan[s], desk.plan[t])
        BY <2>1, <4>1 DEF DeskInv, PlanIsKept
      <4>3. {desk'.ran[j] : j \in 1 .. i - 1} = {desk.ran[j] : j \in 1 .. i - 1}
        BY <4>1
      <4>4. desk'.ran[i] = desk.ran[i] /\ desk.succeeded \subseteq desk'.succeeded
        BY <2>2, <2>3
      <4>5. desk'.plan = desk.plan
        BY <2>2
      <4> QED BY <4>2, <4>3, <4>4, <4>5
    <3>2. ASSUME NEW t \in batch
          PROVE  /\ desk'.plan[t].deps \subseteq desk'.succeeded \cap UNION {desk'.ran[j] : j \in 1 .. n}
                 /\ \A s \in batch \ {t} : ~Conflict(desk'.plan[s], desk'.plan[t])
      <4>1. Scheduled = UNION {desk'.ran[j] : j \in 1 .. n}
        BY <2>1, <2>3 DEF Scheduled
      <4> QED BY <1>2, <2>2, <2>5, <4>1
    <3> QED BY <1>5, <2>1, <2>2, <2>3, <3>1, <3>2 DEF PlanIsKept
  <2> QED BY <2>2, <2>6, <2>7, <2>8 DEF DeskInv
<1>6. CASE \E t \in batch : desk.plan[t].role \notin Executors
  BY <1>4, <1>6 DEF RunBatch
<1>7. CASE \A t \in batch : desk.plan[t].role \in Executors
  <2>1. PICK results \in [batch -> Executed] :
          LET good  == {t \in batch : results[t] = "ok"}
              after == [desk EXCEPT !.ran = Append(@, batch), !.succeeded = @ \cup good]
          IN  desk' = IF \E t \in batch : results[t] = "raised"
                      THEN [after EXCEPT !.at = "end", !.reply = "failure"]
                      ELSE IF good = batch /\ Scheduled \cup batch # DOMAIN desk.plan
                      THEN after
                      ELSE [after EXCEPT !.at = "posting"]
    BY <1>7 DEF RunBatch
  <2> DEFINE good == {t \in batch : results[t] = "ok"}
             New(at, reply) == [desk EXCEPT !.ran = Append(@, batch), !.succeeded = @ \cup good,
                                            !.at = at, !.reply = reply]
  <2>2. good \in SUBSET batch
    OBVIOUS
  <2>3. \/ desk' = New("end", "failure")
        \/ desk' = New("executing", "none") /\ good = batch
        \/ desk' = New("posting", "none") /\ (good # batch \/ Scheduled \cup batch = DOMAIN desk.plan)
    <3> DEFINE after == [desk EXCEPT !.ran = Append(@, batch), !.succeeded = @ \cup good]
    <3>1. /\ [after EXCEPT !.at = "end", !.reply = "failure"] = New("end", "failure")
          /\ after = New("executing", "none")
          /\ [after EXCEPT !.at = "posting"] = New("posting", "none")
      BY <1>1 DEF DeskType
    <3> QED BY <2>1, <3>1
  <2> HIDE DEF good
  <2> QED BY <1>5, <1>7, <2>2, <2>3
<1> QED BY <1>6, <1>7

\* A request starts with nothing planned and nothing done.
LEMMA DeskInvInit == ManagementInit => DeskInv
<1> SUFFICES ASSUME ManagementInit PROVE DeskInv
  OBVIOUS
<1>1. PICK approved, registered \in SUBSET Roles :
        desk = [Closed EXCEPT !.approved = approved, !.registered = registered]
  BY DEF ManagementInit
<1>2. /\ desk.at = "idle" /\ desk.ran = << >> /\ desk.succeeded = {} /\ desk.plan = << >> /\ desk.box = << >>
      /\ desk.reply = "none"
  BY <1>1 DEF Closed, NoPlan
<1>3. << >> \in Plans
  <2>1. << >> \in [{} -> TaskType] /\ {} \in SUBSET Names
    OBVIOUS
  <2> QED BY <2>1 DEF Plans
<1>4. desk \in DeskType
  <2>1. desk = [at |-> "idle", detected |-> {}, approved |-> approved, registered |-> registered,
                plan |-> << >>, ran |-> << >>, succeeded |-> {}, box |-> << >>, posts |-> << >>,
                reply |-> "none"]
    BY <1>1 DEF Closed, NoPlan
  <2>2. << >> \in Seq(SUBSET Names) /\ << >> \in Seq(MailType)
    OBVIOUS
  <2> QED BY <1>3, <2>1, <2>2 DEF DeskType
<1>5. Scheduled = {}
  BY <1>2 DEF Scheduled
<1> QED BY <1>2, <1>4, <1>5, ManagementAssumption DEF DeskInv, Progress, NothingRunsTwice, PlanIsKept

\* Every step of a request keeps it.
LEMMA DeskInvStep == DeskInv /\ [ManagementNext]_desk => DeskInv'
<1> SUFFICES ASSUME DeskInv, [ManagementNext]_desk PROVE DeskInv'
  OBVIOUS
<1>1. CASE UNCHANGED desk
  BY <1>1 DEF DeskInv, Progress, NothingRunsTwice, PlanIsKept, Scheduled, Executors
<1>2. CASE ManagementNext
  BY <1>2, DetectInv, PlanningInv, RunBatchInv, PostInv, ReplyInv DEF ManagementNext
<1> QED BY <1>1, <1>2

------------------------------------------------------------------------------
\* RepairPipeline: the repair pipeline.

-----------------------------------------------------------------------------
(* The repair pipeline *)

Trees     == [Files -> SUBSET AllRepairs]
Branches  == AllRepairs \cup {"main"}
PatchType == [files : SUBSET Files, applies : BOOLEAN]
Commits   == [tree : Trees, parent : Trees, branch : Branches]

Diagnosed == {"fix", "answer", "candidates", "patch", "branch", "apply", "test", "add", "commit",
              "deploy", "finalizer", "report"}
Unapplied == {"idle", "repair", "fix", "answer", "candidates", "patch", "branch", "apply"}
Untested  == Unapplied \cup {"test"}
Unstaged  == Untested \cup {"add"}

RunType ==
  [at : Diagnosed \cup {"idle", "repair", "end"}, error : Errors \cup {"none"},
   base : Trees \cup {{}}, patch : PatchType, candidates : SUBSET (Files \cup {Unknown}),
   applied : BOOLEAN, saw : Trees \cup {{}}, passed : BOOLEAN, commit : Commits \cup {NoCommit},
   deploy : {"skipped", "pending", "deployed", "failed"},
   status : {"none", "baseline_smoke_failed", "no_failure", "pytest_failed_autofix_disabled",
             "repair_succeeded", "repair_failed_no_retry", "raised"},
   undisturbed : BOOLEAN]

CopyType ==
  [tree : Trees, index : Trees, head : Trees, branch : Branches, nightly : BOOLEAN,
   settings : [apply : BOOLEAN, deploy : BOOLEAN, autofix : BOOLEAN]]

\* What a run has made of its patch so far, whoever else is at work: contents only grow.
PatchFollowed(r) ==
  LET w == work[r]
  IN  /\ w.at \in Unapplied => ~w.applied
      /\ w.at \in Untested => ~w.passed
      /\ w.at \in Unstaged \cup {"commit"} => w.commit = NoCommit
      /\ w.passed => w.applied
      /\ w.applied => \A f \in w.patch.files : r \in copy.tree[f]
      /\ w.at \in {"patch", "branch", "apply", "test", "add"} => w.candidates \in Candidates(w.patch)
      /\ w.at = "commit" => /\ w.passed /\ w.candidates \subseteq w.patch.files
                            /\ w.candidates # {} /\ \A f \in w.candidates : r \in copy.index[f]
      /\ w.commit # NoCommit => /\ w.candidates \subseteq w.patch.files /\ w.candidates # {}
                                /\ \A f \in w.candidates : r \in w.commit.tree[f]
      /\ w.status = "repair_succeeded" => w.commit # NoCommit

\* What a run that nobody overlaps finds in the working copy.
Alone(r) ==
  LET w == work[r]
  IN  w.undisturbed /\ w.at \in Diagnosed =>
        /\ \A q \in AllRepairs \ {r} : ~Running(q)
        /\ w.at \in Unstaged => copy.index = copy.head
        /\ w.at = "apply" \/ w.applied => copy.branch = r
        /\ w.at = "add" /\ w.passed => w.saw = copy.tree
        /\ w.at = "commit" => /\ w.saw = copy.tree
                              /\ \A f \in Files : copy.index[f] = IF f \in w.candidates THEN w.saw[f] ELSE copy.head[f]

\* The first part of CommitsItsPatch, for one run.
Committed1(r) ==
  LET commit == work[r].commit
  IN  commit # NoCommit /\ work[r].undisturbed =>
        /\ commit.branch = r
        /\ \A f \in Files :
             /\ commit.tree[f] # commit.parent[f] =>
                  f \in work[r].patch.files \cap work[r].candidates
             /\ f \in work[r].candidates => commit.tree[f] = work[r].saw[f]

RunInv(r) == PatchFollowed(r) /\ Alone(r) /\ Committed1(r)

\* The users' runs and the nightly one have working copies of their own.
ModesApart ==
  /\ copy.nightly => \A r \in Repairs : work[r].at = "idle"
  /\ ~copy.nightly => work[Nightly].at = "idle"

PipelineTypes == work \in [AllRepairs -> RunType] /\ copy \in CopyType

PipelineInv == PipelineTypes /\ ModesApart /\ \A r \in AllRepairs : RunInv(r)

\* What a run does to itself and, growing, to the working copy, disturbs no other run.
LEMMA OthersKeep ==
  ASSUME PipelineInv, NEW r \in AllRepairs, Running(r), NEW new \in RunType,
         work' = [work EXCEPT ![r] = new], copy' \in CopyType,
         \A f \in Files : copy.tree[f] \subseteq copy'.tree[f],
         \A f \in Files : copy.index[f] \cap copy.tree[f] \subseteq copy'.index[f],
         copy'.nightly = copy.nightly, new.at # "idle" 
  PROVE  /\ PipelineTypes' /\ ModesApart'
         /\ work'[r] = new
         /\ \A q \in AllRepairs \ {r} : work'[q] = work[q] /\ RunInv(q)'
<1>1. work \in [AllRepairs -> RunType] /\ Nightly \notin Repairs /\ AllRepairs = Repairs \cup {Nightly}
  BY RepairAssumption DEF PipelineInv, PipelineTypes, AllRepairs
<1>2. /\ PipelineTypes' /\ work'[r] = new
      /\ \A q \in AllRepairs \ {r} : work'[q] = work[q]
  BY <1>1 DEF PipelineTypes
<1>3. ModesApart'
  BY <1>1, <1>2 DEF PipelineInv, ModesApart, Running
<1>4. ASSUME NEW q \in AllRepairs \ {r} PROVE RunInv(q)'
  <2>1. ~(work[q].undisturbed /\ work[q].at \in Diagnosed)
    BY DEF PipelineInv, RunInv, Alone
  <2>2. Alone(q)'
    BY <1>2, <2>1 DEF Alone
  <2>3. Committed1(q)'
    BY <1>2 DEF PipelineInv, RunInv, Committed1
  <2>4. work[q].patch.files \subseteq Files
    BY <1>1 DEF RunType, PatchType
  <2>5. PatchFollowed(q)'
    BY <1>2, <2>4 DEF PipelineInv, RunInv, PatchFollowed
  <2> QED BY <2>2, <2>3, <2>5 DEF RunInv
<1> QED BY <1>2, <1>3, <1>4

\* A step that leaves the working copy alone and makes no more of the patch than there was.
LEMMA Advances ==
  ASSUME PipelineInv, NEW r \in AllRepairs, Running(r), NEW new \in RunType,
         Go(r, new), UNCHANGED copy, new.at # "idle",
         (PatchFollowed(r) /\ Alone(r) /\ Committed1(r))'
  PROVE  PipelineInv'
<1>1. /\ work' = [work EXCEPT ![r] = new] /\ copy' \in CopyType
      /\ \A f \in Files : copy.tree[f] \subseteq copy'.tree[f]
      /\ \A f \in Files : copy.index[f] \cap copy.tree[f] \subseteq copy'.index[f]
      /\ copy'.nightly = copy.nightly
  BY DEF Go, PipelineInv, PipelineTypes
<1>2. /\ PipelineTypes' /\ ModesApart' /\ \A q \in AllRepairs \ {r} : RunInv(q)'
  BY <1>1, OthersKeep
<1> QED BY <1>2 DEF PipelineInv, RunInv

\* What the type of a run's state says, field by field.
LEMMA RunFacts ==
  ASSUME PipelineInv, NEW r \in AllRepairs
  PROVE  /\ work \in [AllRepairs -> RunType] /\ work[r] \in RunType
         /\ copy \in CopyType /\ copy.tree \in Trees
         /\ PatchFollowed(r) /\ Alone(r) /\ Committed1(r)
BY DEF PipelineInv, PipelineTypes, CopyType, RunInv

\* fix_agent_node reads the code.
LEMMA ReadCodeInv ==
  ASSUME PipelineInv, NEW r \in AllRepairs, ReadCode(r)
  PROVE  PipelineInv'
<1> DEFINE new == IF work[r].error = "key_not_found"
                  THEN [work[r] EXCEPT !.at = "candidates"]
                  ELSE [work[r] EXCEPT !.at = "answer", !.error = "none", !.base = copy.tree]
<1>1. /\ Go(r, new) /\ UNCHANGED copy /\ Running(r) /\ work[r].at = "fix"
  BY DEF ReadCode, Running
<1>w. work[r] \in RunType /\ copy.tree \in Trees
  BY RunFacts
<1>a. /\ [work[r] EXCEPT !.at = "candidates"] \in RunType
      /\ [work[r] EXCEPT !.at = "answer", !.error = "none", !.base = copy.tree] \in RunType
  BY <1>w DEF RunType, Diagnosed
<1>2. new \in RunType /\ new.at \in {"candidates", "answer"} /\ work' = [work EXCEPT ![r] = new]
      /\ new.applied = work[r].applied /\ new.passed = work[r].passed /\ new.commit = work[r].commit
      /\ new.patch = work[r].patch /\ new.status = work[r].status /\ new.undisturbed = work[r].undisturbed
      /\ new.saw = work[r].saw
  BY <1>1, <1>a, <1>w DEF RunType, Go
<1> HIDE DEF new
<1>3. work'[r] = new /\ \A q \in AllRepairs \ {r} : work'[q] = work[q]
  BY <1>2, RunFacts
<1>4. PatchFollowed(r)'
  BY <1>1, <1>2, <1>3, RunFacts DEF PatchFollowed, Unapplied, Untested, Unstaged
<1>5. Alone(r)'
  BY <1>1, <1>2, <1>3, RunFacts DEF Alone, PatchFollowed, Unapplied, Untested, Unstaged, Diagnosed, Running
<1>6. Committed1(r)'
  BY <1>1, <1>2, <1>3, RunFacts DEF Committed1, PatchFollowed, Unstaged, Untested, Unapplied
<1> QED BY <1>1, <1>2, <1>4, <1>5, <1>6, Advances

\* The rest of fix_agent_node: the model's diff.
LEMMA AnswerInv ==
  ASSUME PipelineInv, NEW r \in AllRepairs, Answer(r)
  PROVE  PipelineInv'
<1>1. PICK kept \in Diffs : Go(r, [work[r] EXCEPT !.at = "candidates", !.patch = kept])
  BY DEF Answer, Diffs
<1> DEFINE new == [work[r] EXCEPT !.at = "candidates", !.patch = kept]
<1>2. UNCHANGED copy /\ Running(r) /\ work[r].at = "answer" /\ work' = [work EXCEPT ![r] = new]
  BY <1>1 DEF Answer, Running, Go
<1>3. work[r] \in RunType /\ kept \in PatchType
  <2>1. NoPatch \in PatchType
    BY DEF NoPatch, PatchType
  <2>2. [files : (SUBSET Files) \ {{}}, applies : BOOLEAN] \subseteq PatchType
    BY DEF PatchType
  <2> QED BY <2>1, <2>2, RunFacts DEF Diffs
<1>4. /\ new \in RunType /\ new.at = "candidates"
      /\ new.applied = work[r].applied /\ new.passed = work[r].passed /\ new.commit = work[r].commit
      /\ new.status = work[r].status /\ new.undisturbed = work[r].undisturbed
  BY <1>3 DEF RunType, Diagnosed
<1> HIDE DEF new
<1>5. work'[r] = new /\ \A q \in AllRepairs \ {r} : work'[q] = work[q]
  BY <1>2, <1>4, RunFacts
<1>6. PatchFollowed(r)'
  BY <1>2, <1>4, <1>5, RunFacts DEF PatchFollowed, Unapplied, Untested, Unstaged
<1>7. Alone(r)'
  BY <1>2, <1>4, <1>5, RunFacts DEF Alone, PatchFollowed, Unapplied, Untested, Unstaged, Diagnosed, Running
<1>8. Committed1(r)'
  BY <1>2, <1>4, <1>5, RunFacts DEF Committed1, PatchFollowed, Unstaged, Untested, Unapplied
<1> QED BY <1>2, <1>4, <1>6, <1>7, <1>8, Advances DEF Go

\* generate_patch_candidates.
LEMMA GenerateInv ==
  ASSUME PipelineInv, NEW r \in AllRepairs, Generate(r)
  PROVE  PipelineInv'
<1>1. PICK paths \in Candidates(work[r].patch) :
        Go(r, [work[r] EXCEPT !.at = "patch", !.candidates = paths])
  BY DEF Generate
<1> DEFINE new == [work[r] EXCEPT !.at = "patch", !.candidates = paths]
<1>2. UNCHANGED copy /\ Running(r) /\ work[r].at = "candidates" /\ work' = [work EXCEPT ![r] = new]
  BY <1>1 DEF Generate, Running, Go
<1>3. work[r] \in RunType /\ work[r].patch.files \subseteq Files
  BY RunFacts DEF RunType, PatchType
<1>4. paths \in SUBSET (Files \cup {Unknown})
  BY <1>3 DEF Candidates
<1>5. /\ new \in RunType /\ new.at = "patch" /\ new.candidates = paths /\ new.patch = work[r].patch
      /\ new.applied = work[r].applied /\ new.passed = work[r].passed /\ new.commit = work[r].commit
      /\ new.status = work[r].status /\ new.undisturbed = work[r].undisturbed
  BY <1>3, <1>4 DEF RunType, Diagnosed
<1> HIDE DEF new
<1>6. work'[r] = new /\ \A q \in AllRepairs \ {r} : work'[q] = work[q]
  BY <1>2, <1>5, RunFacts
<1>7. PatchFollowed(r)'
  BY <1>2, <1>5, <1>6, RunFacts DEF PatchFollowed, Unapplied, Untested, Unstaged
<1>8. Alone(r)'
  BY <1>2, <1>5, <1>6, RunFacts DEF Alone, PatchFollowed, Unapplied, Untested, Unstaged, Diagnosed, Running
<1>9. Committed1(r)'
  BY <1>2, <1>5, <1>6, RunFacts DEF Committed1, PatchFollowed, Unstaged, Untested, Unapplied
<1> QED BY <1>2, <1>5, <1>7, <1>8, <1>9, Advances DEF Go

\* patch_node's check, and whatever it gives up on: nothing is applied.
LEMMA GaveUp ==
  ASSUME PipelineInv, NEW r \in AllRepairs, work[r].at \in {"patch", "branch", "apply"},
         NEW at \in {"branch", "test"}, UNCHANGED copy,
         Go(r, [work[r] EXCEPT !.at = at]) \/ (at = "test" /\ Go(r, ToTest(r, FALSE)))
  PROVE  PipelineInv'
<1>1. work[r] \in RunType /\ Running(r) /\ work[r].applied = FALSE
  BY RunFacts DEF Running, PatchFollowed, Unapplied, RunType
<1> DEFINE new == [work[r] EXCEPT !.at = at]
<1>2. ToTest(r, FALSE) = [work[r] EXCEPT !.at = "test"]
  BY <1>1 DEF ToTest, RunType
<1>3. Go(r, new) /\ work' = [work EXCEPT ![r] = new]
  BY <1>2 DEF Go
<1>4. /\ new \in RunType /\ new.at = at /\ new.candidates = work[r].candidates
      /\ new.patch = work[r].patch
      /\ new.applied = work[r].applied /\ new.passed = work[r].passed /\ new.commit = work[r].commit
      /\ new.status = work[r].status /\ new.undisturbed = work[r].undisturbed
  BY <1>1 DEF RunType, Diagnosed
<1> HIDE DEF new
<1>6. work'[r] = new /\ \A q \in AllRepairs \ {r} : work'[q] = work[q]
  BY <1>3, <1>4, RunFacts
<1>7. PatchFollowed(r)'
  BY <1>1, <1>4, <1>6, RunFacts DEF PatchFollowed, Unapplied, Untested, Unstaged
<1>8. Alone(r)'
  BY <1>1, <1>4, <1>6, RunFacts DEF Alone, PatchFollowed, Unapplied, Untested, Unstaged, Diagnosed, Running
<1>9. Committed1(r)'
  BY <1>1, <1>4, <1>6, RunFacts DEF Committed1, PatchFollowed, Unstaged, Untested, Unapplied
<1> QED BY <1>1, <1>3, <1>4, <1>7, <1>8, <1>9, Advances

\* patch_node checks the patch.
LEMMA CheckPatchInv ==
  ASSUME PipelineInv, NEW r \in AllRepairs, CheckPatch(r)
  PROVE  PipelineInv'
<1>1. /\ work[r].at = "patch" /\ UNCHANGED copy
      /\ Go(r, [work[r] EXCEPT !.at = "branch"]) \/ Go(r, ToTest(r, FALSE))
  BY DEF CheckPatch
<1>2. CASE Go(r, [work[r] EXCEPT !.at = "branch"])
  BY <1>1, <1>2, GaveUp
<1>3. CASE Go(r, ToTest(r, FALSE))
  BY <1>1, <1>3, GaveUp
<1> QED BY <1>1, <1>2, <1>3

\* git checkout -b.
LEMMA BranchInv ==
  ASSUME PipelineInv, NEW r \in AllRepairs, Branch(r)
  PROVE  PipelineInv'
<1>1. CASE Go(r, ToTest(r, FALSE)) /\ UNCHANGED copy
  BY <1>1, GaveUp DEF Branch
<1>2. CASE Go(r, [work[r] EXCEPT !.at = "apply"]) /\ copy' = [copy EXCEPT !.branch = r]
  <2>1. work[r] \in RunType /\ Running(r) /\ copy \in CopyType /\ r \in Branches
    BY RunFacts DEF Running, Branch, Branches
  <2> DEFINE new == [work[r] EXCEPT !.at = "apply"]
  <2>3. work' = [work EXCEPT ![r] = new]
    BY <1>2 DEF Go
  <2>4. /\ new \in RunType /\ new.at = "apply" /\ new.candidates = work[r].candidates
        /\ new.patch = work[r].patch
        /\ new.applied = work[r].applied /\ new.passed = work[r].passed /\ new.commit = work[r].commit
        /\ new.status = work[r].status /\ new.undisturbed = work[r].undisturbed
    BY <2>1 DEF RunType, Diagnosed
  <2> HIDE DEF new
  <2>5. /\ copy' \in CopyType /\ copy'.tree = copy.tree /\ copy'.index = copy.index
        /\ copy'.head = copy.head /\ copy'.branch = r /\ copy'.nightly = copy.nightly
    BY <1>2, <2>1 DEF CopyType
  <2>6. /\ PipelineTypes' /\ ModesApart' /\ work'[r] = new
        /\ \A q \in AllRepairs \ {r} : work'[q] = work[q] /\ RunInv(q)'
    BY <2>1, <2>3, <2>4, <2>5, OthersKeep
  <2>7. PatchFollowed(r)'
    BY <2>1, <2>4, <2>5, <2>6, RunFacts DEF Branch, PatchFollowed, Unapplied, Untested, Unstaged
  <2>8. Alone(r)'
    BY <2>1, <2>4, <2>5, <2>6, RunFacts DEF Branch, Alone, PatchFollowed, Unapplied, Untested, Unstaged, Diagnosed, Running
  <2>9. Committed1(r)'
    BY <2>1, <2>4, <2>6, RunFacts DEF Branch, Committed1, PatchFollowed, Unstaged, Untested, Unapplied
  <2> QED BY <2>6, <2>7, <2>8, <2>9 DEF PipelineInv, RunInv
<1> QED BY <1>1, <1>2 DEF Branch

\* What the working copy is made of.
LEMMA CopyFacts ==
  ASSUME PipelineInv
  PROVE  /\ copy \in CopyType /\ copy.tree \in Trees /\ copy.index \in Trees /\ copy.head \in Trees
         /\ copy.branch \in Branches
BY DEF PipelineInv, PipelineTypes, CopyType

\* git apply.
LEMMA ApplyPatchInv ==
  ASSUME PipelineInv, NEW r \in AllRepairs, ApplyPatch(r)
  PROVE  PipelineInv'
<1> DEFINE tree == [f \in Files |-> IF f \in work[r].patch.files THEN copy.tree[f] \cup {r} ELSE copy.tree[f]]
           new  == [work[r] EXCEPT !.at = "test", !.applied = TRUE]
<1>1. work[r].at = "apply" /\ work[r] \in RunType /\ Running(r) /\ copy \in CopyType
  BY RunFacts DEF ApplyPatch, Running
<1>2. CASE Go(r, ToTest(r, FALSE)) /\ UNCHANGED copy
  BY <1>1, <1>2, GaveUp
<1>3. CASE Go(r, ToTest(r, TRUE)) /\ copy' = [copy EXCEPT !.tree = tree]
  <2>1. tree \in Trees /\ \A f \in Files : copy.tree[f] \subseteq tree[f]
    BY CopyFacts DEF Trees
  <2>2. /\ copy' \in CopyType /\ copy'.tree = tree /\ copy'.index = copy.index
        /\ copy'.head = copy.head /\ copy'.branch = copy.branch /\ copy'.nightly = copy.nightly
    BY <1>1, <1>3, <2>1 DEF CopyType
  <2>3. \A f \in work[r].patch.files : f \in Files /\ r \in tree[f]
    BY <1>1 DEF RunType, PatchType
  <2>4. work' = [work EXCEPT ![r] = new]
    BY <1>3 DEF Go, ToTest
  <2>5. /\ new \in RunType /\ new.at = "test" /\ new.applied = TRUE /\ new.candidates = work[r].candidates
        /\ new.patch = work[r].patch /\ new.passed = work[r].passed /\ new.commit = work[r].commit
        /\ new.status = work[r].status /\ new.undisturbed = work[r].undisturbed
    BY <1>1 DEF RunType, Diagnosed
  <2> HIDE DEF tree, new
  <2>6. /\ PipelineTypes' /\ ModesApart' /\ work'[r] = new
        /\ \A q \in AllRepairs \ {r} : work'[q] = work[q] /\ RunInv(q)'
    BY <1>1, <2>1, <2>2, <2>4, <2>5, OthersKeep
  <2>7. PatchFollowed(r)'
    BY <1>1, <2>2, <2>3, <2>5, <2>6, RunFacts DEF PatchFollowed, Unapplied, Untested, Unstaged
  <2>8. Alone(r)'
    BY <1>1, <2>2, <2>5, <2>6, RunFacts DEF Alone, PatchFollowed, Unapplied, Untested, Unstaged, Diagnosed, Running
  <2>9. Committed1(r)'
    BY <1>1, <2>5, <2>6, RunFacts DEF Committed1, PatchFollowed, Unstaged, Untested, Unapplied
  <2> QED BY <2>6, <2>7, <2>8, <2>9 DEF PipelineInv, RunInv
<1>4. PICK fits \in Fits(work[r].patch, work[r].base) :
        /\ Go(r, ToTest(r, fits))
        /\ copy' = IF fits THEN [copy EXCEPT !.tree = tree] ELSE copy
  BY DEF ApplyPatch
<1>5. fits \in BOOLEAN
  BY <1>4 DEF Fits
<1> QED BY <1>2, <1>3, <1>4, <1>5

\* run_tests.
LEMMA RunTestsInv ==
  ASSUME PipelineInv, NEW r \in AllRepairs, RunTests(r)
  PROVE  PipelineInv'
<1> DEFINE Tested(passed) == [work[r] EXCEPT !.at = "add", !.base = {}, !.passed = passed, !.saw = copy.tree]
           untested       == [work[r] EXCEPT !.at = "add", !.base = {}]
<1>1. /\ work[r].at = "test" /\ work[r] \in RunType /\ Running(r) /\ UNCHANGED copy
      /\ copy.tree \in Trees
  BY RunFacts DEF RunTests, Running
<1>2. /\ untested \in RunType /\ \A passed \in BOOLEAN : Tested(passed) \in RunType
      /\ untested.passed = work[r].passed /\ \A passed \in BOOLEAN : Tested(passed).saw = copy.tree
  BY <1>1 DEF RunType, Diagnosed
<1>3. PICK new \in RunType :
        /\ Go(r, new)
        /\ new.at = "add" /\ new.applied = work[r].applied /\ new.candidates = work[r].candidates
        /\ new.patch = work[r].patch /\ new.commit = work[r].commit
        /\ new.status = work[r].status /\ new.undisturbed = work[r].undisturbed
        /\ new.passed => (new.applied /\ new.saw = copy.tree)
  <2>1. CASE ~work[r].applied
    <3>1. Go(r, untested)
      BY <2>1 DEF RunTests
    <3>2. ~untested.passed
      BY <1>1, <1>2, RunFacts DEF PatchFollowed, Untested
    <3>3. /\ untested.at = "add" /\ untested.applied = work[r].applied
          /\ untested.candidates = work[r].candidates /\ untested.patch = work[r].patch
          /\ untested.commit = work[r].commit /\ untested.status = work[r].status
          /\ untested.undisturbed = work[r].undisturbed
      BY <1>1 DEF RunType
    <3> HIDE DEF untested
    <3> QED BY <1>2, <3>1, <3>2, <3>3
  <2>2. CASE work[r].applied
    <3>1. PICK passed \in BOOLEAN : Go(r, [untested EXCEPT !.passed = passed, !.saw = copy.tree])
      BY <2>2 DEF RunTests, TestOutcomes
    <3>2. [untested EXCEPT !.passed = passed, !.saw = copy.tree] = Tested(passed)
      BY <1>1 DEF RunType
    <3> DEFINE new == Tested(passed)
    <3>3. /\ new.at = "add" /\ new.applied = work[r].applied
          /\ new.candidates = work[r].candidates /\ new.patch = work[r].patch
          /\ new.commit = work[r].commit /\ new.status = work[r].status
          /\ new.undisturbed = work[r].undisturbed /\ new.saw = copy.tree
      BY <1>1 DEF RunType
    <3>5. new \in RunType
      BY <1>2
    <3>4. Go(r, new)
      BY <3>1, <3>2
    <3> HIDE DEF new
    <3> QED BY <2>2, <3>3, <3>4, <3>5
  <2> QED BY <2>1, <2>2
<1> HIDE DEF Tested, untested
<1>4. work'[r] = new /\ \A q \in AllRepairs \ {r} : work'[q] = work[q]
  BY <1>3, RunFacts DEF Go
<1>5. PatchFollowed(r)'
  BY <1>1, <1>3, <1>4, RunFacts DEF PatchFollowed, Unapplied, Untested, Unstaged
<1>6. Alone(r)'
  BY <1>1, <1>3, <1>4, RunFacts DEF Alone, PatchFollowed, Unapplied, Untested, Unstaged, Diagnosed, Running
<1>7. Committed1(r)'
  BY <1>1, <1>3, <1>4, RunFacts DEF Committed1, PatchFollowed, Unstaged, Untested, Unapplied
<1> QED BY <1>1, <1>3, <1>5, <1>6, <1>7, Advances

\* _candidate_paths name files of the patch, or a file that is not there.
LEMMA CandidatesFacts ==
  ASSUME NEW patch \in PatchType, NEW paths \in Candidates(patch), Unknown \notin paths
  PROVE  paths \subseteq patch.files
BY DEF Candidates

\* Nothing to add, or a commit that fails: the deploy is told that there is none.
LEMMA GivesUpCommit ==
  ASSUME PipelineInv, NEW r \in AllRepairs, work[r].at \in {"add", "commit"}, UNCHANGED copy,
         Go(r, ToDeploy(r, NoCommit))
  PROVE  PipelineInv'
<1> DEFINE new == [work[r] EXCEPT !.at = "deploy", !.commit = NoCommit]
<1>1. /\ work[r] \in RunType /\ Running(r) /\ work[r].commit = NoCommit
      /\ work' = [work EXCEPT ![r] = new] /\ Go(r, new)
  BY RunFacts DEF Running, PatchFollowed, Unstaged, Go, ToDeploy
<1>2. /\ new \in RunType /\ new.at = "deploy" /\ new.applied = work[r].applied
      /\ new.patch = work[r].patch /\ new.passed = work[r].passed /\ new.commit = NoCommit
      /\ new.status = work[r].status /\ new.undisturbed = work[r].undisturbed
  BY <1>1 DEF RunType, Diagnosed
<1> HIDE DEF new
<1>3. work'[r] = new /\ \A q \in AllRepairs \ {r} : work'[q] = work[q]
  BY <1>1, RunFacts
<1>4. PatchFollowed(r)'
  BY <1>1, <1>2, <1>3, RunFacts DEF PatchFollowed, Unapplied, Untested, Unstaged
<1>5. Alone(r)'
  BY <1>1, <1>2, <1>3, RunFacts DEF Alone, PatchFollowed, Unapplied, Untested, Unstaged, Diagnosed, Running
<1>6. Committed1(r)'
  BY <1>2, <1>3 DEF Committed1
<1> QED BY <1>1, <1>2, <1>4, <1>5, <1>6, Advances

\* git add.
LEMMA AddInv ==
  ASSUME PipelineInv, NEW r \in AllRepairs, Add(r)
  PROVE  PipelineInv'
<1>1. /\ work[r].at = "add" /\ work[r] \in RunType /\ Running(r) /\ copy \in CopyType
      /\ work[r].commit = NoCommit /\ work[r].patch \in PatchType
  BY RunFacts DEF Add, Running, PatchFollowed, Unstaged, RunType
<1>2. CASE Go(r, ToDeploy(r, NoCommit)) /\ UNCHANGED copy
  BY <1>1, <1>2, GivesUpCommit
<1>3. CASE /\ work[r].passed /\ CandidatePaths(r) # {} /\ Unknown \notin CandidatePaths(r)
           /\ copy' = Staged(copy, CandidatePaths(r))
           /\ Go(r, [work[r] EXCEPT !.at = "commit"])
  <2> DEFINE files == work[r].candidates
             index == [f \in Files |-> IF f \in files THEN copy.tree[f] ELSE copy.index[f]]
             new   == [work[r] EXCEPT !.at = "commit"]
  <2>1. /\ CandidatePaths(r) = files /\ files # {} /\ files \subseteq work[r].patch.files
        /\ files \subseteq Files
    BY <1>1, <1>3, RunFacts, CandidatesFacts DEF CandidatePaths, PatchFollowed, PatchType
  <2>2. index \in Trees /\ \A f \in Files : copy.index[f] \cap copy.tree[f] \subseteq index[f]
    BY CopyFacts DEF Trees
  <2>3. copy' = [copy EXCEPT !.index = index]
    BY <1>3, <2>1, CopyFacts DEF Staged, Taken, Trees
  <2>4. /\ copy' \in CopyType /\ copy'.tree = copy.tree /\ copy'.index = index
        /\ copy'.head = copy.head /\ copy'.branch = copy.branch /\ copy'.nightly = copy.nightly
    BY <1>1, <2>2, <2>3 DEF CopyType
  <2>5. /\ \A f \in files : f \in Files /\ index[f] = copy.tree[f]
        /\ \A f \in Files : index[f] = IF f \in files THEN copy.tree[f] ELSE copy.index[f]
    BY <2>1
  <2>6. /\ new \in RunType /\ new.at = "commit" /\ new.applied = work[r].applied
        /\ new.candidates = work[r].candidates /\ new.patch = work[r].patch
        /\ new.passed = work[r].passed /\ new.commit = work[r].commit /\ new.saw = work[r].saw
        /\ new.status = work[r].status /\ new.undisturbed = work[r].undisturbed
    BY <1>1 DEF RunType, Diagnosed
  <2>7. work' = [work EXCEPT ![r] = new]
    BY <1>3 DEF Go
  <2> HIDE DEF index, new
  <2>8. /\ PipelineTypes' /\ ModesApart' /\ work'[r] = new
        /\ \A q \in AllRepairs \ {r} : work'[q] = work[q] /\ RunInv(q)'
    BY <1>1, <2>2, <2>4, <2>6, <2>7, OthersKeep
  <2>a. /\ work[r].applied /\ \A f \in work[r].patch.files : r \in copy.tree[f]
        /\ work[r].status = "repair_succeeded" => FALSE
    BY <1>1, <1>3, <2>1, RunFacts DEF PatchFollowed
  <2>9. PatchFollowed(r)'
    <3>1. \A f \in files : r \in index[f]
      BY <2>1, <2>5, <2>a
    <3>2. /\ work'[r].patch = work[r].patch /\ work'[r].candidates = files /\ work'[r].at = "commit"
          /\ work'[r].passed /\ work'[r].applied /\ work'[r].commit = NoCommit
          /\ work'[r].status # "repair_succeeded"
      BY <1>1, <1>3, <2>1, <2>6, <2>8, <2>a
    <3> HIDE DEF files
    <3> QED BY <2>1, <2>4, <2>a, <3>1, <3>2 DEF PatchFollowed, Unapplied, Untested, Unstaged
  <2>10. Alone(r)'
    <3> SUFFICES ASSUME work[r].undisturbed
                 PROVE  Alone(r)'
      BY <2>6, <2>8 DEF Alone
    <3>1. /\ \A q \in AllRepairs \ {r} : ~Running(q)
          /\ copy.index = copy.head /\ copy.branch = r /\ work[r].saw = copy.tree
      BY <1>1, <1>3, <2>a, RunFacts DEF Alone, Diagnosed, Unstaged
    <3>2. \A q \in AllRepairs \ {r} : ~Running(q)'
      BY <2>8, <3>1 DEF Running
    <3>3. \A f \in Files : copy'.index[f] = IF f \in work'[r].candidates THEN work'[r].saw[f] ELSE copy'.head[f]
      BY <2>4, <2>5, <2>6, <2>8, <3>1
    <3> QED BY <2>4, <2>6, <2>8, <3>1, <3>2, <3>3 DEF Alone, Unapplied, Untested, Unstaged
  <2>11. Committed1(r)'
    BY <1>1, <2>6, <2>8 DEF Committed1
  <2> QED BY <2>8, <2>9, <2>10, <2>11 DEF PipelineInv, RunInv
<1> QED BY <1>2, <1>3 DEF Add

\* git commit.
LEMMA CommitInv ==
  ASSUME PipelineInv, NEW r \in AllRepairs, Commit(r)
  PROVE  PipelineInv'
<1>1. /\ work[r].at = "commit" /\ work[r] \in RunType /\ Running(r) /\ copy \in CopyType
      /\ work[r].commit = NoCommit /\ work[r].patch \in PatchType
  BY RunFacts DEF Commit, Running, PatchFollowed, RunType
<1>2. CASE Go(r, ToDeploy(r, NoCommit)) /\ UNCHANGED copy
  BY <1>1, <1>2, GivesUpCommit
<1>3. CASE /\ copy' = Committed(copy)
           /\ Go(r, ToDeploy(r, [tree |-> copy.index, parent |-> copy.head, branch |-> copy.branch]))
  <2> DEFINE commit == [tree |-> copy.index, parent |-> copy.head, branch |-> copy.branch]
             new    == [work[r] EXCEPT !.at = "deploy", !.commit = commit]
  <2>1. commit \in Commits /\ commit.tree = copy.index /\ commit.parent = copy.head /\ commit.branch = copy.branch
    BY CopyFacts DEF Commits
  <2>2. commit # NoCommit
    BY DEF NoCommit
  <2>3. /\ copy' \in CopyType /\ copy'.tree = copy.tree /\ copy'.index = copy.index
        /\ copy'.branch = copy.branch /\ copy'.nightly = copy.nightly
    BY <1>1, <1>3 DEF Committed, CopyType
  <2>4. work' = [work EXCEPT ![r] = new]
    BY <1>3 DEF Go, ToDeploy
  <2> HIDE DEF commit
  <2>5. /\ new \in RunType /\ new.at = "deploy" /\ new.applied = work[r].applied
        /\ new.candidates = work[r].candidates /\ new.patch = work[r].patch
        /\ new.passed = work[r].passed /\ new.commit = commit /\ new.saw = work[r].saw
        /\ new.status = work[r].status /\ new.undisturbed = work[r].undisturbed
    BY <1>1, <2>1 DEF RunType, Diagnosed
  <2> HIDE DEF new
  <2>6. /\ PipelineTypes' /\ ModesApart' /\ work'[r] = new
        /\ \A q \in AllRepairs \ {r} : work'[q] = work[q] /\ RunInv(q)'
    BY <1>1, <2>3, <2>4, <2>5, OthersKeep
  <2>7. PatchFollowed(r)'
    BY <1>1, <2>1, <2>3, <2>5, <2>6, RunFacts DEF PatchFollowed, Unapplied, Untested, Unstaged
  <2>8. Alone(r)'
    BY <1>1, <2>1, <2>3, <2>5, <2>6, RunFacts
       DEF Alone, PatchFollowed, Unapplied, Untested, Unstaged, Diagnosed, Running
  <2>9. Committed1(r)'
    <3> SUFFICES ASSUME work[r].undisturbed
                 PROVE  Committed1(r)'
      BY <2>5, <2>6 DEF Committed1
    <3>1. /\ copy.branch = r
          /\ work[r].candidates \subseteq work[r].patch.files
          /\ \A f \in Files : copy.index[f] = IF f \in work[r].candidates THEN work[r].saw[f] ELSE copy.head[f]
      BY <1>1, RunFacts DEF Alone, Diagnosed, PatchFollowed
    <3> QED BY <2>1, <2>5, <2>6, <3>1 DEF Committed1
  <2> QED BY <2>6, <2>7, <2>8, <2>9 DEF PipelineInv, RunInv
<1> QED BY <1>2, <1>3 DEF Commit

\* The deploy, and the finalizer of a run: what the run made stays as it is.
LEMMA LeavesPatch ==
  ASSUME PipelineInv, NEW r \in AllRepairs, work[r].at \in {"deploy", "finalizer"}, UNCHANGED copy,
         NEW at \in {"finalizer", "report", "end"},
         NEW deploy \in {"skipped", "pending", "deployed", "failed"},
         Go(r, [work[r] EXCEPT !.at = at, !.deploy = deploy])
  PROVE  PipelineInv'
<1> DEFINE new == [work[r] EXCEPT !.at = at, !.deploy = deploy]
<1>1. /\ work[r] \in RunType /\ Running(r) /\ work' = [work EXCEPT ![r] = new] /\ Go(r, new)
  BY RunFacts DEF Running, Go
<1>a. /\ at \in Diagnosed \cup {"idle", "repair", "end"}
      /\ new.at = at /\ new.applied = work[r].applied /\ new.candidates = work[r].candidates
      /\ new.patch = work[r].patch /\ new.passed = work[r].passed /\ new.commit = work[r].commit
      /\ new.status = work[r].status /\ new.undisturbed = work[r].undisturbed
      /\ new.saw = work[r].saw
  BY <1>1 DEF RunType, Diagnosed
<1>2. new \in RunType
  BY <1>1, <1>a DEF RunType
<1> HIDE DEF new
<1>3. work'[r] = new /\ \A q \in AllRepairs \ {r} : work'[q] = work[q]
  BY <1>1, RunFacts
<1>4. PatchFollowed(r)'
  BY <1>1, <1>a, <1>3, RunFacts DEF PatchFollowed, Unapplied, Untested, Unstaged
<1>5. Alone(r)'
  BY <1>1, <1>a, <1>3, RunFacts DEF Alone, PatchFollowed, Unapplied, Untested, Unstaged, Diagnosed, Running
<1>6. Committed1(r)'
  <2>1. Committed1(r)
    BY RunFacts
  <2> QED BY <1>a, <1>3, <2>1 DEF Committed1
<1> QED BY <1>1, <1>2, <1>a, <1>4, <1>5, <1>6, Advances

\* trigger_deploy.
LEMMA DeployInv ==
  ASSUME PipelineInv, NEW r \in AllRepairs, Deploy(r)
  PROVE  PipelineInv'
<1>1. PICK deploy \in {"skipped", "pending", "deployed", "failed"} :
        Go(r, [work[r] EXCEPT !.at = "finalizer", !.deploy = deploy])
  BY DEF Deploy, Triggered
<1> QED BY <1>1, LeavesPatch DEF Deploy

\* finalize_node.
LEMMA FinalizeInv ==
  ASSUME PipelineInv, NEW r \in AllRepairs, Finalize(r)
  PROVE  PipelineInv'
<1>1. PICK at \in {"report", "end"} : Go(r, [work[r] EXCEPT !.at = at])
  BY DEF Finalize
<1>2. /\ work[r] \in RunType /\ work[r].at = "finalizer" /\ UNCHANGED copy
      /\ work[r].deploy \in {"skipped", "pending", "deployed", "failed"}
  BY RunFacts DEF RunType, Finalize
<1>3. [work[r] EXCEPT !.at = at] = [work[r] EXCEPT !.at = at, !.deploy = work[r].deploy]
  BY <1>2 DEF RunType
<1> QED BY <1>1, <1>2, <1>3, LeavesPatch

\* The nightly worker's own steps: its baseline, its report and its timeout.
LEMMA NightlyInv ==
  ASSUME PipelineInv, NEW at \in {"repair", "end"},
         NEW status \in {"none", "baseline_smoke_failed", "no_failure", "pytest_failed_autofix_disabled",
                         "repair_succeeded", "repair_failed_no_retry", "raised"},
         \/ Running(Nightly) 
         \/ work[Nightly].at = "idle" /\ copy.nightly,
         at = "repair" => work[Nightly].at = "idle",
         status = "repair_succeeded" => work[Nightly].commit # NoCommit,
         UNCHANGED copy, Go(Nightly, [work[Nightly] EXCEPT !.at = at, !.status = status])
  PROVE  PipelineInv'
<1> DEFINE new == [work[Nightly] EXCEPT !.at = at, !.status = status]
<1>1. Nightly \in AllRepairs /\ Nightly \notin Repairs /\ AllRepairs = Repairs \cup {Nightly}
  BY RepairAssumption DEF AllRepairs
<1>2. /\ work[Nightly] \in RunType /\ work' = [work EXCEPT ![Nightly] = new]
  BY <1>1, RunFacts DEF Go
<1>a. new \in RunType
  <2>1. [work[Nightly] EXCEPT !.at = at] \in RunType
    BY <1>2 DEF RunType
  <2>2. [[work[Nightly] EXCEPT !.at = at] EXCEPT !.status = status] \in RunType
    BY <2>1 DEF RunType
  <2>3. [[work[Nightly] EXCEPT !.at = at] EXCEPT !.status = status] = new
    BY <1>2 DEF RunType
  <2> QED BY <2>2, <2>3
<1>b. /\ new.at = at /\ new.applied = work[Nightly].applied
      /\ new.candidates = work[Nightly].candidates
      /\ new.patch = work[Nightly].patch /\ new.passed = work[Nightly].passed
      /\ new.commit = work[Nightly].commit /\ new.status = status
      /\ new.undisturbed = work[Nightly].undisturbed /\ new.saw = work[Nightly].saw
  BY <1>2 DEF RunType
<1>3. new \in RunType /\ new.at = at /\ new.status = status
  BY <1>a, <1>b
<1> HIDE DEF new
<1>4. work'[Nightly] = new /\ \A q \in AllRepairs \ {Nightly} : work'[q] = work[q]
  BY <1>1, <1>2, RunFacts
<1>5. PatchFollowed(Nightly)'
  BY <1>1, <1>b, <1>4, RunFacts DEF PatchFollowed, Unapplied, Untested, Unstaged
<1>6. Alone(Nightly)'
  BY <1>3, <1>4 DEF Alone, Diagnosed
<1>7. Committed1(Nightly)'
  <2>1. Committed1(Nightly)
    BY <1>1, RunFacts
  <2> QED BY <1>b, <1>4, <2>1 DEF Committed1
<1>8. CASE Running(Nightly)
  BY <1>1, <1>2, <1>3, <1>5, <1>6, <1>7, <1>8, Advances DEF Go
<1>9. CASE work[Nightly].at = "idle" /\ copy.nightly
  <2>1. PipelineTypes' /\ ModesApart'
    BY <1>1, <1>2, <1>3, <1>4, <1>9, RunFacts DEF PipelineInv, PipelineTypes, ModesApart
  <2>2. ASSUME NEW q \in AllRepairs \ {Nightly} PROVE RunInv(q)'
    <3>1. work[q].at = "idle" /\ work'[q] = work[q] /\ PatchFollowed(q) /\ Committed1(q)
      BY <1>1, <1>4, <1>9, RunFacts DEF PipelineInv, ModesApart
    <3>2. PatchFollowed(q)'
      BY <3>1 DEF PatchFollowed
    <3>3. Alone(q)'
      BY <3>1 DEF Alone, Diagnosed
    <3>4. Committed1(q)'
      BY <3>1 DEF Committed1
    <3> QED BY <3>2, <3>3, <3>4 DEF RunInv
  <2> QED BY <1>5, <1>6, <1>7, <2>1, <2>2 DEF PipelineInv, RunInv
<1> QED BY <1>8, <1>9

\* NightlyBaseline, NightlyReport and NightlyTimeout are of that kind.
LEMMA NightlyMoves ==
  ASSUME PipelineInv, NightlyBaseline \/ NightlyReport \/ NightlyTimeout
  PROVE  PipelineInv'
<1>1. Nightly \in AllRepairs /\ work[Nightly] \in RunType
  BY RunFacts DEF AllRepairs
<1>2. CASE NightlyBaseline
  <2>1. PICK status \in {"baseline_smoke_failed", "no_failure", "to_repair"} :
          Go(Nightly, IF status = "to_repair" /\ copy.settings.autofix
                      THEN [work[Nightly] EXCEPT !.at = "repair"]
                      ELSE [work[Nightly] EXCEPT !.at = "end",
                              !.status = IF status = "to_repair"
                                         THEN "pytest_failed_autofix_disabled" ELSE status])
    BY <1>2 DEF NightlyBaseline
  <2>2. /\ copy.nightly /\ work[Nightly].at = "idle" /\ UNCHANGED copy
        /\ work[Nightly].status = "repair_succeeded" => work[Nightly].commit # NoCommit
        /\ work[Nightly].status \in
              {"none", "baseline_smoke_failed", "no_failure", "pytest_failed_autofix_disabled",
               "repair_succeeded", "repair_failed_no_retry", "raised"}
    BY <1>1, <1>2, RunFacts DEF NightlyBaseline, PatchFollowed, RunType
  <2>3. CASE Go(Nightly, [work[Nightly] EXCEPT !.at = "repair"])
    <3>1. [work[Nightly] EXCEPT !.at = "repair"]
            = [work[Nightly] EXCEPT !.at = "repair", !.status = work[Nightly].status]
      BY <1>1 DEF RunType
    <3> QED BY <2>2, <2>3, <3>1, NightlyInv
  <2>4. ASSUME NEW s \in {"baseline_smoke_failed", "no_failure", "pytest_failed_autofix_disabled"},
               Go(Nightly, [work[Nightly] EXCEPT !.at = "end", !.status = s])
        PROVE  PipelineInv'
    BY <2>2, <2>4, NightlyInv
  <2> QED BY <2>1, <2>3, <2>4
<1>3. CASE NightlyReport
  <2>1. /\ work[Nightly].at = "report" /\ Running(Nightly) /\ UNCHANGED copy
        /\ \/ Go(Nightly, [work[Nightly] EXCEPT !.at = "end", !.status = "repair_failed_no_retry"])
           \/ /\ work[Nightly].commit # NoCommit
              /\ Go(Nightly, [work[Nightly] EXCEPT !.at = "end", !.status = "repair_succeeded"])
    BY <1>3 DEF NightlyReport, RepairSucceeded, Running
  <2>2. CASE Go(Nightly, [work[Nightly] EXCEPT !.at = "end", !.status = "repair_failed_no_retry"])
    BY <2>1, <2>2, NightlyInv
  <2>3. CASE /\ work[Nightly].commit # NoCommit
             /\ Go(Nightly, [work[Nightly] EXCEPT !.at = "end", !.status = "repair_succeeded"])
    BY <2>1, <2>3, NightlyInv
  <2> QED BY <2>1, <2>2, <2>3
<1>4. CASE NightlyTimeout
  BY <1>4, NightlyInv DEF NightlyTimeout
<1> QED BY <1>2, <1>3, <1>4

\* debug_node starts a run: it and every run it finds at work are no longer alone.
LEMMA DebugInv ==
  ASSUME PipelineInv, NEW r \in AllRepairs, NEW message \in {"plain", "traceback"}, Debug(r, message)
  PROVE  PipelineInv'
<1> DEFINE alone    == (\A p \in AllRepairs \ {r} : ~Running(p)) /\ copy.index = copy.head
           New(e, a) == [work[r] EXCEPT !.undisturbed = alone, !.error = e, !.at = a]
<1>1. PICK e \in Errors \cup {"none"}, a \in {"fix", "finalizer"} :
        work' = [Started(r) EXCEPT ![r] = [Started(r)[r] EXCEPT !.error = e, !.at = a]]
  BY DEF Debug, RouteFromDebug
<1>2. /\ work[r] \in RunType /\ UNCHANGED copy /\ alone \in BOOLEAN
      /\ work[r].at = (IF r = Nightly THEN "repair" ELSE "idle")
      /\ copy.nightly = (r = Nightly)
  BY RunFacts DEF Debug
<1> DEFINE new == New(e, a)
<1>3. Started(r)[r] = [work[r] EXCEPT !.undisturbed = alone]
  BY DEF Started
<1>4. [Started(r)[r] EXCEPT !.error = e, !.at = a] = new
  BY <1>2, <1>3 DEF RunType
<1>5. /\ work'[r] = new /\ DOMAIN work' = AllRepairs
      /\ \A q \in AllRepairs \ {r} :
           work'[q] = IF Running(q) THEN [work[q] EXCEPT !.undisturbed = FALSE] ELSE work[q]
      /\ work' = [q \in AllRepairs |-> work'[q]]
  BY <1>1, <1>4 DEF Started
<1>6. new \in RunType
  <2>1. a \in Diagnosed \cup {"idle", "repair", "end"}
    BY DEF Diagnosed
  <2> HIDE DEF alone
  <2>2. [work[r] EXCEPT !.undisturbed = alone] \in RunType
    BY <1>2 DEF RunType
  <2>3. [[work[r] EXCEPT !.undisturbed = alone] EXCEPT !.error = e, !.at = a] \in RunType
    BY <2>1, <2>2 DEF RunType
  <2> QED BY <1>2, <2>3 DEF RunType
<1>7. /\ new.at = a /\ new.applied = work[r].applied /\ new.passed = work[r].passed
      /\ new.patch = work[r].patch /\ new.commit = work[r].commit /\ new.status = work[r].status
      /\ new.undisturbed = alone
  BY <1>2 DEF RunType
<1> HIDE DEF new
<1>8. ASSUME NEW q \in AllRepairs \ {r}, Running(q)
      PROVE  /\ work'[q] \in RunType /\ RunInv(q)'
  <2> DEFINE other == [work[q] EXCEPT !.undisturbed = FALSE]
  <2>1. work[q] \in RunType /\ PatchFollowed(q) /\ work'[q] = other
    BY <1>5, <1>8, RunFacts
  <2>2. other \in RunType
    BY <2>1 DEF RunType
  <2>3. /\ other.undisturbed = FALSE /\ other.at = work[q].at /\ other.applied = work[q].applied
        /\ other.passed = work[q].passed /\ other.patch = work[q].patch
        /\ other.candidates = work[q].candidates /\ other.commit = work[q].commit
        /\ other.status = work[q].status /\ other.saw = work[q].saw
    BY <2>1 DEF RunType
  <2> HIDE DEF other
  <2>4. PatchFollowed(q)'
    BY <1>2, <2>1, <2>3 DEF PatchFollowed
  <2>5. Alone(q)' /\ Committed1(q)'
    BY <2>1, <2>3 DEF Alone, Committed1
  <2> QED BY <2>1, <2>2, <2>4, <2>5 DEF RunInv
<1>9. ASSUME NEW q \in AllRepairs \ {r}, ~Running(q)
      PROVE  /\ work'[q] \in RunType /\ RunInv(q)'
  <2>1. /\ work[q] \in RunType /\ PatchFollowed(q) /\ work'[q] = work[q] /\ Committed1(q)
        /\ work[q].at \notin Diagnosed
    BY <1>5, <1>9, RunFacts DEF Running, Diagnosed
  <2>2. PatchFollowed(q)'
    BY <1>2, <2>1 DEF PatchFollowed
  <2>3. Alone(q)' /\ Committed1(q)'
    BY <2>1 DEF Alone, Committed1
  <2> QED BY <2>1, <2>2, <2>3 DEF RunInv
<1>10. PipelineTypes'
  BY <1>2, <1>5, <1>6, <1>8, <1>9, RunFacts DEF PipelineTypes
<1>11. ModesApart'
  BY <1>2, <1>5, <1>8, <1>9, RepairAssumption DEF PipelineInv, ModesApart, AllRepairs, Running
<1>12. PatchFollowed(r)'
  BY <1>2, <1>5, <1>7, RunFacts DEF PatchFollowed, Unapplied, Untested, Unstaged
<1>13. Committed1(r)'
  BY <1>2, <1>5, <1>7, RunFacts DEF Committed1, PatchFollowed, Unapplied, Untested, Unstaged
<1>14. Alone(r)'
  <2>1. alone => \A q \in AllRepairs \ {r} : ~Running(q)'
    BY <1>5 DEF Running
  <2>2. ~new.applied /\ ~new.passed
    BY <1>2, <1>7, RunFacts DEF PatchFollowed, Unapplied, Untested
  <2>3. alone => copy'.index = copy'.head
    BY <1>2
  <2> HIDE DEF alone
  <2> QED BY <1>5, <1>7, <2>1, <2>2, <2>3 DEF Alone
<1> QED BY <1>8, <1>9, <1>10, <1>11, <1>12, <1>13, <1>14 DEF PipelineInv, RunInv

\* The invariant holds before any run starts.
LEMMA PipelineInvInit == RepairInit => PipelineInv
<1> SUFFICES ASSUME RepairInit PROVE PipelineInv
  OBVIOUS
<1>1. NoTree \in Trees /\ NoPatch \in PatchType
  BY DEF NoTree, NoPatch, Trees, PatchType
<1>2. Idle \in RunType
  BY <1>1 DEF Idle, RunType
<1>3. PICK apply, deploy, autofix, nightly \in BOOLEAN :
        copy = [tree |-> NoTree, index |-> NoTree, head |-> NoTree, branch |-> "main",
                nightly |-> nightly,
                settings |-> [apply |-> apply, deploy |-> deploy, autofix |-> autofix]]
  BY DEF RepairInit
<1>4. copy \in CopyType
  BY <1>1, <1>3 DEF CopyType, Branches
<1>5. work = [r \in AllRepairs |-> Idle]
  BY DEF RepairInit
<1>6. PipelineTypes
  BY <1>2, <1>4, <1>5 DEF PipelineTypes
<1>7. ModesApart
  BY <1>5 DEF ModesApart, AllRepairs, Idle
<1>8. ASSUME NEW r \in AllRepairs PROVE RunInv(r)
  <2>1. work[r] = Idle
    BY <1>5
  <2>2. PatchFollowed(r)
    BY <2>1 DEF PatchFollowed, Idle
  <2>3. Alone(r) /\ Committed1(r)
    BY <2>1 DEF Alone, Committed1, Idle, Diagnosed
  <2> QED BY <2>2, <2>3 DEF RunInv
<1> QED BY <1>6, <1>7, <1>8 DEF PipelineInv

\* It is inductive.
LEMMA PipelineInvStep == PipelineInv /\ [RepairNext]_repairVars => PipelineInv'
<1>1. ASSUME PipelineInv, UNCHANGED repairVars PROVE PipelineInv'
  BY <1>1 DEF repairVars, PipelineInv, PipelineTypes, ModesApart, RunInv, PatchFollowed, Alone,
              Committed1, Running
<1>2. ASSUME PipelineInv, NEW r \in AllRepairs,
             \/ \E message \in {"plain", "traceback"} : Debug(r, message)
             \/ ReadCode(r) \/ Answer(r) \/ Generate(r)
             \/ CheckPatch(r) \/ Branch(r) \/ ApplyPatch(r)
             \/ RunTests(r) \/ Add(r) \/ Commit(r) \/ Deploy(r) \/ Finalize(r)
      PROVE  PipelineInv'
  BY <1>2, DebugInv, ReadCodeInv, AnswerInv, GenerateInv, CheckPatchInv, BranchInv, ApplyPatchInv,
     RunTestsInv, AddInv, CommitInv, DeployInv, FinalizeInv
<1>3. ASSUME PipelineInv, NightlyBaseline \/ NightlyReport \/ NightlyTimeout PROVE PipelineInv'
  BY <1>3, NightlyMoves
<1> QED BY <1>1, <1>2, <1>3 DEF RepairNext

\* And it says what CommitsItsPatch and the type invariant say.
LEMMA PipelineShows == PipelineInv => CommitsItsPatch /\ RepairTypeOK
<1> SUFFICES ASSUME PipelineInv PROVE CommitsItsPatch /\ RepairTypeOK
  OBVIOUS
<1>1. \A r \in AllRepairs : work[r] \in RunType /\ PatchFollowed(r) /\ Committed1(r)
  BY RunFacts
<1>2. work[Nightly].status = "repair_succeeded" =>
        Nightly \in UNION {work[Nightly].commit.tree[f] : f \in Files}
  <2> SUFFICES ASSUME work[Nightly].status = "repair_succeeded"
               PROVE  \E f \in Files : Nightly \in work[Nightly].commit.tree[f]
    OBVIOUS
  <2>1. Nightly \in AllRepairs
    BY DEF AllRepairs
  <2>2. /\ work[Nightly].candidates # {} /\ work[Nightly].candidates \subseteq Files
        /\ \A f \in work[Nightly].candidates : Nightly \in work[Nightly].commit.tree[f]
    BY <1>1, <2>1 DEF PatchFollowed, RunType, PatchType
  <2> QED BY <2>2
<1>3. CommitsItsPatch
  BY <1>1, <1>2 DEF CommitsItsPatch, Committed1
<1>4. \A r \in AllRepairs :
        /\ work[r].candidates \subseteq Files \cup {Unknown}
        /\ work[r].commit = NoCommit \/ work[r].commit.branch \in AllRepairs \cup {"main"}
  BY <1>1 DEF RunType, Commits, Branches
<1>5. /\ \A f \in Files : copy.tree[f] \cup copy.index[f] \cup copy.head[f] \subseteq AllRepairs
      /\ copy.branch \in AllRepairs \cup {"main"} /\ DOMAIN work = AllRepairs
  BY CopyFacts DEF Trees, Branches, PipelineInv, PipelineTypes
<1> QED BY <1>3, <1>4, <1>5 DEF RepairTypeOK

------------------------------------------------------------------------------
\* Improvement: the history the cycles share.

-----------------------------------------------------------------------------
(* The self-improvement history *)

Records ==
  [sort : {"signal", "memory"},
   what : {"success", "repair", "failure"} \cup Statuses, who : Cycles \cup {"none"},
   detail : Causes \cup {"raw", "generic"}]

Histories == {h \in Seq(Records) : Len(h) <= MaxRecords}

\* No workflow run is remembered twice; nothing raw is in it.
OncePerRun(h) ==
  \A i, j \in DOMAIN h :
    h[i].sort = "memory" /\ h[j].sort = "memory" /\ h[i].who = h[j].who /\ h[i].who # "none" => i = j
Generic(h)    == \A i \in DOMAIN h : h[i].detail = "generic"

Rows == [task : Queued, status : Statuses]

LoopRunType ==
  [at : {"idle", "tasks", "observed", "append", "memory", "export"},
   cycle : Cycles \cup {"none"}, history : Histories, results : Seq(Rows),
   gates : BOOLEAN, approved : BOOLEAN, developed : 0 .. MaxDevelopments]

HistoryInv ==
  /\ durable \in Histories /\ OncePerRun(durable) /\ Generic(durable)
  /\ loop \in LoopRunType /\ OncePerRun(loop.history)
  /\ Len(loop.results) <= IF loop.at = "observed" THEN 1 ELSE 2

\* The newest records are a tail of the records.
LEMMA NewestFacts ==
  ASSUME NEW h \in Seq(Records)
  PROVE  /\ Newest(h) \in Histories
         /\ OncePerRun(h) => OncePerRun(Newest(h))
         /\ Generic(h) => Generic(Newest(h))
<1> DEFINE n == Len(h)
           d == IF n > MaxRecords THEN n - MaxRecords ELSE 0
           new == Newest(h)
<1>1. n \in Nat /\ MaxRecords \in Nat \ {0} /\ d \in 0 .. n /\ n - d <= MaxRecords
  BY ImprovementAssumption
<1>2. new = SubSeq(h, d + 1, n)
  BY <1>1 DEF Newest
<1>3. new \in Seq(Records) /\ Len(new) = n - d /\ \A i \in 1 .. n - d : new[i] = h[d + i]
  <2>1. \A i \in d + 1 .. n : h[i] \in Records
    BY <1>1
  <2>2. /\ new \in Seq(Records) /\ Len(new) = (IF d + 1 <= n THEN n - (d + 1) + 1 ELSE 0)
        /\ \A i \in 1 .. n - (d + 1) + 1 : new[i] = h[d + 1 + i - 1]
    <3> HIDE DEF new, n, d
    <3> QED BY <1>1, <1>2, <2>1, SubSeqProperties
  <2> HIDE DEF new, n, d
  <2>3. Len(new) = n - d /\ \A i \in 1 .. n - d : d + 1 + i - 1 = d + i
    BY <1>1, <2>2
  <2>4. n - (d + 1) + 1 = n - d
    BY <1>1
  <2> QED BY <2>2, <2>3, <2>4
<1>4. DOMAIN new = 1 .. n - d /\ DOMAIN h = 1 .. n
  BY <1>3
<1> HIDE DEF n, d, new
<1>5. \A i \in 1 .. n - d : d + i \in 1 .. n
  BY <1>1
<1>6. OncePerRun(h) => OncePerRun(new)
  <2> SUFFICES ASSUME OncePerRun(h), NEW i \in 1 .. n - d, NEW j \in 1 .. n - d,
                      new[i].sort = "memory", new[j].sort = "memory", new[i].who = new[j].who,
                      new[i].who # "none"
               PROVE  i = j
    BY <1>4 DEF OncePerRun
  <2>1. d + i = d + j
    BY <1>3, <1>4, <1>5 DEF OncePerRun
  <2> QED BY <1>1, <2>1
<1>7. Generic(h) => Generic(new)
  BY <1>3, <1>4, <1>5 DEF Generic
<1> QED BY <1>1, <1>3, <1>6, <1>7 DEF Histories, new

\* Sanitizing leaves nothing raw and makes no memories.
LEMMA SanitizedFacts ==
  ASSUME NEW h \in Seq(Records)
  PROVE  /\ Sanitized(h) \in Histories /\ Generic(Sanitized(h))
         /\ OncePerRun(h) => OncePerRun(Sanitized(h))
<1> DEFINE clean == [i \in DOMAIN h |-> [h[i] EXCEPT !.detail = "generic"]]
<1>1. \A i \in DOMAIN h : h[i] \in Records
  OBVIOUS
<1>2. \A i \in DOMAIN h : /\ clean[i] \in Records /\ clean[i].detail = "generic"
                          /\ clean[i].sort = h[i].sort /\ clean[i].who = h[i].who
  BY <1>1 DEF Records
<1>3. clean \in Seq(Records) /\ DOMAIN clean = DOMAIN h
  <2>1. DOMAIN h = 1 .. Len(h) /\ Len(h) \in Nat
    OBVIOUS
  <2> QED BY <1>2, <2>1
<1> HIDE DEF clean
<1>4. Generic(clean) /\ (OncePerRun(h) => OncePerRun(clean))
  BY <1>2, <1>3 DEF Generic, OncePerRun
<1> QED BY <1>3, <1>4, NewestFacts DEF Sanitized, clean

\* Adding signals, or a memory of a run that is not remembered yet, remembers none twice.
LEMMA AddingFacts ==
  ASSUME NEW h \in Seq(Records), OncePerRun(h)
  PROVE  /\ \A s \in Seq(Records) :
              /\ h \o s \in Seq(Records)
              /\ (\A i \in DOMAIN s : s[i].sort = "signal") => OncePerRun(h \o s)
         /\ \A rec \in Records :
              /\ Append(h, rec) \in Seq(Records)
              /\ rec.who = "none" \/ ~Remembers(h, rec.who) => OncePerRun(Append(h, rec))
<1>1. DOMAIN h = 1 .. Len(h) /\ Len(h) \in Nat
  OBVIOUS
<1>2. ASSUME NEW s \in Seq(Records)
      PROVE  /\ h \o s \in Seq(Records)
             /\ (\A i \in DOMAIN s : s[i].sort = "signal") => OncePerRun(h \o s)
  <2>1. /\ h \o s \in Seq(Records) /\ DOMAIN (h \o s) = 1 .. Len(h) + Len(s)
        /\ DOMAIN s = 1 .. Len(s) /\ Len(s) \in Nat
        /\ \A i \in 1 .. Len(h) + Len(s) : (h \o s)[i] = IF i <= Len(h) THEN h[i] ELSE s[i - Len(h)]
    OBVIOUS
  <2>2. ASSUME \A i \in DOMAIN s : s[i].sort = "signal",
               NEW i \in 1 .. Len(h) + Len(s), (h \o s)[i].sort = "memory"
        PROVE  i \in DOMAIN h /\ (h \o s)[i] = h[i]
    <3>1. CASE i <= Len(h)
      BY <1>1, <2>1, <3>1
    <3>2. CASE i > Len(h)
      <4>1. i - Len(h) \in DOMAIN s /\ (h \o s)[i] = s[i - Len(h)]
        BY <1>1, <2>1, <3>2
      <4> QED BY <2>2, <4>1
    <3> QED BY <1>1, <2>1, <3>1, <3>2
  <2> QED BY <2>1, <2>2 DEF OncePerRun
<1>3. ASSUME NEW rec \in Records
      PROVE  /\ Append(h, rec) \in Seq(Records)
             /\ rec.who = "none" \/ ~Remembers(h, rec.who) => OncePerRun(Append(h, rec))
  <2> DEFINE new == Append(h, rec)
  <2>1. /\ new \in Seq(Records) /\ DOMAIN new = 1 .. Len(h) + 1 /\ new[Len(h) + 1] = rec
        /\ \A i \in 1 .. Len(h) : new[i] = h[i]
    BY <1>1
  <2>2. 1 .. Len(h) + 1 = DOMAIN h \cup {Len(h) + 1}
    BY <1>1
  <2> HIDE DEF new
  <2>3. rec.who = "none" \/ ~Remembers(h, rec.who) => OncePerRun(new)
    BY <1>1, <2>1, <2>2 DEF OncePerRun, Remembers
  <2> QED BY <2>1, <2>3 DEF new
<1> QED BY <1>2, <1>3

\* What a row adds to a history is a signal.
LEMMA AddedFacts ==
  ASSUME NEW row \in Rows
  PROVE  Added(row) \in Seq(Records) /\ \A i \in DOMAIN Added(row) : Added(row)[i].sort = "signal"
<1>1. Signal("success", "generic") \in Records /\ Signal("failure", "generic") \in Records
  BY DEF Signal, Records
<1>2. Signal("success", "generic").sort = "signal" /\ Signal("failure", "generic").sort = "signal"
  BY DEF Signal
<1> QED BY <1>1, <1>2 DEF Added

\* The at most two rows of a run add signals, and nothing else.
LEMMA AllAddedFacts ==
  ASSUME NEW results \in Seq(Rows), Len(results) <= 2
  PROVE  LET all == FlattenSeq([i \in DOMAIN results |-> Added(results[i])])
         IN  all \in Seq(Records) /\ \A i \in DOMAIN all : all[i].sort = "signal"
<1> DEFINE parts == [i \in DOMAIN results |-> Added(results[i])]
           n == Len(results)
           flat == CHOOSE flatten : flatten = [i \in 1 .. Len(parts) |->
                     IF i = 1 THEN parts[i] ELSE flatten[i - 1] \o parts[i]]
           both == [i \in 1 .. n |-> IF i = 1 THEN parts[1] ELSE parts[1] \o parts[2]]
<1>1. n \in Nat /\ n <= 2 /\ DOMAIN results = 1 .. n
  OBVIOUS
<1>2. \A i \in 1 .. n : results[i] \in Rows
  OBVIOUS
<1>3. parts = [i \in 1 .. n |-> Added(results[i])]
  BY <1>1
<1>4. Len(parts) = n
  BY <1>1, <1>3
<1>5. \A i \in 1 .. n : parts[i] \in Seq(Records) /\ \A k \in DOMAIN parts[i] : parts[i][k].sort = "signal"
  BY <1>2, <1>3, AddedFacts
<1> HIDE DEF parts, n
<1>6. FlattenSeq(parts) = IF Len(parts) = 0 THEN parts ELSE flat[Len(parts)]
  BY Zenon DEF FlattenSeq
<1>7. both = [i \in 1 .. Len(parts) |-> IF i = 1 THEN parts[i] ELSE both[i - 1] \o parts[i]]
  <2>1. \A i \in 1 .. n : i = 1 \/ (i = 2 /\ i - 1 = 1 /\ 1 \in 1 .. n)
    BY <1>1
  <2> QED BY <1>4, <2>1
<1>8. flat = [i \in 1 .. Len(parts) |-> IF i = 1 THEN parts[i] ELSE flat[i - 1] \o parts[i]]
  <2> HIDE DEF both
  <2> QED BY Zenon, <1>7
<1> HIDE DEF flat, both
<1> DEFINE Good(s) == s \in Seq(Records) /\ \A i \in DOMAIN s : s[i].sort = "signal"
<1>9. ASSUME n = 0 PROVE Good(FlattenSeq(parts))
  <2>1. 1 .. n = {}
    BY <1>9
  <2>2. parts = << >>
    BY <1>3, <2>1
  <2>3. FlattenSeq(parts) = << >>
    BY <1>4, <1>6, <1>9, <2>2
  <2>4. Good(FlattenSeq(parts))
    BY <2>3
  <2> QED BY <2>4
<1>10. ASSUME n = 1 PROVE Good(FlattenSeq(parts))
  <2>1. FlattenSeq(parts) = parts[1]
    BY <1>4, <1>6, <1>8, <1>10
  <2> QED BY <1>5, <1>10, <2>1
<1>11. ASSUME n = 2 PROVE Good(FlattenSeq(parts))
  <2>1. 1 \in 1 .. n /\ 2 \in 1 .. n /\ 2 - 1 = 1
    BY <1>11
  <2>2. flat[1] = parts[1] /\ flat[2] = parts[1] \o parts[2]
    BY <1>4, <1>8, <2>1
  <2>3. FlattenSeq(parts) = parts[1] \o parts[2]
    BY <1>4, <1>6, <1>11, <2>2
  <2>4. Good(parts[1]) /\ Good(parts[2])
    BY <1>5, <2>1
  <2>5. ASSUME NEW s, NEW t, Good(s), Good(t) PROVE Good(s \o t)
    <3>1. /\ s \o t \in Seq(Records) /\ DOMAIN (s \o t) = 1 .. Len(s) + Len(t)
          /\ Len(s) \in Nat /\ Len(t) \in Nat /\ DOMAIN s = 1 .. Len(s) /\ DOMAIN t = 1 .. Len(t)
          /\ \A i \in 1 .. Len(s) + Len(t) : (s \o t)[i] = IF i <= Len(s) THEN s[i] ELSE t[i - Len(s)]
      BY <2>5
    <3>2. ASSUME NEW i \in 1 .. Len(s) + Len(t) PROVE (s \o t)[i].sort = "signal"
      <4>1. CASE i <= Len(s)
        BY <2>5, <3>1, <4>1
      <4>2. CASE i > Len(s)
        <5>1. i - Len(s) \in DOMAIN t
          BY <3>1, <4>2
        <5> QED BY <2>5, <3>1, <4>2, <5>1
      <4> QED BY <3>1, <4>1, <4>2
    <3> QED BY <3>1, <3>2
  <2> HIDE DEF Good
  <2>6. Good(parts[1] \o parts[2])
    BY <2>4, <2>5
  <2> QED BY <2>3, <2>6
<1>12. Good(FlattenSeq(parts))
  BY <1>1, <1>9, <1>10, <1>11
<1> QED BY <1>12 DEF parts

\* The types of the parts of a workflow run.
LEMMA HistoryFacts ==
  ASSUME HistoryInv
  PROVE  /\ loop \in LoopRunType /\ loop.history \in Seq(Records) /\ loop.history \in Histories
         /\ OncePerRun(loop.history) /\ loop.results \in Seq(Rows) /\ Len(loop.results) <= 2
         /\ loop.at = "observed" => Len(loop.results) <= 1
         /\ durable \in Seq(Records) /\ OncePerRun(durable) /\ loop.cycle \in Cycles \cup {"none"}
BY DEF HistoryInv, LoopRunType, Histories

\* A step that leaves the durable history alone and a good history in the run's file.
LEMMA RunKeeps ==
  ASSUME HistoryInv, UNCHANGED durable, NEW new \in LoopRunType, loop' = new,
         OncePerRun(new.history), Len(new.results) <= IF new.at = "observed" THEN 1 ELSE 2
  PROVE  HistoryInv'
BY DEF HistoryInv

\* The import.
LEMMA RestoreInv ==
  ASSUME HistoryInv, NEW cycle \in Cycles, Restore(cycle)
  PROVE  HistoryInv'
<1> DEFINE new == [loop EXCEPT !.at = "tasks", !.cycle = cycle, !.history = Sanitized(durable),
                               !.results = << >>]
<1>1. Sanitized(durable) \in Histories /\ OncePerRun(Sanitized(durable))
  BY HistoryFacts, SanitizedFacts
<1>2. /\ new \in LoopRunType /\ new.history = Sanitized(durable) /\ Len(new.results) <= 2 /\ new.at = "tasks"
  <2>1. << >> \in Seq(Rows) /\ Len(<< >>) = 0 /\ loop \in LoopRunType
    BY HistoryFacts
  <2>2. new \in LoopRunType
    BY <1>1, <2>1 DEF LoopRunType
  <2>3. new.history = Sanitized(durable) /\ new.results = << >> /\ new.at = "tasks"
    BY <2>1 DEF LoopRunType
  <2> QED BY <2>1, <2>2, <2>3
<1> HIDE DEF new
<1>3. loop' = new /\ UNCHANGED durable
  BY DEF Restore, new
<1> QED BY <1>1, <1>2, <1>3, RunKeeps

\* What a report says of itself.
LEMMA NewSignalsFacts ==
  ASSUME NEW report \in Reports
  PROVE  NewSignals(report) \in Seq(Records)
         /\ \A i \in DOMAIN NewSignals(report) : NewSignals(report)[i].sort = "signal"
<1> DEFINE s1 == IF report.ready THEN <<Signal("success", "raw")>> ELSE << >>
           s2 == IF report.repaired THEN <<Signal("repair", "raw")>> ELSE << >>
           s3 == IF report.cause # "none" THEN <<Signal("failure", report.cause)>> ELSE << >>
           Good(s) == s \in Seq(Records) /\ \A i \in DOMAIN s : s[i].sort = "signal"
<1>1. /\ Signal("success", "raw") \in Records /\ Signal("repair", "raw") \in Records
      /\ report.cause # "none" => Signal("failure", report.cause) \in Records
  BY DEF Signal, Records, Reports
<1>2. \A kind, detail : Signal(kind, detail).sort = "signal"
  BY DEF Signal
<1>3. \A rec \in Records : rec.sort = "signal" => Good(<<rec>>)
  OBVIOUS
<1>4. Good(<< >>)
  OBVIOUS
<1>5. ASSUME NEW s, NEW t, Good(s), Good(t) PROVE Good(s \o t)
  <2>1. /\ s \o t \in Seq(Records) /\ DOMAIN (s \o t) = 1 .. Len(s) + Len(t)
        /\ Len(s) \in Nat /\ Len(t) \in Nat /\ DOMAIN s = 1 .. Len(s) /\ DOMAIN t = 1 .. Len(t)
        /\ \A i \in 1 .. Len(s) + Len(t) : (s \o t)[i] = IF i <= Len(s) THEN s[i] ELSE t[i - Len(s)]
    BY <1>5
  <2>2. ASSUME NEW i \in 1 .. Len(s) + Len(t) PROVE (s \o t)[i].sort = "signal"
    <3>1. CASE i <= Len(s)
      BY <1>5, <2>1, <3>1
    <3>2. CASE i > Len(s)
      <4>1. i - Len(s) \in DOMAIN t
        BY <2>1, <3>2
      <4> QED BY <1>5, <2>1, <3>2, <4>1
    <3> QED BY <2>1, <3>1, <3>2
  <2> QED BY <2>1, <2>2
<1> HIDE DEF Good
<1>6. Good(s1) /\ Good(s2) /\ Good(s3)
  BY <1>1, <1>2, <1>3, <1>4
<1> HIDE DEF s1, s2, s3
<1>7. Good(s1 \o s2 \o s3)
  BY <1>5, <1>6
<1>8. NewSignals(report) = s1 \o s2 \o s3
  BY DEF NewSignals, s1, s2, s3
<1> QED BY <1>7, <1>8 DEF Good

\* A task's development, observed or not.
LEMMA DevelopInv ==
  ASSUME HistoryInv, NEW task \in Queued, Develop(task)
  PROVE  HistoryInv'
<1> DEFINE New(approved, history) ==
             [loop EXCEPT !.at = "observed", !.developed = @ + 1, !.approved = approved, !.history = history]
<1>1. /\ loop \in LoopRunType /\ loop.developed + 1 \in 0 .. MaxDevelopments /\ UNCHANGED durable
      /\ loop.approved \in BOOLEAN
  BY HistoryFacts, ImprovementAssumption DEF Develop, LoopRunType
<1>2. ASSUME NEW approved \in BOOLEAN, NEW history \in Histories, OncePerRun(history),
             loop' = New(approved, history)
      PROVE  HistoryInv'
  <2> DEFINE new == New(approved, history)
  <2>1. new \in LoopRunType /\ new.history = history /\ new.results = loop.results
        /\ Len(loop.results) <= 1
    <3>1. Len(loop.results) <= 1
      <4>1. Len(loop.results) \in Nat /\ Len(loop.results) < 2
        BY HistoryFacts DEF Develop
      <4> QED BY <4>1
    <3>2. new \in LoopRunType
      BY <1>1, <1>2 DEF LoopRunType
    <3> QED BY <1>1, <3>1, <3>2 DEF LoopRunType
  <2> HIDE DEF new
  <2> QED BY <1>1, <1>2, <2>1, HistoryFacts, RunKeeps DEF new
<1>3. CASE loop' = [loop EXCEPT !.at = "observed", !.developed = @ + 1]
  <2>1. loop' = New(loop.approved, loop.history)
    BY <1>1, <1>3 DEF LoopRunType
  <2> QED BY <1>1, <1>2, <2>1, HistoryFacts
<1>4. ASSUME NEW report \in Reports, NEW target \in Targets, Observe(report, target)
      PROVE  HistoryInv'
  <2> DEFINE signals == NewSignals(report)
             all     == loop.history \o signals
             written == IF signals = << >> THEN loop.history ELSE Newest(all)
             memory  == Memory(Outcome(report), "none", "raw")
             told    == Newest(Append(written, memory))
  <2>1. all \in Seq(Records) /\ OncePerRun(all)
    <3>1. signals \in Seq(Records) /\ \A i \in DOMAIN signals : signals[i].sort = "signal"
      BY NewSignalsFacts
    <3> HIDE DEF signals
    <3> QED BY <3>1, HistoryFacts, AddingFacts
  <2>2. written \in Histories /\ written \in Seq(Records) /\ OncePerRun(written)
    <3> HIDE DEF signals, all
    <3> QED BY <2>1, HistoryFacts, NewestFacts DEF Histories
  <2>3. memory \in Records /\ memory.who = "none"
    BY DEF Memory, Outcome, Records, Statuses
  <2>4. told \in Histories /\ OncePerRun(told)
    <3> HIDE DEF written, memory
    <3> QED BY <2>2, <2>3, AddingFacts, NewestFacts
  <2>5. \/ loop' = [loop EXCEPT !.at = "observed", !.developed = @ + 1, !.history = written]
        \/ \E approved \in BOOLEAN : loop' = New(approved, told)
    <3>1. MayApprove(all, report) \subseteq BOOLEAN
      BY DEF MayApprove
    <3> QED BY <1>4, <3>1 DEF Observe
  <2>6. CASE loop' = [loop EXCEPT !.at = "observed", !.developed = @ + 1, !.history = written]
    <3>1. loop' = New(loop.approved, written)
      BY <1>1, <2>6 DEF LoopRunType
    <3> HIDE DEF written, New
    <3> QED BY <1>1, <1>2, <2>2, <3>1
  <2> HIDE DEF told, New
  <2> QED BY <1>2, <2>4, <2>5, <2>6
<1> QED BY <1>3, <1>4 DEF Develop

\* The loop's own row of the task: there are at most two of them.
LEMMA ReportInv ==
  ASSUME HistoryInv, NEW task \in Queued, NEW status \in Statuses, Report(task, status)
  PROVE  HistoryInv'
<1> DEFINE rows == Append(loop.results, [task |-> task, status |-> status])
           new  == [loop EXCEPT !.at = "tasks", !.approved = FALSE, !.results = rows]
<1>1. rows \in Seq(Rows) /\ Len(rows) <= 2
  <2>1. [task |-> task, status |-> status] \in Rows
    BY DEF Rows
  <2> QED BY <2>1, HistoryFacts DEF Report
<1> HIDE DEF rows
<1>2. new \in LoopRunType /\ new.history = loop.history /\ new.results = rows
      /\ new.at = "tasks"
  BY <1>1, HistoryFacts DEF LoopRunType
<1>3. loop' = new /\ UNCHANGED durable
  BY HistoryFacts DEF Report, rows, LoopRunType
<1> HIDE DEF new
<1> QED BY <1>1, <1>2, <1>3, HistoryFacts, RunKeeps

\* The steps between the last task and the persistence that change no history.
LEMMA PassesOn ==
  ASSUME HistoryInv, UNCHANGED durable, NEW at \in {"append", "export"}, NEW gates \in BOOLEAN,
         loop' = [loop EXCEPT !.at = at, !.gates = gates]
  PROVE  HistoryInv'
<1> DEFINE new == [loop EXCEPT !.at = at, !.gates = gates]
<1>1. loop \in LoopRunType
  BY HistoryFacts
<1>2. new \in LoopRunType
  BY <1>1 DEF LoopRunType
<1>3. new.history = loop.history /\ new.results = loop.results /\ new.at = at
  BY <1>1 DEF LoopRunType
<1> HIDE DEF new
<1> QED BY <1>2, <1>3, HistoryFacts, RunKeeps DEF new

\* append_loop_results.
LEMMA AppendLoopResultsInv ==
  ASSUME HistoryInv, AppendLoopResults
  PROVE  HistoryInv'
<1> DEFINE all == FlattenSeq([i \in DOMAIN loop.results |-> Added(loop.results[i])])
           history == Sanitized(loop.history \o all)
           new == [loop EXCEPT !.at = "memory", !.history = history]
<1>1. loop \in LoopRunType /\ all \in Seq(Records) /\ \A i \in DOMAIN all : all[i].sort = "signal"
  BY HistoryFacts, AllAddedFacts
<1> HIDE DEF all
<1>2. loop.history \o all \in Seq(Records) /\ OncePerRun(loop.history \o all)
  BY <1>1, HistoryFacts, AddingFacts
<1>3. history \in Histories /\ OncePerRun(history)
  BY <1>2, SanitizedFacts
<1>4. loop' = new /\ UNCHANGED durable
  BY <1>1 DEF AppendLoopResults, LoopRunType, all
<1> HIDE DEF history
<1>5. new \in LoopRunType
  BY <1>1, <1>3 DEF LoopRunType
<1>6. new.history = history /\ new.results = loop.results /\ new.at = "memory"
  BY <1>1 DEF LoopRunType
<1> HIDE DEF new
<1> QED BY <1>3, <1>4, <1>5, <1>6, HistoryFacts, RunKeeps

\* append_cycle_memory: only of a run that the history does not remember.
LEMMA AppendCycleMemoryInv ==
  ASSUME HistoryInv, AppendCycleMemory
  PROVE  HistoryInv'
<1> DEFINE memory  == Memory(CycleOutcome, loop.cycle, "generic")
           history == Sanitized(Append(loop.history, memory))
           new     == [loop EXCEPT !.at = "export", !.history = history]
<1>1. loop \in LoopRunType /\ UNCHANGED durable /\ loop.gates \in BOOLEAN
  BY HistoryFacts DEF AppendCycleMemory, LoopRunType
<1>2. CASE loop' = [loop EXCEPT !.at = "export"]
  <2>1. loop' = [loop EXCEPT !.at = "export", !.gates = loop.gates]
    BY <1>1, <1>2 DEF LoopRunType
  <2> QED BY <1>1, <2>1, PassesOn
<1>3. CASE /\ CycleOutcome # "none" /\ ~Remembers(loop.history, loop.cycle)
           /\ loop' = [loop EXCEPT !.at = "export", !.history = history]
  <2>1. CycleOutcome \in Statuses
    <3> DEFINE said == {i \in DOMAIN loop.results : RowOutcome(loop.results[i]) # "none"}
               last == CHOOSE i \in said : \A j \in said : j <= i
    <3>1. said # {} /\ CycleOutcome = RowOutcome(loop.results[last])
      BY <1>3 DEF CycleOutcome
    <3>2. \A i \in DOMAIN loop.results : loop.results[i] \in Rows
      BY HistoryFacts
    <3>3. \A row \in Rows : RowOutcome(row) \in Statuses \cup {"none"}
      BY DEF RowOutcome, Rows
    <3>4. DOMAIN loop.results = 1 .. Len(loop.results) /\ Len(loop.results) \in Nat /\ Len(loop.results) <= 2
      BY HistoryFacts
    <3>5. \E i \in said : \A j \in said : j <= i
      <4>1. said \subseteq {1, 2}
        BY <3>4
      <4> HIDE DEF said
      <4>2. said # {}
        BY <3>1
      <4>3. CASE 2 \in said
        BY <4>1, <4>3
      <4>4. CASE 2 \notin said
        <5>1. 1 \in said /\ \A j \in said : j = 1
          BY <4>1, <4>2, <4>4
        <5> QED BY <5>1
      <4> QED BY <4>3, <4>4
    <3>6. last \in said
      <4> HIDE DEF said
      <4> QED BY <3>5
    <3> HIDE DEF last
    <3> QED BY <1>3, <3>1, <3>2, <3>3, <3>6
  <2>2. memory \in Records /\ memory.who = loop.cycle
    BY <2>1, HistoryFacts DEF Memory, Records
  <2> HIDE DEF memory
  <2>3. Append(loop.history, memory) \in Seq(Records) /\ OncePerRun(Append(loop.history, memory))
    BY <1>3, <2>2, HistoryFacts, AddingFacts
  <2>4. history \in Histories /\ OncePerRun(history)
    BY <2>3, SanitizedFacts
  <2> HIDE DEF history
  <2>5. new \in LoopRunType
    BY <1>1, <2>4 DEF LoopRunType
  <2>6. new.history = history /\ new.results = loop.results /\ new.at = "export" /\ loop' = new
    BY <1>1, <1>3 DEF LoopRunType
  <2> HIDE DEF new
  <2> QED BY <1>1, <2>4, <2>5, <2>6, HistoryFacts, RunKeeps
<1> QED BY <1>2, <1>3 DEF AppendCycleMemory

\* The export is always valid, so that nothing is ever blocked.
LEMMA PersistInv ==
  ASSUME HistoryInv, Persist
  PROVE  HistoryInv'
<1> DEFINE exported == Sanitized(loop.history)
           new      == [loop EXCEPT !.at = "idle", !.history = << >>, !.gates = FALSE]
<1>1. exported \in Histories /\ Generic(exported) /\ OncePerRun(exported) /\ loop \in LoopRunType
  BY HistoryFacts, SanitizedFacts
<1>2. Valid(exported)
  BY <1>1 DEF Valid, Histories, Generic
<1>3. durable' = exported /\ loop' = new
  BY <1>2 DEF Persist
<1>4. << >> \in Histories /\ OncePerRun(<< >>)
  BY ImprovementAssumption DEF Histories, OncePerRun
<1> HIDE DEF exported
<1>5. new \in LoopRunType
  BY <1>1, <1>4 DEF LoopRunType
<1>6. new.history = << >> /\ new.results = loop.results /\ new.at = "idle"
  BY <1>1 DEF LoopRunType
<1> HIDE DEF new
<1> QED BY <1>1, <1>3, <1>4, <1>5, <1>6, HistoryFacts DEF HistoryInv

\* A run that is at rest, whatever was developed before.
LEMMA RestingFacts ==
  /\ Resting \in LoopRunType /\ Resting.history = << >> /\ Resting.results = << >> /\ Resting.at = "idle"
  /\ OncePerRun(<< >>) /\ Generic(<< >>) /\ << >> \in Histories /\ Len(<< >>) = 0
<1>1. << >> \in Histories /\ OncePerRun(<< >>) /\ Generic(<< >>) /\ Len(<< >>) = 0
  BY ImprovementAssumption DEF Histories, OncePerRun, Generic
<1>2. << >> \in Seq(Rows) /\ 0 \in 0 .. MaxDevelopments
  BY ImprovementAssumption
<1>3. Resting \in LoopRunType
  BY <1>1, <1>2 DEF Resting, LoopRunType
<1> QED BY <1>1, <1>3 DEF Resting

\* A run that is lost leaves the durable history.
LEMMA LostInv ==
  ASSUME HistoryInv, Lost
  PROVE  HistoryInv'
<1> DEFINE new == [Resting EXCEPT !.developed = loop.developed]
<1>1. loop.developed \in 0 .. MaxDevelopments
  BY HistoryFacts DEF LoopRunType
<1>2. new \in LoopRunType
  BY <1>1, RestingFacts DEF LoopRunType
<1>3. new.history = << >> /\ new.results = << >> /\ new.at = "idle"
  BY DEF Resting
<1>4. loop' = new /\ UNCHANGED durable
  BY DEF Lost
<1> HIDE DEF new
<1> QED BY <1>2, <1>3, <1>4, RestingFacts, RunKeeps

\* The invariant holds of an empty history.
LEMMA HistoryInvInit == ImprovementInit => HistoryInv
BY RestingFacts DEF ImprovementInit, HistoryInv

\* It is inductive.
LEMMA HistoryInvStep == HistoryInv /\ [ImprovementNext]_improvementVars => HistoryInv'
<1>1. ASSUME HistoryInv, UNCHANGED improvementVars PROVE HistoryInv'
  BY <1>1 DEF improvementVars, HistoryInv
<1>2. ASSUME HistoryInv, NEW gates \in BOOLEAN, LoopEnds(gates) PROVE HistoryInv'
  <2>1. /\ loop' = [loop EXCEPT !.at = "append", !.gates = gates] /\ UNCHANGED durable
    BY <1>2 DEF LoopEnds
  <2> QED BY <1>2, <2>1, PassesOn
<1> QED BY <1>1, <1>2, RestoreInv, DevelopInv, ReportInv, AppendLoopResultsInv,
           AppendCycleMemoryInv, PersistInv, LostInv DEF ImprovementNext

\* It says what HistoryIsClean and the type invariant say.
LEMMA HistoryShows == HistoryInv => HistoryIsClean /\ ImprovementTypeOK
<1> SUFFICES ASSUME HistoryInv PROVE HistoryIsClean /\ ImprovementTypeOK
  OBVIOUS
<1>1. HistoryIsClean
  BY DEF HistoryInv, HistoryIsClean, Histories, Generic, OncePerRun, Valid, LoopRunType
<1>2. \A i \in DOMAIN loop.history : loop.history[i] \in Records
  BY HistoryFacts
<1> QED BY <1>1, <1>2, HistoryFacts DEF ImprovementTypeOK, HistoryInv, Histories, LoopRunType, Records

------------------------------------------------------------------------------
\* Conversation: the requests of one user.

-----------------------------------------------------------------------------
(* The conversation *)

DeedNames == {"set", "cancel", "grade", "turn", "save", "delete", "ask", "erase", "remember", "forget"}
DeedLists == {<< >>, <<"set", "cancel">>} \cup {<<d>> : d \in DeedNames}
ToolLists == {<< >>, <<"set">>, <<"cancel">>, <<"set", "cancel">>}
Orders    == {<< >>, <<"gemini">>, <<"groq">>, <<"gemini", "groq">>}
PlanResults  == UNION {[S -> Answers] : S \in SUBSET Supported}

RequestType ==
  [at : {"unsent", "routing", "planned", "lesson", "dispatched", "notes", "memory", "weather", "normal",
         "working", "grading", "profiling", "erasing", "forgetting", "cancelling", "generating", "replied"},
   channel : Channels \cup {"none"},
   says : NoteTexts \cup MemoryTexts \cup Lessons \cup {"command", "yes", "cancel", "chat", "topic", "none"},
   of : SUBSET Domains, after : SUBSET {"notes", "memory"}, seen : Nat,
   key : MemoryKeys \cup Asks \cup {"none"}, order : Orders, did : DeedLists, results : PlanResults,
   reply : {"none", "answer", "error"}]

MindType    == [notes : SUBSET Asks, facts : SUBSET MemoryKeys, reminders : SUBSET Asks,
                asks : SUBSET {"notes", "memory"}, about : MemoryKeys]
LessonsType == [Channels -> [asked : Nat, open : Nat, turns : Nat]]

\* Of a request: what it has done when, and how much of a plan.
Proper(w) ==
  /\ w.did # << >> => w.at = "replied" \/ (w.at = "generating" /\ w.order = << >>)
  /\ w.at = "generating" => w.did \in ToolLists
  /\ w.at \notin {"working", "replied"} => DOMAIN w.results = {}
  /\ w.at = "working" => DOMAIN w.results \subseteq SpecialistPlan(w.of)
  /\ w.at = "dispatched" => ~(Cardinality(SpecialistPlan(w.of)) > 1) /\ "weather" \notin SpecialistPlan(w.of)
  /\ w.reply # "none" => w.at = "replied"
  /\ w.reply = "error" /\ Cardinality(SpecialistPlan(w.of)) > 1 =>
       DOMAIN w.results \in {{}, SpecialistPlan(w.of)}

RequestsInv ==
  /\ talk \in [Asks -> RequestType] /\ mind \in MindType /\ up \subseteq Providers
  /\ \A r \in Asks : Proper(talk[r])

\* The question about the notes, each time it was put, is open, being acted upon, or has
\* erased, once; or it came to nothing.
Erases(w)  == w.at = "erasing" \/ w.did = <<"erase">>
AskedIt(w) == w.did = <<"ask">> /\ w.says = "erase_notes"
Erasing    == {r \in Asks : Erases(talk[r])}
Asked      == {r \in Asks : AskedIt(talk[r])}
ErasesInv  ==
  Cardinality(Erasing) + (IF "notes" \in mind.asks THEN 1 ELSE 0) <= Cardinality(Asked)

\* The lock of the user: one message of LINE at a time, so that the question it read is
\* still the open one when it is graded, and none that was graded before.
OnLine(w)  == w.at \notin {"unsent", "replied"} /\ w.channel = "line"
Graded(w)  == w.did = <<"grade">> /\ w.channel = "line"
LessonsInv ==
  /\ lessons \in LessonsType /\ \A ch \in Channels : lessons[ch].open \in {0, lessons[ch].asked}
  /\ \A r \in Asks : talk[r].at # "unsent" => talk[r].channel \in Channels
  /\ \A r, s \in Asks : OnLine(talk[r]) /\ OnLine(talk[s]) => r = s
  /\ \A r \in Asks : talk[r].at = "grading" /\ talk[r].channel = "line" =>
       talk[r].seen = lessons["line"].open /\ lessons["line"].open # 0
  /\ \A r \in Asks : Graded(talk[r]) =>
       talk[r].seen \in 1 .. lessons["line"].asked /\ talk[r].seen # lessons["line"].open
  /\ \A r, s \in Asks : Graded(talk[r]) /\ Graded(talk[s]) /\ talk[r].seen = talk[s].seen => r = s

ConversationInv == RequestsInv /\ ErasesInv /\ LessonsInv

\* What the type of a request says.
LEMMA RequestFacts ==
  ASSUME RequestsInv, NEW r \in Asks
  PROVE  /\ talk \in [Asks -> RequestType] /\ talk[r] \in RequestType /\ Proper(talk[r])
         /\ mind \in MindType /\ up \subseteq Providers
BY DEF RequestsInv

\* A step of one request that leaves it proper.
LEMMA RequestsKept ==
  ASSUME RequestsInv, NEW r \in Asks, NEW new \in RequestType, talk' = [talk EXCEPT ![r] = new],
         mind' \in MindType, up' \subseteq Providers, Proper(new)
  PROVE  RequestsInv' /\ talk'[r] = new /\ \A q \in Asks \ {r} : talk'[q] = talk[q]
BY DEF RequestsInv

\* One that neither asks about the notes nor goes on to erase them.
LEMMA ErasesKept ==
  ASSUME ErasesInv, NEW r \in Asks, NEW new, talk'[r] = new, \A q \in Asks \ {r} : talk'[q] = talk[q],
         "notes" \in mind'.asks => "notes" \in mind.asks,
         Erases(new) => Erases(talk[r]), AskedIt(talk[r]) => AskedIt(new)
  PROVE  ErasesInv'
<1>1. Erasing' \subseteq Erasing /\ Asked \subseteq Asked'
  BY DEF Erasing, Asked
<1>2. IsFiniteSet(Erasing) /\ IsFiniteSet(Asked') /\ IsFiniteSet(Asked) /\ IsFiniteSet(Erasing')
  BY ConversationAssumption, FS_Subset DEF Erasing, Asked
<1>3. /\ Cardinality(Erasing') <= Cardinality(Erasing) /\ Cardinality(Asked) <= Cardinality(Asked')
      /\ Cardinality(Erasing') \in Nat /\ Cardinality(Erasing) \in Nat
      /\ Cardinality(Asked') \in Nat /\ Cardinality(Asked) \in Nat
  BY <1>1, <1>2, FS_Subset, FS_CardinalityType
<1> QED BY <1>3 DEF ErasesInv

\* One that puts, reads and grades no question of a lesson.
LEMMA LessonsKept ==
  ASSUME LessonsInv, NEW r \in Asks, NEW new, talk'[r] = new, \A q \in Asks \ {r} : talk'[q] = talk[q],
         lessons' \in LessonsType,
         \A ch \in Channels : /\ lessons'[ch].open = lessons[ch].open
                              /\ lessons'[ch].asked = lessons[ch].asked,
         OnLine(new) => OnLine(talk[r]) \/ \A q \in Asks : ~OnLine(talk[q]),
         new.at # "grading", ~Graded(new), new.channel \in Channels
  PROVE  LessonsInv'
<1>1. "line" \in Channels
  BY DEF Channels
<1>2. \A ch \in Channels : lessons'[ch].open \in {0, lessons'[ch].asked}
  BY DEF LessonsInv
<1>3. \A q, s \in Asks : OnLine(talk'[q]) /\ OnLine(talk'[s]) => q = s
  BY DEF LessonsInv
<1>4. \A q \in Asks : talk'[q].at = "grading" /\ talk'[q].channel = "line" =>
        talk'[q].seen = lessons'["line"].open /\ lessons'["line"].open # 0
  BY <1>1 DEF LessonsInv
<1>5. \A q \in Asks : Graded(talk'[q]) =>
        talk'[q].seen \in 1 .. lessons'["line"].asked /\ talk'[q].seen # lessons'["line"].open
  BY <1>1 DEF LessonsInv
<1>6. \A q, s \in Asks : Graded(talk'[q]) /\ Graded(talk'[s]) /\ talk'[q].seen = talk'[s].seen => q = s
  BY DEF LessonsInv
<1>7. \A q \in Asks : talk'[q].at # "unsent" => talk'[q].channel \in Channels
  BY DEF LessonsInv
<1> QED BY <1>2, <1>3, <1>4, <1>5, <1>6, <1>7 DEF LessonsInv

\* What a step does not do to the lessons and to the questions.
Quiet ==
  /\ mind' \in MindType /\ ("notes" \in mind'.asks => "notes" \in mind.asks)
  /\ up' \subseteq Providers /\ lessons' \in LessonsType
  /\ \A ch \in Channels : lessons'[ch].open = lessons[ch].open /\ lessons'[ch].asked = lessons[ch].asked

\* A request under way that goes on.
LEMMA MovesOn ==
  ASSUME ConversationInv, Quiet, NEW r \in Asks, Busy(r), NEW new \in RequestType,
         talk' = [talk EXCEPT ![r] = new], Proper(new), new.channel = talk[r].channel,
         new.at # "grading", new.did = talk[r].did \/ new.did \in ToolLists, Erases(new) => Erases(talk[r])
  PROVE  ConversationInv'
<1>1. talk[r] \in RequestType /\ Proper(talk[r])
  BY RequestFacts DEF ConversationInv
<1>2. RequestsInv' /\ talk'[r] = new /\ \A q \in Asks \ {r} : talk'[q] = talk[q]
  BY RequestsKept DEF ConversationInv, Quiet
<1>3. talk[r].did \in ToolLists
  BY <1>1 DEF Proper, Busy, ToolLists
<1>4. ~AskedIt(talk[r]) /\ ~Graded(new)
  <2>1. <<"ask">> \notin ToolLists /\ <<"grade">> \notin ToolLists
    BY DEF ToolLists
  <2> QED BY <1>3, <2>1 DEF AskedIt, Graded
<1>5. (OnLine(new) => OnLine(talk[r])) /\ new.channel \in Channels
  BY DEF OnLine, Busy, ConversationInv, LessonsInv
<1>6. ErasesInv'
  BY <1>2, <1>4, ErasesKept DEF ConversationInv, Quiet
<1>7. LessonsInv'
  BY <1>2, <1>4, <1>5, LessonsKept DEF ConversationInv, Quiet
<1> QED BY <1>2, <1>6, <1>7 DEF ConversationInv

\* A request under way that ends.
LEMMA EndsProper ==
  ASSUME RequestsInv, NEW r \in Asks, Busy(r), NEW did \in DeedLists, NEW text \in {"answer", "error"},
         text = "error" => ~At(r, "working"), Ended(r, did, text)
  PROVE  /\ talk' = [talk EXCEPT ![r] = talk'[r]] /\ talk'[r] \in RequestType /\ Proper(talk'[r])
         /\ talk'[r].did = did /\ talk'[r].at = "replied" /\ talk'[r].channel = talk[r].channel
         /\ talk'[r].seen = talk[r].seen /\ talk'[r].says = talk[r].says
         /\ talk[r].did \in ToolLists
<1> DEFINE w == talk[r]
           new == [w EXCEPT !.at = "replied", !.did = did, !.key = "none", !.order = << >>, !.reply = text]
<1>1. talk \in [Asks -> RequestType] /\ w \in RequestType /\ Proper(w)
  BY RequestFacts
<1>2. talk' = [talk EXCEPT ![r] = new]
  BY <1>1 DEF Ended
<1>3. talk'[r] = new
  BY <1>1, <1>2
<1>4. new \in RequestType
  BY <1>1 DEF RequestType, Orders
<1>5. /\ new.at = "replied" /\ new.did = did /\ new.reply = text /\ new.channel = w.channel
      /\ new.seen = w.seen /\ new.says = w.says /\ new.of = w.of /\ new.results = w.results
  BY <1>1 DEF RequestType
<1>6. w.did \in ToolLists
  BY <1>1 DEF Proper, Busy, ToolLists
<1>7. text = "error" => DOMAIN w.results = {}
  BY <1>1 DEF Proper, At, Busy
<1> HIDE DEF new
<1>8. Proper(new)
  BY <1>5, <1>7 DEF Proper
<1> QED BY <1>1, <1>2, <1>3, <1>4, <1>5, <1>6, <1>8

\* A request that ends so, while neither a question is put nor a lesson goes on, keeps it.
LEMMA EndsQuietly ==
  ASSUME ConversationInv, Quiet, NEW r \in Asks, Busy(r), NEW did \in DeedLists,
         NEW text \in {"answer", "error"}, text = "error" => ~At(r, "working"), Ended(r, did, text),
         did # <<"grade">>, did = <<"erase">> => At(r, "erasing")
  PROVE  ConversationInv'
<1> DEFINE new == talk'[r]
<1>1. /\ talk' = [talk EXCEPT ![r] = new] /\ new \in RequestType /\ Proper(new)
      /\ new.did = did /\ new.at = "replied" /\ talk[r].did \in ToolLists
      /\ new.channel = talk[r].channel
  BY EndsProper DEF ConversationInv
<1>2. RequestsInv' /\ \A q \in Asks \ {r} : talk'[q] = talk[q]
  BY <1>1, RequestsKept DEF ConversationInv, Quiet
<1>3. /\ ~OnLine(new) /\ ~Graded(new) /\ new.at # "grading" /\ ~AskedIt(talk[r])
      /\ Erases(new) => Erases(talk[r])
  <2>1. <<"ask">> \notin ToolLists
    BY DEF ToolLists
  <2>2. ~OnLine(new) /\ ~Graded(new) /\ new.at # "grading"
    BY <1>1 DEF OnLine, Graded
  <2>3. Erases(new) => Erases(talk[r])
    BY <1>1 DEF Erases, At
  <2> QED BY <1>1, <2>1, <2>2, <2>3 DEF AskedIt
<1>a. new.channel \in Channels
  BY <1>1 DEF ConversationInv, LessonsInv, Busy
<1>4. ErasesInv'
  BY <1>2, <1>3, ErasesKept DEF ConversationInv, Quiet
<1>5. LessonsInv'
  BY <1>2, <1>3, <1>a, LessonsKept DEF ConversationInv, Quiet
<1> QED BY <1>2, <1>4, <1>5 DEF ConversationInv

\* The steps that change nothing but requests are quiet.
LEMMA NothingIsQuiet ==
  ASSUME ConversationInv, UNCHANGED <<mind, lessons>>, up' \subseteq Providers
  PROVE  Quiet
BY RequestFacts DEF ConversationInv, Quiet, LessonsInv, RequestsInv

\* A step under way to another place, and nothing else of the request.
LEMMA GoesOn ==
  ASSUME ConversationInv, UNCHANGED <<mind, lessons, up>>, NEW r \in Asks, Busy(r), ~At(r, "working"),
         NEW at \in {"planned", "lesson", "dispatched", "notes", "memory", "weather", "normal", "working"},
         at = "dispatched" => ~(Cardinality(SpecialistPlan(talk[r].of)) > 1)
                                /\ "weather" \notin SpecialistPlan(talk[r].of),
         At(r, "generating") => FALSE,
         Goes(r, at)
  PROVE  ConversationInv'
<1> DEFINE new == [talk[r] EXCEPT !.at = at]
<1>1. talk \in [Asks -> RequestType] /\ talk[r] \in RequestType /\ Proper(talk[r])
  BY RequestFacts DEF ConversationInv
<1>2. talk' = [talk EXCEPT ![r] = new]
  BY <1>1 DEF Goes
<1>3. new \in RequestType
  BY <1>1 DEF RequestType
<1>4. /\ new.at = at /\ new.did = talk[r].did /\ new.channel = talk[r].channel
      /\ new.results = talk[r].results /\ new.of = talk[r].of /\ new.reply = talk[r].reply
  BY <1>1 DEF RequestType
<1> HIDE DEF new
<1>5. talk[r].did = << >> /\ DOMAIN talk[r].results = {} /\ talk[r].reply = "none"
  BY <1>1 DEF Proper, Busy, At, RequestType
<1>6. Proper(new)
  BY <1>4, <1>5 DEF Proper
<1>7. Quiet
  BY NothingIsQuiet, RequestFacts DEF ConversationInv
<1>8. ~Erases(new)
  BY <1>4, <1>5 DEF Erases
<1> QED BY <1>2, <1>3, <1>4, <1>6, <1>7, <1>8, MovesOn

\* A user's message comes in; on LINE it waits until no other is under way.
LEMMA ReceiveInv ==
  ASSUME ConversationInv, NEW r \in Asks, NEW channel \in Channels, NEW m \in Sendable(r),
         Receive(r, channel, m)
  PROVE  ConversationInv'
<1> DEFINE new == [talk[r] EXCEPT !.at = "routing", !.channel = channel, !.says = m.says, !.of = m.of,
                                  !.after = mind.asks]
<1>1. /\ talk \in [Asks -> RequestType] /\ talk[r] \in RequestType /\ Proper(talk[r])
      /\ talk[r].at = "unsent" /\ mind.asks \subseteq {"notes", "memory"}
  BY RequestFacts DEF ConversationInv, Receive, At, MindType
<1>2. /\ m.says \in NoteTexts \cup MemoryTexts \cup Lessons \cup {"command", "yes", "cancel", "chat", "topic"}
      /\ m.of \subseteq Domains
  BY ConversationAssumption DEF Sendable, Messages, Domains, Supported
<1>3. talk' = [talk EXCEPT ![r] = new]
  BY <1>1 DEF Receive
<1>4. new \in RequestType
  BY <1>1, <1>2 DEF RequestType
<1>5. /\ new.at = "routing" /\ new.did = talk[r].did /\ new.channel = channel
      /\ new.results = talk[r].results /\ new.reply = talk[r].reply
  BY <1>1 DEF RequestType
<1> HIDE DEF new
<1>6. talk[r].did = << >> /\ DOMAIN talk[r].results = {} /\ talk[r].reply = "none"
  BY <1>1 DEF Proper, RequestType
<1>7. Proper(new) /\ ~Erases(new) /\ ~Graded(new) /\ ~AskedIt(talk[r])
  BY <1>5, <1>6 DEF Proper, Erases, Graded, AskedIt
<1>8. Quiet
  BY NothingIsQuiet, RequestFacts DEF ConversationInv, Receive
<1>9. OnLine(new) => \A q \in Asks : ~OnLine(talk[q])
  BY <1>5 DEF Receive, OnLine, Busy
<1>10. RequestsInv' /\ talk'[r] = new /\ \A q \in Asks \ {r} : talk'[q] = talk[q]
  BY <1>3, <1>4, <1>7, <1>8, RequestsKept DEF ConversationInv, Quiet
<1>11. ErasesInv'
  BY <1>7, <1>8, <1>10, ErasesKept DEF ConversationInv, Quiet
<1>12. LessonsInv'
  BY <1>5, <1>7, <1>8, <1>9, <1>10, LessonsKept DEF ConversationInv, Quiet
<1> QED BY <1>10, <1>11, <1>12 DEF ConversationInv

\* The gateway's own replies.
LEMMA GatewayInv ==
  ASSUME ConversationInv, NEW r \in Asks, Gateway(r)
  PROVE  ConversationInv'
<1>1. Busy(r) /\ At(r, "routing") /\ Ended(r, talk[r].did, "answer") /\ talk[r].did = << >> /\ Quiet
  BY RequestFacts, NothingIsQuiet DEF ConversationInv, Gateway, Busy, At, Replies, Proper
<1> QED BY <1>1, EndsQuietly DEF DeedLists

\* What a rule plans is for more than one specialist; what no rule plans leaves out the
\* weather.
LEMMA PlanFacts ==
  ASSUME NEW of \in SUBSET Domains
  PROVE  /\ SpecialistPlan(of) \subseteq of
         /\ Cardinality(SpecialistPlan(of)) > 1 \/ "weather" \notin SpecialistPlan(of)
<1> DEFINE fitting == {i \in DOMAIN Rules : Rules[i] \subseteq of}
           least   == CHOOSE i \in fitting : \A j \in fitting : i <= j
<1>1. CASE fitting = {}
  BY <1>1 DEF SpecialistPlan
<1>2. CASE fitting # {}
  <2>1. DOMAIN Rules = 1 .. 4
    BY DEF Rules
  <2>2. least \in fitting
    <3>1. \E i \in fitting : \A j \in fitting : i <= j
      <4>1. fitting \subseteq {1, 2, 3, 4}
        BY <2>1
      <4> HIDE DEF fitting
      <4>2. CASE 1 \in fitting
        BY <4>1, <4>2
      <4>3. CASE 1 \notin fitting /\ 2 \in fitting
        BY <4>1, <4>3
      <4>4. CASE 1 \notin fitting /\ 2 \notin fitting /\ 3 \in fitting
        BY <4>1, <4>4
      <4>5. CASE 1 \notin fitting /\ 2 \notin fitting /\ 3 \notin fitting
        <5>1. fitting = {4}
          BY <1>2, <4>1, <4>5
        <5> QED BY <5>1
      <4> QED BY <4>2, <4>3, <4>4, <4>5
    <3> HIDE DEF fitting
    <3> QED BY <3>1
  <2>3. SpecialistPlan(of) = Rules[least]
    BY <1>2 DEF SpecialistPlan
  <2>4. \A i \in 1 .. 4 : Cardinality(Rules[i]) > 1
    <3>1. \A x, y : x # y => IsFiniteSet({x, y}) /\ Cardinality({x, y}) = 2
      <4> TAKE x, y
      <4>1. IsFiniteSet({x}) /\ Cardinality({x}) = 1
        BY FS_Singleton
      <4>2. x # y => Cardinality({x} \cup {y}) = 2 /\ IsFiniteSet({x} \cup {y})
        BY <4>1, FS_AddElement
      <4>3. {x, y} = {x} \cup {y}
        OBVIOUS
      <4> QED BY <4>2, <4>3
    <3>2. \A x, y, z : x # y /\ x # z /\ y # z => Cardinality({x, y, z}) = 3
      <4> TAKE x, y, z
      <4>1. x # y => IsFiniteSet({x, y}) /\ Cardinality({x, y}) = 2
        BY <3>1
      <4>2. {x, y, z} = {x, y} \cup {z}
        OBVIOUS
      <4> QED BY <4>1, <4>2, FS_AddElement
    <3>3. Rules[1] = {"news", "stocks", "weather"} /\ Rules[2] = {"news", "stocks"}
          /\ Rules[3] = {"news", "weather"} /\ Rules[4] = {"stocks", "weather"}
      BY DEF Rules
    <3>4. Cardinality(Rules[1]) = 3
      <4>1. "news" # "stocks" /\ "news" # "weather" /\ "stocks" # "weather"
        OBVIOUS
      <4>2. Cardinality({"news", "stocks", "weather"}) = 3
        BY <3>2, <4>1, Zenon
      <4> QED BY <3>3, <4>2
    <3>5. Cardinality(Rules[2]) = 2 /\ Cardinality(Rules[3]) = 2 /\ Cardinality(Rules[4]) = 2
      <4>1. "news" # "stocks" /\ "news" # "weather" /\ "stocks" # "weather"
        OBVIOUS
      <4>2. /\ Cardinality({"news", "stocks"}) = 2 /\ Cardinality({"news", "weather"}) = 2
            /\ Cardinality({"stocks", "weather"}) = 2
        BY <3>1, <4>1, Zenon
      <4> QED BY <3>3, <4>2
    <3> QED BY <3>4, <3>5
  <2>5. least \in 1 .. 4 /\ Rules[least] \subseteq of
    BY <2>1, <2>2
  <2> HIDE DEF least
  <2> QED BY <2>3, <2>4, <2>5
<1> QED BY <1>1, <1>2

\* run_core_request.
LEMMA RouteInv ==
  ASSUME ConversationInv, NEW r \in Asks, Route(r)
  PROVE  ConversationInv'
<1> DEFINE plan == SpecialistPlan(talk[r].of)
<1>1. talk[r].of \in SUBSET Domains /\ talk[r].at = "routing" /\ Busy(r) /\ UNCHANGED <<mind, lessons, up>>
  BY RequestFacts DEF ConversationInv, Route, At, Busy, RequestType
<1>2. Cardinality(plan) > 1 \/ "weather" \notin plan
  BY <1>1, PlanFacts
<1> HIDE DEF plan
<1>3. PICK at \in {"planned", "lesson", "dispatched", "notes", "memory", "weather", "normal"} :
        /\ Goes(r, at)
        /\ at = "dispatched" => ~(Cardinality(plan) > 1)
  <2>1. AgentFor(r) \in {"notes", "memory", "weather", "normal"}
    BY DEF AgentFor
  <2> QED BY <2>1 DEF Route, plan
<1> QED BY <1>1, <1>2, <1>3, GoesOn DEF plan, At

\* A request under way that is neither working nor asking a provider has done nothing.
LEMMA BusyFacts ==
  ASSUME ConversationInv, NEW r \in Asks, Busy(r)
  PROVE  /\ talk[r] \in RequestType /\ talk[r].did \in ToolLists /\ talk[r].did \in DeedLists
         /\ ~At(r, "generating") => talk[r].did = << >>
         /\ ~At(r, "working") => DOMAIN talk[r].results = {}
         /\ talk[r].reply = "none"
BY RequestFacts DEF ConversationInv, Proper, Busy, At, RequestType, ToolLists

\* _run_multi_specialist_request, before anything runs.
LEMMA CheckPlanInv ==
  ASSUME ConversationInv, NEW r \in Asks, CheckPlan(r)
  PROVE  ConversationInv'
<1>1. At(r, "planned") /\ Busy(r) /\ UNCHANGED <<mind, lessons, up>> /\ Quiet
  BY RequestFacts, NothingIsQuiet DEF ConversationInv, CheckPlan, Busy, At
<1>2. CASE Goes(r, "working")
  BY <1>1, <1>2, GoesOn DEF At
<1>3. CASE Replies(r, "error")
  <2>1. Ended(r, << >>, "error")
    BY <1>1, <1>3, BusyFacts DEF Replies, At
  <2> QED BY <1>1, <2>1, EndsQuietly DEF DeedLists, At
<1> QED BY <1>2, <1>3 DEF CheckPlan

\* A specialist's answer.
LEMMA SpecialistInv ==
  ASSUME ConversationInv, NEW r \in Asks, NEW d \in Supported, Specialist(r, d)
  PROVE  ConversationInv'
<1>1. /\ At(r, "working") /\ Busy(r) /\ UNCHANGED <<mind, lessons, up>> /\ Quiet
      /\ d \in SpecialistPlan(talk[r].of)
  BY RequestFacts, NothingIsQuiet DEF ConversationInv, Specialist, Busy, At
<1>2. PICK answer \in Answers :
        talk' = [talk EXCEPT ![r].results = [x \in DOMAIN @ \cup {d} |-> IF x = d THEN answer ELSE @[x]]]
  BY DEF Specialist
<1> DEFINE old     == talk[r].results
           results == [x \in DOMAIN old \cup {d} |-> IF x = d THEN answer ELSE old[x]]
           new     == [talk[r] EXCEPT !.results = results]
<1>3. talk \in [Asks -> RequestType] /\ talk[r] \in RequestType /\ Proper(talk[r])
  BY RequestFacts DEF ConversationInv
<1>4. talk' = [talk EXCEPT ![r] = new]
  BY <1>2, <1>3
<1>5. results \in PlanResults
  <2>1. PICK S \in SUBSET Supported : old \in [S -> Answers]
    BY <1>3 DEF RequestType, PlanResults
  <2>2. results \in [S \cup {d} -> Answers] /\ S \cup {d} \in SUBSET Supported
    BY <2>1
  <2> HIDE DEF results
  <2> QED BY <2>2 DEF PlanResults
<1>6. DOMAIN results = DOMAIN old \cup {d}
  OBVIOUS
<1> HIDE DEF results
<1>7. new \in RequestType
  BY <1>3, <1>5 DEF RequestType
<1>8. /\ new.at = "working" /\ new.did = talk[r].did /\ new.channel = talk[r].channel
      /\ new.results = results /\ new.of = talk[r].of /\ new.reply = talk[r].reply
  BY <1>1, <1>3 DEF RequestType, At
<1> HIDE DEF new
<1>9. Proper(new)
  BY <1>1, <1>3, <1>6, <1>8, BusyFacts DEF Proper, At
<1>10. ~Erases(new)
  <2>1. talk[r].did = << >>
    BY <1>1, BusyFacts DEF At
  <2> QED BY <1>8, <2>1 DEF Erases
<1> QED BY <1>1, <1>4, <1>7, <1>8, <1>9, <1>10, MovesOn

\* The texts of all of them.
LEMMA CombineInv ==
  ASSUME ConversationInv, NEW r \in Asks, Combine(r)
  PROVE  ConversationInv'
<1> DEFINE w == talk[r]
           text == IF Gave(r, "text") = {} THEN "error" ELSE "answer"
           new == [w EXCEPT !.at = "replied", !.key = "none", !.order = << >>, !.reply = text]
<1>1. /\ At(r, "working") /\ Busy(r) /\ UNCHANGED <<mind, lessons, up>> /\ Quiet
      /\ DOMAIN w.results = SpecialistPlan(w.of) /\ w.did = << >>
  BY BusyFacts, RequestFacts, NothingIsQuiet DEF ConversationInv, Combine, Busy, At
<1>2. talk \in [Asks -> RequestType] /\ w \in RequestType /\ text \in {"error", "answer"}
  BY RequestFacts DEF ConversationInv
<1> HIDE DEF text
<1>3. talk' = [talk EXCEPT ![r] = new]
  BY <1>2 DEF Combine, Replies, Ended, text, RequestType
<1>4. new \in RequestType
  BY <1>2 DEF RequestType, Orders
<1>5. /\ new.at = "replied" /\ new.did = << >> /\ new.channel = w.channel
      /\ new.results = w.results /\ new.of = w.of /\ new.reply = text
  BY <1>1, <1>2 DEF RequestType
<1> HIDE DEF new
<1>6. Proper(new) /\ ~Erases(new)
  BY <1>1, <1>5 DEF Proper, Erases
<1> QED BY <1>1, <1>3, <1>4, <1>5, <1>6, MovesOn

\* One specialist, by its own route.
LEMMA DistributedInv ==
  ASSUME ConversationInv, NEW r \in Asks, Distributed(r)
  PROVE  ConversationInv'
<1>1. PICK d \in SpecialistPlan(talk[r].of), answer \in Dispatched :
        talk' = [talk EXCEPT ![r].at = "replied", ![r].results = [x \in {d} |-> answer],
                             ![r].reply = IF answer = "error" THEN "error" ELSE "answer"]
  BY DEF Distributed
<1> DEFINE w == talk[r]
           results == [x \in {d} |-> answer]
           text == IF answer = "error" THEN "error" ELSE "answer"
           new == [w EXCEPT !.at = "replied", !.results = results, !.reply = text]
<1>2. /\ At(r, "dispatched") /\ Busy(r) /\ UNCHANGED <<mind, lessons, up>> /\ Quiet /\ w.did = << >>
  BY BusyFacts, RequestFacts, NothingIsQuiet DEF ConversationInv, Distributed, Busy, At
<1>3. talk \in [Asks -> RequestType] /\ w \in RequestType /\ Proper(w) /\ text \in {"error", "answer"}
  BY RequestFacts DEF ConversationInv
<1>4. ~(Cardinality(SpecialistPlan(w.of)) > 1) /\ "weather" \notin SpecialistPlan(w.of)
  BY <1>2, <1>3 DEF Proper, At
<1>5. results \in PlanResults
  <2>1. d \in Supported
    BY <1>3, <1>4, PlanFacts DEF RequestType, Domains
  <2>2. results \in [{d} -> Answers]
    BY DEF Dispatched
  <2> HIDE DEF results
  <2> QED BY <2>1, <2>2 DEF PlanResults
<1> HIDE DEF results, text
<1>6. talk' = [talk EXCEPT ![r] = new]
  BY <1>1, <1>3 DEF results, text
<1>7. new \in RequestType
  BY <1>3, <1>5 DEF RequestType
<1>8. new.at = "replied" /\ new.did = << >> /\ new.channel = w.channel /\ new.of = w.of
  BY <1>2, <1>3 DEF RequestType
<1> HIDE DEF new
<1>9. Proper(new) /\ ~Erases(new)
  BY <1>4, <1>8 DEF Proper, Erases
<1> QED BY <1>2, <1>6, <1>7, <1>8, <1>9, MovesOn

\* weather_agent_node.
LEMMA WeatherInv ==
  ASSUME ConversationInv, NEW r \in Asks, Weather(r)
  PROVE  ConversationInv'
<1>1. At(r, "weather") /\ Busy(r) /\ Quiet /\ talk[r].did = << >> /\ Ended(r, << >>, "answer")
  BY BusyFacts, RequestFacts, NothingIsQuiet DEF ConversationInv, Weather, Replies, Busy, At
<1> QED BY <1>1, EndsQuietly DEF DeedLists

\* What is known of the lessons.
LEMMA LessonsFacts ==
  ASSUME ConversationInv, NEW r \in Asks, Busy(r)
  PROVE  /\ lessons \in LessonsType /\ talk[r].channel \in Channels
         /\ \A ch \in Channels : lessons[ch].open \in {0, lessons[ch].asked}
         /\ OnLine(talk[r]) <=> talk[r].channel = "line"
         /\ talk[r].channel = "line" => \A q \in Asks \ {r} : ~OnLine(talk[q])
BY RequestFacts DEF ConversationInv, LessonsInv, OnLine, Busy, RequestType

\* Steps of a lesson: other requests' questions are on another channel, or read before.
LEMMA LessonStep ==
  ASSUME ConversationInv, NEW r \in Asks, Busy(r), NEW new \in RequestType, Proper(new),
         talk' = [talk EXCEPT ![r] = new], UNCHANGED <<mind, up>>, lessons' \in LessonsType,
         \A ch \in Channels : lessons'[ch].open \in {0, lessons'[ch].asked},
         \A ch \in Channels : ch = talk[r].channel \/ lessons'[ch] = lessons[ch],
         lessons'["line"].asked >= lessons["line"].asked,
         lessons'["line"].open \in {0, lessons["line"].open, lessons["line"].asked + 1},
         ~Erases(new), ~AskedIt(talk[r]), new.channel = talk[r].channel,
         new.at = "grading" /\ new.channel = "line" => new.seen = lessons'["line"].open /\ new.seen # 0,
         Graded(new) => talk[r].at = "grading" /\ new.seen = talk[r].seen /\ lessons'["line"].open = 0
  PROVE  ConversationInv'
<1>1. /\ RequestsInv' /\ talk'[r] = new /\ \A q \in Asks \ {r} : talk'[q] = talk[q]
  BY RequestsKept, RequestFacts DEF ConversationInv
<1>2. ErasesInv'
  BY <1>1, ErasesKept DEF ConversationInv
<1>3. /\ "line" \in Channels /\ lessons \in LessonsType
      /\ lessons["line"].asked \in Nat /\ lessons["line"].open \in Nat
      /\ lessons'["line"].asked \in Nat
      /\ lessons["line"].open \in {0, lessons["line"].asked}
  BY LessonsFacts DEF Channels, LessonsType
<1>4. /\ \A q, s \in Asks : OnLine(talk[q]) /\ OnLine(talk[s]) => q = s
      /\ talk[r].channel \in Channels /\ (OnLine(talk[r]) <=> talk[r].channel = "line")
      /\ \A q \in Asks : talk[q].at # "unsent" => talk[q].channel \in Channels
  BY LessonsFacts DEF ConversationInv, LessonsInv
<1>5. \A q, s \in Asks : OnLine(talk'[q]) /\ OnLine(talk'[s]) => q = s
  <2>1. OnLine(new) => OnLine(talk[r])
    BY <1>4 DEF OnLine
  <2> QED BY <1>1, <1>4, <2>1
<1>6. \A q \in Asks : talk'[q].at # "unsent" => talk'[q].channel \in Channels
  BY <1>1, <1>4
<1>7. ASSUME NEW q \in Asks \ {r}, talk[q].at = "grading", talk[q].channel = "line"
      PROVE  talk[q].seen = lessons'["line"].open /\ lessons'["line"].open # 0
  <2>1. OnLine(talk[q])
    BY <1>7 DEF OnLine
  <2>2. talk[r].channel # "line"
    BY <1>4, <2>1
  <2>3. lessons'["line"] = lessons["line"]
    BY <1>3, <2>2
  <2> QED BY <1>7, <2>3 DEF ConversationInv, LessonsInv
<1>8. \A q \in Asks : talk'[q].at = "grading" /\ talk'[q].channel = "line" =>
        talk'[q].seen = lessons'["line"].open /\ lessons'["line"].open # 0
  BY <1>1, <1>7
<1>9. ASSUME NEW q \in Asks \ {r}, Graded(talk[q])
      PROVE  talk[q].seen \in 1 .. lessons'["line"].asked /\ talk[q].seen # lessons'["line"].open
  <2>1. talk[q].seen \in 1 .. lessons["line"].asked /\ talk[q].seen # lessons["line"].open
    BY <1>9 DEF ConversationInv, LessonsInv
  <2> QED BY <1>3, <2>1
<1>10. ASSUME Graded(new)
       PROVE  /\ new.seen \in 1 .. lessons'["line"].asked /\ new.seen # lessons'["line"].open
              /\ new.seen = lessons["line"].open
  <2>1. talk[r].seen = lessons["line"].open /\ lessons["line"].open # 0
    BY <1>10 DEF ConversationInv, LessonsInv, Graded
  <2> QED BY <1>3, <1>10, <2>1
<1>11. \A q \in Asks : Graded(talk'[q]) =>
         talk'[q].seen \in 1 .. lessons'["line"].asked /\ talk'[q].seen # lessons'["line"].open
  BY <1>1, <1>9, <1>10
<1>12. \A q, s \in Asks : Graded(talk'[q]) /\ Graded(talk'[s]) /\ talk'[q].seen = talk'[s].seen => q = s
  <2>1. \A q \in Asks : Graded(talk[q]) => talk[q].seen # lessons["line"].open
    BY DEF ConversationInv, LessonsInv
  <2>2. \A q, s \in Asks : Graded(talk[q]) /\ Graded(talk[s]) /\ talk[q].seen = talk[s].seen => q = s
    BY DEF ConversationInv, LessonsInv
  <2> QED BY <1>1, <1>10, <2>1, <2>2
<1>13. LessonsInv'
  BY <1>5, <1>6, <1>8, <1>11, <1>12 DEF LessonsInv
<1> QED BY <1>1, <1>2, <1>13 DEF ConversationInv

\* A new question.
LEMMA StartQuizInv ==
  ASSUME ConversationInv, NEW r \in Asks, StartQuiz(r)
  PROVE  ConversationInv'
<1> DEFINE ch == talk[r].channel
           new == [lessons[ch] EXCEPT !.asked = lessons[ch].asked + 1, !.open = lessons[ch].asked + 1]
<1>1. At(r, "lesson") /\ Busy(r) /\ UNCHANGED <<mind, up>> /\ talk[r].did = << >> /\ Ended(r, << >>, "answer")
  BY BusyFacts DEF StartQuiz, Replies, Busy, At
<1>2. ch \in Channels /\ lessons \in LessonsType /\ "line" \in Channels
      /\ lessons[ch] \in [asked : Nat, open : Nat, turns : Nat]
  BY <1>1, LessonsFacts DEF Channels, LessonsType
<1>3. lessons' = [lessons EXCEPT ![ch] = new]
  BY <1>2 DEF StartQuiz, Lesson, LessonsType
<1>4. /\ new \in [asked : Nat, open : Nat, turns : Nat]
      /\ new.asked = lessons[ch].asked + 1 /\ new.open = lessons[ch].asked + 1
  <2>1. lessons[ch].asked + 1 \in Nat
    BY <1>2
  <2> HIDE DEF ch
  <2> QED BY <1>2, <2>1
<1> HIDE DEF new
<1>5. /\ lessons' \in LessonsType /\ lessons'[ch] = new
      /\ \A c \in Channels : c = ch \/ lessons'[c] = lessons[c]
  BY <1>2, <1>3, <1>4 DEF LessonsType
<1>6. \A c \in Channels : lessons'[c].open \in {0, lessons'[c].asked}
  BY <1>1, <1>4, <1>5, LessonsFacts
<1>7. /\ lessons'["line"].asked >= lessons["line"].asked
      /\ lessons'["line"].open \in {0, lessons["line"].open, lessons["line"].asked + 1}
  BY <1>2, <1>4, <1>5 DEF LessonsType
<1> DEFINE w == talk'[r]
<1>8. /\ talk' = [talk EXCEPT ![r] = w] /\ w \in RequestType /\ Proper(w)
      /\ w.did = << >> /\ w.at = "replied" /\ w.channel = talk[r].channel
  BY <1>1, EndsProper DEF ConversationInv, DeedLists, At
<1>9. ~Erases(w) /\ ~AskedIt(talk[r]) /\ ~Graded(w)
  BY <1>1, <1>8 DEF Erases, AskedIt, Graded
<1> HIDE DEF w, ch
<1> QED BY <1>1, <1>5, <1>6, <1>7, <1>8, <1>9, LessonStep DEF ch

\* grade_quiz reads.
LEMMA ReadQuestionInv ==
  ASSUME ConversationInv, NEW r \in Asks, ReadQuestion(r)
  PROVE  ConversationInv'
<1>1. At(r, "lesson") /\ Busy(r) /\ UNCHANGED <<mind, lessons, up>> /\ talk[r].did = << >> /\ Quiet
  BY BusyFacts, RequestFacts, NothingIsQuiet DEF ConversationInv, ReadQuestion, Busy, At
<1>2. CASE Replies(r, "answer")
  BY <1>1, <1>2, EndsQuietly DEF Replies, DeedLists
<1>3. CASE /\ Lesson(r).open # 0
           /\ talk' = [talk EXCEPT ![r].at = "grading", ![r].seen = Lesson(r).open]
  <2> DEFINE ch == talk[r].channel
             new == [talk[r] EXCEPT !.at = "grading", !.seen = lessons[ch].open]
  <2>1. /\ talk \in [Asks -> RequestType] /\ talk[r] \in RequestType
        /\ ch \in Channels /\ lessons \in LessonsType /\ lessons[ch].open \in Nat
        /\ lessons["line"].asked \in Nat
        /\ \A c \in Channels : lessons[c].open \in {0, lessons[c].asked}
    BY <1>1, RequestFacts, LessonsFacts DEF ConversationInv, LessonsType, Channels
  <2>2. talk' = [talk EXCEPT ![r] = new] /\ lessons[ch].open # 0
    BY <1>3, <2>1 DEF Lesson
  <2>3. new \in RequestType
    BY <2>1 DEF RequestType
  <2>4. /\ new.at = "grading" /\ new.seen = lessons[ch].open /\ new.did = << >> /\ new.channel = ch
        /\ new.results = talk[r].results /\ new.reply = talk[r].reply /\ new.of = talk[r].of
    BY <1>1, <2>1 DEF RequestType
  <2> HIDE DEF new
  <2>5. Proper(new)
    BY <1>1, <2>4, BusyFacts DEF Proper, At
  <2>6. ~Erases(new) /\ ~AskedIt(talk[r]) /\ ~Graded(new)
    BY <1>1, <2>4 DEF Erases, AskedIt, Graded
  <2>7. /\ lessons' = lessons /\ lessons["line"].asked >= lessons["line"].asked
        /\ ch = "line" => new.seen = lessons["line"].open /\ new.seen # 0
    BY <1>1, <2>1, <2>2, <2>4
  <2> HIDE DEF ch
  <2> QED BY <1>1, <2>1, <2>2, <2>3, <2>4, <2>5, <2>6, <2>7, LessonStep DEF ch
<1> QED BY <1>2, <1>3 DEF ReadQuestion

\* grade_quiz closes.
LEMMA GradeInv ==
  ASSUME ConversationInv, NEW r \in Asks, Grade(r)
  PROVE  ConversationInv'
<1> DEFINE ch == talk[r].channel
           new == [lessons[ch] EXCEPT !.open = 0]
           w == talk'[r]
<1>1. /\ At(r, "grading") /\ Busy(r) /\ UNCHANGED <<mind, up>> /\ talk[r].did = << >>
      /\ Ended(r, <<"grade">>, "answer")
  <2>1. At(r, "grading") /\ Busy(r) /\ UNCHANGED <<mind, up>> /\ talk[r].did = << >>
    BY BusyFacts DEF Grade, Busy, At
  <2>2. Append(<< >>, "grade") = <<"grade">>
    OBVIOUS
  <2> QED BY <2>1, <2>2 DEF Grade, Acts
<1>2. ch \in Channels /\ lessons \in LessonsType /\ "line" \in Channels
      /\ lessons[ch] \in [asked : Nat, open : Nat, turns : Nat]
  BY <1>1, LessonsFacts DEF Channels, LessonsType
<1>3. lessons' = [lessons EXCEPT ![ch] = new]
  BY <1>2 DEF Grade, Noted, LessonsType
<1>4. new \in [asked : Nat, open : Nat, turns : Nat] /\ new.asked = lessons[ch].asked /\ new.open = 0
  BY <1>2
<1> HIDE DEF new
<1>5. /\ lessons' \in LessonsType /\ lessons'[ch] = new
      /\ \A c \in Channels : c = ch \/ lessons'[c] = lessons[c]
  BY <1>2, <1>3, <1>4 DEF LessonsType
<1>6. \A c \in Channels : lessons'[c].open \in {0, lessons'[c].asked}
  BY <1>1, <1>4, <1>5, LessonsFacts
<1>7. /\ lessons'["line"].asked >= lessons["line"].asked
      /\ lessons'["line"].open \in {0, lessons["line"].open, lessons["line"].asked + 1}
      /\ ch = "line" => lessons'["line"].open = 0
  BY <1>2, <1>4, <1>5 DEF LessonsType
<1>8. /\ talk' = [talk EXCEPT ![r] = w] /\ w \in RequestType /\ Proper(w) /\ w.seen = talk[r].seen
      /\ w.did = <<"grade">> /\ w.at = "replied" /\ w.channel = ch
  BY <1>1, EndsProper DEF ConversationInv, DeedLists, DeedNames, At
<1>9. ~Erases(w) /\ ~AskedIt(talk[r]) /\ (Graded(w) => ch = "line")
  BY <1>1, <1>8 DEF Erases, AskedIt, Graded
<1> HIDE DEF w
<1> QED BY <1>1, <1>5, <1>6, <1>7, <1>8, <1>9, LessonStep DEF At

\* record_observation reads.
LEMMA ReadProfileInv ==
  ASSUME ConversationInv, NEW r \in Asks, ReadProfile(r)
  PROVE  ConversationInv'
<1> DEFINE turns == lessons[talk[r].channel].turns
           new == [talk[r] EXCEPT !.at = "profiling", !.seen = turns]
<1>1. At(r, "lesson") /\ Busy(r) /\ UNCHANGED <<mind, lessons, up>> /\ talk[r].did = << >> /\ Quiet
  BY BusyFacts, RequestFacts, NothingIsQuiet DEF ConversationInv, ReadProfile, Busy, At
<1>2. talk \in [Asks -> RequestType] /\ talk[r] \in RequestType /\ turns \in Nat
  BY <1>1, RequestFacts, LessonsFacts DEF ConversationInv, LessonsType
<1>3. talk' = [talk EXCEPT ![r] = new]
  BY <1>2 DEF ReadProfile, Lesson
<1>4. new \in RequestType
  BY <1>2 DEF RequestType
<1>5. /\ new.at = "profiling" /\ new.did = << >> /\ new.channel = talk[r].channel
      /\ new.results = talk[r].results /\ new.reply = talk[r].reply /\ new.of = talk[r].of
  BY <1>1, <1>2 DEF RequestType
<1> HIDE DEF new
<1>6. Proper(new) /\ ~Erases(new)
  BY <1>1, <1>5, BusyFacts DEF Proper, At, Erases
<1> QED BY <1>1, <1>3, <1>4, <1>5, <1>6, MovesOn

\* record_observation writes.
LEMMA WriteProfileInv ==
  ASSUME ConversationInv, NEW r \in Asks, WriteProfile(r)
  PROVE  ConversationInv'
<1>1. At(r, "profiling") /\ Busy(r) /\ UNCHANGED <<mind, up>> /\ talk[r].did = << >>
  BY BusyFacts DEF WriteProfile, Busy, At
<1>2. CASE Replies(r, "answer") /\ UNCHANGED lessons
  <2>1. Quiet
    BY <1>1, <1>2, RequestFacts, NothingIsQuiet DEF ConversationInv
  <2> QED BY <1>1, <1>2, <2>1, EndsQuietly DEF Replies, DeedLists
<1>3. CASE Noted(r, "turns", talk[r].seen + 1) /\ Acts(r, "turn", "answer")
  <2> DEFINE ch == talk[r].channel
             new == [lessons[ch] EXCEPT !.turns = talk[r].seen + 1]
  <2>1. /\ ch \in Channels /\ lessons \in LessonsType /\ talk[r].seen \in Nat
        /\ lessons[ch] \in [asked : Nat, open : Nat, turns : Nat]
    BY <1>1, RequestFacts, LessonsFacts DEF ConversationInv, LessonsType, RequestType
  <2>2. lessons' = [lessons EXCEPT ![ch] = new]
    BY <1>3, <2>1 DEF Noted, LessonsType
  <2>3. new \in [asked : Nat, open : Nat, turns : Nat] /\ new.asked = lessons[ch].asked /\ new.open = lessons[ch].open
    BY <2>1
  <2> HIDE DEF new
  <2>4. /\ lessons' \in LessonsType
        /\ \A c \in Channels : lessons'[c].open = lessons[c].open /\ lessons'[c].asked = lessons[c].asked
    BY <2>1, <2>2, <2>3 DEF LessonsType
  <2>5. Quiet
    BY <1>1, <2>4, RequestFacts DEF ConversationInv, Quiet
  <2>6. Ended(r, <<"turn">>, "answer")
    BY <1>1, <1>3 DEF Acts
  <2> QED BY <1>1, <2>5, <2>6, EndsQuietly DEF DeedLists, DeedNames
<1> QED BY <1>2, <1>3 DEF WriteProfile

\* A step that changes only the mind of the user, and not by a question about the notes.
LEMMA MindIsQuiet ==
  ASSUME ConversationInv, UNCHANGED <<lessons, up>>, mind' \in MindType,
         "notes" \in mind'.asks => "notes" \in mind.asks
  PROVE  Quiet
BY DEF ConversationInv, Quiet, LessonsInv, RequestsInv

\* A call of the MCP server, however it ends.
LEMMA TriedQuietly ==
  ASSUME ConversationInv, NEW r \in Asks, Busy(r), ~At(r, "working"), ~At(r, "generating"),
         NEW deed \in DeedNames \ {"grade"}, deed = "erase" => At(r, "erasing"), NEW after \in MindType,
         "notes" \in after.asks => "notes" \in mind.asks,
         Tried(r, deed, after, "answer"), UNCHANGED <<lessons, up>>
  PROVE  ConversationInv'
<1>1. /\ talk[r].did = << >> /\ Append(<< >>, deed) = <<deed>> /\ << >> \in DeedLists /\ <<deed>> \in DeedLists
      /\ mind \in MindType /\ <<deed>> # <<"grade">> /\ << >> # <<"grade">>
      /\ (<<deed>> = <<"erase">> => deed = "erase") /\ << >> # <<"erase">>
  <2>1. talk[r].did = << >> /\ mind \in MindType
    BY BusyFacts, RequestFacts DEF ConversationInv
  <2>2. Append(<< >>, deed) = <<deed>> /\ << >> \in DeedLists /\ <<deed>> \in DeedLists
    BY DEF DeedLists
  <2>3. <<deed>> # <<"grade">> /\ << >> # <<"grade">> /\ << >> # <<"erase">>
        /\ (<<deed>> = <<"erase">> => deed = "erase")
    OBVIOUS
  <2> QED BY <2>1, <2>2, <2>3
<1>2. ASSUME NEW text \in {"answer", "error"}, mind' = after, Ended(r, <<deed>>, text)
      PROVE  ConversationInv'
  <2>1. Quiet
    BY <1>2, MindIsQuiet
  <2> QED BY <1>1, <1>2, <2>1, EndsQuietly
<1>3. ASSUME UNCHANGED mind, Ended(r, << >>, "error")
      PROVE  ConversationInv'
  <2>1. Quiet
    BY <1>1, <1>3, MindIsQuiet
  <2> QED BY <1>1, <1>3, <2>1, EndsQuietly
<1> QED BY <1>1, <1>2, <1>3 DEF Tried, Acts, Replies

\* The question about the memories, which counts for no erasing, and that about the notes.
LEMMA PutQuestionInv ==
  ASSUME ConversationInv, NEW r \in Asks, Busy(r), ~At(r, "working"), ~At(r, "generating"), ~At(r, "erasing"),
         NEW question \in {"notes", "memory"}, question = "notes" => talk[r].says = "erase_notes",
         PutQuestion(r, question), UNCHANGED <<lessons, up>>
  PROVE  ConversationInv'
<1>1. /\ talk[r].did = << >> /\ mind \in MindType /\ <<"ask">> \in DeedLists
      /\ <<"ask">> # <<"grade">> /\ <<"ask">> # <<"erase">>
  BY BusyFacts, RequestFacts DEF ConversationInv, DeedLists, DeedNames
<1>2. Ended(r, <<"ask">>, "answer")
  <2>1. Append(<< >>, "ask") = <<"ask">>
    OBVIOUS
  <2> QED BY <1>1, <2>1 DEF PutQuestion, Acts
<1>3. mind' \in MindType /\ mind'.asks = mind.asks \cup {question}
  BY <1>1 DEF PutQuestion, MindType
<1>4. CASE question = "memory"
  <2>1. Quiet
    BY <1>3, <1>4, MindIsQuiet
  <2> QED BY <1>1, <1>2, <2>1, EndsQuietly
<1>5. CASE question = "notes"
  <2> DEFINE new == talk'[r]
  <2>1. /\ talk' = [talk EXCEPT ![r] = new] /\ new \in RequestType /\ Proper(new)
        /\ new.did = <<"ask">> /\ new.at = "replied" /\ new.says = "erase_notes"
        /\ new.channel = talk[r].channel
    BY <1>1, <1>2, <1>5, EndsProper DEF ConversationInv
  <2>2. RequestsInv' /\ talk'[r] = new /\ \A q \in Asks \ {r} : talk'[q] = talk[q]
    BY <1>3, <2>1, RequestsKept, RequestFacts DEF ConversationInv
  <2>3. /\ ~Erases(new) /\ AskedIt(new) /\ ~Graded(new) /\ ~OnLine(new)
        /\ ~Erases(talk[r]) /\ ~AskedIt(talk[r])
    BY <1>1, <2>1 DEF Erases, AskedIt, Graded, OnLine, At
  <2>4. Erasing' = Erasing /\ Asked' = Asked \cup {r} /\ r \notin Asked
    BY <2>2, <2>3 DEF Erasing, Asked
  <2>5. IsFiniteSet(Asked) /\ IsFiniteSet(Erasing)
    BY ConversationAssumption, FS_Subset DEF Asked, Erasing
  <2>6. /\ Cardinality(Asked') = Cardinality(Asked) + 1 /\ Cardinality(Asked) \in Nat
        /\ Cardinality(Erasing) \in Nat
    BY <2>4, <2>5, FS_AddElement, FS_CardinalityType
  <2>7. ErasesInv'
    BY <2>4, <2>6 DEF ErasesInv, ConversationInv
  <2>8. talk[r].channel \in Channels /\ lessons \in LessonsType
    BY LessonsFacts
  <2>9. LessonsInv'
    BY <2>1, <2>2, <2>3, <2>8, LessonsKept DEF ConversationInv
  <2> QED BY <2>2, <2>7, <2>9 DEF ConversationInv
<1> QED BY <1>4, <1>5

\* handle_note_message, up to "yes".
LEMMA NotesInv ==
  ASSUME ConversationInv, NEW r \in Asks, Notes(r)
  PROVE  ConversationInv'
<1>1. At(r, "notes") /\ Busy(r) /\ UNCHANGED <<lessons, up>> /\ mind \in MindType
      /\ ~At(r, "working") /\ ~At(r, "generating") /\ ~At(r, "erasing") /\ talk[r].did = << >>
  BY BusyFacts, RequestFacts DEF ConversationInv, Notes, Busy, At
<1>2. CASE Tried(r, "save", [mind EXCEPT !.notes = @ \cup {r}], "answer")
  <2>1. /\ [mind EXCEPT !.notes = @ \cup {r}] \in MindType
        /\ [mind EXCEPT !.notes = @ \cup {r}].asks = mind.asks
    BY <1>1 DEF MindType
  <2> QED BY <1>1, <1>2, <2>1, TriedQuietly DEF DeedNames
<1>3. CASE Says(r, {"erase_notes"}) /\ PutQuestion(r, "notes")
  BY <1>1, <1>3, PutQuestionInv DEF Says
<1>4. ASSUME NEW id \in Asks, Tried(r, "delete", [mind EXCEPT !.notes = @ \ {id}], "answer")
      PROVE  ConversationInv'
  <2>1. /\ [mind EXCEPT !.notes = @ \ {id}] \in MindType
        /\ [mind EXCEPT !.notes = @ \ {id}].asks = mind.asks
    BY <1>1 DEF MindType
  <2> QED BY <1>1, <1>4, <2>1, TriedQuietly DEF DeedNames
<1>5. CASE Replies(r, "answer") /\ UNCHANGED mind
  <2>1. Quiet
    BY <1>1, <1>5, MindIsQuiet
  <2> QED BY <1>1, <1>5, <2>1, EndsQuietly DEF Replies, DeedLists
<1> QED BY <1>2, <1>3, <1>4, <1>5 DEF Notes

\* The answer takes the question with it.
LEMMA ConfirmInv ==
  ASSUME ConversationInv, NEW r \in Asks, Confirm(r)
  PROVE  ConversationInv'
<1>1. At(r, "notes") /\ Busy(r) /\ UNCHANGED <<lessons, up>> /\ mind \in MindType
      /\ talk[r].did = << >> /\ talk \in [Asks -> RequestType] /\ talk[r] \in RequestType
  BY BusyFacts, RequestFacts DEF ConversationInv, Confirm, Busy, At
<1>2. mind' \in MindType /\ mind'.asks = mind.asks \ {"notes"}
  BY <1>1 DEF Confirm, MindType
<1>3. CASE Replies(r, "answer")
  <2>1. Quiet
    BY <1>1, <1>2, MindIsQuiet
  <2> QED BY <1>1, <1>3, <2>1, EndsQuietly DEF Replies, DeedLists
<1>4. CASE "notes" \in mind.asks /\ Goes(r, "erasing")
  <2> DEFINE new == [talk[r] EXCEPT !.at = "erasing"]
  <2>1. talk' = [talk EXCEPT ![r] = new]
    BY <1>1, <1>4 DEF Goes
  <2>2. new \in RequestType
    BY <1>1 DEF RequestType
  <2>3. /\ new.at = "erasing" /\ new.did = << >> /\ new.channel = talk[r].channel
        /\ new.results = talk[r].results /\ new.reply = talk[r].reply /\ new.of = talk[r].of
    BY <1>1 DEF RequestType
  <2> HIDE DEF new
  <2>4. Proper(new)
    BY <1>1, <2>3, BusyFacts DEF Proper, At
  <2>5. RequestsInv' /\ talk'[r] = new /\ \A q \in Asks \ {r} : talk'[q] = talk[q]
    BY <1>1, <1>2, <2>1, <2>2, <2>4, RequestsKept, RequestFacts DEF ConversationInv
  <2>6. Erases(new) /\ ~Graded(new) /\ ~AskedIt(new) /\ ~Erases(talk[r]) /\ ~AskedIt(talk[r])
        /\ (OnLine(new) => OnLine(talk[r]))
    BY <1>1, <2>3 DEF Erases, AskedIt, Graded, OnLine, At
  <2>7. Erasing' = Erasing \cup {r} /\ Asked' = Asked /\ r \notin Erasing
    BY <2>5, <2>6 DEF Erasing, Asked
  <2>8. IsFiniteSet(Asked) /\ IsFiniteSet(Erasing)
    BY ConversationAssumption, FS_Subset DEF Asked, Erasing
  <2>9. /\ Cardinality(Erasing') = Cardinality(Erasing) + 1 /\ Cardinality(Asked) \in Nat
        /\ Cardinality(Erasing) \in Nat
    BY <2>7, <2>8, FS_AddElement, FS_CardinalityType
  <2>10. ErasesInv'
    BY <1>2, <1>4, <2>7, <2>9 DEF ErasesInv, ConversationInv
  <2>11. talk[r].channel \in Channels /\ lessons \in LessonsType
    BY <1>1, LessonsFacts
  <2>12. LessonsInv'
    BY <1>1, <2>3, <2>5, <2>6, <2>11, LessonsKept DEF ConversationInv
  <2> QED BY <2>5, <2>10, <2>12 DEF ConversationInv
<1> QED BY <1>3, <1>4 DEF Confirm

\* The notes are erased.
LEMMA EraseNotesInv ==
  ASSUME ConversationInv, NEW r \in Asks, EraseNotes(r)
  PROVE  ConversationInv'
<1>1. At(r, "erasing") /\ Busy(r) /\ UNCHANGED <<lessons, up>> /\ mind \in MindType
      /\ ~At(r, "working") /\ ~At(r, "generating")
  BY RequestFacts DEF ConversationInv, EraseNotes, Busy, At
<1>2. [mind EXCEPT !.notes = {}] \in MindType /\ [mind EXCEPT !.notes = {}].asks = mind.asks
  BY <1>1 DEF MindType
<1> QED BY <1>1, <1>2, TriedQuietly DEF EraseNotes, DeedNames

\* A request that goes on to an item it has found, and has done nothing yet.
LEMMA FindsKey ==
  ASSUME ConversationInv, UNCHANGED <<mind, lessons, up>>, NEW r \in Asks, Busy(r),
         ~At(r, "working"), ~At(r, "generating"),
         NEW at \in {"forgetting", "cancelling"}, NEW key \in MemoryKeys \cup Asks,
         talk' = [talk EXCEPT ![r].at = at, ![r].key = key]
  PROVE  ConversationInv'
<1> DEFINE new == [talk[r] EXCEPT !.at = at, !.key = key]
<1>1. /\ talk \in [Asks -> RequestType] /\ talk[r] \in RequestType /\ talk[r].did = << >> /\ Quiet
      /\ DOMAIN talk[r].results = {} /\ talk[r].reply = "none"
  BY BusyFacts, RequestFacts, NothingIsQuiet DEF ConversationInv
<1>2. talk' = [talk EXCEPT ![r] = new]
  BY <1>1
<1>3. new \in RequestType
  BY <1>1 DEF RequestType
<1>4. /\ new.at = at /\ new.did = << >> /\ new.channel = talk[r].channel
      /\ new.results = talk[r].results /\ new.reply = talk[r].reply /\ new.of = talk[r].of
  BY <1>1 DEF RequestType
<1> HIDE DEF new
<1>5. Proper(new) /\ ~Erases(new)
  BY <1>1, <1>4 DEF Proper, Erases
<1> QED BY <1>1, <1>2, <1>3, <1>4, <1>5, MovesOn

\* _find_memory_target.
LEMMA FindTargetInv ==
  ASSUME ConversationInv, NEW r \in Asks, FindTarget(r)
  PROVE  ConversationInv'
<1>1. mind \in MindType /\ mind.facts \subseteq MemoryKeys /\ mind.about \in MemoryKeys
  BY RequestFacts DEF ConversationInv, MindType
<1>2. PICK key \in MemoryKeys : talk' = [talk EXCEPT ![r].at = "forgetting", ![r].key = key]
  BY <1>1 DEF FindTarget, MemoryKeys
<1> QED BY <1>2, FindsKey DEF FindTarget, At, Busy

\* handle_delete_memory.
LEMMA ForgetInv ==
  ASSUME ConversationInv, NEW r \in Asks, Forget(r)
  PROVE  ConversationInv'
<1> DEFINE without == [mind EXCEPT !.facts = @ \ {talk[r].key}]
<1>1. At(r, "forgetting") /\ Busy(r) /\ UNCHANGED <<lessons, up>> /\ mind \in MindType
      /\ ~At(r, "working") /\ ~At(r, "generating") /\ talk[r].did = << >>
  BY BusyFacts, RequestFacts DEF ConversationInv, Forget, Busy, At
<1>2. without \in MindType /\ without.asks = mind.asks
  BY <1>1 DEF MindType
<1>3. [without EXCEPT !.about = "name"] \in MindType /\ [without EXCEPT !.about = "name"].asks = mind.asks
  BY <1>1 DEF MindType, MemoryKeys
<1>4. CASE mind' = [without EXCEPT !.about = "name"] /\ Acts(r, "forget", "answer")
  <2>1. Quiet
    BY <1>1, <1>3, <1>4, MindIsQuiet
  <2>2. Ended(r, <<"forget">>, "answer")
    <3>1. Append(<< >>, "forget") = <<"forget">>
      OBVIOUS
    <3> QED BY <1>1, <1>4, <3>1 DEF Acts
  <2> QED BY <1>1, <2>1, <2>2, EndsQuietly DEF DeedLists, DeedNames
<1>5. CASE mind' \in {mind, without} /\ Replies(r, "error")
  <2>1. Quiet
    BY <1>1, <1>2, <1>5, MindIsQuiet
  <2> QED BY <1>1, <1>5, <2>1, EndsQuietly DEF Replies, DeedLists
<1> QED BY <1>4, <1>5 DEF Forget

\* handle_memory_message.
LEMMA MemoriesInv ==
  ASSUME ConversationInv, NEW r \in Asks, Memories(r)
  PROVE  ConversationInv'
<1>1. At(r, "memory") /\ Busy(r) /\ UNCHANGED <<lessons, up>> /\ mind \in MindType
      /\ ~At(r, "working") /\ ~At(r, "generating") /\ ~At(r, "erasing") /\ talk[r].did = << >>
  BY BusyFacts, RequestFacts DEF ConversationInv, Memories, Busy, At
<1>2. CASE PutQuestion(r, "memory")
  BY <1>1, <1>2, PutQuestionInv
<1>3. ASSUME NEW key \in MemoryKeys, Tried(r, "remember", [mind EXCEPT !.facts = @ \cup {key}], "answer")
      PROVE  ConversationInv'
  <2>1. /\ [mind EXCEPT !.facts = @ \cup {key}] \in MindType
        /\ [mind EXCEPT !.facts = @ \cup {key}].asks = mind.asks
    BY <1>1 DEF MindType
  <2> QED BY <1>1, <1>3, <2>1, TriedQuietly DEF DeedNames
<1>4. CASE /\ \E key \in mind.facts \cup {mind.about} : mind' = [mind EXCEPT !.about = key]
           /\ Replies(r, "answer")
  <2>1. mind' \in MindType /\ mind'.asks = mind.asks
    BY <1>1, <1>4 DEF MindType
  <2>2. Quiet
    BY <1>1, <2>1, MindIsQuiet
  <2> QED BY <1>1, <1>4, <2>2, EndsQuietly DEF Replies, DeedLists
<1> QED BY <1>2, <1>3, <1>4 DEF Memories

\* The reminder at the time the text names.
LEMMA FindReminderInv ==
  ASSUME ConversationInv, NEW r \in Asks, FindReminder(r)
  PROVE  ConversationInv'
<1>1. At(r, "normal") /\ Busy(r) /\ UNCHANGED <<mind, lessons, up>> /\ mind \in MindType
      /\ ~At(r, "working") /\ ~At(r, "generating") /\ talk[r].did = << >> /\ Quiet
  BY BusyFacts, RequestFacts, NothingIsQuiet DEF ConversationInv, FindReminder, Busy, At
<1>2. CASE Replies(r, "answer")
  BY <1>1, <1>2, EndsQuietly DEF Replies, DeedLists
<1>3. ASSUME NEW id \in mind.reminders, talk' = [talk EXCEPT ![r].at = "cancelling", ![r].key = id]
      PROVE  ConversationInv'
  <2>1. id \in MemoryKeys \cup Asks
    BY <1>1 DEF MindType
  <2> QED BY <1>1, <1>3, <2>1, FindsKey
<1> QED BY <1>2, <1>3 DEF FindReminder

\* It is cancelled by its id.
LEMMA CancelReminderInv ==
  ASSUME ConversationInv, NEW r \in Asks, CancelReminder(r)
  PROVE  ConversationInv'
<1> DEFINE after == [mind EXCEPT !.reminders = @ \ {talk[r].key}]
<1>1. At(r, "cancelling") /\ Busy(r) /\ UNCHANGED <<lessons, up>> /\ mind \in MindType
      /\ ~At(r, "working") /\ ~At(r, "generating")
  BY RequestFacts DEF ConversationInv, CancelReminder, Busy, At
<1>2. after \in MindType /\ after.asks = mind.asks
  BY <1>1 DEF MindType
<1> QED BY <1>1, <1>2, TriedQuietly DEF CancelReminder, DeedNames

\* A request asks its providers, or those that are left.
LEMMA AsksOn ==
  ASSUME ConversationInv, Quiet, NEW r \in Asks, At(r, "normal") \/ At(r, "generating"),
         NEW order \in Orders, NEW did \in ToolLists, did # << >> => order = << >>,
         talk' = [talk EXCEPT ![r] = [talk[r] EXCEPT !.at = "generating", !.order = order, !.did = did]]
  PROVE  ConversationInv'
<1> DEFINE new == [talk[r] EXCEPT !.at = "generating", !.order = order, !.did = did]
<1>1. /\ Busy(r) /\ talk[r] \in RequestType /\ DOMAIN talk[r].results = {} /\ talk[r].reply = "none"
  BY BusyFacts DEF Busy, At
<1>2. did \in DeedLists
  BY DEF ToolLists, DeedLists, DeedNames
<1>3. new \in RequestType
  BY <1>1, <1>2 DEF RequestType
<1>4. /\ new.at = "generating" /\ new.did = did /\ new.order = order /\ new.channel = talk[r].channel
      /\ new.results = talk[r].results /\ new.reply = talk[r].reply /\ new.of = talk[r].of
  BY <1>1 DEF RequestType
<1> HIDE DEF new
<1>5. Proper(new)
  BY <1>1, <1>4 DEF Proper
<1>6. ~Erases(new)
  <2>1. did # <<"erase">>
    BY DEF ToolLists
  <2> QED BY <1>4, <2>1 DEF Erases
<1> QED BY <1>1, <1>3, <1>4, <1>5, <1>6, MovesOn DEF new

\* A list of two.
LEMMA PairFacts == ASSUME NEW x, NEW y PROVE <<x>> \o <<y>> = <<x, y>>
<1> DEFINE S == {x, y}
<1>1. /\ <<x>> \in Seq(S) /\ <<y>> \in Seq(S) /\ <<x, y>> \in Seq(S)
      /\ Len(<<x>>) = 1 /\ Len(<<y>>) = 1 /\ Len(<<x, y>>) = 2
  OBVIOUS
<1>2. <<x>> \o <<y>> \in Seq(S) /\ Len(<<x>> \o <<y>>) = 2
  BY <1>1, ConcatProperties
<1>3. (<<x>> \o <<y>>)[1] = x /\ (<<x>> \o <<y>>)[2] = y
  OBVIOUS
<1>4. <<x, y>>[1] = x /\ <<x, y>>[2] = y
  OBVIOUS
<1>5. \A i \in 1 .. 2 : i = 1 \/ i = 2
  OBVIOUS
<1> HIDE DEF S
<1> QED BY <1>1, <1>2, <1>3, <1>4, <1>5, SeqEqual

\* The providers' order, and what is left of it.
LEMMA OrderFacts ==
  /\ Ordered \in Orders
  /\ \A order \in Orders : order # << >> => Tail(order) \in Orders
  /\ \A order \in Orders : order # << >> /\ Head(order) = "groq" => Tail(order) = << >>
<1>1. Ordered \in Orders
  <2>1. <<"gemini">> \o <<"groq">> = <<"gemini", "groq">>
    BY PairFacts
  <2>2. <<"gemini">> \o << >> = <<"gemini">> /\ << >> \o <<"groq">> = <<"groq">>
    OBVIOUS
  <2>3. << >> \o << >> = << >>
    OBVIOUS
  <2> QED BY <2>1, <2>2, <2>3 DEF Ordered, Orders
<1>2. /\ Tail(<<"gemini">>) = << >> /\ Tail(<<"groq">>) = << >>
      /\ Tail(<<"gemini", "groq">>) = <<"groq">>
  OBVIOUS
<1>3. Head(<<"gemini", "groq">>) = "gemini" /\ Head(<<"gemini">>) = "gemini"
  OBVIOUS
<1> QED BY <1>1, <1>2, <1>3 DEF Orders

\* ordered: they are asked.
LEMMA AskProvidersInv ==
  ASSUME ConversationInv, NEW r \in Asks, AskProviders(r)
  PROVE  ConversationInv'
<1>1. /\ At(r, "normal") /\ Busy(r) /\ Quiet /\ talk[r].did = << >>
      /\ talk \in [Asks -> RequestType] /\ talk[r] \in RequestType
  BY BusyFacts, RequestFacts, NothingIsQuiet DEF ConversationInv, AskProviders, Busy, At
<1>2. talk' = [talk EXCEPT ![r] = [talk[r] EXCEPT !.at = "generating", !.order = Ordered, !.did = << >>]]
  BY <1>1 DEF AskProviders, RequestType
<1> QED BY <1>1, <1>2, OrderFacts, AsksOn DEF ToolLists

\* A provider that fails, and one that answers.
LEMMA ProviderEnds ==
  ASSUME ConversationInv, Quiet, NEW r \in Asks, NEW p \in Providers, Asking(r, p), NEW did \in ToolLists,
         did # << >> => p = "groq",
         Unavailable(r, did) \/ Available(r, did)
  PROVE  ConversationInv'
<1>1. /\ At(r, "generating") /\ Busy(r) /\ ~At(r, "working")
      /\ talk \in [Asks -> RequestType] /\ talk[r] \in RequestType
      /\ talk[r].order \in Orders /\ talk[r].order # << >> /\ Head(talk[r].order) = p
  BY RequestFacts DEF ConversationInv, Asking, Busy, At, RequestType
<1>2. CASE Unavailable(r, did)
  <2>1. talk' = [talk EXCEPT ![r] = [talk[r] EXCEPT !.at = "generating", !.order = Tail(talk[r].order), !.did = did]]
    BY <1>1, <1>2 DEF Unavailable, At, RequestType
  <2>2. Tail(talk[r].order) \in Orders /\ (did # << >> => Tail(talk[r].order) = << >>)
    BY <1>1, OrderFacts
  <2> QED BY <1>1, <2>1, <2>2, AsksOn
<1>3. CASE Available(r, did)
  <2>1. did \in DeedLists /\ did # <<"grade">> /\ did # <<"erase">>
    BY DEF ToolLists, DeedLists, DeedNames
  <2>2. Ended(r, did, "answer")
    BY <1>3 DEF Available
  <2> QED BY <1>1, <2>1, <2>2, EndsQuietly
<1> QED BY <1>2, <1>3

\* Whatever calls a model makes, its tools are executed once each.
LEMMA ExecutableFacts ==
  ASSUME NEW calls
  PROVE  Executable(calls) \in ToolLists
<1>1. <<"set">> \o <<"cancel">> = <<"set", "cancel">>
  BY PairFacts
<1>2. <<"set">> \o << >> = <<"set">> /\ << >> \o <<"cancel">> = <<"cancel">>
  OBVIOUS
<1>3. << >> \o << >> = << >>
  OBVIOUS
<1> QED BY <1>1, <1>2, <1>3 DEF Executable, ToolLists

\* call_gemini_via_n8n.
LEMMA GeminiInv ==
  ASSUME ConversationInv, NEW r \in Asks, Gemini(r)
  PROVE  ConversationInv'
<1>1. up \subseteq Providers /\ "gemini" \in Providers /\ At(r, "generating") /\ Busy(r)
  BY RequestFacts DEF ConversationInv, Providers, Gemini, Asking, Busy, At
<1>2. Quiet
  <2>1. up' \subseteq Providers /\ UNCHANGED <<mind, lessons>>
    BY <1>1 DEF Gemini
  <2> QED BY <2>1, NothingIsQuiet
<1>3. talk[r].did = << >>
  BY <1>1, RequestFacts DEF ConversationInv, Proper, Gemini, Asking, At
<1>4. << >> \in ToolLists /\ Asking(r, "gemini") /\ (Unavailable(r, << >>) \/ Available(r, << >>))
  BY <1>3 DEF Gemini, ToolLists
<1> QED BY <1>1, <1>2, <1>4, ProviderEnds

\* handle_normal_message.
LEMMA GroqInv ==
  ASSUME ConversationInv, NEW r \in Asks, Groq(r)
  PROVE  ConversationInv'
<1>1. up \subseteq Providers /\ "groq" \in Providers /\ At(r, "generating") /\ Busy(r) /\ mind \in MindType
  BY RequestFacts DEF ConversationInv, Providers, Groq, Asking, Busy, At
<1>2. talk[r].did = << >>
  BY <1>1, RequestFacts DEF ConversationInv, Proper, Groq, Asking, At
<1>3. PICK did \in ToolLists :
        /\ Unavailable(r, did) \/ Available(r, did)
        /\ mind' = mind \/ mind' \in Called(r, did)
  <2>1. CASE Unavailable(r, talk[r].did) /\ UNCHANGED mind
    BY <1>2, <2>1 DEF ToolLists
  <2>2. CASE \E calls \in UNION {[1 .. n -> Tools] : n \in 0 .. Calls} :
               LET did == Executable(calls)
               IN  /\ \E after \in Called(r, did) :
                        Cardinality(mind.reminders \ after.reminders) <= 1 /\ mind' = after
                   /\ \/ up' = up \ {"groq"} /\ did # << >> /\ Unavailable(r, did)
                      \/ up' = up \cup {"groq"} /\ Available(r, did)
    <3>1. PICK calls : /\ \E after \in Called(r, Executable(calls)) : mind' = after
                       /\ Unavailable(r, Executable(calls)) \/ Available(r, Executable(calls))
      BY <2>2
    <3> QED BY <3>1, ExecutableFacts
  <2> QED BY <2>1, <2>2 DEF Groq
<1>4. mind' \in MindType /\ mind'.asks = mind.asks
  <2>1. ASSUME NEW gone \in SUBSET mind.reminders, NEW made \in SUBSET {r},
               mind' = [mind EXCEPT !.reminders = (@ \ gone) \cup made]
        PROVE  mind' \in MindType /\ mind'.asks = mind.asks
    BY <1>1, <2>1 DEF MindType
  <2>2. CASE mind' \in Called(r, did)
    <3>1. PICK gone \in SUBSET mind.reminders, made \in SUBSET {r} :
            mind' = [mind EXCEPT !.reminders = (@ \ gone) \cup made]
      BY <2>2 DEF Called
    <3> QED BY <2>1, <3>1
  <2> QED BY <1>1, <1>3, <2>2
<1>5. Quiet
  <2>1. up' \subseteq Providers /\ UNCHANGED lessons
    BY <1>1 DEF Groq
  <2> QED BY <1>4, <2>1 DEF ConversationInv, Quiet, LessonsInv
<1> QED BY <1>1, <1>3, <1>5, ProviderEnds DEF Groq

\* No provider is left.
LEMMA ExhaustedInv ==
  ASSUME ConversationInv, NEW r \in Asks, Exhausted(r)
  PROVE  ConversationInv'
<1>1. /\ At(r, "generating") /\ Busy(r) /\ ~At(r, "working") /\ Quiet /\ talk[r].did \in ToolLists
      /\ Ended(r, talk[r].did, "answer")
  BY BusyFacts, RequestFacts, NothingIsQuiet DEF ConversationInv, Exhausted, Replies, Busy, At
<1>2. talk[r].did \in DeedLists /\ talk[r].did # <<"grade">> /\ talk[r].did # <<"erase">>
  <2>1. ToolLists \subseteq DeedLists
    BY DEF ToolLists, DeedLists, DeedNames
  <2>2. <<"grade">> \notin ToolLists /\ <<"erase">> \notin ToolLists
    BY DEF ToolLists
  <2> QED BY <1>1, <2>1, <2>2
<1> QED BY <1>1, <1>2, EndsQuietly

\* No request is touched.
LEMMA UntouchedInv ==
  ASSUME ConversationInv, UNCHANGED <<talk, mind, lessons>>, up' \subseteq Providers
  PROVE  ConversationInv'
<1>1. RequestsInv'
  BY DEF ConversationInv, RequestsInv
<1>2. Erasing' = Erasing /\ Asked' = Asked
  BY DEF Erasing, Asked
<1>3. ErasesInv'
  BY <1>2 DEF ConversationInv, ErasesInv
<1>4. LessonsInv'
  BY DEF ConversationInv, LessonsInv
<1> QED BY <1>1, <1>3, <1>4 DEF ConversationInv

\* The invariant holds before anything is sent.
LEMMA ConversationInvInit == ConversationInit => ConversationInv
<1> SUFFICES ASSUME ConversationInit PROVE ConversationInv
  OBVIOUS
<1>1. << >> \in PlanResults /\ DOMAIN << >> = {}
  <2>1. << >> \in [{} -> Answers] /\ {} \in SUBSET Supported
    OBVIOUS
  <2> QED BY <2>1 DEF PlanResults
<1>2. Unsent \in RequestType
  BY <1>1 DEF Unsent, RequestType, Orders, DeedLists
<1>3. Proper(Unsent) /\ ~Erases(Unsent) /\ ~AskedIt(Unsent) /\ ~OnLine(Unsent) /\ ~Graded(Unsent)
  BY <1>1 DEF Unsent, Proper, Erases, AskedIt, OnLine, Graded, ToolLists
<1>4. talk = [r \in Asks |-> Unsent] /\ mind \in MindType /\ mind.asks = {} /\ up \subseteq Providers
  BY DEF ConversationInit, MindType, MemoryKeys
<1>5. RequestsInv
  BY <1>2, <1>3, <1>4 DEF RequestsInv
<1>6. Erasing = {} /\ Asked = {}
  BY <1>3, <1>4 DEF Erasing, Asked
<1>7. ErasesInv
  BY <1>4, <1>6, FS_EmptySet DEF ErasesInv
<1>8. LessonsInv
  <2>1. \A r \in Asks : talk[r] = Unsent /\ talk[r].at = "unsent"
    BY <1>4 DEF Unsent
  <2>2. lessons = [c \in Channels |-> [asked |-> 0, open |-> 0, turns |-> 0]]
    BY DEF ConversationInit
  <2>3. lessons \in LessonsType /\ \A c \in Channels : lessons[c].open \in {0, lessons[c].asked}
    BY <2>2 DEF LessonsType
  <2> QED BY <1>3, <2>1, <2>3 DEF LessonsInv
<1> QED BY <1>5, <1>7, <1>8 DEF ConversationInv

\* It is inductive.
LEMMA ConversationInvStep == ConversationInv /\ [ConversationNext]_conversationVars => ConversationInv'
<1>1. ASSUME ConversationInv, UNCHANGED conversationVars PROVE ConversationInv'
  BY <1>1, UntouchedInv DEF conversationVars, ConversationInv, RequestsInv
<1>2. ASSUME ConversationInv, NEW p \in Providers, Cooled(p) PROVE ConversationInv'
  BY <1>2, UntouchedInv DEF Cooled, ConversationInv, RequestsInv
<1>3. ASSUME ConversationInv, NEW r \in Asks,
             \/ \E channel \in Channels, m \in Sendable(r) : Receive(r, channel, m)
             \/ Gateway(r) \/ Route(r) \/ CheckPlan(r) \/ Combine(r) \/ Distributed(r) \/ Weather(r)
             \/ \E d \in Supported : Specialist(r, d)
      PROVE  ConversationInv'
  BY <1>3, ReceiveInv, GatewayInv, RouteInv, CheckPlanInv, CombineInv, DistributedInv, WeatherInv, SpecialistInv
<1>4. ASSUME ConversationInv, NEW r \in Asks,
             \/ StartQuiz(r) \/ ReadQuestion(r) \/ Grade(r) \/ ReadProfile(r) \/ WriteProfile(r)
             \/ Notes(r) \/ Confirm(r) \/ EraseNotes(r)
             \/ FindTarget(r) \/ Forget(r) \/ Memories(r)
             \/ FindReminder(r) \/ CancelReminder(r)
             \/ AskProviders(r) \/ Gemini(r) \/ Groq(r) \/ Exhausted(r)
      PROVE  ConversationInv'
  BY <1>4, StartQuizInv, ReadQuestionInv, GradeInv, ReadProfileInv, WriteProfileInv, NotesInv, ConfirmInv,
     EraseNotesInv, FindTargetInv, ForgetInv, MemoriesInv, FindReminderInv, CancelReminderInv,
     AskProvidersInv, GeminiInv, GroqInv, ExhaustedInv
<1> QED BY <1>1, <1>2, <1>3, <1>4 DEF ConversationNext

\* How often a deed is in a list of deeds.
LEMMA DeedFacts ==
  ASSUME NEW did \in DeedLists, NEW deed
  PROVE  LET n == Cardinality({i \in DOMAIN did : did[i] = deed})
         IN  /\ n \in 0 .. 1
             /\ n > 0 <=> \E i \in DOMAIN did : did[i] = deed
<1> DEFINE found == {i \in DOMAIN did : did[i] = deed}
<1>1. \A i, j \in DOMAIN did : did[i] = did[j] => i = j
  BY DEF DeedLists
<1>2. CASE found = {}
  BY <1>2, FS_EmptySet
<1>3. CASE found # {}
  <2>1. PICK i \in found : TRUE
    BY <1>3
  <2>2. found = {i}
    BY <1>1, <2>1
  <2>3. Cardinality(found) = 1
    <3> HIDE DEF found
    <3> QED BY <2>2, FS_Singleton
  <2>4. \E k \in DOMAIN did : did[k] = deed
    BY <2>1
  <2> QED BY <2>3, <2>4
<1> QED BY <1>2, <1>3

\* The invariant says what ActsOnce, WholePlanOrNone and the type invariant say.
LEMMA ConversationShows == ConversationInv => ActsOnce /\ WholePlanOrNone /\ ConversationTypeOK
<1> SUFFICES ASSUME ConversationInv PROVE ActsOnce /\ WholePlanOrNone /\ ConversationTypeOK
  OBVIOUS
<1>1. \A r \in Asks : talk[r] \in RequestType /\ Proper(talk[r]) /\ talk[r].did \in DeedLists
  BY RequestFacts DEF ConversationInv, RequestType
<1>2. ASSUME NEW r \in Asks, NEW deed
      PROVE  /\ Deeds(r, deed) \in 0 .. 1
             /\ Deeds(r, deed) > 0 <=> \E i \in DOMAIN talk[r].did : talk[r].did[i] = deed
  BY <1>1, DeedFacts DEF Deeds
<1>3. ASSUME NEW r \in Asks, NEW deed \in {"erase", "ask", "grade"}
      PROVE  r \in Did(deed) <=> talk[r].did = <<deed>>
  <2>1. talk[r].did \in DeedLists
    BY <1>1
  <2>2. (\E i \in DOMAIN talk[r].did : talk[r].did[i] = deed) <=> talk[r].did = <<deed>>
    BY <2>1 DEF DeedLists
  <2> QED BY <1>2, <2>2 DEF Did
<1>4. \A r \in Asks : Deeds(r, "set") <= 1 /\ Deeds(r, "cancel") <= 1
  BY <1>2
<1>5. Cardinality(Did("erase")) <= Cardinality({r \in Did("ask") : Says(r, {"erase_notes"})})
  <2>1. Did("erase") \subseteq Erasing
    BY <1>3 DEF Erasing, Erases, Did
  <2>2. {r \in Did("ask") : Says(r, {"erase_notes"})} = Asked
    BY <1>3 DEF Asked, AskedIt, Says, Did
  <2>3. IsFiniteSet(Asked) /\ IsFiniteSet(Erasing)
    BY ConversationAssumption, FS_Subset DEF Asked, Erasing
  <2>4. /\ Cardinality(Did("erase")) <= Cardinality(Erasing) /\ Cardinality(Did("erase")) \in Nat
        /\ Cardinality(Erasing) \in Nat /\ Cardinality(Asked) \in Nat
    BY <2>1, <2>3, FS_Subset, FS_CardinalityType
  <2>5. Cardinality(Erasing) <= Cardinality(Asked)
    BY <2>4 DEF ConversationInv, ErasesInv
  <2> QED BY <2>2, <2>4, <2>5
<1>6. \A r, s \in Did("grade") : r # s /\ talk[r].channel = "line" /\ talk[s].channel = "line" =>
        talk[r].seen # talk[s].seen
  BY <1>3 DEF ConversationInv, LessonsInv, Graded, Did
<1>7. ActsOnce
  BY <1>4, <1>5, <1>6 DEF ActsOnce
<1>8. WholePlanOrNone
  BY <1>1 DEF WholePlanOrNone, Proper
<1>9. ConversationTypeOK
  <2>1. \A r \in Asks : DOMAIN talk[r].results \subseteq Supported
    BY <1>1 DEF RequestType, PlanResults
  <2>2. mind \in MindType /\ up \subseteq Providers
    BY DEF ConversationInv, RequestsInv
  <2> QED BY <2>1, <2>2 DEF ConversationTypeOK, MindType, ConversationInv, LessonsInv
<1> QED BY <1>7, <1>8, <1>9

-----------------------------------------------------------------------------
(* All of them *)

\* What a run says of its own state.
LEMMA RuntimeShows == RuntimeInv => GateFollowsRepair /\ RuntimeTypeOK
  BY DEF RuntimeInv, Phases, TeamType, RuntimeTypeOK

\* What the desk says of its own state.
LEMMA DeskShows == DeskInv => NothingRunsTwice /\ PlanIsKept /\ ManagementTypeOK
  BY DEF DeskInv, Progress, DeskType, ManagementTypeOK

SecretaryInv == PipelineInv /\ DeskInv /\ RuntimeInv /\ HistoryInv /\ ConversationInv

\* Whichever program takes a step keeps its invariant, and the others theirs.
LEMMA SecretaryInvHolds == Spec => []SecretaryInv
<1>1. Init => SecretaryInv
  BY PipelineInvInit, DeskInvInit, RuntimeInvInit, HistoryInvInit, ConversationInvInit
     DEF Init, SecretaryInv
<1>2. SecretaryInv /\ [Next]_vars => SecretaryInv'
  <2> SUFFICES ASSUME SecretaryInv, [Next]_vars PROVE SecretaryInv'
    OBVIOUS
  <2>1. /\ [RepairNext]_repairVars /\ [ManagementNext]_desk /\ [RuntimeNext]_team
        /\ [ImprovementNext]_improvementVars /\ [ConversationNext]_conversationVars
    BY DEF Next, vars, RepairStep, ManagementStep, RuntimeStep, ImprovementStep, ConversationStep,
           repairVars, improvementVars, conversationVars
  <2> QED BY <2>1, PipelineInvStep, DeskInvStep, RuntimeInvStep, HistoryInvStep, ConversationInvStep
             DEF SecretaryInv
<1> QED BY <1>1, <1>2, PTL DEF Spec

\* Every program keeps to its type, whichever of them runs.
THEOREM SecretaryTypes == Spec => []TypeOK
<1>1. SecretaryInv => TypeOK
  BY PipelineShows, DeskShows, RuntimeShows, HistoryShows, ConversationShows DEF SecretaryInv, TypeOK
<1> QED BY <1>1, SecretaryInvHolds, PTL

\* What an undisturbed repair commits is, of its patch, the files its candidates name, as
\* tested, on its own branch; and a repair of the night that reports success has committed
\* something of its own.
THEOREM PatchIsCommitted == Spec => []CommitsItsPatch
<1>1. SecretaryInv => CommitsItsPatch
  BY PipelineShows DEF SecretaryInv
<1> QED BY <1>1, SecretaryInvHolds, PTL

\* No specialist works twice for a message: nothing has run when the message goes on to the
\* legacy route or is refused, no task is in two batches, and whoever works was asked for,
\* approved and registered.
THEOREM MessagesWorkOnce == Spec => []NothingRunsTwice
<1>1. SecretaryInv => NothingRunsTwice
  BY DeskShows DEF SecretaryInv
<1> QED BY <1>1, SecretaryInvHolds, PTL

\* A task runs behind all it depends on and beside none it conflicts with, and a combined
\* reply is one of every specialist.
THEOREM PlansAreKept == Spec => []PlanIsKept
<1>1. SecretaryInv => PlanIsKept
  BY DeskShows DEF SecretaryInv
<1> QED BY <1>1, SecretaryInvHolds, PTL

\* A run that reports itself ready was tested, reviewed and passed by the gate, in this
\* order, behind its last repair.
THEOREM GatesFollowRepairs == Spec => []GateFollowsRepair
<1>1. SecretaryInv => GateFollowsRepair
  BY RuntimeShows DEF SecretaryInv
<1> QED BY <1>1, SecretaryInvHolds, PTL

\* What the cycles persist is always valid, holds no raw text and remembers no run twice.
THEOREM HistoriesAreClean == Spec => []HistoryIsClean
<1>1. SecretaryInv => HistoryIsClean
  BY HistoryShows DEF SecretaryInv
<1> QED BY <1>1, SecretaryInvHolds, PTL

\* A request is acted upon once, however many providers tried it: notes are erased no
\* more often than it was asked, and no question of a lesson is graded twice.
THEOREM RequestsActOnce == Spec => []ActsOnce
<1>1. SecretaryInv => ActsOnce
  BY ConversationShows DEF SecretaryInv
<1> QED BY <1>1, SecretaryInvHolds, PTL

\* A request for several specialists that ends in an error ran none of them, or all.
THEOREM PlansAreWhole == Spec => []WholePlanOrNone
<1>1. SecretaryInv => WholePlanOrNone
  BY ConversationShows DEF SecretaryInv
<1> QED BY <1>1, SecretaryInvHolds, PTL
==============================================================================
