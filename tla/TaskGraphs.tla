------------------------------ MODULE TaskGraphs ------------------------------
(***************************************************************************)
(* core/multi_agent.py: tasks, their dependencies and resources, and the   *)
(* batches plan_batches makes of them.  A plan is a function from task ids *)
(* to tasks [role, resources, deps].                                       *)
(*                                                                         *)
(* Priorities are left out: they order the ready tasks of a round, so a    *)
(* batch is any maximal set of ready tasks that share no resource.         *)
(***************************************************************************)
EXTENDS FiniteSets

\* resources_conflict
Conflict(left, right) == left.resources \cap right.resources # {}

\* AgentTask and the first half of plan_batches: a task depends on other tasks of the
\* plan, and on none in a circle.
GraphIsValid(plan) ==
  /\ plan # << >>
  /\ \A t \in DOMAIN plan : plan[t].deps \subseteq DOMAIN plan \ {t}
  /\ \A S \in (SUBSET DOMAIN plan) \ {{}} : \E t \in S : plan[t].deps \cap S = {}

\* Mutant: a task is ready whatever it depends on.
ReadyAtOnce(plan, done) == {t \in DOMAIN plan \ done : TRUE}

Ready(plan, done) == {t \in DOMAIN plan \ done : plan[t].deps \subseteq done}

\* plan_batches: what may be the next batch once the tasks `done` are in earlier ones.
Batches(plan, done) ==
  LET ready == Ready(plan, done)
  IN  {B \in (SUBSET ready) \ {{}} :
         /\ \A s, t \in B : s # t => ~Conflict(plan[s], plan[t])
         /\ \A t \in ready \ B : \E s \in B : Conflict(plan[s], plan[t])}
=============================================================================
