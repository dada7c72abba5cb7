------------------------------ MODULE Management ------------------------------
(***************************************************************************)
(* One message for at least two specialists: the management bridge, the    *)
(* planner's model and its checks, the scheduler, the specialists and the  *)
(* result mailbox.  A message that the management does not answer goes on  *)
(* to the graph of the core ("legacy"), which runs a specialist itself.    *)
(***************************************************************************)
EXTENDS Naturals, TaskGraphs, AgentMail

CONSTANTS
  Roles,        \* the specialists of specialist_roles_for_message
  OtherRoles,   \* the other roles a plan may name
  Resources,
  TaskIds,      \* the ids the model may give its tasks
  MaxTasks,     \* 6 in the code
  MaxMessages   \* 200 in the code

ASSUME ManagementAssumption ==
  /\ TaskIds \cap Roles = {} /\ Roles \cap OtherRoles = {}
  /\ MaxTasks \in Nat \ {0} /\ MaxMessages \in Nat \ {0}

VARIABLE desk   \* the request: where it is, the plan, what ran, and the reply

NoPlan == << >>

Closed == [at |-> "idle", detected |-> {}, approved |-> {}, registered |-> {}, plan |-> NoPlan,
           ran |-> << >>, succeeded |-> {}, box |-> << >>, posts |-> << >>, reply |-> "none"]

\* The boundaries of the capability gate and the core's registry.
ManagementInit ==
  \E approved, registered \in SUBSET Roles :
    desk = [Closed EXCEPT !.approved = approved, !.registered = registered]

ReplyWith(reply)  == [desk EXCEPT !.at = "end", !.reply = reply]
Legacy            == ReplyWith("legacy")
ExecutionFailure  == ReplyWith("failure")

-----------------------------------------------------------------------------
(* The gate and the executors                                              *)

\* assert_all_approved: all or nothing, before anything runs.
AllApproved(roles) == roles \subseteq desk.approved

\* build_registry_executors, approved_executors
Executors == desk.approved \cap desk.registered

\* run_management_request up to the planner; specialist_roles_for_message is the words
\* of the message.
Detect(detected) ==
  /\ desk.at = "idle"
  /\ desk' = LET asked == [desk EXCEPT !.detected = detected]
             IN  IF ~AllApproved(detected) /\ ~(Cardinality(detected) < 2)
                 THEN [asked EXCEPT !.at = "end", !.reply = "denied"]
                 ELSE IF Cardinality(detected) < 2 \/ Executors = {}
                 THEN [asked EXCEPT !.at = "end", !.reply = "legacy"]
                 ELSE [asked EXCEPT !.at = "planning"]

-----------------------------------------------------------------------------
(* The plan                                                                *)

\* What ModelManagementPlanner makes of an answer: an error, or a valid graph of at most
\* MaxTasks tasks for any plannable roles.
Tasks      == [role : Roles \cup OtherRoles, resources : SUBSET Resources, deps : SUBSET TaskIds]
ModelPlans == {plan \in UNION {[ids -> Tasks] : ids \in {I \in SUBSET TaskIds :
                                                   Cardinality(I) \in 1 .. MaxTasks}} :
                 GraphIsValid(plan)}

\* _CandidateRestrictedPlanner: without the tasks for other roles and the tasks that
\* depend on one directly; what depends on those in turn stays.
Filtered(plan) ==
  LET unexpected == {t \in DOMAIN plan : plan[t].role \notin desk.detected}
      kept       == {t \in DOMAIN plan \ unexpected : plan[t].deps \cap unexpected = {}}
  IN  [t \in kept |-> plan[t]]

\* One task of its own, on a resource of its own, for a role left without any.
Missing(plan) == desk.detected \ {plan[t].role : t \in DOMAIN plan}
Fallback(role) == [role |-> role, resources |-> {role}, deps |-> {}]
Restricted(plan) ==
  LET kept == Filtered(plan)
  IN  [t \in DOMAIN kept \cup Missing(kept) |->
         IF t \in DOMAIN kept THEN kept[t] ELSE Fallback(t)]

\* groq_management_call, _parse_json, _validate: the model's failures all end here, with
\* nothing run, and leave the message to the legacy route.
PlanningError ==
  /\ desk.at = "planning"
  /\ desk' = Legacy

\* The restricted plan: its roles once more at the gate; one of more than MaxTasks tasks,
\* or of a task without a task it depends on, is an error of the execution.
Plan(answer) ==
  /\ desk.at = "planning"
  /\ LET plan == Restricted(answer)
     IN  desk' = IF Cardinality(DOMAIN plan) > MaxTasks THEN ExecutionFailure
                 ELSE IF ~AllApproved({plan[t].role : t \in DOMAIN plan}) THEN ReplyWith("denied")
                 ELSE IF ~GraphIsValid(plan) THEN [ExecutionFailure EXCEPT !.plan = plan]
                 ELSE [desk EXCEPT !.at = "executing", !.plan = plan]

-----------------------------------------------------------------------------
(* The scheduler and the specialists                                       *)

Scheduled == UNION {desk.ran[i] : i \in DOMAIN desk.ran}

\* RegistrySpecialistExecutor.execute: what an agent raises and an empty answer are a
\* failure; something that is no response raises, as a result _validate_result refuses.
Executed == {"ok", "failed", "raised"}

\* Mutant: an execution error sends the message on, as a planning error does.
RetriedRunBatch(batch) ==
  /\ desk.at = "executing"
  /\ batch \in Batches(desk.plan, Scheduled)
  /\ \E results \in [batch -> Executed] :
       LET after == [desk EXCEPT !.ran = Append(@, batch)]
       IN  desk' = IF \E t \in batch : results[t] = "raised" THEN [after EXCEPT !.at = "end", !.reply = "legacy"]
                   ELSE [after EXCEPT !.at = "posting", !.succeeded = @ \cup {t \in batch : results[t] = "ok"}]

\* _run_batch: every task of a batch runs, whatever becomes of the others; a missing
\* executor stops the run before its batch, a result that is not one after it.
RunBatch(batch) ==
  /\ desk.at = "executing"
  /\ batch \in Batches(desk.plan, Scheduled)
  /\ IF \E t \in batch : desk.plan[t].role \notin Executors
     THEN desk' = ExecutionFailure
     ELSE \E results \in [batch -> Executed] :
            LET good  == {t \in batch : results[t] = "ok"}
                after == [desk EXCEPT !.ran = Append(@, batch), !.succeeded = @ \cup good]
            IN  desk' = IF \E t \in batch : results[t] = "raised"
                        THEN [after EXCEPT !.at = "end", !.reply = "failure"]
                        ELSE IF good = batch /\ Scheduled \cup batch # DOMAIN desk.plan
                        THEN after
                        ELSE [after EXCEPT !.at = "posting"]

-----------------------------------------------------------------------------
(* The mailbox and the reply                                               *)

\* ManagementAI.run: each result to the management's mailbox, under the sender's own name.
Observation(t, long) ==
  [sender |-> desk.plan[t].role, recipient |-> Management, type |-> "task_result",
   constraints |-> ResultConstraints, task |-> t, long |-> long]

Reported(t) == \E i \in DOMAIN desk.posts : desk.posts[i].task = t
Unposted    == {t \in Scheduled : ~Reported(t)}

\* A message that may not be sent raises, after everything ran.
Post(t, long) ==
  /\ desk.at = "posting" /\ t \in Unposted
  /\ \A s \in Unposted \ {t} : \A i, j \in DOMAIN desk.ran :
       t \in desk.ran[i] /\ s \in desk.ran[j] => i <= j
  /\ LET m == Observation(t, long)
     IN  desk' = IF Enveloped(m) /\ RouteAllowed(m)
                 THEN [desk EXCEPT !.box = Posted(@, m, MaxMessages), !.posts = Append(@, m)]
                 ELSE ExecutionFailure

\* The parts of all specialists, or the failure text.
Reply ==
  /\ desk.at = "posting" /\ Unposted = {}
  /\ desk' = IF Scheduled = desk.succeeded THEN ReplyWith("combined") ELSE ExecutionFailure

ManagementNext ==
  \/ \E detected \in SUBSET Roles : Detect(detected)
  \/ PlanningError
  \/ desk.at = "planning" /\ \E answer \in ModelPlans : Plan(answer)
  \/ desk.at = "executing" /\ \E batch \in SUBSET DOMAIN desk.plan : RunBatch(batch)
  \/ \E t \in Unposted, long \in BOOLEAN : Post(t, long)
  \/ Reply

-----------------------------------------------------------------------------
ManagementTypeOK ==
  /\ desk.at \in {"idle", "planning", "executing", "posting", "end"}
  /\ desk.reply \in {"none", "legacy", "denied", "failure", "combined"}
  /\ desk.succeeded \subseteq Scheduled /\ Scheduled \subseteq DOMAIN desk.plan
  /\ Len(desk.box) <= MaxMessages

\* No specialist works for a message that goes on to the legacy route, which would run it
\* again, or that the gate refused; and none the message did not ask for, none that is not
\* approved, works at all.
NothingRunsTwice ==
  /\ desk.reply \in {"legacy", "denied"} => desk.ran = << >>
  /\ \A i, j \in DOMAIN desk.ran : i # j => desk.ran[i] \cap desk.ran[j] = {}
  /\ \A t \in Scheduled : desk.plan[t].role \in desk.detected \cap Executors

\* A task runs after all it depends on succeeded, never beside one it shares a resource
\* with; a combined reply has a successful part of every specialist the message asked for.
PlanIsKept ==
  /\ \A i \in DOMAIN desk.ran : \A t \in desk.ran[i] :
       /\ desk.plan[t].deps \subseteq desk.succeeded \cap UNION {desk.ran[j] : j \in 1 .. i - 1}
       /\ \A s \in desk.ran[i] \ {t} : ~Conflict(desk.plan[s], desk.plan[t])
  /\ desk.reply = "combined" => {desk.plan[t].role : t \in desk.succeeded} = desk.detected
=============================================================================
