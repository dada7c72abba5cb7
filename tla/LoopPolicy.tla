------------------------------ MODULE LoopPolicy ------------------------------
(***************************************************************************)
(* The decisions of the distributed autonomous loop, as operators: what    *)
(* Recovery AI makes of a failure, which task the Control Tower selects,   *)
(* how the result of a child process is judged, what the orchestrator      *)
(* allows, what the publish gate accepts, how the final report classes a   *)
(* run and when Chain Job AI asks for another one.  AutonomousLoop puts    *)
(* them in the order in which the workflow runs them.                      *)
(*                                                                         *)
(* A commit of the runner's checkout is the task that made it when it kept *)
(* to the task's allowed paths, and one of the two values below otherwise; *)
(* a SHA is the sequence of the commits made since the run's first         *)
(* checkout, so that two SHAs are equal exactly when the histories are.    *)
(***************************************************************************)
EXTENDS Naturals, FiniteSets, SequencesExt

CONSTANTS
  Task,        \* task ids of the reviewed catalog
  Transient,   \* TRANSIENT_CATEGORIES
  Repairable,  \* REPAIRABLE_CATEGORIES; "timeout" and "unknown" among them
  HoldAfter,   \* HOLD_AFTER_FAILURES
  MaxRetries   \* MAX_TRANSIENT_RETRIES

Final == {"invalid_evidence", "security_violation", "invalid_task"}
Categories == Transient \cup Repairable \cup Final

ASSUME PolicyAssumption ==
  /\ {"timeout", "unknown"} \subseteq Repairable
  /\ Transient \cap (Repairable \cup Final) = {} /\ Repairable \cap Final = {}
  /\ HoldAfter \in Nat \ {0} /\ MaxRetries \in Nat
  /\ {"outside", "stray"} \cap Task = {} /\ "none" \notin Task

Successful == {"PASS", "NO_CHANGE"}

-----------------------------------------------------------------------------
(* Recovery AI: the record of a task                                       *)

\* A task without a record is treated as this one everywhere.
NoRecord == [held |-> FALSE, review |-> FALSE, count |-> 0, seen |-> {}]

Blocks(rec) == rec.held \/ rec.review

Action(rec, cat, attempt) ==
  IF rec.held THEN "HOLD"
  ELSE IF rec.count + 1 >= HoldAfter \/ cat \in Final THEN "HOLD"
  ELSE IF cat \in Transient /\ attempt <= MaxRetries THEN "RETRY"
  ELSE IF cat \in Repairable /\ cat \notin rec.seen THEN "REPAIR_ONCE"
  ELSE "HOLD"

\* The fingerprints of a task differ only by category: the loop never names
\* failing tests.  Only those of repairable categories are ever looked up.
RecordFailure(rec, cat, attempt) ==
  [rec EXCEPT !.count = @ + 1,
              !.seen  = @ \cup ({cat} \cap Repairable),
              !.held  = @ \/ Action(rec, cat, attempt) = "HOLD"]

RecordSuccess(rec) == [rec EXCEPT !.count = 0]

Resume(rec)  == [rec EXCEPT !.held = FALSE, !.count = 0, !.review = TRUE]
Confirm(rec) == [rec EXCEPT !.review = FALSE]

-----------------------------------------------------------------------------
(* The runtime queue and the selection of a task                           *)

\* The elements of s that are in T, in the order of s.
Among(s, T) ==
  LET kept[i \in 0 .. Len(s)] ==
        IF i = 0 THEN <<>>
        ELSE IF s[i] \in T THEN Append(kept[i - 1], s[i]) ELSE kept[i - 1]
  IN  kept[Len(s)]

Ineligible(completed, recs) == completed \cup {t \in Task : Blocks(recs[t])}

\* What refill may append to the tracked queue.
Additions(tracked, approved, completed, recs) ==
  approved \ (ToSet(tracked) \cup Ineligible(completed, recs))

\* The runtime queue: the tracked tasks that are eligible, then at most cap
\* additions.  Recurring failures come first, by a history that is not part of
\* this model: the additions may come in any order.
RuntimeQueues(tracked, approved, cap, completed, recs) ==
  LET kept == Among(tracked, Task \ Ineligible(completed, recs))
      new  == Additions(tracked, approved, completed, recs)
      size == IF Cardinality(new) < cap THEN Cardinality(new) ELSE cap
  IN  {kept \o s : s \in {q \in [1 .. size -> new] : IsInjective(q)}}

RegistryPreflight(queue, registered) == ToSet(queue) \subseteq registered

\* select_next_task: a decision [act, why, task].
SelectNext(queue, registered, completed, held, evidence, current) ==
  LET open == Among(queue, Task \ (completed \cup held))
      Stop(act, why) == [act |-> act, why |-> why, task |-> "none"]
  IN  IF evidence # current THEN Stop("HOLD", "policy_blocked")
      ELSE IF queue = <<>> THEN Stop("NOT_RUN", "queue_empty")
      ELSE IF ~ (ToSet(queue) \subseteq registered) THEN Stop("HOLD", "unregistered_task")
      ELSE IF open # <<>> THEN [act |-> "SELECT", why |-> "evidence_sufficient", task |-> Head(open)]
      ELSE IF ToSet(queue) \subseteq completed THEN Stop("NOT_RUN", "no_eligible_task")
      ELSE Stop("HOLD", "task_held")

\* reselect_registered_task: the task a later iteration expected is still the
\* one the selector names.
Reselects(decision, expected) == decision.act = "SELECT" /\ decision.task = expected

\* authorize_registered_task: registered at this commit and bound to this HEAD.
Authorized(task, registered, head, evidence) == task \in registered /\ evidence = head

-----------------------------------------------------------------------------
(* The read-only scan before every launch                                  *)

\* scan_repository refuses a checkout that is not exactly HEAD; otherwise its
\* worst finding is any of these.
ScanOutcomes(dirty) == IF dirty THEN {"incomplete"} ELSE {"incomplete", "high", "pass"}

GateOpen(scan) == scan = "pass"

-----------------------------------------------------------------------------
(* The judgement of a child process                                        *)

(* A child is [exit, summary, says, head, code]: its exit code, whether it *)
(* left a summary, the status in it, the HEAD it reports, and the category *)
(* of the failure code in it.  `killed` is why the loop killed it, "no"    *)
(* when it ended by itself.                                                *)

\* The reason a summary is refused for, "" when its identity holds.
SummaryReason(child, killed) ==
  IF killed # "no" THEN killed
  ELSE IF ~ child.summary THEN "evidence" ELSE ""

\* Exit code 0 with a fresh summary: the status and the HEAD must agree.
SuccessReason(child, base, head) ==
  IF child.says \notin Successful THEN "summary"
  ELSE IF child.head # head THEN "sha"
  ELSE IF child.says = "NO_CHANGE" /\ head # base THEN "summary" ELSE ""

\* Exit code 80: the summary must carry the reason of the gate, which the
\* guarded runtime never writes.
BlockedReason(child, head) ==
  IF child.says # "BLOCKED" THEN "summary"
  ELSE IF child.head # head THEN "sha"
  ELSE IF ~ child.reasoned THEN "summary" ELSE ""

VerifyProducedHead(base, produced, task) ==
  IF ~ IsPrefix(base, produced) THEN "descent"
  ELSE IF \E i \in Len(base) + 1 .. Len(produced) : produced[i] # task
       THEN "outside" ELSE ""

\* run_task's verdict on a child that ended: a result row.
Judge(task, child, killed, stopped, base, head) ==
  LET first  == LET r == SummaryReason(child, killed)
                IN  IF r = "" /\ stopped THEN "stop" ELSE r
      second == IF ~ child.summary \/ first # "" THEN first
                ELSE IF child.exit = 0 THEN SuccessReason(child, base, head)
                ELSE IF child.exit = 80 THEN BlockedReason(child, head) ELSE ""
      same   == child.exit = 0 /\ head = base
      third  == IF second # "" THEN second
                ELSE IF same THEN "no_change"
                ELSE IF child.exit \notin {0, 80} THEN "runtime"
                ELSE IF child.exit = 0 THEN VerifyProducedHead(base, head, task) ELSE ""
      status == CASE third = ""          -> IF child.exit = 80 THEN "BLOCKED" ELSE "PASS"
                  [] third = "no_change" -> "NO_CHANGE"
                  [] third = "timeout"   -> "TIMEOUT"
                  [] third = "stop"      -> "STOPPED"
                  [] OTHER               -> "FAIL"
  IN  [task |-> task, status |-> status, exit |-> child.exit, base |-> base,
       produced |-> head, why |-> IF status = "BLOCKED" THEN "rea" ELSE third,
       code |-> IF child.summary THEN child.code ELSE "none"]

\* The row of a task that was refused before it was launched.
Refused(task, why, exit, base, head) ==
  [task |-> task, status |-> "BLOCKED", exit |-> exit, base |-> base,
   produced |-> head, why |-> why, code |-> "none"]

RetryIsSafe(result, head, clean) ==
  /\ result.status = "FAIL" /\ result.code \in Transient
  /\ clean /\ result.base = result.produced /\ result.produced = head

-----------------------------------------------------------------------------
(* Recovery AI's adapter and the orchestrator                              *)

Category(result) ==
  IF result.why \in {"sha", "outside"} THEN "security_violation"
  ELSE IF result.code # "none"
    THEN IF result.status \in {"FAIL", "BLOCKED", "STOPPED"} THEN result.code ELSE "invalid_evidence"
  ELSE IF result.status = "TIMEOUT" THEN "timeout"
  ELSE IF result.status \in {"BLOCKED", "STOPPED"} \/ result.why = "evidence" THEN "invalid_evidence"
  ELSE "unknown"

\* A refusal before the launch and an operator's stop are no task failures.
NotATaskOutcome(result) ==
  \/ result.status = "BLOCKED" /\ result.why \in {"gate", "rea", "head_changed"}
  \/ result.why = "stop" /\ result.code = "none"

VerifiedSuccess(result) ==
  /\ result.status \in Successful /\ result.exit = 0 /\ result.code = "none"
  /\ result.why \in {"", "no_change"}
  /\ result.status = "NO_CHANGE" => result.base = result.produced

\* record_loop_outcome: the new record, what the loop is told, and the result,
\* which loses its success when its evidence is not that of one.
Record(rec, result, attempt) ==
  LET Keep(r, res) == [rec |-> r, recorded |-> TRUE, verified |-> FALSE, result |-> res]
      invalid      == result.status \in Successful /\ ~ VerifiedSuccess(result)
  IN  IF NotATaskOutcome(result) THEN [Keep(rec, result) EXCEPT !.recorded = FALSE]
      ELSE IF invalid
        THEN Keep(RecordFailure(rec, "invalid_evidence", 1),
                  [result EXCEPT !.status = "FAIL", !.exit = 1, !.why = "evidence"])
      ELSE IF VerifiedSuccess(result) THEN [Keep(RecordSuccess(rec), result) EXCEPT !.verified = TRUE]
      ELSE Keep(RecordFailure(rec, Category(result), attempt), result)

\* coordinate_outcome: whether the loop may go on to the next task.
AllowsContinue(result, scan, observed, kept) ==
  /\ result.status \in Successful /\ GateOpen(scan) /\ observed /\ kept.recorded
  /\ result.exit = 0 /\ kept.verified
  /\ result.status = "NO_CHANGE" => result.base = result.produced

-----------------------------------------------------------------------------
(* After the loop                                                          *)

RowHasValidGates(row) ==
  /\ row.status \in Successful /\ row.exit = 0 /\ row.rea /\ row.verified /\ row.allow
  /\ row.status = "NO_CHANGE" => row.base = row.produced

\* The publish step's own check of the evidence.
Publishable(rows, limit, queue, start, head) ==
  /\ rows # <<>> /\ Len(rows) <= limit
  /\ \A i \in DOMAIN rows :
       /\ RowHasValidGates(rows[i])
       /\ rows[i].task \in ToSet(queue)
       /\ \A k \in Len(rows[i].base) + 1 .. Len(rows[i].produced) : rows[i].produced[k] = rows[i].task
       /\ \A j \in DOMAIN rows : rows[i].task = rows[j].task => i = j
  /\ Last(rows).produced = head
  /\ \A i \in 1 .. Len(rows) - 1 : rows[i].produced = rows[i + 1].base
  /\ rows[1].base = start

\* calculate_progress over the runtime queue and the local state file: what
\* the final report counts as open.
QueueOpen(queue, completed, rows) ==
  ToSet(queue) \ (completed \cup {rows[i].task : i \in {j \in DOMAIN rows : rows[j].status \in Successful}})

\* Mutant: the outcome of the persistence of Recovery AI is no gate.
ClassifyWithoutRecovery(statuses, gates, empty, held, requested, open) ==
  LET clean == \A g \in DOMAIN gates \ {"recovery"} : gates[g] = "success"
  IN  IF held \/ statuses = <<>> THEN "BLOCKED"
      ELSE IF empty THEN IF statuses = <<"NOT_RUN">> /\ clean THEN "NOT_RUN" ELSE "BLOCKED"
      ELSE IF ~ clean \/ \E i \in DOMAIN statuses : statuses[i] \notin Successful THEN "FAILED"
      ELSE IF Len(statuses) < requested /\ open # {} THEN "INCOMPLETE"
      ELSE "COMPLETED"

\* classify_final_outcome; `gates` are the outcomes of the five steps.
ClassifyFinal(statuses, gates, empty, held, requested, open) ==
  LET clean == \A g \in DOMAIN gates : gates[g] = "success"
  IN  IF held \/ statuses = <<>> THEN "BLOCKED"
      ELSE IF empty THEN IF statuses = <<"NOT_RUN">> /\ clean THEN "NOT_RUN" ELSE "BLOCKED"
      ELSE IF ~ clean \/ \E i \in DOMAIN statuses : statuses[i] \notin Successful THEN "FAILED"
      ELSE IF Len(statuses) < requested /\ open # {} THEN "INCOMPLETE"
      ELSE "COMPLETED"

\* Chain Job AI; `artifact` is the completed list it downloads.
ChainDecision(conclusion, kill, depth, maxDepth, rows, artifact) ==
  IF kill THEN "kill_switch_enabled"
  ELSE IF conclusion # "success" THEN "source_run_not_success"
  ELSE IF depth >= maxDepth THEN "bounded_depth_limit"
  ELSE IF rows = <<>> THEN "unexpected_task_result_count"
  ELSE IF \E i \in DOMAIN rows : rows[i].status # "PASS" \/ rows[i].exit # 0
    THEN "task_status_not_verified_pass"
  ELSE IF \E i \in DOMAIN rows : ~ rows[i].allow THEN "control_tower_denied_continue"
  ELSE IF \E i \in DOMAIN rows : rows[i].task \notin artifact THEN "durable_completion_not_confirmed"
  ELSE "continue"
=============================================================================
