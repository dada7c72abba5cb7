----------------------------- MODULE Improvement -----------------------------
(***************************************************************************)
(* The self-improvement history: restored from the durable loop state at   *)
(* the start of a workflow run, written by each task's development run     *)
(* (core/self_improvement_cycle.py) and by the results of the loop         *)
(* (scripts/self_improvement_state.py), and persisted, sanitized, at the   *)
(* end.  Nothing of it executes anything.                                  *)
(*                                                                         *)
(* A record is [sort, what, who, detail]: a signal of a kind, whose task   *)
(* nothing here depends on, or a memory of an outcome, of a workflow run   *)
(* ("none" for those a development run writes); its detail is "generic"    *)
(* once sanitized.                                                         *)
(***************************************************************************)
EXTENDS Naturals, SequencesExt

CONSTANTS
  Cycles,             \* ids of workflow runs; one may be run again under its id
  Queued,             \* tasks of the catalog
  Causes,             \* what a raw failure detail says
  MaxRecords,         \* 200 in the code
  MaxProposalSignals, \* 8 in the code
  MaxDevelopments     \* bound: tasks developed by all the workflow runs

ASSUME ImprovementAssumption ==
  /\ MaxRecords \in Nat \ {0} /\ MaxProposalSignals \in Nat \ {0} /\ MaxDevelopments \in Nat
  /\ "generic" \notin Causes /\ "none" \notin Cycles

VARIABLES
  durable,   \* self_improvement_history of the state branch
  loop       \* the workflow run: [at, cycle, history, results, gates, approved, developed]

improvementVars == <<durable, loop>>

Signal(kind, detail)          == [sort |-> "signal", what |-> kind, who |-> "none", detail |-> detail]
Memory(outcome, cycle, detail) == [sort |-> "memory", what |-> outcome, who |-> cycle, detail |-> detail]

\* Mutant: the history has no limit.
Everything(records) == records

\* SelfImprovementHistory.append_*: the newest MaxRecords are kept.
Newest(records) ==
  LET n == Len(records) IN SubSeq(records, IF n > MaxRecords THEN n - MaxRecords + 1 ELSE 1, n)

Resting == [at |-> "idle", cycle |-> "none", history |-> << >>, results |-> << >>,
            gates |-> FALSE, approved |-> FALSE, developed |-> 0]

ImprovementInit == durable = << >> /\ loop = Resting

-----------------------------------------------------------------------------
(* scripts/self_improvement_state.py: what may be persisted                *)

\* sanitize_records: of every row, its category and safe id, with a fixed text.
Sanitized(records) ==
  Newest([i \in DOMAIN records |-> [records[i] EXCEPT !.detail = "generic"]])

\* validate_durable_history: what the persisting step, and the adapter that makes review
\* candidates, accept.
Valid(records) ==
  /\ Len(records) <= MaxRecords
  /\ \A i \in DOMAIN records : records[i].detail = "generic"

\* The import, at the start of a run or of its repetition.
Restore(cycle) ==
  /\ loop.at = "idle"
  /\ loop' = [loop EXCEPT !.at = "tasks", !.cycle = cycle, !.history = Sanitized(durable),
                          !.results = << >>]
  /\ UNCHANGED durable

-----------------------------------------------------------------------------
(* core: one report observed                                               *)

\* SelfImprovementEngine.observe
NewSignals(report) ==
     (IF report.ready THEN <<Signal("success", "raw")>> ELSE << >>)
  \o (IF report.repaired THEN <<Signal("repair", "raw")>> ELSE << >>)
  \o (IF report.cause # "none" THEN <<Signal("failure", report.cause)>> ELSE << >>)

\* analyze_signals: failures and repairs that say the same, at least twice.
Alike(records, kind, detail) ==
  {i \in DOMAIN records : records[i].sort = "signal" /\ records[i].what = kind
                            /\ records[i].detail = detail}
Patterns(records) ==
  {p \in {"failure", "repair"} \X (Causes \cup {"raw", "generic"}) :
     Cardinality(Alike(records, p[1], p[2])) >= 2}

\* generate_improvement_proposals: a proposal takes all the signals of its pattern and
\* no more than MaxProposalSignals of them: then none of the cycle's rest happens.
ProposalsRaise(records) ==
  \E p \in Patterns(records) : Cardinality(Alike(records, p[1], p[2])) > MaxProposalSignals

\* assess_self_improvement: a protected or missing target has no proposals.
Targets            == {"ordinary", "protected", "missing"}
Assessable(target) == target = "ordinary"

\* _report_evidence, CriticAgent.evaluate: what the model writes passes nothing, only a
\* run that reached its gate does (with up to three repairs: stability 0.7 of 0.6).
Measured(report) == [accuracy |-> report.ready, stability |-> report.ready, safety |-> report.ready]
Passes(metrics)  == metrics.safety /\ metrics.accuracy /\ metrics.stability

\* evaluate_proposal: no reviewer, or a model that fails, approves nothing.
MayApprove(records, report) ==
  IF Passes(Measured(report)) /\ Patterns(records) # {} THEN BOOLEAN ELSE {FALSE}

\* BLOCKED, for an error that says "blocked", is left out: it is one more word for FAIL.
Outcome(report) == IF report.ready THEN "PASS" ELSE "FAIL"

\* run_self_improvement_cycle inside observe_self_improvement, whose errors change
\* nothing but a line of output.
Observe(report, target) ==
  LET signals == NewSignals(report)
      all     == loop.history \o signals
      written == IF signals = << >> THEN loop.history ELSE Newest(all)
  IN  IF Assessable(target) /\ ProposalsRaise(all)
      THEN loop' = [loop EXCEPT !.at = "observed", !.developed = @ + 1, !.history = written]
      ELSE \E approved \in IF Assessable(target) THEN MayApprove(all, report) ELSE {FALSE} :
             loop' = [loop EXCEPT !.at = "observed", !.developed = @ + 1, !.approved = approved,
                        !.history = Newest(Append(written, Memory(Outcome(report), "none", "raw")))]

Reports == {report \in [ready : BOOLEAN, repaired : BOOLEAN, cause : Causes \cup {"none"}] :
              report.ready => report.cause = "none"}

\* runtime.execute reaches the observation or fails before it.
Develop(task) ==
  /\ loop.at = "tasks" /\ Len(loop.results) < 2 /\ loop.developed < MaxDevelopments
  /\ \A i \in DOMAIN loop.results : loop.results[i].task # task
  /\ \/ \E report \in Reports, target \in Targets : Observe(report, target)
     \/ loop' = [loop EXCEPT !.at = "observed", !.developed = @ + 1]
  /\ UNCHANGED durable

\* NO_CHANGE counts as PASS and TIMEOUT as FAIL wherever a row is read; a failure for want
\* of evidence counts for nothing.
Statuses == {"PASS", "FAIL", "UNEVIDENCED", "BLOCKED"}

\* The loop's own row of the task, which has its say whatever the run reported.
Report(task, status) ==
  /\ loop.at = "observed"
  /\ \A i \in DOMAIN loop.results : loop.results[i].task # task
  /\ loop' = [loop EXCEPT !.at = "tasks", !.approved = FALSE,
                          !.results = Append(@, [task |-> task, status |-> status])]
  /\ UNCHANGED durable

-----------------------------------------------------------------------------
(* After the loop: results, memory, export, persistence                    *)

\* Whether the branch was published and the state persisted.
LoopEnds(gates) ==
  /\ loop.at = "tasks" /\ loop.results # << >>
  /\ loop' = [loop EXCEPT !.at = "append", !.gates = gates]
  /\ UNCHANGED durable

\* append_loop_results
Added(row) ==
  IF row.status = "PASS" /\ loop.gates THEN <<Signal("success", "generic")>>
  ELSE IF row.status = "FAIL" THEN <<Signal("failure", "generic")>> ELSE << >>

AppendLoopResults ==
  /\ loop.at = "append"
  /\ loop' = [loop EXCEPT !.at = "memory",
                 !.history = Sanitized(@ \o FlattenSeq([i \in DOMAIN loop.results |-> Added(loop.results[i])]))]
  /\ UNCHANGED durable

\* append_cycle_memory: the last row with an outcome decides.
RowOutcome(row) ==
  IF (row.status = "PASS" /\ ~loop.gates) \/ row.status = "UNEVIDENCED" THEN "none" ELSE row.status

CycleOutcome ==
  LET said == {i \in DOMAIN loop.results : RowOutcome(loop.results[i]) # "none"}
  IN  IF said = {} THEN "none"
      ELSE RowOutcome(loop.results[CHOOSE i \in said : \A j \in said : j <= i])

Remembers(records, cycle) ==
  \E i \in DOMAIN records : records[i].sort = "memory" /\ records[i].who = cycle

\* Mutant: a repetition of a run is remembered again.
AppendMemoryAgain ==
  /\ loop.at = "memory"
  /\ loop' = IF CycleOutcome = "none" THEN [loop EXCEPT !.at = "export"]
             ELSE [loop EXCEPT !.at = "export", !.history =
                     Sanitized(Append(@, Memory(CycleOutcome, loop.cycle, "generic")))]
  /\ UNCHANGED durable

AppendCycleMemory ==
  /\ loop.at = "memory"
  /\ loop' = IF CycleOutcome = "none" \/ Remembers(loop.history, loop.cycle)
             THEN [loop EXCEPT !.at = "export"]
             ELSE [loop EXCEPT !.at = "export", !.history =
                     Sanitized(Append(@, Memory(CycleOutcome, loop.cycle, "generic")))]
  /\ UNCHANGED durable

\* The export, its validation, the push: a history that is not valid keeps the whole
\* step, Recovery AI's state included, from being persisted.
Persist ==
  /\ loop.at = "export"
  /\ LET exported == Sanitized(loop.history)
     IN  IF Valid(exported)
         THEN /\ durable' = exported
              /\ loop' = [loop EXCEPT !.at = "idle", !.history = << >>, !.gates = FALSE]
         ELSE loop' = [loop EXCEPT !.at = "blocked"] /\ UNCHANGED durable

\* A step fails, the job is cancelled, no task ran: the run's file goes with its machine.
Lost ==
  /\ loop.at \notin {"idle", "blocked"}
  /\ loop' = [Resting EXCEPT !.developed = loop.developed]
  /\ UNCHANGED durable

ImprovementNext ==
  \/ \E cycle \in Cycles : Restore(cycle)
  \/ \E task \in Queued : Develop(task) \/ \E status \in Statuses : Report(task, status)
  \/ \E gates \in BOOLEAN : LoopEnds(gates)
  \/ AppendLoopResults \/ AppendCycleMemory \/ Persist \/ Lost
-----------------------------------------------------------------------------
ImprovementTypeOK ==
  /\ Len(durable) <= MaxRecords /\ Len(loop.history) <= MaxRecords
  /\ \A i \in DOMAIN loop.history : loop.history[i].sort \in {"signal", "memory"}
  /\ loop.developed \in 0 .. MaxDevelopments

\* However often a workflow run is repeated, and wherever it was cut, the durable history
\* holds one memory of it, and no raw text; and its own history never keeps a run from
\* persisting Recovery AI's state.
HistoryIsClean ==
  /\ Valid(durable)
  /\ loop.at # "blocked"
  /\ \A i, j \in DOMAIN durable :
       durable[i].sort = "memory" /\ durable[j].sort = "memory"
         /\ durable[i].who = durable[j].who /\ durable[i].who # "none" => i = j
=============================================================================
