------------------------ MODULE AutonomousLoopProofs -----------------------
(***************************************************************************)
(* Proofs about AutonomousLoop, for every catalog of tasks, every set of   *)
(* failure categories and every threshold of Recovery AI: what the durable *)
(* branch says of a held task is not undone by the runs that save their    *)
(* records over it, a task it holds or has completed is not launched, only *)
(* what was published is completed, and the final report is true.          *)
(*                                                                         *)
(* The argument has two halves.  A run decides on a copy of the records,   *)
(* and the last push of the run replaces the records of every task by that *)
(* copy.  Nothing is lost as long as the copy blocks what the branch       *)
(* blocks (Covers, in IInv); every outcome that is recorded keeps a hold   *)
(* and an open review (Record is monotone), and only an approval lifts     *)
(* one, of the task it names.  The rest is about one run (RunInv): what    *)
(* each gate let through still holds when the task is launched, when its   *)
(* row is written, when the row is published and when the run reports.     *)
(***************************************************************************)
EXTENDS AutonomousLoop, FiniteSetTheorems, WellFoundedInduction, TLAPS

Rec == [held : BOOLEAN, review : BOOLEAN, count : Nat, seen : SUBSET Categories]

\* A durable state: some completed ids, and a record for every task.
IsState(s) ==
  \E completed, recs :
    s = [completed |-> completed, recs |-> recs] /\ recs \in [Task -> Rec]

\* What the branch blocks, the copy of the run blocks, unless a human approved it.
Covers ==
  \A t \in Task : Blocks(branch.recs[t]) => run.approval = t \/ Blocks(local.recs[t])

IInv ==
  /\ IsState(branch)
  /\ pc # "idle" => IsState(local) /\ Covers

-----------------------------------------------------------------------------
(* Recovery AI never lifts a hold *)

LEMMA FailureKeeps ==
  ASSUME NEW rec \in Rec, NEW cat, NEW attempt
  PROVE  /\ RecordFailure(rec, cat, attempt) \in Rec
         /\ Blocks(rec) => Blocks(RecordFailure(rec, cat, attempt))
  <1> DEFINE held == rec.held \/ Action(rec, cat, attempt) = "HOLD"
             seen == rec.seen \cup ({cat} \cap Repairable)
  <1>1. RecordFailure(rec, cat, attempt) =
          [rec EXCEPT !.count = rec.count + 1, !.seen = seen, !.held = held]
    BY DEF RecordFailure
  <1>2. held \in BOOLEAN /\ seen \in SUBSET Categories /\ rec.held \in BOOLEAN
    BY DEF Rec, Categories
  <1>3. rec.held => held
    OBVIOUS
  <1>4. rec.count + 1 \in Nat /\ rec.review \in BOOLEAN
    BY DEF Rec
  <1> HIDE DEF held, seen
  <1>5. RecordFailure(rec, cat, attempt) =
          [held |-> held, review |-> rec.review, count |-> rec.count + 1, seen |-> seen]
    BY <1>1 DEF Rec
  <1> QED BY <1>2, <1>3, <1>4, <1>5 DEF Rec, Blocks

LEMMA SuccessKeeps ==
  ASSUME NEW rec \in Rec
  PROVE  /\ RecordSuccess(rec) \in Rec
         /\ Blocks(rec) => Blocks(RecordSuccess(rec))
  BY DEF RecordSuccess, Rec, Blocks

\* Whatever the outcome of a task, its record still blocks it if it did.
LEMMA RecordKeeps ==
  ASSUME NEW rec \in Rec, NEW outcome, NEW attempt
  PROVE  LET kept == Record(rec, outcome, attempt)
         IN  kept.rec \in Rec /\ (Blocks(rec) => Blocks(kept.rec))
  <1>1. Record(rec, outcome, attempt).rec \in
          {rec, RecordFailure(rec, "invalid_evidence", 1), RecordSuccess(rec),
           RecordFailure(rec, Category(outcome), attempt)}
    BY DEF Record
  <1> QED BY <1>1, FailureKeeps, SuccessKeeps

-----------------------------------------------------------------------------
(* The steps of a run *)

LEMMA StateIs ==
  ASSUME NEW completed, NEW recs \in [Task -> Rec]
  PROVE  IsState([completed |-> completed, recs |-> recs])
  BY DEF IsState

LEMMA InitIInv == Init => IInv
  <1> SUFFICES ASSUME Init PROVE IInv
    OBVIOUS
  <1>1. PICK recs \in [Task -> {NoRecord, [NoRecord EXCEPT !.review = TRUE]}] :
          branch = [completed |-> {}, recs |-> recs]
    BY DEF Init
  <1>2. NoRecord \in Rec /\ [NoRecord EXCEPT !.review = TRUE] \in Rec
    BY DEF NoRecord, Rec
  <1>3. recs \in [Task -> Rec]
    BY <1>2
  <1>4. IsState(branch)
    BY <1>1, <1>3, StateIs
  <1> QED BY <1>4 DEF Init, IInv

\* A step that touches neither the branch, nor the copy, nor the approval.
LEMMA QuietStep ==
  ASSUME IInv, pc # "idle", UNCHANGED <<branch, local, run>>
  PROVE  IInv'
  BY DEF IInv, IsState, Covers

LEMMA EndRunStep ==
  ASSUME IInv, UNCHANGED branch, NEW report, NEW chain, EndRun(report, chain)
  PROVE  IInv'
  BY DEF IInv, IsState, EndRun

LEMMA StartRunStep ==
  ASSUME IInv, NEW depth, NEW approval, NEW registered, StartRun(depth, approval, registered)
  PROVE  IInv'
  BY DEF IInv, IsState, StartRun, Covers

\* Only the record of the approved task is opened.
LEMMA ResumeStep ==
  ASSUME IInv, ResumeApproved
  PROVE  IInv'
  <1> DEFINE t == run.approval
  <1>1. CASE UNCHANGED branch /\ EndRun("BLOCKED", "source_run_not_success")
    BY <1>1, EndRunStep
  <1>2. CASE /\ local' = [local EXCEPT !.recs[t] = Confirm(Resume(@))]
             /\ UNCHANGED <<branch, run>> /\ pc = "resume" /\ pc' = "refill"
    <2>1. PICK completed, recs :
            local = [completed |-> completed, recs |-> recs] /\ recs \in [Task -> Rec]
      BY <1>2 DEF IInv, IsState
    <2> DEFINE opened == [recs EXCEPT ![t] = Confirm(Resume(recs[t]))]
    <2>2. opened \in [Task -> Rec]
      <3>1. t \in Task => Confirm(Resume(recs[t])) \in Rec
        BY <2>1 DEF Confirm, Resume, Rec
      <3> QED BY <2>1, <3>1
    <2>3. local' = [completed |-> completed, recs |-> opened]
      BY <1>2, <2>1
    <2>4. IsState(local')
      BY <2>2, <2>3, StateIs
    <2>5. \A u \in Task : u # t => local'.recs[u] = local.recs[u]
      BY <2>1, <2>3
    <2>6. Covers'
      BY <1>2, <2>5 DEF Covers, IInv
    <2> QED BY <1>2, <2>4, <2>6 DEF IInv
  <1> QED BY <1>1, <1>2 DEF ResumeApproved

\* The record of the current task changes, and blocks it if it did before.
LEMMA SettleStep ==
  ASSUME IInv, NEW saves \in BOOLEAN, NEW observes \in BOOLEAN, Settle(saves, observes)
  PROVE  IInv'
  <1> DEFINE t == Current
             kept == IF saves THEN Record(local.recs[t], result, tries + 1)
                     ELSE [rec |-> local.recs[t], recorded |-> FALSE, verified |-> FALSE,
                           result |-> result]
  <1>1. PICK completed, recs :
          local = [completed |-> completed, recs |-> recs] /\ recs \in [Task -> Rec]
    BY DEF IInv, IsState, Settle
  <1>2. PICK rec :
          /\ rec \in {kept.rec, RecordFailure(kept.rec, "invalid_evidence", 1)}
          /\ local' = [local EXCEPT !.recs[t] = rec]
    BY DEF Settle
  <1>3. ASSUME t \in Task
        PROVE  rec \in Rec /\ (Blocks(recs[t]) => Blocks(rec))
    <2>1. recs[t] \in Rec /\ local.recs[t] = recs[t]
      BY <1>1, <1>3
    <2>2. kept.rec \in Rec /\ (Blocks(recs[t]) => Blocks(kept.rec))
      BY <2>1, RecordKeeps
    <2> QED BY <1>2, <2>2, FailureKeeps
  <1> DEFINE new == [recs EXCEPT ![t] = rec]
  <1>4. new \in [Task -> Rec] /\ local' = [completed |-> completed, recs |-> new]
    BY <1>1, <1>2, <1>3
  <1>5. IsState(local')
    BY <1>4, StateIs
  <1>6. \A u \in Task : Blocks(local.recs[u]) => Blocks(local'.recs[u])
    BY <1>1, <1>3, <1>4
  <1>7. UNCHANGED <<branch, run>> /\ pc = "settle"
    BY DEF Settle
  <1>8. Covers'
    BY <1>6, <1>7 DEF IInv, Covers
  <1> QED BY <1>5, <1>7, <1>8 DEF IInv

\* The completed ids leave the records alone.
LEMMA CompletedStep ==
  ASSUME IInv, NEW reaches \in BOOLEAN, PersistCompleted(reaches)
  PROVE  IInv'
  <1>1. PICK completed, recs :
          branch = [completed |-> completed, recs |-> recs] /\ recs \in [Task -> Rec]
    BY DEF IInv, IsState
  <1>2. PICK ids : branch' = [branch EXCEPT !.completed = ids]
    BY <1>1 DEF PersistCompleted
  <1>3. branch' = [completed |-> ids, recs |-> recs]
    BY <1>1, <1>2
  <1>4. IsState(branch') /\ branch'.recs = branch.recs
    BY <1>1, <1>3, StateIs
  <1>5. UNCHANGED <<local, run>> /\ pc = "complete"
    BY DEF PersistCompleted
  <1> QED BY <1>4, <1>5 DEF IInv, Covers

\* The copy replaces what it covers.
LEMMA RecoveryStep ==
  ASSUME IInv, NEW reaches \in BOOLEAN, PersistRecovery(reaches)
  PROVE  /\ IInv'
         /\ \A t \in Task : Blocks(branch.recs[t]) /\ ~ Blocks(branch'.recs[t]) => run.approval = t
  <1>1. UNCHANGED <<local, run>> /\ pc = "remember"
    BY DEF PersistRecovery
  <1>2. PICK completed, recs :
          branch = [completed |-> completed, recs |-> recs] /\ recs \in [Task -> Rec]
    BY DEF IInv, IsState
  <1>3. PICK copied, copy :
          local = [completed |-> copied, recs |-> copy] /\ copy \in [Task -> Rec]
    BY <1>1 DEF IInv, IsState
  <1>4. branch' = branch \/ branch' = [completed |-> completed, recs |-> copy]
    BY <1>2, <1>3 DEF PersistRecovery
  <1>5. IsState(branch')
    BY <1>2, <1>3, <1>4, StateIs DEF IInv
  <1>6. branch'.recs = branch.recs \/ branch'.recs = local.recs
    BY <1>2, <1>3, <1>4
  <1>7. Covers /\ IsState(local)
    BY <1>1 DEF IInv
  <1> QED BY <1>1, <1>5, <1>6, <1>7 DEF IInv, Covers

\* The review workflow runs between the runs.
LEMMA ReviewStep ==
  ASSUME IInv, NEW t \in Task, ConfirmReview(t)
  PROVE  /\ IInv'
         /\ \A u \in Task : Blocks(branch.recs[u]) /\ ~ Blocks(branch'.recs[u])
                              => pc = "idle" /\ ~ branch.recs[u].held
  <1>1. PICK completed, recs :
          branch = [completed |-> completed, recs |-> recs] /\ recs \in [Task -> Rec]
    BY DEF IInv, IsState
  <1> DEFINE new == [recs EXCEPT ![t] = Confirm(recs[t])]
  <1>2. branch' = [completed |-> completed, recs |-> new]
    BY <1>1 DEF ConfirmReview
  <1>3. Confirm(recs[t]) \in Rec
    BY <1>1 DEF Confirm, Rec
  <1>4. new \in [Task -> Rec]
    BY <1>1, <1>3
  <1>5. IsState(branch')
    BY <1>2, <1>4, StateIs
  <1>6. pc = "idle" /\ pc' = pc /\ ~ branch.recs[t].held
    BY DEF ConfirmReview
  <1>7. \A u \in Task : u # t => branch'.recs[u] = branch.recs[u]
    BY <1>1, <1>2
  <1> QED BY <1>5, <1>6, <1>7 DEF IInv

-----------------------------------------------------------------------------
(* Every step *)

\* The steps between the resume and the pushes leave the branch and the copy alone.
Decides ==
  \/ Refill
  \/ \E kill \in BOOLEAN : Select(kill)
  \/ \E scan \in {"incomplete", "high", "pass"} : Gate(scan)
  \/ \E child, killed, stopped : RunTask(child, killed, stopped)
  \/ Retry
  \/ \E reaches \in BOOLEAN : Publish(reaches)
  \/ OperatorStops \/ HeadMoves

LEMMA DecidesQuietly ==
  ASSUME Decides
  PROVE  pc # "idle" /\ UNCHANGED <<branch, local, run>>
  BY DEF Decides, Refill, Select, Gate, RunTask, Retry, Publish, OperatorStops, HeadMoves

LiftsByHuman ==
  \A t \in Task : Blocks(branch.recs[t]) /\ ~ Blocks(branch'.recs[t]) =>
    run.approval = t \/ (pc = "idle" /\ ~ branch.recs[t].held)

LEMMA NextStep ==
  ASSUME IInv, [Next]_vars
  PROVE  IInv' /\ LiftsByHuman
  <1>1. CASE Decides
    BY <1>1, DecidesQuietly, QuietStep DEF LiftsByHuman
  <1>2. ASSUME NEW d, NEW a, NEW reg, StartRun(d, a, reg)
        PROVE  IInv' /\ LiftsByHuman
    BY <1>2, StartRunStep DEF StartRun, LiftsByHuman
  <1>3. CASE ResumeApproved
    BY <1>3, ResumeStep DEF ResumeApproved, LiftsByHuman
  <1>4. ASSUME NEW saves \in BOOLEAN, NEW observes \in BOOLEAN, Settle(saves, observes)
        PROVE  IInv' /\ LiftsByHuman
    BY <1>4, SettleStep DEF Settle, LiftsByHuman
  <1>5. ASSUME NEW reaches \in BOOLEAN, PersistCompleted(reaches)
        PROVE  IInv' /\ LiftsByHuman
    <2>1. PICK completed, recs : branch = [completed |-> completed, recs |-> recs]
      BY DEF IInv, IsState
    <2>2. branch'.recs = branch.recs
      BY <1>5, <2>1 DEF PersistCompleted
    <2> QED BY <1>5, <2>2, CompletedStep DEF LiftsByHuman
  <1>6. ASSUME NEW reaches \in BOOLEAN, PersistRecovery(reaches)
        PROVE  IInv' /\ LiftsByHuman
    BY <1>6, RecoveryStep DEF LiftsByHuman
  <1>7. ASSUME NEW ledger \in BOOLEAN, NEW kill \in BOOLEAN, Report(ledger, kill)
        PROVE  IInv' /\ LiftsByHuman
    BY <1>7, EndRunStep DEF Report, LiftsByHuman
  <1>8. ASSUME NEW t \in Task, ConfirmReview(t)
        PROVE  IInv' /\ LiftsByHuman
    BY <1>8, ReviewStep DEF LiftsByHuman
  <1>9. CASE Cancel
    BY <1>9, EndRunStep DEF Cancel, LiftsByHuman
  <1>10. CASE UNCHANGED vars
    BY <1>10 DEF vars, IInv, Covers, LiftsByHuman
  <1> QED
    BY <1>1, <1>2, <1>3, <1>4, <1>5, <1>6, <1>7, <1>8, <1>9, <1>10 DEF Next, Decides

\* While a run is under way, its copy blocks what the branch blocks, but for the
\* task the run was approved for.
THEOREM CopyCoversBranch == Spec => [](pc # "idle" => Covers)
  <1>1. IInv /\ [Next]_vars => IInv'
    BY NextStep
  <1>2. IInv => (pc # "idle" => Covers)
    BY DEF IInv
  <1> QED BY <1>1, <1>2, InitIInv, PTL DEF Spec

\* A hold, or an open review, leaves the durable branch only through a human, however
\* many runs save their records over it, are cancelled, or fail to save.
THEOREM HoldsNeedAHuman == Spec => HoldNeedsAHuman
  <1>1. IInv /\ [Next]_vars => IInv'
    BY NextStep
  <1>2. IInv /\ [Next]_vars => [LiftsByHuman]_vars
    BY NextStep
  <1>3. [LiftsByHuman]_vars
          => [\A t \in Task : Blocks(branch.recs[t]) /\ ~ Blocks(branch'.recs[t]) =>
                run.approval = t \/ (pc = "idle" /\ ~ branch.recs[t].held)]_vars
    BY DEF LiftsByHuman
  <1> QED BY <1>1, <1>2, <1>3, InitIInv, PTL DEF Spec, HoldNeedsAHuman

-----------------------------------------------------------------------------
(* What a run has in hand *)

(***************************************************************************)
(* The invariant of a run, in parts: its types, what holds before the loop *)
(* picks a task, of the tasks it picked, of the one in hand, of its rows,  *)
(* and of the steps after the loop.                                        *)
(***************************************************************************)
Commits   == Task \cup {"outside", "stray"}
GateNames == {"loop", "publish", "state", "recovery", "sheets"}

Statuses  == {"PASS", "NO_CHANGE", "BLOCKED", "TIMEOUT", "STOPPED", "FAIL", "NOT_RUN"}
Reasons   == {"", "no_change", "timeout", "stop", "evidence", "summary", "sha", "descent", "outside",
              "runtime", "rea", "gate", "head_changed", "control_tower", "reselection"}

Results ==
  [task : Task \cup {"none"}, status : Statuses, exit : Nat, base : Seq(Commits),
   produced : Seq(Commits), why : Reasons, code : Categories \cup {"none"}]

Rows ==
  [task : Task \cup {"none"}, status : Statuses, exit : Nat, base : Seq(Commits),
   produced : Seq(Commits), why : Reasons, rea : BOOLEAN, verified : BOOLEAN, allow : BOOLEAN]

Typed ==
  /\ queue \in Seq(Task) /\ todo \in Seq(Task) /\ index \in Nat
  /\ base \in Seq(Commits) /\ tree \in Seq(Commits) /\ result \in Results /\ rows \in Seq(Rows)
  /\ marker \in {"none", "held", "notrun"}
  /\ gates \in [GateNames -> {"skipped", "success", "failure"}]

Before  == {"resume", "refill", "select"}
Working == {"gate", "launch", "retry", "again", "settle"}
After   == {"publish", "complete", "remember", "report"}

\* The branch and the run's copy agree on the completed ids until they are saved.
SameCompleted ==
  pc \in Before \cup Working \cup {"publish", "complete"} => branch.completed = local.completed

\* Nothing is on record of a run that has not picked a task yet.
Fresh == pc \in Before \cup {"idle"} => rows = <<>> /\ marker = "none" /\ gates = NoGates

\* The queue holds eligible tasks only, and is empty only when there is nothing to add.
Refilled ==
  pc = "select" =>
    /\ \A i \in DOMAIN queue : queue[i] \notin Ineligible(local.completed, local.recs)
    /\ queue = <<>> =>
         Additions(Tracked, Approved \cap run.registered, local.completed, local.recs) = {}

Picked ==
  pc \in Working =>
    /\ index \in DOMAIN todo /\ Len(rows) = index - 1 /\ marker = "none" /\ gates = NoGates
    /\ \A i \in DOMAIN todo : todo[i] \notin local.completed

\* Behind the gates: the task is not blocked, has no row yet, and the result is its own.
InHand ==
  /\ pc \in Working \ {"gate"} =>
       ~ Blocks(local.recs[Current]) /\ \A k \in DOMAIN rows : rows[k].task # Current
  /\ pc \in {"retry", "again", "settle"} => result.task = Current

\* What a row or the result names as produced is part of the checkout's history.
Grown ==
  IsPrefix(result.produced, tree) /\ \A k \in DOMAIN rows : IsPrefix(rows[k].produced, tree)

\* A row that the loop went on from has a record without a failure.
Clean(row) ==
  row.verified /\ row.allow =>
    row.task \in Task /\ ~ Blocks(local.recs[row.task]) /\ local.recs[row.task].count = 0

\* A run without a task left the checkout's catalog with nothing to run and nothing held.
Marked == marker # "none" => pc \in After /\ (marker = "notrun" => Held \cap run.registered = {})

\* What an outcome of a step says, once it is "success".
Truthful ==
  /\ pc = "publish" => gates.publish = "skipped"
  /\ pc \in {"complete", "remember", "report"} /\ gates.publish = "success" =>
       /\ pushed = tree /\ (marker # "none" => tree = Start)
       /\ marker = "none" => \A k \in DOMAIN rows : RowHasValidGates(rows[k])
  /\ pc \in {"publish", "complete"} => gates.state = "skipped"
  /\ pc \in {"remember", "report"} /\ marker = "none"
       /\ gates.publish = "success" /\ gates.state = "success" =>
       \A k \in DOMAIN rows : rows[k].task \in branch.completed
  /\ pc = "report" /\ marker = "none" /\ gates.recovery = "success" => branch.recs = local.recs

RunInv ==
  /\ Typed /\ SameCompleted /\ Fresh /\ Refilled /\ Picked /\ InHand /\ Grown
  /\ \A k \in DOMAIN rows : Clean(rows[k])
  /\ Marked /\ Truthful

-----------------------------------------------------------------------------
(* The operators of the policy *)

\* Induction, by its least counterexample.
LEMMA Least ==
  ASSUME NEW T \in SUBSET Nat, T # {}
  PROVE  \E n \in T : \A m \in T : n <= m
  <1> DEFINE R == OpToRel(<, Nat)
  <1>1. IsWellFoundedOn(R, Nat)
    BY NatLessThanWellFounded
  <1>2. \A x, y \in Nat : <<y, x>> \in R <=> y < x
    BY DEF OpToRel
  <1> HIDE DEF R
  <1>3. PICK n \in T : \A m \in T : ~ (<<m, n>> \in R)
    BY <1>1, WFMin
  <1>4. ASSUME NEW m \in T PROVE n <= m
    <2>1. m \in Nat /\ n \in Nat
      OBVIOUS
    <2>2. ~ (m < n)
      BY <1>2, <1>3, <2>1
    <2> QED BY <2>1, <2>2
  <1> QED BY <1>4

\* What Among selects is in T, and comes from s.
LEMMA AmongIs ==
  ASSUME NEW S, NEW s \in Seq(S), NEW T
  PROVE  /\ Among(s, T) \in Seq(S \cap T)
         /\ \A k \in DOMAIN Among(s, T) : \E i \in DOMAIN s : Among(s, T)[k] = s[i]
  <1> DEFINE n == Len(s)
             U == {s[i] : i \in 1 .. n} \cap T
             Kept(g, i) == IF i = 0 THEN <<>>
                           ELSE IF s[i] \in T THEN Append(g[i - 1], s[i]) ELSE g[i - 1]
             Grows(g, m) == \A i \in 0 .. m : g[i] = Kept(g, i)
             Bad == {m \in 0 .. n : ~ \E g \in [0 .. m -> Seq(U)] : Grows(g, m)}
  <1>1. n \in Nat /\ DOMAIN s = 1 .. n
    OBVIOUS
  <1>2. \A i \in 1 .. n : s[i] \in S /\ (s[i] \in T => s[i] \in U)
    BY <1>1
  <1> HIDE DEF n
  <1>3. ASSUME NEW i \in 1 .. n, NEW q \in Seq(U)
        PROVE  (IF s[i] \in T THEN Append(q, s[i]) ELSE q) \in Seq(U)
    <2> HIDE DEF U
    <2> QED BY <1>2, <1>3
  <1>4. Bad = {}
    <2>1. SUFFICES ASSUME Bad # {} PROVE FALSE
      OBVIOUS
    <2>2. PICK m \in Bad : \A j \in Bad : m <= j
      <3>1. Bad \in SUBSET Nat
        BY <1>1
      <3> HIDE DEF Bad
      <3> QED BY <2>1, <3>1, Least
    <2>3. m \in 0 .. n /\ ~ \E g \in [0 .. m -> Seq(U)] : Grows(g, m)
      OBVIOUS
    <2>4. m # 0
      <3> DEFINE g == [i \in 0 .. 0 |-> <<>>]
      <3>1. g \in [0 .. 0 -> Seq(U)] /\ Grows(g, 0)
        OBVIOUS
      <3> QED BY <2>3, <3>1
    <2>5. m \in 1 .. n /\ m - 1 \in 0 .. n /\ ~ (m <= m - 1)
      BY <1>1, <2>3, <2>4
    <2>6. m - 1 \notin Bad
      BY <2>2, <2>5
    <2>7. PICK g \in [0 .. m - 1 -> Seq(U)] : Grows(g, m - 1)
      BY <2>5, <2>6
    <2> DEFINE h == [i \in 0 .. m |-> IF i = m THEN Kept(g, m) ELSE g[i]]
    <2>8. Kept(g, m) \in Seq(U) /\ \A i \in 0 .. m - 1 : g[i] \in Seq(U)
      BY <1>1, <1>3, <2>4, <2>5
    <2>9. \A i \in 0 .. m : i = m \/ i \in 0 .. m - 1
      BY <1>1, <2>5
    <2>10. h \in [0 .. m -> Seq(U)]
      <3>1. ASSUME NEW i \in 0 .. m PROVE (IF i = m THEN Kept(g, m) ELSE g[i]) \in Seq(U)
        BY <2>8, <2>9
      <3> HIDE DEF Kept, U
      <3> QED BY <3>1
    <2>11. \A i \in 0 .. m - 1 : h[i] = g[i]
      BY <1>1, <2>5
    <2>12. ASSUME NEW i \in 0 .. m PROVE h[i] = Kept(h, i)
      <3>1. Kept(h, i) = Kept(g, i)
        BY <1>1, <2>5, <2>11
      <3>2. h[i] = Kept(g, i)
        BY <1>1, <2>5, <2>7, <2>9, <2>11
      <3> QED BY <3>1, <3>2
    <2> HIDE DEF h
    <2> QED BY <2>3, <2>10, <2>12
  <1>5. PICK g \in [0 .. n -> Seq(U)] : Grows(g, n)
    <2>1. n \in 0 .. n
      BY <1>1
    <2>2. n \notin Bad
      <3> HIDE DEF Bad
      <3> QED BY <1>4
    <2> QED BY <2>1, <2>2
  <1> DEFINE kept == CHOOSE f : f = [i \in 0 .. n |-> Kept(f, i)]
  <1>6. g = [i \in 0 .. n |-> Kept(g, i)]
    <2> DEFINE k == [i \in 0 .. n |-> Kept(g, i)]
    <2>1. \A i \in 0 .. n : g[i] = k[i]
      BY <1>5
    <2>2. DOMAIN g = 0 .. n /\ DOMAIN k = 0 .. n /\ g = [i \in DOMAIN g |-> g[i]]
      OBVIOUS
    <2> HIDE DEF Kept
    <2> QED BY <2>1, <2>2
  <1>7. kept = [i \in 0 .. n |-> Kept(kept, i)]
    BY <1>6
  <1> HIDE DEF kept
  <1>8. \A i \in 0 .. n : kept[i] = Kept(kept, i)
    BY <1>7
  <1> DEFINE Wild == {i \in 0 .. n : kept[i] \notin Seq(U)}
  <1>9. Wild = {}
    <2>1. SUFFICES ASSUME Wild # {} PROVE FALSE
      OBVIOUS
    <2>2. PICK m \in Wild : \A j \in Wild : m <= j
      <3>1. Wild \in SUBSET Nat
        BY <1>1
      <3> HIDE DEF Wild
      <3> QED BY <2>1, <3>1, Least
    <2>3. m # 0
      <3>1. 0 \in 0 .. n /\ Kept(kept, 0) = <<>>
        BY <1>1
      <3>2. kept[0] = <<>>
        BY <1>8, <3>1
      <3>3. kept[0] \in Seq(U)
        BY <3>2
      <3> QED BY <2>2, <3>3
    <2>4. m \in 1 .. n /\ m - 1 \in 0 .. n /\ ~ (m <= m - 1)
      BY <1>1, <2>3
    <2>5. kept[m - 1] \in Seq(U)
      BY <2>2, <2>4
    <2>6. kept[m] \in Seq(U)
      BY <1>3, <1>8, <2>3, <2>4, <2>5
    <2> QED BY <2>6
  <1>10. n \in 0 .. n
    BY <1>1
  <1>11. kept[n] \in Seq(U)
    BY <1>9, <1>10
  <1>12. Among(s, T) = kept[n]
    BY DEF Among, kept, n
  <1>13. U \subseteq S \cap T /\ \A u \in U : \E i \in DOMAIN s : u = s[i]
    BY <1>1, <1>2
  <1> DEFINE q == Among(s, T)
  <1>14. q \in Seq(U)
    BY <1>11, <1>12
  <1> HIDE DEF q, U
  <1>15. q \in Seq(S \cap T) /\ \A k \in DOMAIN q : q[k] \in U
    BY <1>13, <1>14
  <1> QED BY <1>13, <1>15 DEF q

LEMMA PrefixGrows ==
  ASSUME NEW S, NEW p \in Seq(S), NEW s \in Seq(S), NEW x \in S
  PROVE  /\ IsPrefix(s, s) /\ IsPrefix(<<>>, s)
         /\ IsPrefix(p, s) => IsPrefix(p, Append(s, x))
  <1>1. IsPrefix(s, s) /\ IsPrefix(<<>>, s)
    BY DEF IsPrefix
  <1>2. ASSUME IsPrefix(p, s) PROVE IsPrefix(p, Append(s, x))
    <2>1. Len(p) \in Nat /\ Len(s) \in Nat /\ Len(p) <= Len(s) /\ Len(Append(s, x)) = Len(s) + 1
      BY <1>2 DEF IsPrefix
    <2>2. \A i \in 1 .. Len(s) : Append(s, x)[i] = s[i]
      BY <2>1
    <2>3. SubSeq(Append(s, x), 1, Len(p)) = SubSeq(s, 1, Len(p))
      <3> DEFINE a == Append(s, x)
      <3>1. a \in Seq(S) /\ Len(a) = Len(s) + 1
        OBVIOUS
      <3>2. \A i \in 1 .. Len(p) : a[i] = s[i]
        BY <2>1, <2>2
      <3> HIDE DEF a
      <3>3. SubSeq(a, 1, Len(p)) = [i \in 1 .. Len(p) |-> a[i]]
        BY <2>1, <3>1
      <3>4. SubSeq(s, 1, Len(p)) = [i \in 1 .. Len(p) |-> s[i]]
        BY <2>1
      <3> QED BY <3>2, <3>3, <3>4 DEF a
    <2> QED BY <1>2, <2>1, <2>3 DEF IsPrefix
  <1> QED BY <1>1, <1>2

LEMMA RefillIs ==
  ASSUME LoopAssumption, NEW approved \in SUBSET Approved, NEW completed, NEW recs,
         NEW q \in RuntimeQueues(Tracked, approved, MaxAdditions, completed, recs)
  PROVE  /\ q \in Seq(Task)
         /\ \A i \in DOMAIN q : q[i] \notin Ineligible(completed, recs)
         /\ q = <<>> => Additions(Tracked, approved, completed, recs) = {}
  <1> DEFINE bad  == Ineligible(completed, recs)
             new  == Additions(Tracked, approved, completed, recs)
             kept == Among(Tracked, Task \ bad)
             size == IF Cardinality(new) < MaxAdditions THEN Cardinality(new) ELSE MaxAdditions
  <1>1. /\ Tracked \in Seq(Task) /\ Approved \subseteq Task /\ IsFiniteSet(Approved)
        /\ MaxAdditions \in Nat \ {0}
    BY DEF LoopAssumption
  <1>2. new \subseteq Task \ bad /\ new \subseteq Approved
    BY <1>1 DEF Additions
  <1>3. Cardinality(new) \in Nat /\ (Cardinality(new) = 0 <=> new = {})
    <2>1. IsFiniteSet(new)
      BY <1>1, <1>2, FS_Subset
    <2> HIDE DEF new
    <2> QED BY <2>1, FS_CardinalityType, FS_EmptySet
  <1>4. size \in Nat /\ (size = 0 => new = {})
    BY <1>1, <1>3
  <1>5. kept \in Seq(Task \ bad)
    <2>1. kept \in Seq(Task \cap (Task \ bad))
      BY <1>1, AmongIs
    <2>2. Task \cap (Task \ bad) = Task \ bad
      OBVIOUS
    <2> QED BY <2>1, <2>2
  <1> HIDE DEF kept, size
  <1>6. PICK s \in [1 .. size -> new] : q = kept \o s
    BY DEF RuntimeQueues, kept, size
  <1> HIDE DEF new, bad
  <1>7. s \in Seq(Task \ bad) /\ Len(s) = size
    <2>1. s \in [1 .. size -> Task \ bad]
      BY <1>2, <1>6 DEF new, bad
    <2> HIDE DEF bad
    <2> QED BY <1>4, <2>1
  <1>8. q \in Seq(Task \ bad) /\ Len(q) = Len(kept) + Len(s)
    <2>1. kept \in Seq(Task \ bad) /\ s \in Seq(Task \ bad) /\ q = kept \o s
      BY <1>5, <1>6, <1>7
    <2> HIDE DEF kept
    <2> QED BY <2>1
  <1>9. q = <<>> => new = {}
    <2>1. Len(kept) \in Nat /\ Len(s) \in Nat
      BY <1>5, <1>7
    <2> QED BY <1>4, <1>7, <1>8, <2>1
  <1>10. q \in Seq(Task) /\ \A i \in DOMAIN q : q[i] \notin bad
    BY <1>8
  <1> QED BY <1>9, <1>10 DEF new, bad

LEMMA JudgeIs ==
  ASSUME NEW task \in Task, NEW child, child.exit \in Nat, child.code \in Categories \cup {"none"},
         NEW killed \in {"no", "timeout", "stop"}, NEW stopped \in BOOLEAN,
         NEW from \in Seq(Commits), NEW head \in Seq(Commits)
  PROVE  LET r == Judge(task, child, killed, stopped, from, head)
         IN  r \in Results /\ r.task = task /\ r.produced = head
  <1> DEFINE first  == LET r == SummaryReason(child, killed)
                       IN  IF r = "" /\ stopped THEN "stop" ELSE r
             second == IF ~ child.summary \/ first # "" THEN first
                       ELSE IF child.exit = 0 THEN SuccessReason(child, from, head)
                       ELSE IF child.exit = 80 THEN BlockedReason(child, head) ELSE ""
             same   == child.exit = 0 /\ head = from
             third  == IF second # "" THEN second
                       ELSE IF same THEN "no_change"
                       ELSE IF child.exit \notin {0, 80} THEN "runtime"
                       ELSE IF child.exit = 0 THEN VerifyProducedHead(from, head, task) ELSE ""
             status == CASE third = ""          -> IF child.exit = 80 THEN "BLOCKED" ELSE "PASS"
                         [] third = "no_change" -> "NO_CHANGE"
                         [] third = "timeout"   -> "TIMEOUT"
                         [] third = "stop"      -> "STOPPED"
                         [] OTHER               -> "FAIL"
  <1>1. first \in Reasons
    BY DEF SummaryReason, Reasons
  <1>2. SuccessReason(child, from, head) \in Reasons /\ BlockedReason(child, head) \in Reasons
    BY DEF SuccessReason, BlockedReason, Reasons
  <1> HIDE DEF first
  <1>3. second \in Reasons
    BY <1>1, <1>2
  <1>4. VerifyProducedHead(from, head, task) \in Reasons
    BY DEF VerifyProducedHead, Reasons
  <1> HIDE DEF second, same
  <1>5. third \in Reasons
    BY <1>3, <1>4 DEF Reasons
  <1> HIDE DEF third
  <1>6. status \in Statuses
    BY DEF Statuses
  <1> HIDE DEF status
  <1> DEFINE why  == IF status = "BLOCKED" THEN "rea" ELSE third
             code == IF child.summary THEN child.code ELSE "none"
  <1>7. why \in Reasons /\ code \in Categories \cup {"none"}
    BY <1>5 DEF Reasons
  <1>8. Judge(task, child, killed, stopped, from, head) =
          [task |-> task, status |-> status, exit |-> child.exit, base |-> from,
           produced |-> head, why |-> why, code |-> code]
    BY DEF Judge, status, third, same, second, first
  <1> HIDE DEF why, code
  <1> QED BY <1>7, <1>6, <1>8 DEF Results

LEMMA RefusedIs ==
  ASSUME NEW task \in Task \cup {"none"}, NEW why \in Reasons, NEW exit \in Nat,
         NEW from \in Seq(Commits), NEW head \in Seq(Commits)
  PROVE  LET r == Refused(task, why, exit, from, head)
         IN  r \in Results /\ r.task = task /\ r.produced = head
  BY DEF Refused, Results, Statuses


LEMMA NothingYet ==
  /\ Start \in Seq(Commits) /\ NoResult \in Results /\ NoResult.produced = Start
  /\ NoGates \in [GateNames -> {"skipped", "success", "failure"}]
  /\ IsPrefix(Start, Start)
  <1>1. Start \in Seq(Commits) /\ "" \in Reasons
    BY DEF Start, Reasons
  <1>2. NoResult \in Results /\ NoResult.produced = Start
    BY <1>1 DEF NoResult, Refused, Results, Statuses
  <1>3. NoGates \in [GateNames -> {"skipped", "success", "failure"}]
    BY DEF NoGates, GateNames
  <1>4. IsPrefix(Start, Start)
    BY DEF IsPrefix, Start
  <1> QED BY <1>1, <1>2, <1>3, <1>4

\* Between two runs nothing is in hand.
LEMMA IdleRunInv ==
  ASSUME pc = "idle", queue = <<>>, todo = <<>>, index = 0, base = Start, tree = Start,
         result = NoResult, rows = <<>>, marker = "none", gates = NoGates
  PROVE  RunInv
  <1>1. Typed
    BY NothingYet DEF Typed
  <1>2. Grown
    BY NothingYet DEF Grown
  <1> QED BY <1>1, <1>2 DEF RunInv, SameCompleted, Fresh, Refilled, Picked, InHand, Marked, Truthful,
    Before, Working, After

LEMMA InitRunInv == Init => RunInv
  BY IdleRunInv DEF Init

LEMMA EndRunRunInv ==
  ASSUME NEW report, NEW chain, EndRun(report, chain)
  PROVE  RunInv'
  <1>1. /\ pc' = "idle" /\ queue' = <<>> /\ todo' = <<>> /\ index' = 0 /\ base' = Start /\ tree' = Start
        /\ result' = NoResult /\ rows' = <<>> /\ marker' = "none" /\ gates' = NoGates
    BY DEF EndRun
  <1>2. Typed'
    BY <1>1, NothingYet DEF Typed
  <1>3. Grown'
    BY <1>1, NothingYet DEF Grown
  <1> QED BY <1>1, <1>2, <1>3 DEF RunInv, SameCompleted, Fresh, Refilled, Picked, InHand, Marked, Truthful,
    Before, Working, After

\* A step that changes none of the variables that the invariant speaks of.
LEMMA StutterRunInv ==
  ASSUME RunInv, UNCHANGED <<branch, local, run, pc, taskVars, tree, marker, gates, pushed>>
  PROVE  RunInv'
  <1>1. UNCHANGED <<branch, local, run, pc, queue, todo, index, base, result, tries, rows, tree,
                    marker, gates, pushed>>
    BY DEF taskVars
  <1>2. Typed' /\ Grown' /\ Truthful'
    BY <1>1 DEF RunInv, Typed, Grown, Truthful
  <1>3. SameCompleted' /\ Fresh' /\ Refilled' /\ Marked'
    BY <1>1 DEF RunInv, SameCompleted, Fresh, Refilled, Marked, Held
  <1>4. Picked' /\ InHand' /\ \A k \in DOMAIN rows' : Clean(rows[k])'
    BY <1>1 DEF RunInv, Picked, InHand, Clean, Current
  <1> QED BY <1>1, <1>2, <1>3, <1>4 DEF RunInv

LEMMA StartRunRunInv ==
  ASSUME RunInv, NEW depth, NEW approval, NEW registered, StartRun(depth, approval, registered)
  PROVE  RunInv'
  <1>1. /\ pc = "idle" /\ pc' \in {"resume", "refill"} /\ local' = branch
        /\ UNCHANGED <<branch, queue, todo, index, base, result, rows, tree, marker, gates, pushed>>
    BY DEF StartRun, taskVars
  <1>2. rows = <<>> /\ marker = "none" /\ gates = NoGates
    BY <1>1 DEF RunInv, Fresh
  <1>3. Typed' /\ Grown'
    BY <1>1 DEF RunInv, Typed, Grown
  <1> QED BY <1>1, <1>2, <1>3 DEF RunInv, SameCompleted, Fresh, Refilled, Picked, InHand, Marked, Truthful,
    Before, Working, After

LEMMA ResumeRunInv ==
  ASSUME IInv, RunInv, ResumeApproved
  PROVE  RunInv'
  <1> DEFINE t == run.approval
  <1>1. CASE EndRun("BLOCKED", "source_run_not_success")
    BY <1>1, EndRunRunInv
  <1>2. CASE /\ local' = [local EXCEPT !.recs[t] = Confirm(Resume(@))]
             /\ UNCHANGED <<branch, run, taskVars, tree, outVars>> /\ pc = "resume" /\ pc' = "refill"
    <2>1. PICK completed, recs :
            local = [completed |-> completed, recs |-> recs] /\ recs \in [Task -> Rec]
      BY <1>2 DEF IInv, IsState
    <2>2. local'.completed = local.completed
      BY <1>2, <2>1
    <2>3. rows = <<>> /\ marker = "none" /\ gates = NoGates /\ branch.completed = local.completed
      BY <1>2 DEF RunInv, Fresh, SameCompleted, Before
    <2>4. Typed' /\ Grown'
      BY <1>2 DEF RunInv, Typed, Grown, taskVars, outVars
    <2> QED BY <1>2, <2>2, <2>3, <2>4 DEF RunInv, SameCompleted, Fresh, Refilled, Picked, InHand, Marked,
      Truthful, Before, Working, After, taskVars, outVars
  <1> QED BY <1>1, <1>2 DEF ResumeApproved

LEMMA RefillRunInv ==
  ASSUME LoopAssumption, RunInv, Refill
  PROVE  RunInv'
  <1>1. /\ pc = "refill" /\ pc' = "select" /\ base' = tree
        /\ queue' \in RuntimeQueues(Tracked, Approved \cap run.registered, MaxAdditions,
                                    local.completed, local.recs)
        /\ UNCHANGED <<branch, local, run, todo, index, tree, result, rows, marker, gates, pushed>>
    BY DEF Refill, outVars
  <1>2. rows = <<>> /\ marker = "none" /\ gates = NoGates /\ branch.completed = local.completed
    BY <1>1 DEF RunInv, Fresh, SameCompleted, Before
  <1>3. /\ queue' \in Seq(Task)
        /\ \A i \in DOMAIN queue' : queue'[i] \notin Ineligible(local.completed, local.recs)
        /\ queue' = <<>> =>
             Additions(Tracked, Approved \cap run.registered, local.completed, local.recs) = {}
    BY <1>1, RefillIs
  <1>4. Typed' /\ Grown' /\ Refilled'
    BY <1>1, <1>3 DEF RunInv, Typed, Grown, Refilled
  <1> QED BY <1>1, <1>2, <1>4 DEF RunInv, SameCompleted, Fresh, Picked, InHand, Marked, Truthful,
    Before, Working, After

\* The loop ends with one more row, of a task it did not run.
LEMMA LastRow ==
  ASSUME RunInv, pc \in {"select", "gate"}, NEW row \in Rows, ~ row.verified, row.produced = tree,
         NEW mark \in {"none", "held", "notrun"}, mark = "notrun" => Held \cap run.registered = {},
         NEW exit, rows' = Append(rows, row), EndLoop(exit, mark),
         UNCHANGED <<branch, local, run, queue, todo, index, base, result, tree, pushed>>
  PROVE  RunInv'
  <1> DEFINE n == Len(rows)
  <1>1. /\ Typed /\ Grown /\ (\A k \in DOMAIN rows : Clean(rows[k])) /\ gates = NoGates
        /\ branch.completed = local.completed
    BY DEF RunInv, Fresh, Picked, SameCompleted, Before, Working
  <1>2. /\ rows \in Seq(Rows) /\ tree \in Seq(Commits) /\ n \in Nat
        /\ gates \in [GateNames -> {"skipped", "success", "failure"}]
    BY <1>1 DEF Typed
  <1>3. /\ rows' \in Seq(Rows) /\ DOMAIN rows' = 1 .. n + 1 /\ rows'[n + 1] = row
        /\ \A k \in 1 .. n : rows'[k] = rows[k]
        /\ \A k \in DOMAIN rows' : k = n + 1 \/ k \in DOMAIN rows
    BY <1>2
  <1>4. /\ pc' = "publish" /\ marker' = mark
        /\ gates' = [gates EXCEPT !.loop = Outcome(exit = 0 \/ mark # "none")]
    BY DEF EndLoop
  <1>5. /\ gates' \in [GateNames -> {"skipped", "success", "failure"}]
        /\ gates'.publish = "skipped" /\ gates'.state = "skipped"
    BY <1>1, <1>2, <1>4 DEF NoGates, Outcome, GateNames
  <1>6. Typed'
    BY <1>1, <1>3, <1>4, <1>5 DEF Typed
  <1>7. Grown'
    <2>1. IsPrefix(tree, tree)
      BY <1>2 DEF IsPrefix
    <2> QED BY <1>1, <1>3, <2>1 DEF Grown
  <1>8. \A k \in DOMAIN rows' : Clean(rows[k])'
    BY <1>1, <1>3 DEF Clean
  <1>9. Marked'
    BY <1>4 DEF Marked, After, Held
  <1> QED BY <1>1, <1>4, <1>5, <1>6, <1>7, <1>8, <1>9 DEF RunInv, SameCompleted, Fresh, Refilled, Picked,
    InHand, Truthful, Before, Working

LEMMA PlainRowIs ==
  ASSUME Typed, NEW task \in Task \cup {"none"}, NEW status \in Statuses, NEW exit \in Nat,
         NEW why \in Reasons
  PROVE  LET row == PlainRow(task, status, exit, why)
         IN  row \in Rows /\ ~ row.verified /\ row.produced = tree /\ row.exit = exit
  BY DEF Typed, PlainRow, Row, Refused, GateOpen, Rows

LEMMA StopLoopRunInv ==
  ASSUME RunInv, pc \in {"select", "gate"}, NEW task \in Task \cup {"none"}, NEW status \in Statuses,
         NEW exit \in Nat, NEW why \in Reasons, StopLoop(PlainRow(task, status, exit, why)),
         UNCHANGED <<branch, local, run, queue, tree, pushed>>
  PROVE  RunInv'
  <1> DEFINE row == PlainRow(task, status, exit, why)
  <1>1. row \in Rows /\ ~ row.verified /\ row.produced = tree
    BY PlainRowIs DEF RunInv
  <1> HIDE DEF row
  <1>2. /\ rows' = Append(rows, row) /\ EndLoop(row.exit, "none")
        /\ UNCHANGED <<todo, index, base, result>>
    BY DEF StopLoop, row
  <1> QED BY <1>1, <1>2, LastRow

\* The marker "notrun" is left only when nothing of the checkout's catalog is held.
LEMMA NotRunIs ==
  ASSUME RunInv, pc = "select",
         NEW registered, NEW from, NEW head,
         SelectNext(queue, registered, local.completed, Held, from, head).act = "NOT_RUN",
         NotRunMarker = "notrun"
  PROVE  Held \cap run.registered = {}
  <1>1. /\ queue \in Seq(Task)
        /\ \A i \in DOMAIN queue : queue[i] \notin Ineligible(local.completed, local.recs)
        /\ queue = <<>> =>
             Additions(Tracked, Approved \cap run.registered, local.completed, local.recs) = {}
    BY DEF RunInv, Typed, Refilled
  <1>2. queue = <<>> \/ ToSet(queue) \subseteq local.completed
    BY DEF SelectNext
  <1>3. queue = <<>>
    <2>1. ASSUME queue # <<>> PROVE FALSE
      <3>1. 1 \in DOMAIN queue
        BY <1>1, <2>1
      <3>2. queue[1] \in local.completed
        BY <1>2, <2>1, <3>1 DEF ToSet
      <3> QED BY <1>1, <3>1, <3>2 DEF Ineligible
    <2> QED BY <2>1
  <1>4. (Approved \cap run.registered) \ (ToSet(Tracked) \cup local.completed \cup Held) = {}
    BY <1>1, <1>3 DEF Additions, Ineligible, Held
  <1> QED BY <1>4 DEF NotRunMarker

LEMMA SelectRunInv ==
  ASSUME LoopAssumption, RunInv, NEW kill \in BOOLEAN, Select(kill)
  PROVE  RunInv'
  <1> DEFINE pick == SelectNext(queue, run.registered, local.completed, Held, base, tree)
             open == Among(queue, Task \ (local.completed \cup Held))
             size == IF Len(open) < MaxTasks THEN Len(open) ELSE MaxTasks
  <1>1. pc = "select" /\ UNCHANGED <<branch, local, run, queue, tree, pushed>>
    BY DEF Select
  <1>2. Typed /\ rows = <<>> /\ gates = NoGates /\ marker = "none" /\ branch.completed = local.completed
    BY <1>1 DEF RunInv, Fresh, SameCompleted, Before
  <1>3. {"BLOCKED", "NOT_RUN"} \subseteq Statuses /\ {"", "control_tower"} \subseteq Reasons
    BY DEF Statuses, Reasons
  <1>4. CASE StopLoop(PlainRow("none", "BLOCKED", 80, "control_tower"))
    BY <1>1, <1>3, <1>4, StopLoopRunInv
  <1>5. CASE /\ pick.act = "SELECT" /\ todo' = SubSeq(open, 1, size) /\ index' = 1 /\ pc' = "gate"
             /\ UNCHANGED <<base, result, rows, marker, gates>>
    <2>1. open \in Seq(Task \ local.completed)
      <3>1. queue \in Seq(Task)
        BY <1>2 DEF Typed
      <3>2. open \in Seq(Task \cap (Task \ (local.completed \cup Held)))
        BY <3>1, AmongIs
      <3>3. Task \cap (Task \ (local.completed \cup Held)) \subseteq Task \ local.completed
        OBVIOUS
      <3> HIDE DEF open
      <3> QED BY <3>2, <3>3
    <2>2. open # <<>>
      BY <1>5 DEF SelectNext
    <2> HIDE DEF open
    <2>3. MaxTasks \in Nat \ {0} /\ Len(open) \in Nat \ {0}
      BY <2>1, <2>2 DEF LoopAssumption
    <2>4. size \in 1 .. Len(open)
      BY <2>3
    <2>5. /\ todo' \in Seq(Task \ local.completed) /\ Len(todo') = size
      BY <1>5, <2>1, <2>3, <2>4
    <2>6. /\ todo' \in Seq(Task) /\ 1 \in DOMAIN todo'
          /\ \A i \in DOMAIN todo' : todo'[i] \notin local.completed
      BY <2>4, <2>5
    <2>7. Typed' /\ Grown'
      BY <1>1, <1>2, <1>5, <2>6 DEF RunInv, Typed, Grown
    <2>8. Len(rows) = 0
      BY <1>2
    <2> QED BY <1>1, <1>2, <1>5, <2>6, <2>7, <2>8 DEF RunInv, SameCompleted, Fresh, Refilled, Picked, InHand,
      Marked, Truthful, Before, Working
  <1>6. CASE /\ pick.act # "SELECT"
             /\ rows' = <<IF pick.act = "HOLD" THEN PlainRow("none", "BLOCKED", 79, "")
                          ELSE PlainRow("none", "NOT_RUN", 78, "")>>
             /\ EndLoop(78, IF pick.act = "HOLD" THEN "held" ELSE NotRunMarker)
             /\ UNCHANGED <<todo, index, base, result>>
    <2> DEFINE row  == IF pick.act = "HOLD" THEN PlainRow("none", "BLOCKED", 79, "")
                       ELSE PlainRow("none", "NOT_RUN", 78, "")
               mark == IF pick.act = "HOLD" THEN "held" ELSE NotRunMarker
    <2>1. row \in Rows /\ ~ row.verified /\ row.produced = tree
      <3>1. ASSUME NEW status \in Statuses, NEW exit \in Nat
            PROVE  LET r == PlainRow("none", status, exit, "")
                   IN  r \in Rows /\ ~ r.verified /\ r.produced = tree
        BY <1>2, <1>3, PlainRowIs
      <3>2. \A status \in Statuses, exit \in Nat :
              LET r == PlainRow("none", status, exit, "")
              IN  r \in Rows /\ ~ r.verified /\ r.produced = tree
        BY <3>1
      <3> QED BY <1>3, <3>2
    <2>2. rows' = Append(rows, row)
      <3>1. rows' = <<row>> /\ rows = <<>>
        BY <1>2, <1>6
      <3> HIDE DEF row
      <3> QED BY <3>1
    <2>3. pick.act \in {"HOLD", "NOT_RUN"}
      BY <1>6 DEF SelectNext
    <2>4. mark \in {"none", "held", "notrun"}
      BY DEF NotRunMarker
    <2>5. mark = "notrun" => Held \cap run.registered = {}
      BY <1>1, <2>3, NotRunIs
    <2>6. EndLoop(78, mark) /\ UNCHANGED <<todo, index, base, result>>
      BY <1>6
    <2> HIDE DEF row, mark
    <2> QED BY <1>1, <2>1, <2>2, <2>4, <2>5, <2>6, LastRow
  <1> QED BY <1>4, <1>5, <1>6 DEF Select

\* A task that goes on behind the gates.
LEMMA GateRunInv ==
  ASSUME RunInv, NEW scan, Gate(scan)
  PROVE  RunInv'
  <1> DEFINE t    == Current
             pick == SelectNext(queue, run.registered, Done, Held, base, tree)
  <1>1. pc = "gate" /\ UNCHANGED <<branch, local, run, queue, tree, pushed>>
    BY DEF Gate
  <1>2. Typed /\ Picked /\ Grown /\ marker = "none" /\ gates = NoGates /\ index \in DOMAIN todo
        /\ Len(rows) = index - 1 /\ branch.completed = local.completed
    BY <1>1 DEF RunInv, Picked, SameCompleted, Working
  <1>3. t \in Task
    BY <1>2 DEF Typed, Current
  <1>4. /\ {"BLOCKED", "STOPPED"} \subseteq Statuses
        /\ {"reselection", "stop", "gate", "rea"} \subseteq Reasons
    BY DEF Statuses, Reasons
  <1>5. CASE \/ StopLoop(PlainRow(t, "BLOCKED", 80, "reselection"))
             \/ StopLoop(PlainRow(t, "STOPPED", 1, "stop"))
             \/ StopLoop(PlainRow(t, "BLOCKED", 80, "gate"))
    <2> HIDE DEF t
    <2> QED BY <1>1, <1>3, <1>4, <1>5, StopLoopRunInv
  <1>6. CASE /\ ~ (index > 1 /\ ~ Reselects(pick, t)) /\ ~ Blocks(local.recs[t])
             /\ UNCHANGED <<todo, index, base, rows, marker, gates>>
             /\ \/ pc' = "settle" /\ result' = Refused(t, "gate", 1, base, tree)
                \/ pc' = "settle" /\ result' = Refused(t, "rea", 80, base, tree)
                \/ pc' = "launch" /\ UNCHANGED result
    <2>1. ASSUME NEW k \in DOMAIN rows PROVE rows[k].task # t
      <3>1. index > 1
        BY <1>2 DEF Typed
      <3>2. pick.act = "SELECT" /\ pick.task = t
        BY <1>6, <3>1 DEF Reselects
      <3> DEFINE open == Among(queue, Task \ (Done \cup Held))
      <3>3. open # <<>> /\ t = Head(open)
        BY <3>2 DEF SelectNext
      <3>4. open \in Seq(Task \cap (Task \ (Done \cup Held)))
        BY <1>2, AmongIs DEF Typed
      <3> HIDE DEF open
      <3>5. t \notin Done
        BY <3>3, <3>4
      <3> QED BY <3>5 DEF Done
    <2>2. /\ result' \in Results /\ IsPrefix(result'.produced, tree)
          /\ pc' = "settle" => result'.task = t
      <3>1. IsPrefix(tree, tree)
        BY <1>2 DEF Typed, IsPrefix
      <3>2. /\ base \in Seq(Commits) /\ tree \in Seq(Commits) /\ result \in Results
            /\ IsPrefix(result.produced, tree)
        BY <1>2 DEF Typed, Grown
      <3>3. ASSUME NEW why \in Reasons, NEW exit \in Nat
            PROVE  LET r == Refused(t, why, exit, base, tree)
                   IN  r \in Results /\ r.task = t /\ r.produced = tree
        <4> HIDE DEF t
        <4> QED BY <1>3, <3>2, RefusedIs
      <3>4. CASE result' = Refused(t, "gate", 1, base, tree)
        BY <1>4, <3>1, <3>3, <3>4
      <3>5. CASE result' = Refused(t, "rea", 80, base, tree)
        BY <1>4, <3>1, <3>3, <3>5
      <3> QED BY <1>6, <3>2, <3>4, <3>5
    <2>3. Typed' /\ Grown' /\ Current' = t
      BY <1>1, <1>2, <1>6, <2>2 DEF Typed, Grown, Current
    <2>4. Picked' /\ pc' \in {"settle", "launch"}
      BY <1>1, <1>2, <1>6 DEF Picked, Working
    <2>5. InHand'
      BY <1>1, <1>6, <2>1, <2>2, <2>3, <2>4 DEF InHand, Working
    <2> QED BY <1>1, <1>2, <1>6, <2>3, <2>4, <2>5 DEF RunInv, SameCompleted, Fresh, Refilled, Clean, Marked,
      Truthful, Before, Working
  <1> QED BY <1>5, <1>6 DEF Gate

LEMMA ChildIs ==
  ASSUME Typed, NEW t \in Task, NEW leaves \in Children(t)
  PROVE  /\ leaves.child.exit \in Nat /\ leaves.child.code \in Categories \cup {"none"}
         /\ \/ leaves.child.head = tree
            \/ \E x \in Commits : leaves.child.head = Append(tree, x)
  <1> DEFINE Is(l) == /\ l.child.exit \in Nat /\ l.child.code \in Categories \cup {"none"}
                      /\ l.child.head = tree \/ \E x \in Commits : l.child.head = Append(tree, x)
             made == {Append(tree, t), Append(tree, "outside")}
             Leaves(exit, summary, says, code, head, mess) ==
               [child |-> [exit |-> exit, summary |-> summary, says |-> says, code |-> code,
                           head |-> head, reasoned |-> FALSE],
                dirty |-> mess]
  <1>1. t \in Commits /\ "outside" \in Commits
    BY DEF Commits
  <1>2. {"none", "invalid_task"} \cup Transient \subseteq Categories \cup {"none"}
    BY DEF Categories, Final
  <1>3. \A h \in {tree} \cup made : h = tree \/ \E x \in Commits : h = Append(tree, x)
    BY <1>1
  <1> HIDE DEF made
  <1>4. CASE leaves \in {Leaves(0, TRUE, "PASS", "none", h, FALSE) : h \in {tree} \cup made}
    <2>1. PICK h \in {tree} \cup made : leaves = Leaves(0, TRUE, "PASS", "none", h, FALSE)
      BY <1>4
    <2> QED BY <1>2, <1>3, <2>1
  <1>5. CASE leaves = Leaves(80, TRUE, "BLOCKED", "none", tree, dirty)
    BY <1>2, <1>5
  <1>6. CASE leaves \in {Leaves(1, TRUE, "FAIL", c, tree, d) :
                           c \in {"none", "invalid_task"} \cup Transient, d \in {dirty, TRUE}}
    <2>1. PICK c \in {"none", "invalid_task"} \cup Transient, d \in {dirty, TRUE} :
            leaves = Leaves(1, TRUE, "FAIL", c, tree, d)
      BY <1>6
    <2> QED BY <1>2, <2>1
  <1>7. CASE leaves \in {Leaves(1, FALSE, "FAIL", "none", h, h = tree) : h \in {tree, Append(tree, t)}}
    <2>1. PICK h \in {tree, Append(tree, t)} : leaves = Leaves(1, FALSE, "FAIL", "none", h, h = tree)
      BY <1>7
    <2>2. h = tree \/ \E x \in Commits : h = Append(tree, x)
      BY <1>1
    <2> QED BY <1>2, <2>1, <2>2
  <1> QED BY <1>4, <1>5, <1>6, <1>7 DEF Children, made

\* The result of a child is the current task's, and names a HEAD of the checkout.
LEMMA RunTaskRunInv ==
  ASSUME RunInv, NEW child, NEW killed \in {"no", "timeout", "stop"}, NEW stopped \in BOOLEAN,
         RunTask(child, killed, stopped)
  PROVE  RunInv'
  <1> DEFINE t == Current
  <1>1. /\ pc \in {"launch", "again"} /\ child \in Children(t)
        /\ UNCHANGED <<branch, local, run, queue, todo, index, base, rows, marker, gates, pushed>>
    BY DEF RunTask, outVars
  <1>2. /\ Typed /\ Picked /\ Grown /\ InHand /\ marker = "none" /\ gates = NoGates
        /\ index \in DOMAIN todo /\ branch.completed = local.completed
        /\ base \in Seq(Commits) /\ tree \in Seq(Commits)
    BY <1>1 DEF RunInv, Typed, Picked, SameCompleted, Working
  <1>3. t \in Task
    BY <1>2 DEF Typed, Current
  <1>4. /\ child.child.exit \in Nat /\ child.child.code \in Categories \cup {"none"}
        /\ child.child.head = tree \/ \E x \in Commits : child.child.head = Append(tree, x)
    <2> HIDE DEF t
    <2> QED BY <1>1, <1>2, <1>3, ChildIs
  <1>5. /\ tree' \in Seq(Commits) /\ result' \in Results /\ result'.task = t
        /\ IsPrefix(result'.produced, tree')
        /\ \A k \in DOMAIN rows : IsPrefix(rows[k].produced, tree')
        /\ pc' \in {"settle", "retry"}
    <2> HIDE DEF t
    <2>1. CASE tree # base
      <3>1. /\ pc' = "settle" /\ tree' = tree
            /\ result' = (IF pc = "launch" THEN Refused(t, "head_changed", 1, base, tree) ELSE result)
        BY <2>1 DEF RunTask, t
      <3>2. LET r == Refused(t, "head_changed", 1, base, tree)
            IN  r \in Results /\ r.task = t /\ r.produced = tree
        <4>1. "head_changed" \in Reasons
          BY DEF Reasons
        <4> QED BY <1>2, <1>3, <4>1, RefusedIs
      <3>3. IsPrefix(tree, tree)
        BY <1>2 DEF IsPrefix
      <3>4. pc = "again" => result.task = t
        BY <1>2 DEF InHand, t
      <3> QED BY <1>1, <1>2, <3>1, <3>2, <3>3, <3>4 DEF Typed, Grown
    <2>2. CASE tree = base
      <3> DEFINE head == child.child.head
      <3>1. /\ pc' = "retry" /\ tree' = head
            /\ result' = Judge(t, child.child, killed, stopped, base, head)
        BY <2>2 DEF RunTask, t
      <3>2. head \in Seq(Commits)
        <4>1. \A x \in Commits : Append(tree, x) \in Seq(Commits)
          BY <1>2
        <4> QED BY <1>2, <1>4, <4>1
      <3>3. result' \in Results /\ result'.task = t /\ result'.produced = head
        BY <1>2, <1>3, <1>4, <3>1, <3>2, JudgeIs
      <3>4. IsPrefix(head, head)
        BY <3>2 DEF IsPrefix
      <3>5. ASSUME NEW k \in DOMAIN rows PROVE IsPrefix(rows[k].produced, head)
        <4>1. rows[k].produced \in Seq(Commits) /\ IsPrefix(rows[k].produced, tree)
          <5>1. rows[k] \in Rows /\ IsPrefix(rows[k].produced, tree)
            BY <1>2 DEF Typed, Grown
          <5> QED BY <5>1 DEF Rows
        <4> QED BY <1>2, <1>4, <4>1, PrefixGrows
      <3> QED BY <3>1, <3>2, <3>3, <3>4, <3>5
    <2> QED BY <2>1, <2>2
  <1>6. Typed' /\ Grown' /\ Picked' /\ Current' = t
    BY <1>1, <1>2, <1>5 DEF Typed, Grown, Picked, Current, Working
  <1>7. InHand'
    BY <1>1, <1>2, <1>5, <1>6 DEF InHand, Working
  <1> QED BY <1>1, <1>2, <1>5, <1>6, <1>7 DEF RunInv, SameCompleted, Fresh, Refilled, Clean, Marked,
    Truthful, Before, Working

LEMMA RetryRunInv ==
  ASSUME RunInv, Retry
  PROVE  RunInv'
  <1>1. /\ pc = "retry" /\ pc' \in {"again", "settle"} /\ base' \in {tree, base}
        /\ UNCHANGED <<branch, local, run, queue, todo, index, rows, result, tree, marker, gates, pushed>>
    BY DEF Retry, outVars
  <1>2. Typed' /\ Grown' /\ Picked' /\ InHand'
    BY <1>1 DEF RunInv, Typed, Grown, Picked, InHand, Current, Working
  <1> QED BY <1>1, <1>2 DEF RunInv, SameCompleted, Fresh, Refilled, Picked, Clean, Marked,
    Truthful, Before, Working

\* What the record of an outcome says of it: verified only with no failure on record.
LEMMA RecordIs ==
  ASSUME NEW rec \in Rec, NEW res \in Results, NEW attempt
  PROVE  LET kept == Record(rec, res, attempt)
         IN  /\ kept.result \in Results /\ kept.result.task = res.task
             /\ kept.result.produced = res.produced
             /\ kept.verified \in BOOLEAN
             /\ kept.verified => kept.rec = RecordSuccess(rec)
  <1> DEFINE lost == [res EXCEPT !.status = "FAIL", !.exit = 1, !.why = "evidence"]
             kept == Record(rec, res, attempt)
  <1>1. lost \in Results /\ lost.task = res.task /\ lost.produced = res.produced
    BY DEF Results, Statuses, Reasons
  <1> HIDE DEF lost
  <1> DEFINE Keep(r, x) == [rec |-> r, recorded |-> TRUE, verified |-> FALSE, result |-> x]
  <1>2. \/ kept = [Keep(rec, res) EXCEPT !.recorded = FALSE]
        \/ kept = Keep(RecordFailure(rec, "invalid_evidence", 1), lost)
        \/ kept = [Keep(RecordSuccess(rec), res) EXCEPT !.verified = TRUE]
        \/ kept = Keep(RecordFailure(rec, Category(res), attempt), res)
    BY DEF Record, lost
  <1> HIDE DEF kept
  <1>3. /\ kept.result \in {res, lost} /\ kept.verified \in BOOLEAN
        /\ kept.verified => kept.rec = RecordSuccess(rec)
    <2>1. CASE kept = [Keep(rec, res) EXCEPT !.recorded = FALSE]
      BY <2>1
    <2>2. CASE kept = Keep(RecordFailure(rec, "invalid_evidence", 1), lost)
      BY <2>2
    <2>3. CASE kept = [Keep(RecordSuccess(rec), res) EXCEPT !.verified = TRUE]
      BY <2>3
    <2>4. CASE kept = Keep(RecordFailure(rec, Category(res), attempt), res)
      BY <2>4
    <2> QED BY <1>2, <2>1, <2>2, <2>3, <2>4
  <1> QED BY <1>1, <1>3 DEF kept

\* The row of the current task, and the records behind the rows.
LEMMA SettleRunInv ==
  ASSUME IInv, RunInv, NEW saves \in BOOLEAN, NEW observes \in BOOLEAN, Settle(saves, observes)
  PROVE  RunInv'
  <1> DEFINE t     == Current
             n     == Len(rows)
             scan  == IF result.why = "rea" THEN "incomplete" ELSE "pass"
             kept  == IF saves THEN Record(local.recs[t], result, tries + 1)
                      ELSE [rec |-> local.recs[t], recorded |-> FALSE, verified |-> FALSE, result |-> result]
             allow == AllowsContinue(kept.result, scan, observes, kept)
             lost  == kept.result.status \in Successful /\ ~ allow
             final == IF lost THEN [kept.result EXCEPT !.status = "FAIL", !.exit = 1, !.why = "evidence"]
                      ELSE kept.result
             rec   == IF lost /\ saves THEN RecordFailure(kept.rec, "invalid_evidence", 1) ELSE kept.rec
             more  == allow /\ index < Len(todo)
             row   == Row(final, scan, kept, allow)
  <1>1. /\ pc = "settle" /\ rows' = Append(rows, row)
        /\ local' = [local EXCEPT !.recs[t] = rec]
        /\ UNCHANGED <<branch, run, queue, todo, tree, pushed>>
    BY DEF Settle
  <1>2. /\ IF more THEN index' = index + 1 /\ base' = tree /\ pc' = "gate" /\ UNCHANGED <<marker, gates>>
           ELSE EndLoop(IF allow THEN 0 ELSE 1, "none") /\ UNCHANGED <<index, base>>
        /\ result' = NoResult
    BY DEF Settle
  <1>3. /\ Typed /\ Picked /\ Grown /\ marker = "none" /\ gates = NoGates
        /\ index \in DOMAIN todo /\ n = index - 1 /\ branch.completed = local.completed
        /\ ~ Blocks(local.recs[t]) /\ \A k \in DOMAIN rows : rows[k].task # t
        /\ result.task = t /\ \A k \in DOMAIN rows : Clean(rows[k])
    BY <1>1 DEF RunInv, Picked, SameCompleted, InHand, Working
  <1>4. /\ t \in Task /\ result \in Results /\ rows \in Seq(Rows) /\ n \in Nat
        /\ tree \in Seq(Commits) /\ IsPrefix(result.produced, tree)
    BY <1>3 DEF Typed, Current, Grown
  <1>5. PICK completed, recs :
          local = [completed |-> completed, recs |-> recs] /\ recs \in [Task -> Rec]
    BY <1>1 DEF IInv, IsState
  <1>6. local.recs[t] \in Rec
    BY <1>4, <1>5
  <1> HIDE DEF t
  <1>7. /\ kept.result \in Results /\ kept.result.task = t /\ kept.verified \in BOOLEAN
        /\ kept.result.produced = result.produced
        /\ kept.verified => kept.rec = RecordSuccess(local.recs[t])
    <2>1. CASE saves
      BY <1>3, <1>4, <1>6, <2>1, RecordIs
    <2>2. CASE ~ saves
      BY <1>3, <1>4, <2>2
    <2> QED BY <2>1, <2>2
  <1>8. allow \in BOOLEAN /\ (allow => ~ lost)
    BY DEF AllowsContinue
  <1> HIDE DEF kept, allow, scan
  <1>9. final \in Results /\ final.task = t /\ final.produced = result.produced
    BY <1>7 DEF Results, Statuses, Reasons
  <1>10. allow => rec = kept.rec
    BY <1>8
  <1> HIDE DEF final, rec, lost
  <1>11. /\ row \in Rows /\ row.task = t /\ row.produced = result.produced
         /\ row.verified = kept.verified /\ row.allow = allow
    <2>1. GateOpen(scan) \in BOOLEAN
      BY DEF GateOpen
    <2> QED BY <1>7, <1>8, <1>9, <2>1 DEF Row, Rows, Results
  <1> HIDE DEF row
  <1>12. /\ rows' \in Seq(Rows) /\ DOMAIN rows' = 1 .. n + 1 /\ Len(rows') = n + 1 /\ rows'[n + 1] = row
         /\ \A k \in DOMAIN rows : rows'[k] = rows[k]
         /\ \A k \in DOMAIN rows' : k = n + 1 \/ k \in DOMAIN rows
    BY <1>1, <1>4, <1>11
  <1>13. /\ local'.completed = local.completed
         /\ local'.recs[t] = rec /\ \A u \in Task : u # t => local'.recs[u] = local.recs[u]
    BY <1>1, <1>4, <1>5
  <1>14. \A k \in DOMAIN rows' : Clean(rows[k])'
    <2>1. ASSUME row.verified, row.allow
          PROVE  ~ Blocks(rec) /\ rec.count = 0
      <3>1. rec = RecordSuccess(local.recs[t])
        BY <1>7, <1>10, <1>11, <2>1
      <3> QED BY <1>3, <1>6, <3>1 DEF RecordSuccess, Rec, Blocks, t
    <2>2. ASSUME NEW k \in DOMAIN rows PROVE Clean(rows[k])'
      BY <1>3, <1>12, <1>13, <2>2 DEF Clean, t
    <2>3. ASSUME NEW k \in DOMAIN rows', k = n + 1 PROVE Clean(rows[k])'
      BY <2>3, <1>4, <1>11, <1>12, <1>13, <2>1 DEF Clean
    <2> QED BY <1>12, <2>2, <2>3
  <1>15. Grown'
    <2>1. NoResult.produced = Start /\ IsPrefix(NoResult.produced, tree)
      BY <1>4, NothingYet DEF IsPrefix, Start
    <2> QED BY <1>1, <1>2, <1>3, <1>4, <1>11, <1>12, <2>1 DEF Grown
  <1>16. CASE more
    <2>1. index' = index + 1 /\ base' = tree /\ pc' = "gate" /\ UNCHANGED <<marker, gates>>
      BY <1>2, <1>16
    <2>2. Typed'
      BY <1>1, <1>2, <1>3, <1>4, <1>12, <2>1, NothingYet DEF Typed
    <2>3. Picked'
      <3>1. todo \in Seq(Task) /\ todo' = todo /\ index < Len(todo)
        BY <1>1, <1>3, <1>16 DEF Typed
      <3>2. index' \in DOMAIN todo' /\ Len(rows') = index' - 1
        BY <1>3, <1>4, <1>12, <2>1, <3>1
      <3>3. \A i \in DOMAIN todo : todo[i] \notin local'.completed
        BY <1>1, <1>3, <1>13 DEF Picked, Working
      <3> QED BY <1>3, <2>1, <3>1, <3>2, <3>3 DEF Picked
    <2> QED BY <1>1, <1>3, <1>13, <1>14, <1>15, <2>1, <2>2, <2>3 DEF RunInv, SameCompleted, Fresh, Refilled,
      InHand, Marked, Truthful, Before, Working
  <1>17. CASE ~ more
    <2>1. /\ pc' = "publish" /\ marker' = "none" /\ UNCHANGED <<index, base>>
          /\ \E b \in BOOLEAN : gates' = [gates EXCEPT !.loop = Outcome(b)]
      BY <1>2, <1>17 DEF EndLoop
    <2>2. /\ gates' \in [GateNames -> {"skipped", "success", "failure"}]
          /\ gates'.publish = "skipped" /\ gates'.state = "skipped"
      BY <1>3, <2>1 DEF NoGates, Outcome, GateNames
    <2>3. Typed'
      BY <1>1, <1>2, <1>3, <1>12, <2>1, <2>2, NothingYet DEF Typed
    <2> QED BY <1>1, <1>3, <1>13, <1>14, <1>15, <2>1, <2>2, <2>3 DEF RunInv, SameCompleted, Fresh, Refilled,
      Picked, InHand, Marked, Truthful, Before, Working
  <1> QED BY <1>16, <1>17

\* The publish step's verdict.
LEMMA PublishRunInv ==
  ASSUME RunInv, NEW reaches \in BOOLEAN, Publish(reaches)
  PROVE  RunInv'
  <1> DEFINE idle  == marker # "none" /\ tree = Start
             ready == marker = "none" /\ Publishable(rows, MaxTasks, queue, Start, tree)
             ok    == idle \/ (ready /\ (tree = Start \/ reaches))
  <1>1. /\ pc = "publish" /\ pc' = "complete"
        /\ UNCHANGED <<branch, local, run, queue, todo, index, base, result, rows, tree, marker>>
        /\ IF gates.loop # "success" THEN UNCHANGED <<gates, pushed>>
           ELSE /\ gates' = [gates EXCEPT !.publish = Outcome(ok)]
                /\ pushed' = (IF ok THEN tree ELSE pushed)
    BY DEF Publish, taskVars
  <1>2. /\ Typed /\ gates.publish = "skipped" /\ branch.completed = local.completed
        /\ gates \in [GateNames -> {"skipped", "success", "failure"}]
    BY <1>1 DEF RunInv, Typed, Truthful, SameCompleted
  <1>3. ready => \A k \in DOMAIN rows : RowHasValidGates(rows[k])
    BY DEF Publishable
  <1>4. /\ gates' \in [GateNames -> {"skipped", "success", "failure"}]
        /\ gates'.publish = "success" => ok /\ pushed' = tree
        /\ gates'.state = gates.state
    BY <1>1, <1>2 DEF Outcome, GateNames
  <1> HIDE DEF ready
  <1>5. /\ gates'.publish = "success" => pushed' = tree /\ (marker # "none" => tree = Start)
        /\ gates'.publish = "success" /\ marker = "none" => \A k \in DOMAIN rows : RowHasValidGates(rows[k])
    BY <1>3, <1>4 DEF ready
  <1>6. Typed' /\ Grown' /\ Marked'
    BY <1>1, <1>2, <1>4 DEF RunInv, Typed, Grown, Marked, Held, After
  <1>7. gates.state = "skipped"
    BY <1>1 DEF RunInv, Truthful
  <1>8. Truthful'
    BY <1>1, <1>4, <1>5, <1>7 DEF Truthful
  <1> QED BY <1>1, <1>2, <1>6, <1>8 DEF RunInv, SameCompleted, Fresh, Refilled, Picked, InHand, Clean,
    Before, Working

\* The completed ids are added only behind a publication.
LEMMA CompletedRunInv ==
  ASSUME IInv, RunInv, NEW reaches \in BOOLEAN, PersistCompleted(reaches)
  PROVE  /\ RunInv'
         /\ branch.completed \subseteq branch'.completed
         /\ \A t \in branch'.completed \ branch.completed :
              \E k \in DOMAIN rows :
                /\ rows[k].task = t /\ rows[k].verified /\ rows[k].allow
                /\ IsPrefix(rows[k].produced, pushed)
  <1> DEFINE due == gates.publish = "success" /\ marker = "none"
             ids == {rows[i].task : i \in DOMAIN rows}
  <1>1. /\ pc = "complete" /\ pc' = "remember"
        /\ branch' = (IF due /\ reaches THEN [branch EXCEPT !.completed = @ \cup ids] ELSE branch)
        /\ gates' = (IF gates.publish # "success" THEN gates
                     ELSE [gates EXCEPT !.state = Outcome(~ due \/ reaches)])
        /\ UNCHANGED <<local, run, queue, todo, index, base, result, rows, tree, marker, pushed>>
    BY DEF PersistCompleted, taskVars
  <1>2. /\ Typed /\ Grown /\ gates.state = "skipped"
        /\ gates \in [GateNames -> {"skipped", "success", "failure"}]
        /\ gates.publish = "success" =>
             /\ pushed = tree /\ (marker # "none" => tree = Start)
             /\ marker = "none" => \A k \in DOMAIN rows : RowHasValidGates(rows[k])
    BY <1>1 DEF RunInv, Typed, Truthful
  <1>3. PICK completed, recs :
          branch = [completed |-> completed, recs |-> recs] /\ recs \in [Task -> Rec]
    BY DEF IInv, IsState
  <1>4. branch'.completed = IF due /\ reaches THEN branch.completed \cup ids ELSE branch.completed
    BY <1>1, <1>3
  <1>5. /\ gates' \in [GateNames -> {"skipped", "success", "failure"}]
        /\ gates'.publish = gates.publish
        /\ gates'.state = "success" => (due => reaches)
    BY <1>1, <1>2 DEF Outcome, GateNames
  <1>6. Typed' /\ Grown' /\ Marked'
    BY <1>1, <1>2, <1>5 DEF RunInv, Typed, Grown, Marked, Held, After
  <1>7. Truthful'
    <2>1. gates'.publish = "success" /\ gates'.state = "success" /\ marker = "none"
            => \A k \in DOMAIN rows : rows[k].task \in branch'.completed
      BY <1>4, <1>5
    <2> QED BY <1>1, <1>2, <1>5, <2>1 DEF Truthful
  <1>8. RunInv'
    BY <1>1, <1>6, <1>7 DEF RunInv, SameCompleted, Fresh, Refilled, Picked, InHand, Clean, Before, Working
  <1>9. ASSUME NEW t \in branch'.completed \ branch.completed
        PROVE  \E k \in DOMAIN rows :
                 /\ rows[k].task = t /\ rows[k].verified /\ rows[k].allow
                 /\ IsPrefix(rows[k].produced, pushed)
    <2>1. due /\ t \in ids
      BY <1>4, <1>9
    <2>2. PICK k \in DOMAIN rows : rows[k].task = t
      BY <2>1
    <2>3. RowHasValidGates(rows[k]) /\ IsPrefix(rows[k].produced, pushed)
      BY <1>2, <2>1, <2>2 DEF Grown
    <2> QED BY <2>2, <2>3 DEF RowHasValidGates
  <1> QED BY <1>4, <1>8, <1>9

LEMMA RecoveryRunInv ==
  ASSUME IInv, RunInv, NEW reaches \in BOOLEAN, PersistRecovery(reaches)
  PROVE  RunInv' /\ branch'.completed = branch.completed
  <1>1. /\ pc = "remember" /\ pc' = "report"
        /\ branch' = (IF marker = "none" /\ reaches THEN [branch EXCEPT !.recs = local.recs] ELSE branch)
        /\ gates' = [gates EXCEPT !.recovery = Outcome(marker # "none" \/ reaches)]
        /\ UNCHANGED <<local, run, queue, todo, index, base, result, rows, tree, marker, pushed>>
    BY DEF PersistRecovery, taskVars
  <1>2. Typed /\ Truthful /\ gates \in [GateNames -> {"skipped", "success", "failure"}]
    BY DEF RunInv, Typed
  <1>3. PICK completed, recs :
          branch = [completed |-> completed, recs |-> recs] /\ recs \in [Task -> Rec]
    BY DEF IInv, IsState
  <1>4. /\ branch'.completed = branch.completed
        /\ marker = "none" /\ reaches => branch'.recs = local.recs
    BY <1>1, <1>3
  <1>5. /\ gates' \in [GateNames -> {"skipped", "success", "failure"}]
        /\ gates'.publish = gates.publish /\ gates'.state = gates.state
        /\ gates'.recovery = "success" /\ marker = "none" => reaches
    BY <1>1, <1>2 DEF Outcome, GateNames
  <1>6. Typed' /\ Grown' /\ Marked'
    BY <1>1, <1>2, <1>5 DEF RunInv, Typed, Grown, Marked, Held, After
  <1>7. Truthful'
    BY <1>1, <1>2, <1>4, <1>5 DEF Truthful
  <1> QED BY <1>1, <1>4, <1>6, <1>7 DEF RunInv, SameCompleted, Fresh, Refilled, Picked, InHand, Clean,
    Before, Working

\* What a report says.
Told ==
  /\ verdict'.report = "COMPLETED" =>
       /\ pushed = tree
       /\ \A k \in DOMAIN rows :
            /\ rows[k].task \in branch.completed
            /\ ~ Blocks(branch.recs[rows[k].task]) /\ branch.recs[rows[k].task].count = 0
  /\ verdict'.report = "NOT_RUN" =>
       /\ tree = Start /\ Held \cap run.registered = {}

LEMMA ReportTells ==
  ASSUME RunInv, NEW ledger \in BOOLEAN, NEW kill \in BOOLEAN, Report(ledger, kill)
  PROVE  Told
  <1> DEFINE all  == [gates EXCEPT !.sheets = Outcome(ledger)]
             open == QueueOpen(queue, local.completed, rows)
             said == ClassifyFinal([i \in DOMAIN rows |-> rows[i].status], all, marker = "notrun",
                                   marker = "held", MaxTasks, open)
  <1>1. pc = "report" /\ verdict'.report = said
    BY DEF Report, EndRun
  <1>2. /\ gates \in [GateNames -> {"skipped", "success", "failure"}]
        /\ marker \in {"none", "held", "notrun"}
    BY DEF RunInv, Typed
  <1>3. /\ DOMAIN all = GateNames
        /\ \A g \in {"publish", "state", "recovery"} : g \in GateNames /\ all[g] = gates[g]
    BY <1>2 DEF GateNames
  <1> HIDE DEF all, open
  <1>4. said = "COMPLETED" => marker = "none" /\ \A g \in DOMAIN all : all[g] = "success"
    BY <1>2 DEF ClassifyFinal
  <1>5. said = "NOT_RUN" => marker = "notrun" /\ \A g \in DOMAIN all : all[g] = "success"
    BY <1>2 DEF ClassifyFinal
  <1> HIDE DEF said
  <1>6. said \in {"COMPLETED", "NOT_RUN"} =>
          gates.publish = "success" /\ gates.state = "success" /\ gates.recovery = "success"
    BY <1>3, <1>4, <1>5
  <1>7. ASSUME said = "COMPLETED"
        PROVE  /\ pushed = tree
               /\ \A k \in DOMAIN rows :
                    /\ rows[k].task \in branch.completed
                    /\ ~ Blocks(branch.recs[rows[k].task]) /\ branch.recs[rows[k].task].count = 0
    <2>1. /\ pushed = tree /\ branch.recs = local.recs
          /\ \A k \in DOMAIN rows : RowHasValidGates(rows[k]) /\ rows[k].task \in branch.completed
      BY <1>1, <1>4, <1>6, <1>7 DEF RunInv, Truthful
    <2>2. \A k \in DOMAIN rows : rows[k].verified /\ rows[k].allow
      BY <2>1 DEF RowHasValidGates
    <2> QED BY <2>1, <2>2 DEF RunInv, Clean
  <1>8. ASSUME said = "NOT_RUN"
        PROVE  tree = Start /\ Held \cap run.registered = {}
    BY <1>1, <1>5, <1>6, <1>8 DEF RunInv, Truthful, Marked
  <1> QED BY <1>1, <1>7, <1>8 DEF Told

LEMMA HeadMovesRunInv ==
  ASSUME RunInv, HeadMoves
  PROVE  RunInv'
  <1>1. /\ pc \in {"select", "launch", "again", "publish"} /\ tree' = Append(tree, "stray")
        /\ UNCHANGED <<branch, local, run, pc, queue, todo, index, base, result, rows, marker, gates, pushed>>
    BY DEF HeadMoves, taskVars, outVars
  <1>2. Typed /\ Grown /\ tree \in Seq(Commits) /\ "stray" \in Commits
    BY DEF RunInv, Typed, Commits
  <1>3. Typed'
    BY <1>1, <1>2 DEF Typed
  <1>4. Grown'
    <2>1. result.produced \in Seq(Commits) /\ \A k \in DOMAIN rows : rows[k].produced \in Seq(Commits)
      <3>1. result \in Results /\ \A k \in DOMAIN rows : rows[k] \in Rows
        BY <1>2 DEF Typed
      <3> QED BY <3>1 DEF Results, Rows
    <2>2. \A p \in Seq(Commits) : IsPrefix(p, tree) => IsPrefix(p, tree')
      BY <1>1, <1>2, PrefixGrows
    <2> QED BY <1>1, <1>2, <2>1, <2>2 DEF Grown
  <1>5. Truthful'
    BY <1>1 DEF RunInv, Truthful
  <1> QED BY <1>1, <1>3, <1>4, <1>5 DEF RunInv, SameCompleted, Fresh, Refilled, Picked, InHand, Clean,
    Marked, Held, Current

\* The review workflow leaves the completed ids alone, and runs between the runs.
LEMMA ReviewRunInv ==
  ASSUME IInv, RunInv, NEW t \in Task, ConfirmReview(t)
  PROVE  RunInv' /\ branch'.completed = branch.completed
  <1>1. /\ pc = "idle" /\ branch' = [branch EXCEPT !.recs[t] = Confirm(@)]
        /\ UNCHANGED <<local, run, pc, queue, todo, index, base, result, rows, tree, marker, gates, pushed>>
    BY DEF ConfirmReview, taskVars, outVars
  <1>2. PICK completed, recs :
          branch = [completed |-> completed, recs |-> recs] /\ recs \in [Task -> Rec]
    BY DEF IInv, IsState
  <1>3. branch'.completed = branch.completed
    BY <1>1, <1>2
  <1>4. Typed' /\ Grown' /\ Fresh' /\ Marked'
    BY <1>1 DEF RunInv, Typed, Grown, Fresh, Marked, Held
  <1> QED BY <1>1, <1>3, <1>4 DEF RunInv, SameCompleted, Refilled, Picked, InHand, Clean, Truthful,
    Before, Working

-----------------------------------------------------------------------------
(* Every step of a run *)

\* The completed list grows only behind a publication of the same run.
Earned ==
  /\ branch.completed \subseteq branch'.completed
  /\ \A t \in branch'.completed \ branch.completed :
       \E k \in DOMAIN rows :
         /\ rows[k].task = t /\ rows[k].verified /\ rows[k].allow
         /\ IsPrefix(rows[k].produced, pushed)

Tells == pc = "report" /\ pc' = "idle" => Told

LEMMA RunStep ==
  ASSUME LoopAssumption, IInv, RunInv, [Next]_vars
  PROVE  RunInv' /\ Earned /\ Tells
  <1>1. ASSUME NEW d, NEW a, NEW reg, StartRun(d, a, reg) PROVE RunInv' /\ Earned /\ Tells
    BY <1>1, StartRunRunInv DEF StartRun, Earned, Tells
  <1>2. CASE ResumeApproved
    BY <1>2, ResumeRunInv DEF ResumeApproved, Earned, Tells
  <1>3. CASE Refill
    BY <1>3, RefillRunInv DEF Refill, Earned, Tells
  <1>4. ASSUME NEW kill \in BOOLEAN, Select(kill) PROVE RunInv' /\ Earned /\ Tells
    BY <1>4, SelectRunInv DEF Select, Earned, Tells
  <1>5. ASSUME NEW scan, Gate(scan) PROVE RunInv' /\ Earned /\ Tells
    BY <1>5, GateRunInv DEF Gate, Earned, Tells
  <1>6. ASSUME NEW child, NEW killed \in {"no", "timeout", "stop"}, NEW stopped \in BOOLEAN,
               RunTask(child, killed, stopped)
        PROVE  RunInv' /\ Earned /\ Tells
    BY <1>6, RunTaskRunInv DEF RunTask, Earned, Tells
  <1>7. CASE Retry
    BY <1>7, RetryRunInv DEF Retry, Earned, Tells
  <1>8. ASSUME NEW saves \in BOOLEAN, NEW observes \in BOOLEAN, Settle(saves, observes)
        PROVE  RunInv' /\ Earned /\ Tells
    BY <1>8, SettleRunInv DEF Settle, Earned, Tells
  <1>9. ASSUME NEW reaches \in BOOLEAN, Publish(reaches) PROVE RunInv' /\ Earned /\ Tells
    BY <1>9, PublishRunInv DEF Publish, Earned, Tells
  <1>10. ASSUME NEW reaches \in BOOLEAN, PersistCompleted(reaches) PROVE RunInv' /\ Earned /\ Tells
    BY <1>10, CompletedRunInv DEF PersistCompleted, Earned, Tells
  <1>11. ASSUME NEW reaches \in BOOLEAN, PersistRecovery(reaches) PROVE RunInv' /\ Earned /\ Tells
    BY <1>11, RecoveryRunInv DEF PersistRecovery, Earned, Tells
  <1>12. ASSUME NEW ledger \in BOOLEAN, NEW kill \in BOOLEAN, Report(ledger, kill)
         PROVE  RunInv' /\ Earned /\ Tells
    BY <1>12, EndRunRunInv, ReportTells DEF Report, Earned, Tells
  <1>13. ASSUME NEW t \in Task, ConfirmReview(t) PROVE RunInv' /\ Earned /\ Tells
    BY <1>13, ReviewRunInv DEF ConfirmReview, Earned, Tells
  <1>14. CASE OperatorStops
    BY <1>14, StutterRunInv DEF OperatorStops, outVars, Earned, Tells
  <1>15. CASE HeadMoves
    BY <1>15, HeadMovesRunInv DEF HeadMoves, Earned, Tells
  <1>16. CASE Cancel
    BY <1>16, EndRunRunInv DEF Cancel, Earned, Tells, Told, EndRun
  <1>17. CASE UNCHANGED vars
    BY <1>17, StutterRunInv DEF vars, taskVars, Earned, Tells
  <1> QED
    BY <1>1, <1>2, <1>3, <1>4, <1>5, <1>6, <1>7, <1>8, <1>9, <1>10, <1>11, <1>12, <1>13, <1>14, <1>15,
      <1>16, <1>17 DEF Next

\* A task that the durable branch holds, whose review is open there, or that is completed
\* there is launched only by the run that a human started for it.
THEOREM LaunchedMayRun == Spec => []HoldBinds
  <1>1. IInv /\ [Next]_vars => IInv'
    BY NextStep
  <1>2. IInv /\ RunInv /\ [Next]_vars => RunInv'
    BY RunStep, LoopAssumption
  <1>3. IInv /\ RunInv => HoldBinds
    <2> SUFFICES ASSUME IInv, RunInv, pc \in {"launch", "again"}
                 PROVE  /\ Current \notin branch.completed
                        /\ Blocks(branch.recs[Current]) => run.approval = Current
      BY DEF HoldBinds
    <2>1. /\ index \in DOMAIN todo /\ Current \in Task /\ Current \notin local.completed
          /\ branch.completed = local.completed
      BY DEF RunInv, Typed, Picked, SameCompleted, Working, Current
    <2>2. ~ Blocks(local.recs[Current])
      BY DEF RunInv, InHand, Working
    <2> QED BY <2>1, <2>2 DEF IInv, Covers
  <1> QED BY <1>1, <1>2, <1>3, InitIInv, InitRunInv, PTL DEF Spec

\* An id enters the completed list only behind the publication of a verified row of the
\* same run, and never leaves it.
THEOREM CompletedArePublished == Spec => CompletedWasPublished
  <1>1. IInv /\ [Next]_vars => IInv'
    BY NextStep
  <1>2. IInv /\ RunInv /\ [Next]_vars => RunInv'
    BY RunStep, LoopAssumption
  <1>3. IInv /\ RunInv /\ [Next]_vars =>
          [/\ branch.completed \subseteq branch'.completed
           /\ \A t \in branch'.completed \ branch.completed :
                \E k \in DOMAIN rows :
                  /\ rows[k].task = t /\ rows[k].verified /\ rows[k].allow
                  /\ IsPrefix(rows[k].produced, pushed)]_vars
    BY RunStep, LoopAssumption DEF Earned
  <1> QED BY <1>1, <1>2, <1>3, InitIInv, InitRunInv, PTL DEF Spec, CompletedWasPublished

\* After COMPLETED every task of the run is completed and clean on the branch and all it
\* made is pushed; after NOT_RUN nothing was committed and nothing of the catalog is held.
THEOREM ReportsAreTrue == Spec => ReportIsTrue
  <1>1. IInv /\ [Next]_vars => IInv'
    BY NextStep
  <1>2. IInv /\ RunInv /\ [Next]_vars => RunInv'
    BY RunStep, LoopAssumption
  <1>3. IInv /\ RunInv /\ [Next]_vars =>
          [pc = "report" /\ pc' = "idle" =>
             /\ verdict'.report = "COMPLETED" =>
                  /\ pushed = tree
                  /\ \A k \in DOMAIN rows :
                       /\ rows[k].task \in branch.completed
                       /\ ~ Blocks(branch.recs[rows[k].task]) /\ branch.recs[rows[k].task].count = 0
             /\ verdict'.report = "NOT_RUN" =>
                  /\ tree = Start /\ Held \cap run.registered = {}]_vars
    BY RunStep, LoopAssumption DEF Tells, Told
  <1> QED BY <1>1, <1>2, <1>3, InitIInv, InitRunInv, PTL DEF Spec, ReportIsTrue

=============================================================================
