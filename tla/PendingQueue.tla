---------------------------- MODULE PendingQueue ----------------------------
(***************************************************************************)
(* core/pending_queue.py: the SQLite queue between the cloud, which        *)
(* enqueues and approves work, and workers on a Mac, which claim it,       *)
(* verify what they did and close it.  Every method is one transaction.    *)
(* A worker that dies leaves its task RUNNING until somebody recovers it.  *)
(***************************************************************************)
EXTENDS Integers, FiniteSets

CONSTANTS
  Workers,     \* the workers that claim tasks
  NoWork,      \* what an idle worker holds
  MaxTasks,    \* bound: how many tasks are ever enqueued
  Priorities,  \* the priorities in use
  MaxRetries   \* bound: how often a task is recovered

ASSUME WorkersAssumption == NoWork \notin [task : Nat, attempt : Nat]
ASSUME QueueBoundsAssumption == MaxTasks \in Nat /\ MaxRetries \in Nat
ASSUME PrioritiesAssumption == Priorities \subseteq Int

VARIABLES
  task,      \* the rows of queue_tasks, numbered by created_at
  worker,    \* the claim each worker believes to hold
  attempts,  \* history: how often a task was claimed
  closer,    \* history: the attempt that closed a task
  stolen     \* history: the tasks that were recovered while a worker was on them

pendingVars == <<task, worker, attempts, closer, stolen>>

Tasks == 1..MaxTasks

TerminalStates == {"PASS", "FAILED", "BLOCKED"}

Row == [status : TerminalStates \cup {"PENDING", "RUNNING"}, retry : 0..MaxRetries,
        needs : BOOLEAN, approved : BOOLEAN, priority : Priorities]

NoRow == [status |-> "none"]

Held == [task : Tasks, attempt : 1..(MaxRetries + 1)]

PendingInit ==
  /\ task = [t \in Tasks |-> NoRow]
  /\ worker = [w \in Workers |-> NoWork]
  /\ attempts = [t \in Tasks |-> 0]
  /\ closer = [t \in Tasks |-> 0]
  /\ stolen = {}

\* A task that requires approval cannot be enqueued approved: that raises.
Enqueue(t, needs, approved, priority) ==
  /\ task[t] = NoRow
  /\ \A s \in Tasks : s < t => task[s] # NoRow
  /\ ~(needs /\ approved)
  /\ task' = [task EXCEPT ![t] = [status |-> "PENDING", retry |-> 0, needs |-> needs,
                                  approved |-> approved, priority |-> priority]]
  /\ UNCHANGED <<worker, attempts, closer, stolen>>

Approve(t) ==
  /\ task[t].status = "PENDING"
  /\ task' = [task EXCEPT ![t].approved = TRUE]
  /\ UNCHANGED <<worker, attempts, closer, stolen>>

\* Variant of Claimable: a task that is being worked on can be claimed.
ClaimableRunning(t) ==
  task[t].status \in {"PENDING", "RUNNING"} /\ (task[t].needs => task[t].approved)

Claimable(t) == task[t].status = "PENDING" /\ (task[t].needs => task[t].approved)

\* ORDER BY priority DESC, created_at ASC
Before(s, t) ==
  \/ task[s].priority > task[t].priority
  \/ task[s].priority = task[t].priority /\ s <= t

Claim(w, t) ==
  /\ worker[w] = NoWork
  /\ Claimable(t)
  /\ \A s \in Tasks : Claimable(s) => Before(t, s)
  /\ task' = [task EXCEPT ![t].status = "RUNNING"]
  /\ attempts' = [attempts EXCEPT ![t] = @ + 1]
  /\ worker' = [worker EXCEPT ![w] = [task |-> t, attempt |-> attempts[t] + 1]]
  /\ UNCHANGED <<closer, stolen>>

\* The verdict is written if the task is running; whose claim it is, the row does
\* not say.  Otherwise finish returns False.
Finish(w, verdict) ==
  /\ worker[w] # NoWork
  /\ LET t == worker[w].task IN
       IF task[t].status = "RUNNING"
       THEN /\ task' = [task EXCEPT ![t].status = verdict]
            /\ closer' = [closer EXCEPT ![t] = worker[w].attempt]
       ELSE UNCHANGED <<task, closer>>
  /\ worker' = [worker EXCEPT ![w] = NoWork]
  /\ UNCHANGED <<attempts, stolen>>

\* The row does not say whether the worker that claimed the task is alive.
Takes(t) ==
  LET alive == \E w \in Workers : worker[w] # NoWork /\ worker[w].task = t
  IN  stolen' = IF alive THEN stolen \cup {t} ELSE stolen

\* Variant of Recover: the retry is not counted.
RecoverUncounted(t) ==
  /\ task[t].status = "RUNNING"
  /\ task[t].retry < MaxRetries
  /\ task' = [task EXCEPT ![t].status = "PENDING"]
  /\ Takes(t)
  /\ UNCHANGED <<worker, attempts, closer>>

\* Nothing is said about success; the approval stays.  The code sets no limit on the
\* retries, and it is the caller who must know that the task was interrupted.
Recover(t) ==
  /\ task[t].status = "RUNNING"
  /\ task[t].retry < MaxRetries
  /\ task' = [task EXCEPT ![t].status = "PENDING", ![t].retry = @ + 1]
  /\ Takes(t)
  /\ UNCHANGED <<worker, attempts, closer>>

\* The process or the Mac dies; the row stays RUNNING.
Interrupt(w) ==
  /\ worker[w] # NoWork
  /\ worker' = [worker EXCEPT ![w] = NoWork]
  /\ UNCHANGED <<task, attempts, closer, stolen>>

PendingNext ==
  \/ \E t \in Tasks :
       \/ \E needs, approved \in BOOLEAN, priority \in Priorities :
            Enqueue(t, needs, approved, priority)
       \/ Approve(t)
       \/ Recover(t)
       \/ \E w \in Workers : Claim(w, t)
  \/ \E w \in Workers :
       \/ \E verdict \in TerminalStates : Finish(w, verdict)
       \/ Interrupt(w)

PendingSpec == PendingInit /\ [][PendingNext]_pendingVars

-----------------------------------------------------------------------------
(* Properties *)

\* The rows are rows, a worker holds at most one claim, and no task is claimed more
\* often than its retries account for.
PendingTypeOK ==
  /\ task \in [Tasks -> Row \cup {NoRow}]
  /\ worker \in [Workers -> Held \cup {NoWork}]
  /\ attempts \in [Tasks -> 0..(MaxRetries + 1)]
  /\ closer \in [Tasks -> 0..(MaxRetries + 1)]
  /\ stolen \subseteq Tasks

\* "never claims an unapproved task": nothing that requires approval is ever run, or
\* has been run, without it.
ApprovedFirst ==
  \A t \in Tasks : attempts[t] > 0 => (task[t].needs => task[t].approved)

\* Every claim but the current or closing one was counted as a retry: an
\* interruption is never lost and never counted twice.
AttemptsAccounted ==
  \A t \in Tasks : task[t] # NoRow =>
    attempts[t] = task[t].retry + (IF task[t].status = "PENDING" THEN 0 ELSE 1)

\* A task is closed by the verdict of a worker that had claimed it, never by a
\* recovery: "never implicitly converted to PASS".
ClosedByVerdict ==
  \A t \in Tasks : task[t].status \in TerminalStates <=> closer[t] # 0

\* A closed task is never claimed, recovered or closed again, whatever late worker
\* still holds it.
ClosedIsFinal ==
  [][\A t \in Tasks : task[t].status \in TerminalStates => task'[t] = task[t]]_pendingVars

\* "atomically claimed by one worker": two workers are on one task only if it was
\* recovered under one of them.
OneWorker ==
  \A v, w \in Workers :
    worker[v] # NoWork /\ worker[w] # NoWork /\ worker[v].task = worker[w].task =>
      v = w \/ worker[v].task \in stolen

\* The verdict on such a task is that of its latest attempt, and never of an
\* earlier one that comes late.
LatestCloses ==
  \A t \in Tasks \ stolen :
    task[t].status \in TerminalStates => closer[t] = attempts[t]

\* What an interruption may do to a task: it comes back, its attempt is counted, and
\* it is not closed by that.
RecoveriesAccounted == AttemptsAccounted /\ ClosedByVerdict

\* What a claim is worth although the row does not name its owner: unless the task is
\* recovered under it, it is the only one, and its verdict is the one that counts.
ClaimsExclusive == OneWorker /\ LatestCloses

=============================================================================
