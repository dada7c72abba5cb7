--------------------------- MODULE HandoverProofs ---------------------------
(***************************************************************************)
(* Work that the service hands over and others do: to a Mac by the pending *)
(* queue (core/pending_queue.py), to GitHub by dispatches of the loop.     *)
(* Both are proved for any number of tasks, workers, requests and runs.    *)
(*                                                                         *)
(* A claim is not recorded in the row of the queue, so its invariant has   *)
(* to say when a worker's belief is right: while the task has not been     *)
(* recovered under it.  What the service remembers of its repairs is of    *)
(* use only where one process remembers it: those theorems say so.         *)
(***************************************************************************)
EXTENDS PendingQueue, LoopDispatch, FiniteSetTheorems, TLAPS

-----------------------------------------------------------------------------
(* The pending queue *)

\* A task that does not exist was never claimed.
Unstarted ==
  \A t \in Tasks : task[t] = NoRow => attempts[t] = 0 /\ closer[t] = 0

\* A worker's claim is of an existing task; unless the task was recovered under a
\* worker, it is running, and the claim is the latest.
ClaimsHold ==
  \A w \in Workers : worker[w] # NoWork =>
    LET t == worker[w].task IN
    /\ task[t] # NoRow
    /\ t \notin stolen => task[t].status = "RUNNING" /\ worker[w].attempt = attempts[t]

QueueInv == /\ PendingTypeOK /\ Unstarted /\ ClaimsHold
        /\ ApprovedFirst /\ AttemptsAccounted /\ ClosedByVerdict
        /\ OneWorker /\ LatestCloses

\* The empty queue satisfies the invariant.
LEMMA InitQueueInv == PendingInit => QueueInv
<1> SUFFICES ASSUME PendingInit PROVE QueueInv
  OBVIOUS
<1>1. PendingTypeOK
  BY QueueBoundsAssumption DEF PendingInit, PendingTypeOK, Tasks
<1>2. Unstarted /\ ClaimsHold /\ OneWorker /\ LatestCloses
  BY DEF PendingInit, Unstarted, ClaimsHold, OneWorker, LatestCloses, NoRow, TerminalStates
<1>3. ApprovedFirst /\ AttemptsAccounted /\ ClosedByVerdict
  BY DEF PendingInit, ApprovedFirst, AttemptsAccounted, ClosedByVerdict, NoRow, TerminalStates
<1> QED BY <1>1, <1>2, <1>3 DEF QueueInv

\* A new task keeps the invariant: it is unclaimed, and approved only if it needs not be.
LEMMA EnqueueInv ==
  ASSUME QueueInv, NEW t \in Tasks, NEW needs \in BOOLEAN, NEW approved \in BOOLEAN,
         NEW priority \in Priorities, Enqueue(t, needs, approved, priority)
  PROVE  QueueInv'
<1> DEFINE row == [status |-> "PENDING", retry |-> 0, needs |-> needs,
                   approved |-> approved, priority |-> priority]
<1>1. row \in Row /\ row # NoRow /\ row.status = "PENDING" /\ row.retry = 0
  BY QueueBoundsAssumption DEF Row, NoRow
<1>2. /\ task[t] = NoRow /\ task' = [task EXCEPT ![t] = row]
      /\ UNCHANGED <<worker, attempts, closer, stolen>>
  BY DEF Enqueue
<1>3. attempts[t] = 0 /\ closer[t] = 0
  BY <1>2 DEF QueueInv, Unstarted
<1> HIDE DEF row
<1>4. PendingTypeOK' /\ Unstarted'
  BY <1>1, <1>2 DEF QueueInv, PendingTypeOK, Unstarted
<1>5. ClaimsHold' /\ OneWorker'
  BY <1>1, <1>2 DEF QueueInv, PendingTypeOK, ClaimsHold, OneWorker, Held
<1>6. ApprovedFirst' /\ AttemptsAccounted' /\ ClosedByVerdict' /\ LatestCloses'
  BY <1>1, <1>2, <1>3
  DEF QueueInv, PendingTypeOK, ApprovedFirst, AttemptsAccounted, ClosedByVerdict, LatestCloses,
      TerminalStates
<1> QED BY <1>4, <1>5, <1>6 DEF QueueInv

\* Approving a pending task keeps the invariant.
LEMMA ApproveInv ==
  ASSUME QueueInv, NEW t \in Tasks, Approve(t)
  PROVE  QueueInv'
<1> DEFINE row == [task[t] EXCEPT !.approved = TRUE]
<1>1. task[t] \in Row /\ task[t].status = "PENDING"
  BY DEF QueueInv, PendingTypeOK, Approve, NoRow
<1>2. /\ row \in Row /\ row # NoRow /\ row.status = "PENDING" /\ row.approved
      /\ row.retry = task[t].retry
  BY <1>1 DEF Row, NoRow
<1>3. task' = [task EXCEPT ![t] = row] /\ UNCHANGED <<worker, attempts, closer, stolen>>
  BY DEF Approve
<1> HIDE DEF row
<1>4. PendingTypeOK' /\ Unstarted'
  BY <1>2, <1>3 DEF QueueInv, PendingTypeOK, Unstarted
<1>5. ClaimsHold' /\ OneWorker'
  BY <1>1, <1>2, <1>3 DEF QueueInv, PendingTypeOK, ClaimsHold, OneWorker, Held
<1>6. ApprovedFirst' /\ AttemptsAccounted' /\ ClosedByVerdict' /\ LatestCloses'
  BY <1>1, <1>2, <1>3
  DEF QueueInv, PendingTypeOK, ApprovedFirst, AttemptsAccounted, ClosedByVerdict, LatestCloses,
      TerminalStates, NoRow, Row
<1> QED BY <1>4, <1>5, <1>6 DEF QueueInv

\* A claim keeps the invariant: no worker is on a pending task that is not stolen.
LEMMA ClaimInv ==
  ASSUME QueueInv, NEW w \in Workers, NEW t \in Tasks, Claim(w, t)
  PROVE  QueueInv'
<1> DEFINE row == [task[t] EXCEPT !.status = "RUNNING"]
           claim == [task |-> t, attempt |-> attempts[t] + 1]
<1>1. /\ task[t] \in Row /\ task[t].status = "PENDING" /\ task[t] # NoRow
      /\ task[t].needs => task[t].approved
  BY DEF QueueInv, PendingTypeOK, Claim, Claimable, NoRow
<1>2. /\ row \in Row /\ row # NoRow /\ row.status = "RUNNING" /\ row.retry = task[t].retry
      /\ row.needs = task[t].needs /\ row.approved = task[t].approved
  BY <1>1 DEF Row, NoRow
<1>3. attempts[t] = task[t].retry /\ attempts[t] \in 0..MaxRetries
  BY <1>1 DEF QueueInv, AttemptsAccounted, Row
<1>4. claim \in Held /\ claim.task = t /\ claim.attempt = attempts[t] + 1 /\ claim # NoWork
  BY <1>3, QueueBoundsAssumption, WorkersAssumption DEF Held, Tasks
<1>5. /\ worker[w] = NoWork
      /\ task' = [task EXCEPT ![t] = row]
      /\ attempts' = [attempts EXCEPT ![t] = attempts[t] + 1]
      /\ worker' = [worker EXCEPT ![w] = claim]
      /\ UNCHANGED <<closer, stolen>>
  BY DEF Claim
<1> HIDE DEF row, claim
<1>6. PendingTypeOK' /\ Unstarted'
  BY <1>2, <1>3, <1>4, <1>5, QueueBoundsAssumption DEF QueueInv, PendingTypeOK, Unstarted
<1>7. t \in stolen \/ \A v \in Workers : worker[v] # NoWork => worker[v].task # t
  BY <1>1 DEF QueueInv, ClaimsHold
<1>8. ClaimsHold' /\ OneWorker'
  BY <1>2, <1>4, <1>5, <1>7 DEF QueueInv, PendingTypeOK, ClaimsHold, OneWorker, Held
<1>9. ApprovedFirst' /\ AttemptsAccounted' /\ ClosedByVerdict' /\ LatestCloses'
  BY <1>1, <1>2, <1>3, <1>5
  DEF QueueInv, PendingTypeOK, ApprovedFirst, AttemptsAccounted, ClosedByVerdict, LatestCloses,
      TerminalStates, NoRow
<1> QED BY <1>6, <1>8, <1>9 DEF QueueInv

\* A verdict keeps the invariant, also one that comes too late to be written.
LEMMA FinishInv ==
  ASSUME QueueInv, NEW w \in Workers, NEW verdict \in TerminalStates, Finish(w, verdict)
  PROVE  QueueInv'
<1> DEFINE t == worker[w].task
           row == [task[t] EXCEPT !.status = verdict]
<1>1. /\ worker[w] # NoWork /\ worker[w] \in Held
      /\ t \in Tasks /\ worker[w].attempt \in 1..(MaxRetries + 1)
  BY DEF QueueInv, PendingTypeOK, Finish, Held
<1>2. worker' = [worker EXCEPT ![w] = NoWork] /\ UNCHANGED <<attempts, stolen>>
  BY DEF Finish
<1>3. OneWorker'
  BY <1>2 DEF QueueInv, PendingTypeOK, OneWorker
<1>4. CASE task[t].status = "RUNNING"
  <2>1. /\ task[t] \in Row /\ task[t] # NoRow
    BY <1>1, <1>4 DEF QueueInv, PendingTypeOK, NoRow
  <2>2. /\ row \in Row /\ row # NoRow /\ row.status = verdict /\ row.retry = task[t].retry
        /\ row.needs = task[t].needs /\ row.approved = task[t].approved
    BY <2>1 DEF Row, NoRow
  <2>3. /\ task' = [task EXCEPT ![t] = row]
        /\ closer' = [closer EXCEPT ![t] = worker[w].attempt]
    BY <1>4 DEF Finish
  <2>4. t \notin stolen => /\ worker[w].attempt = attempts[t]
                           /\ \A v \in Workers \ {w} : worker[v] # NoWork => worker[v].task # t
    BY <1>1 DEF QueueInv, ClaimsHold, OneWorker
  <2> HIDE DEF row, t
  <2>5. PendingTypeOK' /\ Unstarted'
    BY <1>1, <1>2, <2>1, <2>2, <2>3, QueueBoundsAssumption DEF QueueInv, PendingTypeOK, Unstarted
  <2>6. ClaimsHold'
    BY <1>1, <1>2, <2>2, <2>3, <2>4 DEF QueueInv, PendingTypeOK, ClaimsHold, Held
  <2>7. ApprovedFirst' /\ AttemptsAccounted' /\ ClosedByVerdict' /\ LatestCloses'
    BY <1>1, <1>2, <1>4, <2>1, <2>2, <2>3, <2>4
    DEF QueueInv, PendingTypeOK, ApprovedFirst, AttemptsAccounted, ClosedByVerdict, LatestCloses,
        TerminalStates
  <2> QED BY <1>3, <2>5, <2>6, <2>7 DEF QueueInv
<1>5. CASE task[t].status # "RUNNING"
  <2>1. UNCHANGED <<task, closer>>
    BY <1>5 DEF Finish
  <2>2. PendingTypeOK' /\ Unstarted' /\ ClaimsHold'
    BY <1>2, <2>1 DEF QueueInv, PendingTypeOK, Unstarted, ClaimsHold
  <2>3. ApprovedFirst' /\ AttemptsAccounted' /\ ClosedByVerdict' /\ LatestCloses'
    BY <1>2, <2>1
    DEF QueueInv, ApprovedFirst, AttemptsAccounted, ClosedByVerdict, LatestCloses
  <2> QED BY <1>3, <2>2, <2>3 DEF QueueInv
<1> QED BY <1>4, <1>5

\* A recovery keeps the invariant: it marks the task if a worker is on it.
LEMMA RecoverInv ==
  ASSUME QueueInv, NEW t \in Tasks, Recover(t)
  PROVE  QueueInv'
<1> DEFINE row == [task[t] EXCEPT !.status = "PENDING", !.retry = @ + 1]
<1>1. /\ task[t] \in Row /\ task[t].status = "RUNNING" /\ task[t] # NoRow
      /\ task[t].retry < MaxRetries
  BY DEF QueueInv, PendingTypeOK, Recover, NoRow
<1>2. /\ row \in Row /\ row # NoRow /\ row.status = "PENDING"
      /\ row.retry = task[t].retry + 1
      /\ row.needs = task[t].needs /\ row.approved = task[t].approved
  <2>1. task[t].retry + 1 \in 0..MaxRetries
    BY <1>1, QueueBoundsAssumption DEF Row
  <2> QED BY <1>1, <2>1 DEF Row, NoRow
<1>3. /\ task' = [task EXCEPT ![t] = row] /\ UNCHANGED <<worker, attempts, closer>>
  BY DEF Recover
<1>4. /\ stolen \subseteq stolen' /\ stolen' \subseteq stolen \cup {t}
      /\ t \in stolen' \/ \A v \in Workers : worker[v] # NoWork => worker[v].task # t
  BY DEF Recover, Takes
<1> HIDE DEF row
<1>5. PendingTypeOK' /\ Unstarted'
  BY <1>1, <1>2, <1>3, <1>4 DEF QueueInv, PendingTypeOK, Unstarted
<1>6. ClaimsHold' /\ OneWorker'
  BY <1>2, <1>3, <1>4 DEF QueueInv, PendingTypeOK, ClaimsHold, OneWorker, Held
<1>7. ApprovedFirst' /\ AttemptsAccounted' /\ ClosedByVerdict' /\ LatestCloses'
  BY <1>1, <1>2, <1>3, <1>4
  DEF QueueInv, PendingTypeOK, ApprovedFirst, AttemptsAccounted, ClosedByVerdict, LatestCloses,
      TerminalStates, Row
<1> QED BY <1>5, <1>6, <1>7 DEF QueueInv

\* A worker that dies keeps the invariant.
LEMMA InterruptInv ==
  ASSUME QueueInv, NEW w \in Workers, Interrupt(w)
  PROVE  QueueInv'
<1>1. worker' = [worker EXCEPT ![w] = NoWork] /\ UNCHANGED <<task, attempts, closer, stolen>>
  BY DEF Interrupt
<1>2. PendingTypeOK' /\ Unstarted' /\ ClaimsHold' /\ OneWorker'
  BY <1>1 DEF QueueInv, PendingTypeOK, Unstarted, ClaimsHold, OneWorker
<1>3. ApprovedFirst' /\ AttemptsAccounted' /\ ClosedByVerdict' /\ LatestCloses'
  BY <1>1 DEF QueueInv, ApprovedFirst, AttemptsAccounted, ClosedByVerdict, LatestCloses
<1> QED BY <1>2, <1>3 DEF QueueInv

\* Every step keeps the invariant.
LEMMA NextQueueInv == QueueInv /\ [PendingNext]_pendingVars => QueueInv'
<1> SUFFICES ASSUME QueueInv, [PendingNext]_pendingVars PROVE QueueInv'
  OBVIOUS
<1>1. CASE PendingNext
  BY <1>1, EnqueueInv, ApproveInv, RecoverInv, ClaimInv, FinishInv, InterruptInv DEF PendingNext
<1>2. CASE UNCHANGED pendingVars
  BY <1>2 DEF pendingVars, QueueInv, PendingTypeOK, Unstarted, ClaimsHold, ApprovedFirst, AttemptsAccounted,
              ClosedByVerdict, OneWorker, LatestCloses
<1> QED BY <1>1, <1>2

\* The invariant holds in every state of the queue.
LEMMA QueueInvariance == PendingSpec => []QueueInv
BY InitQueueInv, NextQueueInv, PTL DEF PendingSpec

\* Rows, claims and counters keep their types.
THEOREM PendingTypeCorrect == PendingSpec => []PendingTypeOK
BY QueueInvariance, PTL DEF QueueInv

\* claim_next never lets a task that requires approval run without it.
THEOREM ApprovalComesFirst == PendingSpec => []ApprovedFirst
BY QueueInvariance, PTL DEF QueueInv

\* Claims and recoveries add up, and a recovery never closes a task.
THEOREM RecoveriesAreAccounted == PendingSpec => []RecoveriesAccounted
BY QueueInvariance, PTL DEF QueueInv, RecoveriesAccounted

\* A task that was not recovered under a worker has one worker, and the verdict on it
\* is its latest attempt's.
THEOREM ClaimsAreExclusive == PendingSpec => []ClaimsExclusive
BY QueueInvariance, PTL DEF QueueInv, ClaimsExclusive

\* No step changes a closed task.
THEOREM ClosedTasksAreFinal == PendingSpec => ClosedIsFinal
<1> DEFINE Final == \A t \in Tasks : task[t].status \in TerminalStates => task'[t] = task[t]
<1>1. QueueInv /\ [PendingNext]_pendingVars => [Final]_pendingVars
  <2> SUFFICES ASSUME QueueInv, PendingNext PROVE Final
    BY DEF pendingVars
  <2>1. ASSUME NEW t \in Tasks, NEW needs \in BOOLEAN, NEW approved \in BOOLEAN,
               NEW priority \in Priorities, Enqueue(t, needs, approved, priority)
        PROVE  Final
    BY <2>1 DEF QueueInv, PendingTypeOK, Enqueue, NoRow, TerminalStates
  <2>2. ASSUME NEW t \in Tasks, Approve(t) \/ Recover(t)
        PROVE  Final
    BY <2>2 DEF QueueInv, PendingTypeOK, Approve, Recover, TerminalStates
  <2>3. ASSUME NEW w \in Workers, NEW t \in Tasks, Claim(w, t)
        PROVE  Final
    BY <2>3 DEF QueueInv, PendingTypeOK, Claim, Claimable, TerminalStates
  <2>4. ASSUME NEW w \in Workers, NEW verdict \in TerminalStates, Finish(w, verdict)
        PROVE  Final
    BY <2>4 DEF QueueInv, PendingTypeOK, Finish, TerminalStates
  <2>5. ASSUME NEW w \in Workers, Interrupt(w)
        PROVE  Final
    BY <2>5 DEF Interrupt
  <2> QED BY <2>1, <2>2, <2>3, <2>4, <2>5 DEF PendingNext
<1> QED BY <1>1, QueueInvariance, PTL DEF PendingSpec, ClosedIsFinal

-----------------------------------------------------------------------------
(* The dispatches of the loop *)

USE RequestersAssumption, BoundsAssumption, SwitchAssumption, LagAssumption

-----------------------------------------------------------------------------
(* The runs at GitHub *)

\* A new run is the only one that is new, and is its requester's.
LEMMA StartsFacts ==
  ASSUME TypeOK, NEW r \in Runs, NEW by \in Requesters, Starts(r, by)
  PROVE  /\ run' \in [Runs -> [status : Outstanding \cup {"none", "completed"},
                               by : Requesters, listed : BOOLEAN, missed : BOOLEAN]]
         /\ run[r].status = "none" /\ run'[r].status \in Outstanding
         /\ run'[r].by = by
         /\ \A q \in Runs \ {r} : run'[q] = run[q]
         /\ \A q \in Runs : q < r => run[q].status # "none"
  <1>1. PICK listed \in BOOLEAN :
          /\ listed \/ by \in Lag
          /\ run' = [run EXCEPT ![r] = [status |-> IF SlotFree THEN "queued" ELSE "pending",
                                        by |-> by, listed |-> listed, missed |-> FALSE]]
    BY DEF Starts
  <1>2. run[r].status = "none"
    BY DEF Starts, Created
  <1>3. \A q \in Runs : q < r => run[q].status # "none"
    BY DEF Starts, Created
  <1>4. /\ run'[r] = [status |-> IF SlotFree THEN "queued" ELSE "pending",
                      by |-> by, listed |-> listed, missed |-> FALSE]
        /\ \A q \in Runs \ {r} : run'[q] = run[q]
    BY <1>1 DEF TypeOK
  <1>5. run'[r] \in [status : Outstanding \cup {"none", "completed"},
                     by : Requesters, listed : BOOLEAN, missed : BOOLEAN]
    BY <1>4 DEF Outstanding
  <1>6. run' \in [Runs -> [status : Outstanding \cup {"none", "completed"},
                           by : Requesters, listed : BOOLEAN, missed : BOOLEAN]]
    BY <1>1, <1>4, <1>5 DEF TypeOK
  <1> QED BY <1>2, <1>3, <1>4, <1>6 DEF Outstanding

\* What GitHub does to a run that exists: it is never another requester's.
LEMMA GitHubFacts ==
  ASSUME TypeOK, NEW r \in Runs, GitHub(r)
  PROVE  /\ run' \in [Runs -> [status : Outstanding \cup {"none", "completed"},
                               by : Requesters, listed : BOOLEAN, missed : BOOLEAN]]
         /\ \A q \in Runs : /\ run'[q].by = run[q].by
                            /\ run'[q].status = "none" <=> run[q].status = "none"
                            /\ run'[q].status \in Outstanding => run[q].status \in Outstanding
                            /\ run[q].listed => run'[q].listed
                            /\ run'[q].missed = run[q].missed
         /\ UNCHANGED <<line, repair, cool, recent, forgot>>
  <1> DEFINE Run == [status : Outstanding \cup {"none", "completed"},
                     by : Requesters, listed : BOOLEAN, missed : BOOLEAN]
  <1>1. run[r] \in Run
    BY DEF TypeOK
  <1>2. CASE Appears(r)
    BY <1>1, <1>2 DEF Appears, TypeOK
  <1>3. ASSUME NEW status \in {"queued", "in_progress", "completed"},
               run[r].status \in Outstanding,
               run' = [run EXCEPT ![r].status = status]
        PROVE  /\ run' \in [Runs -> Run]
               /\ \A q \in Runs : /\ run'[q].by = run[q].by
                                  /\ run'[q].status = "none" <=> run[q].status = "none"
                                  /\ run'[q].status \in Outstanding
                                       => run[q].status \in Outstanding
                                  /\ run[q].listed => run'[q].listed
                                  /\ run'[q].missed = run[q].missed
    <2>1. [run[r] EXCEPT !.status = status] \in Run
      BY <1>1 DEF Outstanding
    <2>2. \A q \in Runs :
            run'[q] = IF q = r THEN [run[r] EXCEPT !.status = status] ELSE run[q]
      BY <1>3 DEF TypeOK
    <2>3. run' \in [Runs -> Run]
      BY <1>3, <2>1 DEF TypeOK
    <2> QED BY <1>1, <1>3, <2>2, <2>3 DEF Outstanding
  <1>4. CASE GetsSlot(r) \/ Begins(r) \/ Ends(r)
    BY <1>3, <1>4 DEF GetsSlot, Begins, Ends, Outstanding
  <1> QED BY <1>2, <1>4 DEF GitHub

\* A check for a repair does nothing to the runs but to remember which it overlooked.
LEMMA OverlooksFacts ==
  ASSUME TypeOK, Overlooks
  PROVE  /\ run' \in [Runs -> [status : Outstanding \cup {"none", "completed"},
                               by : Requesters, listed : BOOLEAN, missed : BOOLEAN]]
         /\ \A q \in Runs : /\ run'[q].by = run[q].by
                            /\ run'[q].status = run[q].status
                            /\ run'[q].listed = run[q].listed
                            /\ run[q].missed => run'[q].missed
                            /\ q \in Created \ Listed => run'[q].missed
  <1>1. \A q \in Runs : run'[q] = IF q \in Created \ Listed
                                  THEN [run[q] EXCEPT !.missed = TRUE] ELSE run[q]
    BY DEF Overlooks
  <1>2. \A q \in Runs : run'[q] \in [status : Outstanding \cup {"none", "completed"},
                                    by : Requesters, listed : BOOLEAN, missed : BOOLEAN]
    <2> SUFFICES ASSUME NEW q \in Runs
                 PROVE  run'[q] \in [status : Outstanding \cup {"none", "completed"},
                                     by : Requesters, listed : BOOLEAN, missed : BOOLEAN]
      OBVIOUS
    <2>1. run[q] \in [status : Outstanding \cup {"none", "completed"},
                      by : Requesters, listed : BOOLEAN, missed : BOOLEAN]
      BY DEF TypeOK
    <2>2. [run[q] EXCEPT !.missed = TRUE]
            \in [status : Outstanding \cup {"none", "completed"},
                by : Requesters, listed : BOOLEAN, missed : BOOLEAN]
      BY <2>1
    <2> QED BY <1>1, <2>1, <2>2
  <1>3. run' = [q \in Runs |-> run'[q]]
    BY DEF Overlooks
  <1> QED BY <1>1, <1>2, <1>3 DEF TypeOK

-----------------------------------------------------------------------------
(* Types *)

\* The stages of a LINE request and what it keeps at each.
LEMMA AtType ==
  ASSUME NEW pc \in {"idle", "counting", "polling", "started", "unseen", "busy", "failed"}
  PROVE  At(pc) \in [pc : {"idle", "counting", "polling", "started", "unseen", "busy", "failed"},
                     next : 1..(Len(StatusOrder) + 1), seen : SUBSET Runs]
  <1>1. Len(StatusOrder) = 4
    BY DEF StatusOrder
  <1> QED BY <1>1 DEF At

LEMMA InitTypeOK == Init => TypeOK
  <1> SUFFICES ASSUME Init PROVE TypeOK
    OBVIOUS
  <1>1. line \in [Handlers ->
                  [pc : {"idle", "counting", "polling", "started", "unseen", "busy", "failed"},
                   next : 1..(Len(StatusOrder) + 1), seen : SUBSET Runs]]
    BY AtType DEF Init
  <1> QED BY <1>1 DEF Init, TypeOK, NoRun, Requesters

LEMMA LineUpdate ==
  ASSUME NEW PC, NEW NX, NEW SN, NEW old \in [pc : PC, next : NX, seen : SN],
         NEW n \in NX, NEW s \in SN
  PROVE  [old EXCEPT !.next = n, !.seen = s] \in [pc : PC, next : NX, seen : SN]
  OBVIOUS

\* How a request of LINE moves, and what of it matters to the others.
LineStep(h) ==
  \/ Asks(h)
  \/ Counts(h)
  \/ TurnsAway(h)
  \/ Dispatches(h)
  \/ Polls(h)
  \/ Fails(h)

LEMMA LineType ==
  ASSUME TypeOK, NEW h \in Handlers, LineStep(h)
  PROVE  line' \in [Handlers ->
                  [pc : {"idle", "counting", "polling", "started", "unseen", "busy", "failed"},
                   next : 1..(Len(StatusOrder) + 1), seen : SUBSET Runs]]
  <1>1. CASE Counts(h)
    <2> DEFINE found == {r \in Listed : run[r].status = StatusOrder[line[h].next]}
               next == line[h].next + 1
               seen == line[h].seen \cup found
               new == [line[h] EXCEPT !.next = next, !.seen = seen]
    <2>1. Len(StatusOrder) = 4
      BY DEF StatusOrder
    <2>2. Listed \subseteq Runs
      BY DEF Listed, Created
    <2>3. next \in 1..(Len(StatusOrder) + 1)
      BY <1>1, <2>1 DEF Counts, TypeOK
    <2>4. seen \in SUBSET Runs
      BY <2>2 DEF TypeOK
    <2>5. line[h] \in [pc : {"idle", "counting", "polling", "started", "unseen", "busy", "failed"},
                        next : 1..(Len(StatusOrder) + 1), seen : SUBSET Runs]
      BY DEF TypeOK
    <2>6. line' = [line EXCEPT ![h] = new]
      BY <1>1 DEF Counts
    <2> HIDE DEF found, next, seen
    <2>7. new \in [pc : {"idle", "counting", "polling", "started", "unseen", "busy", "failed"},
                   next : 1..(Len(StatusOrder) + 1), seen : SUBSET Runs]
      BY <2>3, <2>4, <2>5, LineUpdate, Zenon
    <2> QED BY <2>6, <2>7 DEF TypeOK
  <1>2. CASE ~Counts(h)
    <2>1. PICK pc \in {"idle", "counting", "polling", "started", "unseen", "busy", "failed"} :
            line' = [line EXCEPT ![h] = At(pc)]
      BY <1>2 DEF LineStep, Asks, TurnsAway, Dispatches, Polls, Fails
    <2> QED BY <2>1, AtType DEF TypeOK
  <1> QED BY <1>1, <1>2

LEMMA NextTypeOK == TypeOK /\ [Next]_vars => TypeOK'
  <1> SUFFICES ASSUME TypeOK, [Next]_vars PROVE TypeOK'
    OBVIOUS
  <1>1. CASE OtherTrigger
    <2>1. PICK r \in Runs : Starts(r, Other)
      BY <1>1 DEF OtherTrigger
    <2> QED BY <1>1, <2>1, StartsFacts DEF OtherTrigger, TypeOK, Requesters
  <1>2. ASSUME NEW r \in Runs, GitHub(r) PROVE TypeOK'
    BY <1>2, GitHubFacts DEF TypeOK
  <1>3. ASSUME NEW h \in Handlers, LineStep(h) PROVE TypeOK'
    <2>1. UNCHANGED <<repair, cool, recent, forgot>>
      BY <1>3 DEF LineStep, Asks, Counts, TurnsAway, Dispatches, Polls, Fails
    <2>2. UNCHANGED run \/ \E r \in Runs : Starts(r, h)
      BY <1>3 DEF LineStep, Asks, Counts, TurnsAway, Dispatches, Polls, Fails
    <2> QED BY <1>3, <2>1, <2>2, LineType, StartsFacts DEF TypeOK, Requesters
  <1>4. ASSUME NEW p \in Procs, NEW c \in Categories, ChecksRepair(p, c) PROVE TypeOK'
    BY <1>4, OverlooksFacts DEF ChecksRepair, TypeOK
  <1>5. ASSUME NEW p \in Procs, DispatchesRepair(p) PROVE TypeOK'
    <2>1. PICK r \in Runs : Starts(r, repair[p])
      BY <1>5 DEF DispatchesRepair
    <2>2. run' \in [Runs -> [status : Outstanding \cup {"none", "completed"},
                             by : Requesters, listed : BOOLEAN, missed : BOOLEAN]]
      BY <1>5, <2>1, StartsFacts DEF DispatchesRepair, Requesters
    <2>3. Cooldown \in 0..Cooldown
      OBVIOUS
    <2>4. recent' \in [Categories -> 0..Cooldown] /\ forgot' \subseteq Categories
      BY <1>5, <2>3 DEF DispatchesRepair, TypeOK
    <2>5. cool' \in [Procs -> [Categories -> 0..Cooldown]]
      <3>1. CASE cool' = [cool EXCEPT ![p][repair[p]] = Cooldown]
        <4>1. [cool[p] EXCEPT ![repair[p]] = Cooldown] \in [Categories -> 0..Cooldown]
          BY <2>3 DEF TypeOK
        <4> QED BY <3>1, <4>1 DEF TypeOK
      <3>2. CASE UNCHANGED cool
        BY <3>2 DEF TypeOK
      <3> QED BY <1>5, <3>1, <3>2 DEF DispatchesRepair
    <2>6. repair' \in [Procs -> Categories \cup {"idle"}] /\ UNCHANGED line
      BY <1>5 DEF DispatchesRepair, TypeOK
    <2> QED BY <2>2, <2>4, <2>5, <2>6 DEF TypeOK
  <1>6. ASSUME NEW p \in Procs, RepairRefused(p) \/ Restart(p) PROVE TypeOK'
    <2>1. CASE RepairRefused(p)
      BY <2>1 DEF RepairRefused, TypeOK
    <2>2. CASE Restart(p)
      <3>1. [c \in Categories |-> 0] \in [Categories -> 0..Cooldown]
        OBVIOUS
      <3>2. cool' \in [Procs -> [Categories -> 0..Cooldown]]
        BY <2>2, <3>1 DEF Restart, TypeOK
      <3>3. repair' \in [Procs -> Categories \cup {"idle"}]
        BY <2>2 DEF Restart, TypeOK
      <3>4. forgot' \subseteq Categories
        BY <2>2 DEF Restart, TypeOK
      <3> QED BY <2>2, <3>2, <3>3, <3>4 DEF Restart, TypeOK
    <2> QED BY <1>6, <2>1, <2>2
  <1>7. CASE Tick
    <2>1. \A n \in 0..Cooldown : Less(n) \in 0..Cooldown
      BY DEF Less
    <2> QED BY <1>7, <2>1 DEF Tick, TypeOK
  <1>8. CASE UNCHANGED vars
    BY <1>8 DEF vars, TypeOK
  <1> QED BY <1>1, <1>2, <1>3, <1>4, <1>5, <1>6, <1>7, <1>8
          DEF Next, Handle, Proceeds, LineStep

\* Every variable keeps its type; no cooldown is longer than a cooldown.
THEOREM TypeCorrect == Spec => []TypeOK
  BY InitTypeOK, NextTypeOK, PTL DEF Spec

-----------------------------------------------------------------------------
(* A LINE request has one run *)

Own(h) == {r \in Runs : run[r].status # "none" /\ run[r].by = h}

\* A request has no run before it dispatches, one afterwards, and never two.
OwnInv ==
  \A h \in Handlers :
    /\ \A q, r \in Own(h) : q = r
    /\ line[h].pc \in {"idle", "counting", "busy"} => Own(h) = {}
    /\ line[h].pc = "started" => Own(h) # {}

\* A run that somebody else starts is nobody's own.
LEMMA OwnStarts ==
  ASSUME TypeOK, NEW r \in Runs, NEW by \in Requesters, Starts(r, by), NEW h \in Handlers
  PROVE  /\ h # by => Own(h)' = Own(h)
         /\ h = by => Own(h)' = Own(h) \cup {r}
  <1>1. /\ run[r].status = "none" /\ run'[r].status # "none" /\ run'[r].by = by
        /\ \A q \in Runs \ {r} : run'[q] = run[q]
    BY StartsFacts DEF Outstanding
  <1> QED BY <1>1 DEF Own

LEMMA OwnStep == TypeOK /\ OwnInv /\ [Next]_vars => OwnInv'
  <1> SUFFICES ASSUME TypeOK, OwnInv, [Next]_vars PROVE OwnInv'
    OBVIOUS
  <1>1. ASSUME NEW by \in Requesters \ Handlers, NEW r \in Runs, Starts(r, by), UNCHANGED line
        PROVE  OwnInv'
    <2>1. \A h \in Handlers : Own(h)' = Own(h)
      BY <1>1, OwnStarts
    <2> QED BY <1>1, <2>1 DEF OwnInv
  <1>2. CASE OtherTrigger
    BY <1>1, <1>2 DEF OtherTrigger, Requesters
  <1>3. ASSUME NEW r \in Runs, GitHub(r) PROVE OwnInv'
    <2>1. \A h \in Handlers : Own(h)' = Own(h)
      BY <1>3, GitHubFacts DEF Own
    <2> QED BY <1>3, <2>1, GitHubFacts DEF OwnInv
  <1>4. ASSUME UNCHANGED run, UNCHANGED line PROVE OwnInv'
    BY <1>4 DEF OwnInv, Own
  <1>5. ASSUME NEW h \in Handlers, LineStep(h) PROVE OwnInv'
    <2>1. \A g \in Handlers \ {h} : line'[g] = line[g]
      BY <1>5 DEF LineStep, Asks, Counts, TurnsAway, Dispatches, Polls, Fails, TypeOK
    <2>2. CASE Dispatches(h)
      <3>1. PICK r \in Runs : Starts(r, h)
        BY <2>2 DEF Dispatches
      <3>2. \A g \in Handlers : Own(g)' = IF g = h THEN Own(h) \cup {r} ELSE Own(g)
        BY <3>1, OwnStarts DEF Requesters
      <3>3. Own(h) = {} /\ line'[h].pc \in {"polling", "failed"}
        BY <2>2 DEF Dispatches, Counted, OwnInv, At, TypeOK
      <3> QED BY <2>1, <3>2, <3>3 DEF OwnInv
    <2>3. CASE ~Dispatches(h)
      <3>1. \A g \in Handlers : Own(g)' = Own(g)
        BY <1>5, <2>3 DEF LineStep, Asks, Counts, TurnsAway, Polls, Fails, Own
      <3>2. /\ line'[h].pc \in {"idle", "counting", "busy"}
                 => line[h].pc \in {"idle", "counting", "busy"}
            /\ line'[h].pc = "started" => Own(h) # {}
        BY <1>5, <2>3 DEF LineStep, Asks, Counts, TurnsAway, Polls, Fails, Counted, At,
                          TypeOK, Own, Listed, Created
      <3> QED BY <2>1, <3>1, <3>2 DEF OwnInv
    <2> QED BY <2>2, <2>3
  <1>6. ASSUME NEW p \in Procs, NEW c \in Categories, ChecksRepair(p, c) PROVE OwnInv'
    <2>1. \A h \in Handlers : Own(h)' = Own(h)
      BY <1>6, OverlooksFacts DEF ChecksRepair, Own
    <2> QED BY <1>6, <2>1 DEF ChecksRepair, OwnInv
  <1>7. ASSUME NEW p \in Procs, DispatchesRepair(p) PROVE OwnInv'
    BY <1>1, <1>7 DEF DispatchesRepair, Requesters
  <1>8. ASSUME NEW p \in Procs, RepairRefused(p) \/ Restart(p) PROVE OwnInv'
    BY <1>4, <1>8 DEF RepairRefused, Restart
  <1>9. CASE Tick \/ UNCHANGED vars
    BY <1>4, <1>9 DEF Tick, vars
  <1> QED BY <1>2, <1>3, <1>5, <1>6, <1>7, <1>8, <1>9
          DEF Next, Handle, Proceeds, LineStep

\* A LINE request never dispatches two runs, whatever it could not find, and however
\* many requests are under way; one that was turned away has none.
THEOREM RequestsRunOnce == Spec => []OneRunPerRequest
  <1>1. Init => OwnInv
    BY DEF Init, OwnInv, Own, NoRun, At
  <1>2. OwnInv => OneRunPerRequest
    <2> SUFFICES ASSUME OwnInv, NEW h \in Handlers
                 PROVE  /\ Cardinality(Own(h)) <= 1
                        /\ line[h].pc \in {"idle", "counting", "busy"} => Own(h) = {}
                        /\ line[h].pc = "started" => Own(h) # {}
      BY DEF OneRunPerRequest, Own
    <2>1. Own(h) = {} \/ \E r : Own(h) = {r}
      BY DEF OwnInv
    <2>2. Cardinality(Own(h)) <= 1
      BY <2>1, FS_EmptySet, FS_Singleton
    <2> QED BY <2>2 DEF OwnInv
  <1> QED BY <1>1, <1>2, OwnStep, TypeCorrect, PTL DEF Spec

-----------------------------------------------------------------------------
(* The repairs of one process *)

\* The repairs are all asked for by one service process.
OneProcess == \E s : Procs = {s}

\* How many listed runs are younger than a run: a page of the list shows it as long as
\* they are fewer than the page holds.
Younger(r) == {q \in Listed : q > r}

\* The check of a process that is about to dispatch could not see this run.
Unseen(q) == run[q].missed \/ Cardinality(Younger(q)) >= PageSize

\* Runs are created in order; a process that is about to dispatch could not see any
\* repair run that is outstanding; the property itself.
RepairInv ==
  /\ \A q, r \in Runs : q < r /\ run[r].status # "none" => run[q].status # "none"
  /\ \A p \in Procs : repair[p] \in Categories =>
       \A q \in StartedBy(Categories) : Unseen(q)
  /\ OneRepairAtATime

\* The memory of the process agrees with what GitHub started, unless it forgot, and
\* a category that was found to have cooled down has.
CoolInv ==
  \A p \in Procs, c \in Categories :
    /\ c \notin forgot => recent[c] = cool[p][c]
    /\ repair[p] = c => cool[p][c] = 0

\* The runs that are younger than a run, at the moment the next run is created, lie
\* between the two.
LEMMA YoungerBetween ==
  ASSUME TypeOK, NEW r \in Runs, NEW q \in Runs, q < r, run[r].status = "none",
         \A s, t \in Runs : s < t /\ run[t].status # "none" => run[s].status # "none",
         Cardinality(Younger(q)) >= PageSize
  PROVE  r - q > PageSize
  <1>1. Younger(q) \subseteq (q + 1)..(r - 1)
    <2> SUFFICES ASSUME NEW s \in Younger(q) PROVE s \in (q + 1)..(r - 1)
      OBVIOUS
    <2>1. s \in Runs /\ s > q /\ run[s].status # "none"
      BY DEF Younger, Listed, Created
    <2>2. ~(r <= s)
      BY <2>1 DEF Runs
    <2> QED BY <2>1, <2>2 DEF Runs
  <1>2. IsFiniteSet((q + 1)..(r - 1)) /\ Cardinality((q + 1)..(r - 1)) = r - 1 - q
    <2> DEFINE a == q + 1
               b == r - 1
    <2>1. a \in Int /\ b \in Int /\ b - a + 1 = r - 1 - q /\ (a > b => r - 1 - q = 0)
      BY DEF Runs
    <2> HIDE DEF a, b
    <2>2. IsFiniteSet(a..b) /\ Cardinality(a..b) = IF a > b THEN 0 ELSE b - a + 1
      BY <2>1, FS_Interval
    <2>3. Cardinality(a..b) = r - 1 - q
      BY <2>1, <2>2
    <2> QED BY <2>2, <2>3 DEF a, b
  <1>3. Cardinality(Younger(q)) <= r - 1 - q /\ Cardinality(Younger(q)) \in Nat
    <2>1. IsFiniteSet(Younger(q))
          /\ Cardinality(Younger(q)) <= Cardinality((q + 1)..(r - 1))
      BY <1>1, <1>2, FS_Subset
    <2>2. Cardinality(Younger(q)) \in Nat
      BY <2>1, FS_CardinalityType
    <2> QED BY <1>2, <2>1, <2>2
  <1> QED BY <1>3 DEF Runs

\* What a page has hidden stays hidden: the list only grows.
LEMMA UnseenStays ==
  ASSUME TypeOK, NEW q \in Runs, Unseen(q), run[q].missed => run'[q].missed,
         Listed \subseteq Listed'
  PROVE  Unseen(q)'
  <1>1. CASE run[q].missed
    BY <1>1 DEF Unseen
  <1>2. CASE Cardinality(Younger(q)) >= PageSize
    <2>1. Younger(q) \subseteq Younger(q)' /\ Younger(q)' \subseteq Runs
      BY DEF Younger, Listed, Created
    <2>2. IsFiniteSet(Runs)
      BY FS_Interval DEF Runs
    <2>3. IsFiniteSet(Younger(q)')
      BY <2>1, <2>2, FS_Subset
    <2>4. IsFiniteSet(Younger(q)) /\ Cardinality(Younger(q)) <= Cardinality(Younger(q)')
      BY <2>1, <2>3, FS_Subset
    <2>5. Cardinality(Younger(q)) \in Nat /\ Cardinality(Younger(q)') \in Nat
      BY <2>3, <2>4, FS_CardinalityType
    <2>6. Cardinality(Younger(q)') >= PageSize
      BY <1>2, <2>4, <2>5
    <2> QED BY <2>6 DEF Unseen
  <1> QED BY <1>1, <1>2 DEF Unseen

\* While no repair run is new and no process has just checked, nothing is lost.
LEMMA NoNewRepair ==
  ASSUME TypeOK, RepairInv, Listed \subseteq Listed',
         \A q, r \in Runs : q < r /\ run'[r].status # "none" => run'[q].status # "none",
         StartedBy(Categories)' \subseteq StartedBy(Categories),
         \A q \in Runs : run[q].missed => run'[q].missed \/ q \notin StartedBy(Categories)',
         \A p \in Procs : repair'[p] \in Categories => repair[p] \in Categories
  PROVE  RepairInv'
  <1>1. StartedBy(Categories) \subseteq Runs
    BY DEF StartedBy
  <1>2. ASSUME NEW p \in Procs, repair'[p] \in Categories, NEW q \in StartedBy(Categories)'
        PROVE  Unseen(q)'
    <2>1. q \in Runs /\ Unseen(q) /\ (run[q].missed => run'[q].missed)
      BY <1>1, <1>2 DEF RepairInv
    <2> QED BY <2>1, UnseenStays
  <1>3. OneRepairAtATime'
    BY <1>1 DEF RepairInv, OneRepairAtATime
  <1> QED BY <1>2, <1>3 DEF RepairInv

\* A run that GitHub creates, lists, runs or ends for others is no new repair.
LEMMA OthersRuns ==
  ASSUME TypeOK, RepairInv,
         \/ \E r \in Runs : GitHub(r)
         \/ \E r \in Runs, by \in Requesters \ Categories : Starts(r, by)
         \/ UNCHANGED run
  PROVE  /\ Listed \subseteq Listed'
         /\ \A q, r \in Runs : q < r /\ run'[r].status # "none" => run'[q].status # "none"
         /\ StartedBy(Categories)' \subseteq StartedBy(Categories)
         /\ \A q \in Runs : run[q].missed
              => run'[q].missed \/ q \notin StartedBy(Categories)'
  <1>1. CASE \E r \in Runs : GitHub(r)
    BY <1>1, GitHubFacts DEF StartedBy, RepairInv, Listed, Created
  <1>2. CASE \E r \in Runs, by \in Requesters \ Categories : Starts(r, by)
    <2>1. PICK r \in Runs, by \in Requesters \ Categories : Starts(r, by)
      BY <1>2
    <2>2. /\ run[r].status = "none" /\ run'[r].status # "none" /\ run'[r].by = by
          /\ \A q \in Runs \ {r} : run'[q] = run[q]
          /\ \A q \in Runs : q < r => run[q].status # "none"
      BY <2>1, StartsFacts DEF Outstanding
    <2>3. \A q, s \in Runs : q < s /\ run[s].status # "none" => run[q].status # "none"
      BY DEF RepairInv
    <2> QED BY <2>2, <2>3 DEF StartedBy, Listed, Created, Outstanding
  <1>3. CASE UNCHANGED run
    BY <1>3 DEF StartedBy, RepairInv, Listed, Created
  <1> QED BY <1>1, <1>2, <1>3

\* Whoever is no repair changes nothing that the repairs depend on.
LEMMA OthersStep ==
  ASSUME TypeOK,
         OtherTrigger \/ (\E r \in Runs : GitHub(r)) \/ (\E h \in Handlers : LineStep(h))
  PROVE  /\ UNCHANGED <<repair, cool, recent, forgot>>
         /\ \/ \E r \in Runs : GitHub(r)
            \/ \E r \in Runs, by \in Requesters \ Categories : Starts(r, by)
            \/ UNCHANGED run
  <1>1. CASE OtherTrigger
    BY <1>1 DEF OtherTrigger, Requesters
  <1>2. CASE \E r \in Runs : GitHub(r)
    BY <1>2, GitHubFacts
  <1>3. ASSUME NEW h \in Handlers, LineStep(h)
        PROVE  /\ UNCHANGED <<repair, cool, recent, forgot>>
               /\ UNCHANGED run \/ \E r \in Runs : Starts(r, h)
    BY <1>3 DEF LineStep, Asks, Counts, TurnsAway, Dispatches, Polls, Fails
  <1>4. Handlers \subseteq Requesters \ Categories
    BY DEF Requesters
  <1> QED BY <1>1, <1>2, <1>3, <1>4

\* The check sees every outstanding repair run but those it then cannot know of.
LEMMA CheckInv ==
  ASSUME OneProcess, TypeOK, RepairInv, NEW p \in Procs, NEW c \in Categories,
         ChecksRepair(p, c)
  PROVE  RepairInv'
  <1>1. /\ Created' = Created /\ Listed' = Listed
        /\ StartedBy(Categories)' = StartedBy(Categories)
        /\ \A q \in Runs : run'[q].status = run[q].status
        /\ \A q \in Created \ Listed : run'[q].missed
    BY OverlooksFacts DEF ChecksRepair, Created, Listed, StartedBy
  <1>2. ASSUME NEW q \in StartedBy(Categories)' PROVE Unseen(q)'
    <2>1. q \in Created /\ q \notin Page
      BY <1>1, <1>2 DEF ChecksRepair, StartedBy, Created, Outstanding, Page, Listed
    <2>2. CASE q \notin Listed
      BY <1>1, <2>1, <2>2 DEF Unseen
    <2>3. CASE q \in Listed
      <3>1. ~(Cardinality(Younger(q)) < PageSize)
        BY <2>1, <2>3 DEF Page, Younger
      <3>2. Younger(q) \subseteq Runs /\ IsFiniteSet(Runs)
        BY FS_Interval DEF Younger, Listed, Created, Runs
      <3>3. Cardinality(Younger(q)) \in Nat
        BY <3>2, FS_Subset, FS_CardinalityType
      <3>4. Younger(q)' = Younger(q)
        BY <1>1 DEF Younger
      <3>5. Cardinality(Younger(q)') >= PageSize
        BY <3>1, <3>3, <3>4
      <3> QED BY <3>5 DEF Unseen
    <2> QED BY <2>2, <2>3
  <1>3. OneRepairAtATime'
    <2>1. \A q \in Runs : run[q].missed => run'[q].missed
      BY OverlooksFacts DEF ChecksRepair
    <2>2. StartedBy(Categories) \subseteq Runs
      BY DEF StartedBy
    <2> QED BY <1>1, <2>1, <2>2 DEF RepairInv, OneRepairAtATime
  <1> QED BY <1>1, <1>2, <1>3 DEF RepairInv

\* The dispatch: the new repair run is the youngest, and its process could not see the
\* others that are outstanding.
LEMMA DispatchInv ==
  ASSUME OneProcess, TypeOK, RepairInv, NEW p \in Procs, DispatchesRepair(p)
  PROVE  RepairInv'
  <1>1. PICK r \in Runs : Starts(r, repair[p])
    BY DEF DispatchesRepair
  <1>2. repair[p] \in Categories /\ repair' = [repair EXCEPT ![p] = "idle"]
    BY DEF DispatchesRepair
  <1>3. /\ run[r].status = "none" /\ run'[r].status # "none"
        /\ \A q \in Runs \ {r} : run'[q] = run[q]
        /\ \A q \in Runs : q < r => run[q].status # "none"
    BY <1>1, <1>2, StartsFacts DEF Requesters, Outstanding
  <1>4. \A q, s \in Runs : q < s /\ run[s].status # "none" => run[q].status # "none"
    BY DEF RepairInv
  <1>5. \A q, s \in Runs : q < s /\ run'[s].status # "none" => run'[q].status # "none"
    BY <1>3, <1>4
  <1>6. StartedBy(Categories)' \subseteq StartedBy(Categories) \cup {r}
    BY <1>3 DEF StartedBy
  <1>7. \A s \in Procs : repair'[s] \notin Categories
    BY <1>2 DEF OneProcess, TypeOK
  <1>8. ASSUME NEW q \in StartedBy(Categories)', NEW s \in StartedBy(Categories)', q < s
        PROVE  run'[q].missed \/ s - q > PageSize
    <2>1. q \in Runs /\ s \in Runs
      BY DEF StartedBy
    <2>2. \A t \in StartedBy(Categories) : t \in Runs /\ run[t].status # "none"
      BY DEF StartedBy, Outstanding
    <2>3. q # r
      <3> SUFFICES ASSUME q = r PROVE FALSE
        OBVIOUS
      <3>1. s # r /\ run[s].status # "none"
        BY <1>6, <1>8, <2>1, <2>2 DEF Runs
      <3> QED BY <1>3, <1>4, <1>8, <2>1, <3>1
    <2>4. q \in StartedBy(Categories) /\ run'[q] = run[q]
      BY <1>3, <1>6, <2>1, <2>3
    <2>5. CASE s = r
      <3>1. Unseen(q)
        BY <1>2, <2>4 DEF RepairInv
      <3>2. CASE run[q].missed
        BY <2>4, <3>2
      <3>3. CASE Cardinality(Younger(q)) >= PageSize
        BY <1>3, <1>4, <1>8, <2>1, <2>5, <3>3, YoungerBetween
      <3> QED BY <3>1, <3>2, <3>3 DEF Unseen
    <2>6. CASE s # r
      BY <1>6, <1>8, <2>4, <2>6 DEF RepairInv, OneRepairAtATime
    <2> QED BY <2>5, <2>6
  <1>9. OneRepairAtATime'
    BY <1>8 DEF OneRepairAtATime
  <1> QED BY <1>5, <1>7, <1>9 DEF RepairInv

LEMMA RepairStep ==
  ASSUME OneProcess, TypeOK, RepairInv, [Next]_vars
  PROVE  RepairInv'
  <1>1. CASE OtherTrigger \/ (\E r \in Runs : GitHub(r)) \/ (\E h \in Handlers : LineStep(h))
    <2>1. UNCHANGED repair
      BY <1>1, OthersStep
    <2> QED BY <1>1, <2>1, OthersStep, OthersRuns, NoNewRepair
  <1>2. ASSUME NEW p \in Procs, NEW c \in Categories, ChecksRepair(p, c) PROVE RepairInv'
    BY <1>2, CheckInv
  <1>3. ASSUME NEW p \in Procs, DispatchesRepair(p) PROVE RepairInv'
    BY <1>3, DispatchInv
  <1>4. ASSUME NEW p \in Procs, RepairRefused(p) \/ Restart(p) PROVE RepairInv'
    <2>1. UNCHANGED run /\ repair' = [repair EXCEPT ![p] = "idle"]
      BY <1>4 DEF RepairRefused, Restart
    <2>2. \A s \in Procs : repair'[s] \in Categories => repair[s] \in Categories
      BY <2>1 DEF TypeOK
    <2> QED BY <2>1, <2>2, OthersRuns, NoNewRepair
  <1>5. CASE Tick \/ UNCHANGED vars
    <2>1. UNCHANGED <<run, repair>>
      BY <1>5 DEF Tick, vars
    <2> QED BY <2>1, OthersRuns, NoNewRepair
  <1> QED BY <1>1, <1>2, <1>3, <1>4, <1>5 DEF Next, Handle, Proceeds, LineStep

\* One process, a page of any size and any delay of the lists: two repair runs are
\* outstanding together only if the check that let the younger one go could not see the
\* elder, whatever else starts runs in between.
THEOREM RepairsTakeTurns ==
  ASSUME OneProcess
  PROVE  Spec => []OneRepairAtATime
  <1>1. Init => RepairInv
    BY DEF Init, RepairInv, OneRepairAtATime, NoRun, StartedBy, Outstanding
  <1>2. TypeOK /\ RepairInv /\ [Next]_vars => RepairInv'
    BY RepairStep
  <1>3. RepairInv => OneRepairAtATime
    BY DEF RepairInv
  <1> QED BY <1>1, <1>2, <1>3, TypeCorrect, PTL DEF Spec

LEMMA CoolStep ==
  ASSUME OneProcess, TypeOK, CoolInv, [Next]_vars
  PROVE  CoolInv'
  <1>1. CASE OtherTrigger \/ (\E r \in Runs : GitHub(r)) \/ (\E h \in Handlers : LineStep(h))
    BY <1>1, OthersStep DEF CoolInv
  <1>2. ASSUME NEW p \in Procs, NEW c \in Categories, ChecksRepair(p, c) PROVE CoolInv'
    BY <1>2 DEF ChecksRepair, CoolInv, TypeOK
  <1>3. ASSUME NEW p \in Procs, DispatchesRepair(p) PROVE CoolInv'
    <2> DEFINE c == repair[p]
    <2>1. /\ c \in Categories /\ Procs = {p}
          /\ repair' = [repair EXCEPT ![p] = "idle"]
          /\ recent' = [recent EXCEPT ![c] = Cooldown]
      BY <1>3 DEF DispatchesRepair, OneProcess
    <2>2. repair'[p] = "idle"
      BY <2>1 DEF TypeOK
    <2>3. CASE cool' = [cool EXCEPT ![p][c] = Cooldown] /\ forgot' = forgot \ {c}
      <3>1. \A d \in Categories :
              /\ cool'[p][d] = IF d = c THEN Cooldown ELSE cool[p][d]
              /\ recent'[d] = IF d = c THEN Cooldown ELSE recent[d]
        BY <2>1, <2>3 DEF TypeOK
      <3> QED BY <2>1, <2>2, <2>3, <3>1 DEF CoolInv
    <2>4. CASE UNCHANGED cool /\ forgot' = forgot \cup {c}
      <3>1. \A d \in Categories : d # c => recent'[d] = recent[d]
        BY <2>1 DEF TypeOK
      <3> QED BY <2>1, <2>2, <2>4, <3>1 DEF CoolInv
    <2> QED BY <1>3, <2>3, <2>4 DEF DispatchesRepair
  <1>4. ASSUME NEW p \in Procs, RepairRefused(p) PROVE CoolInv'
    BY <1>4 DEF RepairRefused, CoolInv, TypeOK
  <1>5. ASSUME NEW p \in Procs, Restart(p) PROVE CoolInv'
    <2>1. /\ Procs = {p} /\ repair'[p] = "idle"
          /\ \A c \in Categories : cool'[p][c] = 0
          /\ forgot' = forgot \cup {c \in Categories : cool[p][c] > 0}
          /\ UNCHANGED recent
      BY <1>5 DEF Restart, OneProcess, TypeOK
    <2>2. \A c \in Categories : cool[p][c] \in Nat
      BY DEF TypeOK
    <2> QED BY <2>1, <2>2 DEF CoolInv
  <1>6. CASE Tick
    <2>1. \A p \in Procs, c \in Categories :
            cool'[p][c] = Less(cool[p][c]) /\ recent'[c] = Less(recent[c])
      BY <1>6 DEF Tick
    <2>2. \A p \in Procs : repair'[p] = "idle" /\ UNCHANGED forgot
      BY <1>6 DEF Tick
    <2> QED BY <2>1, <2>2 DEF CoolInv
  <1>7. CASE UNCHANGED vars
    BY <1>7 DEF vars, CoolInv
  <1> QED BY <1>1, <1>2, <1>3, <1>4, <1>5, <1>6, <1>7
          DEF Next, Handle, Proceeds, LineStep

\* One process starts no second repair run of a category before its cooldown is over,
\* unless the answer of GitHub was lost or the process restarted in between.
THEOREM CooldownIsKept ==
  ASSUME OneProcess
  PROVE  Spec => CooldownHolds
  <1>1. Init => CoolInv
    BY DEF Init, CoolInv
  <1>2. TypeOK /\ CoolInv /\ [Next]_vars => CoolInv'
    BY CoolStep
  <1>3. TypeOK /\ CoolInv /\ [Next]_vars
          => [\A c \in Categories : StartsRepair(c) => recent[c] = 0 \/ c \in forgot]_vars
    <2> SUFFICES ASSUME TypeOK, CoolInv, Next, NEW c \in Categories, StartsRepair(c)
                 PROVE  recent[c] = 0 \/ c \in forgot
      OBVIOUS
    <2>1. PICK r \in Runs :
            run[r].status = "none" /\ run'[r].status # "none" /\ run'[r].by = c
      BY DEF StartsRepair
    <2>2. PICK p \in Procs : DispatchesRepair(p)
      <3>1. CASE OtherTrigger \/ (\E q \in Runs : GitHub(q)) \/ (\E h \in Handlers : LineStep(h))
        BY <2>1, <3>1, OthersStep, GitHubFacts, StartsFacts
      <3>2. CASE \/ Tick
                 \/ \E s \in Procs : \/ \E d \in Categories : ChecksRepair(s, d)
                                     \/ RepairRefused(s) \/ Restart(s)
        BY <2>1, <3>2, OverlooksFacts DEF Tick, ChecksRepair, RepairRefused, Restart
      <3> QED BY <3>1, <3>2 DEF Next, Handle, Proceeds, LineStep
    <2>3. PICK q \in Runs : Starts(q, repair[p])
      BY <2>2 DEF DispatchesRepair
    <2>4. repair[p] = c
      BY <2>1, <2>2, <2>3, StartsFacts DEF DispatchesRepair, Requesters
    <2> QED BY <2>4 DEF CoolInv
  <1> QED BY <1>1, <1>2, <1>3, TypeCorrect, PTL DEF Spec, CooldownHolds
=============================================================================
