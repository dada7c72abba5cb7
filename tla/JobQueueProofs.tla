--------------------------- MODULE JobQueueProofs ---------------------------
(***************************************************************************)
(* Proofs about JobQueue, for every number of jobs, every set of job types *)
(* and every value of max_retries and stale_after_seconds.                 *)
(***************************************************************************)
EXTENDS JobQueue, TLAPS

\* The inductive invariant: types, exclusive claims, and what a row's error
\* says about its status and its retries.
IInv == TypeOK /\ ClaimSafety /\ FailureAccounted

USE MaxJobsAssumption, JobTypesAssumption, MaxRetriesAssumption, StaleAfterAssumption

\* A sweep of one row yields a row, and yields the same row, a requeued one or
\* a failed one.
LEMMA SweptRow ==
  ASSUME NEW row \in Row, NEW t \in JobTypes
  PROVE  /\ Swept(row, t) \in Row
         /\ \/ Swept(row, t) = row
            \/ /\ row.status = "running"
               /\ row.retry < MaxRetries
               /\ Swept(row, t).status = "pending"
               /\ Swept(row, t).error = row.error
               /\ Swept(row, t).retry = row.retry + 1
               /\ Swept(row, t).token = NoToken
            \/ /\ row.status = "running"
               /\ row.retry = MaxRetries
               /\ Swept(row, t).status = "failed"
               /\ Swept(row, t).error = "timed_out"
               /\ Swept(row, t).retry = row.retry
               /\ Swept(row, t).token = NoToken
  <1> USE DEF Row, Statuses, Reports, Errors, NoToken
  <1>0. 0 \in 0..(StaleAfter + 1)
    OBVIOUS
  <1>1. CASE ~IsStale(row, t)
    BY <1>1 DEF Swept
  <1>2. CASE IsStale(row, t) /\ row.retry >= MaxRetries
    <2> DEFINE closed == [row EXCEPT !.status = "failed", !.error = "timed_out",
                                     !.token = NoToken, !.age = 0]
    <2>1. Swept(row, t) = closed
      BY <1>2 DEF Swept
    <2>2. row.status = "running" /\ row.retry = MaxRetries
      BY <1>2 DEF IsStale
    <2>3. closed \in Row
      BY <1>0
    <2>4. /\ closed.status = "failed" /\ closed.error = "timed_out"
          /\ closed.retry = row.retry /\ closed.token = NoToken
      OBVIOUS
    <2> QED BY <2>1, <2>2, <2>3, <2>4
  <1>3. CASE IsStale(row, t) /\ ~(row.retry >= MaxRetries)
    <2> DEFINE requeued == [row EXCEPT !.status = "pending", !.retry = @ + 1,
                                       !.token = NoToken, !.age = 0]
    <2>1. Swept(row, t) = requeued
      BY <1>3 DEF Swept
    <2>2. row.status = "running" /\ row.retry < MaxRetries
      BY <1>3 DEF IsStale
    <2>3. requeued \in Row
      <3>1. row.retry + 1 \in 0..MaxRetries
        BY <2>2
      <3> QED BY <1>0, <3>1
    <2>4. /\ requeued.status = "pending" /\ requeued.error = row.error
          /\ requeued.retry = row.retry + 1 /\ requeued.token = NoToken
      OBVIOUS
    <2> QED BY <2>1, <2>2, <2>3, <2>4
  <1> QED BY <1>1, <1>2, <1>3

\* The empty table satisfies the invariant.
LEMMA InitIInv == Init => IInv
  BY DEF Init, IInv, TypeOK, ClaimSafety, TokenIffRunning, TokenExclusive,
         FailureAccounted, NoRow, Row, Statuses, Reports, Errors, NoToken

\* What the sweep of a claim leaves is still good, before anything is granted.
LEMMA SweptInv ==
  ASSUME NEW t \in JobTypes, IInv,
         job' = SweptJobs(t), issued' = issued
  PROVE  IInv'
  <1>1. \A j \in Jobs : job[j] \in Row /\ job'[j] = Swept(job[j], t)
    BY DEF SweptJobs, IInv, TypeOK
  <1>2. TypeOK'
    BY <1>1, SweptRow DEF IInv, TypeOK, SweptJobs
  <1>3. TokenIffRunning'
    BY <1>1, SweptRow DEF IInv, ClaimSafety, TokenIffRunning
  <1>4. \A j \in Jobs : job'[j].token \in {NoToken, job[j].token}
    BY <1>1, SweptRow
  <1>5. TokenExclusive'
    BY <1>4 DEF IInv, TypeOK, ClaimSafety, TokenExclusive, NoToken
  <1>6. FailureAccounted'
    BY <1>1, SweptRow DEF IInv, FailureAccounted, Closed
  <1> QED BY <1>2, <1>3, <1>5, <1>6 DEF IInv, ClaimSafety

\* A grant makes a row of a row, and its token is the fresh one.
LEMMA GrantedRow ==
  ASSUME NEW row \in Row, NEW token \in Nat
  PROVE  LET granted == [row EXCEPT !.status = "running", !.token = token, !.age = 0]
         IN /\ granted \in Row
            /\ granted.status = "running" /\ granted.token = token
            /\ granted.error = row.error /\ granted.retry = row.retry
  <1>1. 0 \in 0..(StaleAfter + 1)
    OBVIOUS
  <1> QED BY <1>1 DEF Row, Statuses

\* A grant: the sweep, and then one pending row becomes running.
LEMMA GrantInv ==
  ASSUME NEW t \in JobTypes, NEW j \in Jobs, IInv, Grant(t, j)
  PROVE  IInv'
  <1> DEFINE swept == SweptJobs(t)
             granted == [swept[j] EXCEPT !.status = "running",
                                         !.token = issued + 1, !.age = 0]
  <1>1. /\ \A k \in Jobs : job[k] \in Row /\ swept[k] = Swept(job[k], t)
        /\ issued \in Nat /\ issued' = issued + 1
        /\ swept[j].status = "pending"
        /\ job' = [swept EXCEPT ![j] = granted]
    BY DEF Grant, Claimable, SweptJobs, IInv, TypeOK
  <1>2. \A k \in Jobs : /\ swept[k] \in Row
                        /\ swept[k].token \in {NoToken, job[k].token}
                        /\ swept[k].token # NoToken <=> swept[k].status = "running"
    BY <1>1, SweptRow DEF IInv, ClaimSafety, TokenIffRunning
  <1>3. \A k \in Jobs :
          /\ swept[k].status \notin Closed => swept[k].error = "none"
          /\ swept[k].error \in {"timed_out", "cancelled"} => swept[k].status = "failed"
          /\ swept[k].error = "timed_out" => swept[k].retry = MaxRetries
    BY <1>1, SweptRow DEF IInv, FailureAccounted, Closed
  <1>4. /\ granted \in Row
        /\ granted.status = "running" /\ granted.token = issued + 1
        /\ granted.error = swept[j].error /\ granted.retry = swept[j].retry
    <2>1. swept[j] \in Row /\ issued + 1 \in Nat
      BY <1>1, <1>2
    <2> HIDE DEF swept
    <2> QED BY <2>1, GrantedRow
  <1>5. /\ swept \in [Jobs -> Row]
        /\ job'[j] = granted
        /\ \A k \in Jobs \ {j} : job'[k] = swept[k]
    BY <1>1, <1>2 DEF SweptJobs
  <1>6. TypeOK'
    BY <1>1, <1>4, <1>5 DEF TypeOK
  <1>7. TokenIffRunning'
    BY <1>1, <1>2, <1>4, <1>5 DEF TokenIffRunning, NoToken
  <1>8. TokenExclusive'
    <2>1. \A k \in Jobs : job[k].token \in Nat /\ job[k].token <= issued
      BY <1>1 DEF IInv, ClaimSafety, TokenExclusive, Row
    <2>2. \A k \in Jobs \ {j} : job'[k].token \in {NoToken, job[k].token}
      BY <1>2, <1>5
    <2>3. job'[j].token = issued + 1
      BY <1>4, <1>5
    <2>4. \A k \in Jobs : job'[k].token <= issued'
      BY <1>1, <2>1, <2>2, <2>3 DEF NoToken
    <2>5. ASSUME NEW a \in Jobs, NEW b \in Jobs, a # b, job'[a].token # NoToken
          PROVE  job'[a].token # job'[b].token
      BY <1>1, <2>1, <2>2, <2>3, <2>5
         DEF IInv, ClaimSafety, TokenExclusive, NoToken
    <2> QED BY <2>4, <2>5 DEF TokenExclusive
  <1>9. FailureAccounted'
    BY <1>1, <1>3, <1>4, <1>5 DEF FailureAccounted, Closed
  <1> QED BY <1>6, <1>7, <1>8, <1>9 DEF IInv, ClaimSafety

\* One row is rewritten and gives up its token, if it had one.
LEMMA RowInv ==
  ASSUME IInv, NEW j \in Jobs, NEW row \in Row,
         job' = [job EXCEPT ![j] = row], issued' = issued,
         row.token = NoToken, row.status # "running",
         row.status \notin Closed => row.error = "none",
         row.error = "cancelled" => row.status = "failed",
         row.error # "timed_out"
  PROVE  IInv'
  <1>1. /\ job \in [Jobs -> Row] /\ job'[j] = row
        /\ \A k \in Jobs \ {j} : job'[k] = job[k]
    BY DEF IInv, TypeOK
  <1>2. TypeOK'
    BY <1>1 DEF IInv, TypeOK
  <1>3. TokenIffRunning'
    BY <1>1 DEF IInv, ClaimSafety, TokenIffRunning
  <1>4. TokenExclusive'
    BY <1>1 DEF IInv, TypeOK, ClaimSafety, TokenExclusive, NoToken
  <1>5. FailureAccounted'
    BY <1>1 DEF IInv, FailureAccounted
  <1> QED BY <1>2, <1>3, <1>4, <1>5 DEF IInv, ClaimSafety

\* The passage of time keeps the invariant.
LEMMA TickInv ==
  ASSUME IInv, Tick
  PROVE  IInv'
  <1>1. ASSUME NEW k \in Jobs
        PROVE  /\ job'[k] \in Row
               /\ job'[k].status = job[k].status /\ job'[k].token = job[k].token
               /\ job'[k].error = job[k].error /\ job'[k].retry = job[k].retry
    <2>1. job[k] \in Row
      BY DEF IInv, TypeOK
    <2>2. CASE job[k].status = "running" /\ job[k].age <= StaleAfter
      <3>1. job[k].age + 1 \in 0..(StaleAfter + 1)
        BY <2>1, <2>2 DEF Row
      <3>2. job'[k] = [job[k] EXCEPT !.age = @ + 1]
        BY <2>2 DEF Tick
      <3> QED BY <2>1, <3>1, <3>2 DEF Row
    <2>3. CASE ~(job[k].status = "running" /\ job[k].age <= StaleAfter)
      BY <2>1, <2>3 DEF Tick
    <2> QED BY <2>2, <2>3
  <1>2. issued' = issued
    BY DEF Tick
  <1>3. TypeOK'
    <2>1. job' = [k \in Jobs |-> job'[k]]
      BY DEF Tick
    <2> QED BY <1>1, <1>2, <2>1 DEF IInv, TypeOK
  <1>4. ClaimSafety'
    BY <1>1, <1>2 DEF IInv, ClaimSafety, TokenIffRunning, TokenExclusive
  <1>5. FailureAccounted'
    BY <1>1 DEF IInv, FailureAccounted
  <1> QED BY <1>3, <1>4, <1>5 DEF IInv

\* Every step of the queue preserves the invariant.
LEMMA NextIInv == IInv /\ [Next]_vars => IInv'
  <1> SUFFICES ASSUME IInv, [Next]_vars PROVE IInv'
    OBVIOUS
  <1>1. ASSUME NEW t \in JobTypes, CreateJob(t) PROVE IInv'
    <2>1. PICK j \in Jobs :
            /\ job[j].status = "absent"
            /\ job' = [job EXCEPT ![j] = [NoRow EXCEPT !.type = t, !.status = "pending"]]
            /\ issued' = issued
      BY <1>1 DEF CreateJob
    <2> DEFINE row == [NoRow EXCEPT !.type = t, !.status = "pending"]
    <2>2. 0 \in 0..MaxRetries /\ 0 \in 0..(StaleAfter + 1)
      OBVIOUS
    <2>3. NoRow \in Row
      BY <2>2 DEF NoRow, Row, Statuses, Reports, Errors, NoToken
    <2>4. /\ row \in Row /\ row.token = NoToken
          /\ row.status = "pending" /\ row.error = "none"
      BY <2>3 DEF NoRow, Row, Statuses
    <2>5. job' = [job EXCEPT ![j] = row]
      BY <2>1
    <2> HIDE DEF row
    <2> QED BY <2>1, <2>4, <2>5, RowInv
  <1>2. ASSUME NEW t \in JobTypes, ClaimNothing(t) PROVE IInv'
    BY <1>2, SweptInv DEF ClaimNothing
  <1>3. ASSUME NEW t \in JobTypes, NEW j \in Jobs, Grant(t, j) PROVE IInv'
    BY <1>3, GrantInv
  <1>4. ASSUME NEW j \in Jobs, NEW token \in 1..issued, NEW success \in BOOLEAN,
               NEW error \in Reports, Complete(j, token, success, error)
        PROVE  IInv'
    <2> DEFINE row == [job[j] EXCEPT
                         !.status = IF success THEN "completed" ELSE "failed",
                         !.error = error,
                         !.token = NoToken,
                         !.age = 0]
    <2>1. job[j] \in Row /\ 0 \in 0..(StaleAfter + 1)
      BY DEF IInv, TypeOK
    <2>2. /\ row \in Row /\ row.token = NoToken
          /\ row.status = IF success THEN "completed" ELSE "failed"
          /\ row.error = error
      BY <2>1 DEF Row, Statuses, Reports, Errors, NoToken
    <2>3. job' = [job EXCEPT ![j] = row] /\ issued' = issued
      BY <1>4 DEF Complete
    <2> HIDE DEF row
    <2> QED BY <2>2, <2>3, RowInv DEF Closed, Reports
  <1>5. ASSUME NEW j \in Jobs, NEW t \in JobTypes, Cancel(j, t) PROVE IInv'
    <2> DEFINE row == [job[j] EXCEPT !.status = "failed", !.error = "cancelled"]
    <2>1. job[j] \in Row /\ job[j].token = NoToken
      BY <1>5 DEF IInv, TypeOK, Cancel
    <2>2. /\ row \in Row /\ row.token = NoToken
          /\ row.status = "failed" /\ row.error = "cancelled"
      BY <2>1 DEF Row, Statuses, Reports, Errors, NoToken
    <2>3. job' = [job EXCEPT ![j] = row] /\ issued' = issued
      BY <1>5 DEF Cancel
    <2> HIDE DEF row
    <2> QED BY <2>2, <2>3, RowInv DEF Closed
  <1>6. CASE Tick
    BY <1>6, TickInv
  <1>7. CASE UNCHANGED vars
    BY <1>7 DEF vars, IInv, TypeOK, ClaimSafety, TokenIffRunning, TokenExclusive,
                FailureAccounted
  <1> QED BY <1>1, <1>2, <1>3, <1>4, <1>5, <1>6, <1>7 DEF Next, Claim

\* The invariant holds in every state of the queue.
LEMMA Invariance == Spec => []IInv
  BY InitIInv, NextIInv, PTL DEF Spec

\* The rows keep their types; no row is requeued past max_retries.
THEOREM TypeCorrect == Spec => []TypeOK
  BY Invariance, PTL DEF IInv

\* A token opens one running row, and a row that is not running has none: two
\* workers never hold a claim that complete_claimed_job would accept for one job.
THEOREM ClaimsAreSafe == Spec => []ClaimSafety
  BY Invariance, PTL DEF IInv

\* A row that waits or runs carries no error of an earlier claim; only failed
\* rows say that they were given up or cancelled, and only those whose retries are
\* used up that they were given up.
THEOREM FailuresAreAccounted == Spec => []FailureAccounted
  BY Invariance, PTL DEF IInv

-----------------------------------------------------------------------------
(* What a step may never do *)

\* How any step of the queue treats one row: it leaves it, rewrites a row that
\* is not closed and drops its token, keeps the token, or grants a fresh one.
LEMMA RowStep ==
  ASSUME IInv, [Next]_vars, NEW j \in Jobs
  PROVE  /\ issued \in Nat /\ issued' \in Nat /\ issued <= issued'
         /\ job[j].status \in Closed => job'[j] = job[j]
         /\ job'[j].token \in {NoToken, job[j].token} \cup (issued + 1)..issued'
  <1>1. issued \in Nat /\ job[j] \in Row /\ issued' \in Nat
    BY NextIInv DEF IInv, TypeOK
  <1>2. ASSUME NEW t \in JobTypes, CreateJob(t)
        PROVE  /\ issued' = issued
               /\ job[j].status \in Closed => job'[j] = job[j]
               /\ job'[j].token \in {NoToken, job[j].token}
    <2>1. PICK k \in Jobs :
            /\ job[k].status = "absent"
            /\ job' = [job EXCEPT ![k] = [NoRow EXCEPT !.type = t, !.status = "pending"]]
            /\ issued' = issued
      BY <1>2 DEF CreateJob
    <2>2. [NoRow EXCEPT !.type = t, !.status = "pending"].token = NoToken
      BY DEF NoRow
    <2> QED BY <2>1, <2>2 DEF IInv, TypeOK, Closed
  <1>3. ASSUME NEW t \in JobTypes
        PROVE  /\ job[j].status \in Closed => SweptJobs(t)[j] = job[j]
               /\ SweptJobs(t)[j].token \in {NoToken, job[j].token}
    BY <1>1, SweptRow DEF SweptJobs, Closed
  <1>4. ASSUME NEW t \in JobTypes, ClaimNothing(t)
        PROVE  /\ issued' = issued
               /\ job[j].status \in Closed => job'[j] = job[j]
               /\ job'[j].token \in {NoToken, job[j].token}
    BY <1>3, <1>4 DEF ClaimNothing
  <1>5. ASSUME NEW t \in JobTypes, NEW k \in Jobs, Grant(t, k)
        PROVE  /\ issued' = issued + 1
               /\ job[j].status \in Closed => job'[j] = job[j]
               /\ job'[j].token \in {NoToken, job[j].token, issued + 1}
    <2> DEFINE swept == SweptJobs(t)
               granted == [swept[k] EXCEPT !.status = "running",
                                           !.token = issued + 1, !.age = 0]
    <2>1. /\ issued' = issued + 1 /\ swept[k].status = "pending"
          /\ job' = [swept EXCEPT ![k] = granted]
      BY <1>5 DEF Grant, Claimable
    <2>2. swept \in [Jobs -> Row]
      BY SweptRow DEF SweptJobs, IInv, TypeOK
    <2>3. granted.token = issued + 1
      <3>1. swept[k] \in Row /\ issued + 1 \in Nat
        BY <1>1, <2>2
      <3> HIDE DEF swept
      <3> QED BY <3>1, GrantedRow
    <2>4. CASE j = k
      <3>1. job'[j] = granted
        BY <2>1, <2>2, <2>4
      <3>2. job[j].status \notin Closed
        BY <1>3, <2>1, <2>4 DEF Closed
      <3> QED BY <2>1, <2>3, <3>1, <3>2
    <2>5. CASE j # k
      <3>1. job'[j] = swept[j]
        BY <2>1, <2>2, <2>5
      <3> QED BY <1>3, <2>1, <3>1
    <2> QED BY <2>4, <2>5
  <1>6. ASSUME NEW k \in Jobs, NEW token \in 1..issued, NEW success \in BOOLEAN,
               NEW error \in Reports, Complete(k, token, success, error)
        PROVE  /\ issued' = issued
               /\ job[j].status \in Closed => job'[j] = job[j]
               /\ job'[j].token \in {NoToken, job[j].token}
    <2> DEFINE row == [job[k] EXCEPT
                         !.status = IF success THEN "completed" ELSE "failed",
                         !.error = error,
                         !.token = NoToken,
                         !.age = 0]
    <2>1. /\ issued' = issued /\ job' = [job EXCEPT ![k] = row]
          /\ job[k].status = "running"
      BY <1>6 DEF Complete, HoldsClaim
    <2>2. row.token = NoToken
      BY DEF IInv, TypeOK, Row
    <2> QED BY <2>1, <2>2 DEF IInv, TypeOK, Closed
  <1>7. ASSUME NEW k \in Jobs, NEW t \in JobTypes, Cancel(k, t)
        PROVE  /\ issued' = issued
               /\ job[j].status \in Closed => job'[j] = job[j]
               /\ job'[j].token \in {NoToken, job[j].token}
    <2>1. [job[k] EXCEPT !.status = "failed", !.error = "cancelled"].token = job[k].token
      BY DEF IInv, TypeOK, Row
    <2> QED BY <1>7, <2>1 DEF Cancel, IInv, TypeOK, Closed
  <1>8. CASE Tick
    <2>1. [job[j] EXCEPT !.age = @ + 1].token = job[j].token
      BY <1>1 DEF Row
    <2> QED BY <1>1, <1>8, <2>1 DEF Tick, Closed
  <1>9. CASE UNCHANGED vars
    BY <1>1, <1>9 DEF vars
  <1> QED BY <1>1, <1>2, <1>4, <1>5, <1>6, <1>7, <1>8, <1>9 DEF Next, Claim

\* A completed or failed row never changes again, whatever late worker, sweep or
\* operator comes after.
THEOREM ClosedRowsAreFinal == Spec => ClosedIsFinal
  <1>1. IInv /\ [Next]_vars
          => [\A j \in Jobs : job[j].status \in Closed => job'[j] = job[j]]_vars
    BY RowStep
  <1> QED BY <1>1, Invariance, PTL DEF Spec, ClosedIsFinal

\* A token that opens no row never opens one again.
THEOREM DeadTokensStayDead == Spec => TokensNeverRevive
  <1>1. IInv /\ [Next]_vars
          => [\A token \in 1..issued : token \notin Held => token \notin Held']_vars
    <2> SUFFICES ASSUME IInv, [Next]_vars,
                        NEW token \in 1..issued, token \notin Held, token \in Held'
                 PROVE  FALSE
      OBVIOUS
    <2>1. PICK j \in Jobs : job'[j].token = token /\ token # NoToken
      BY DEF Held
    <2>2. job[j].token # token
      BY <2>1 DEF Held
    <2>3. issued \in Nat /\ token \in {NoToken, job[j].token} \cup (issued + 1)..issued'
      BY <2>1, RowStep
    <2> QED BY <2>1, <2>2, <2>3
  <1> QED BY <1>1, Invariance, PTL DEF Spec, TokensNeverRevive

-----------------------------------------------------------------------------
(* The table implements JobLedger *)

\* What a sweep of a row means to the owner of the job.
LEMMA SweptLedger ==
  ASSUME IInv, NEW t \in JobTypes, NEW j \in Jobs, job'[j] = SweptJobs(t)[j]
  PROVE  Ledger!Keeps(j) \/ Ledger!TakesBack(j)
  <1>1. job[j] \in Row /\ job'[j] = Swept(job[j], t)
    BY DEF IInv, TypeOK, SweptJobs
  <1>2. CASE job'[j] = job[j]
    BY <1>2 DEF Ledger!Keeps
  <1>3. CASE /\ job[j].status = "running" /\ job[j].retry < MaxRetries
             /\ job'[j].status = "pending" /\ job'[j].error = job[j].error
             /\ job'[j].retry = job[j].retry + 1
    <2>1. job[j].error = "none"
      BY <1>1, <1>3 DEF IInv, FailureAccounted, Closed, Row
    <2>2. Grants(job[j]) = job[j].retry + 1 /\ Grants(job'[j]) = job[j].retry + 1
      BY <1>1, <1>3, <2>1 DEF Grants, Row
    <2>3. PhaseOf(job[j]) = "open" /\ PhaseOf(job'[j]) = "open"
      BY <1>3 DEF PhaseOf
    <2>4. job[j].retry + 1 <= MaxRetries
      BY <1>1, <1>3 DEF Row
    <2> QED BY <1>3, <2>2, <2>3, <2>4 DEF Ledger!TakesBack, Ledger!Lapse
  <1>4. CASE /\ job[j].status = "running" /\ job[j].retry = MaxRetries
             /\ job'[j].status = "failed" /\ job'[j].error = "timed_out"
             /\ job'[j].retry = job[j].retry
    <2>1. Grants(job[j]) = MaxRetries + 1 /\ Grants(job'[j]) = MaxRetries + 1
      BY <1>4 DEF Grants
    <2>2. PhaseOf(job[j]) = "open" /\ PhaseOf(job'[j]) = "failed"
      BY <1>4 DEF PhaseOf
    <2> QED BY <1>4, <2>1, <2>2 DEF Ledger!TakesBack, Ledger!GiveUp
  <1> QED BY <1>1, <1>2, <1>3, <1>4, SweptRow

\* What a grant means to the owner of the job.
LEMMA GrantLedger ==
  ASSUME IInv, NEW t \in JobTypes, NEW j \in Jobs, Grant(t, j)
  PROVE  Ledger!Attempt(j)
  <1> DEFINE swept == SweptJobs(t)
             granted == [swept[j] EXCEPT !.status = "running",
                                         !.token = issued + 1, !.age = 0]
  <1>1. /\ swept[j].status = "pending"
        /\ swept \in [Jobs -> Row] /\ swept[j] = Swept(job[j], t)
        /\ job' = [swept EXCEPT ![j] = granted]
        /\ job[j] \in Row
    BY SweptRow DEF Grant, Claimable, SweptJobs, IInv, TypeOK
  <1>2. /\ granted \in Row /\ granted.status = "running"
        /\ granted.error = swept[j].error /\ granted.retry = swept[j].retry
    <2>1. swept[j] \in Row /\ issued + 1 \in Nat
      BY <1>1 DEF IInv, TypeOK
    <2> HIDE DEF swept
    <2> QED BY <2>1, GrantedRow
  <1>3. /\ job'[j] = granted
        /\ \A k \in Jobs \ {j} : job'[k] = swept[k]
    BY <1>1
  <1>4. \A k \in Jobs \ {j} : Ledger!Keeps(k) \/ Ledger!TakesBack(k)
    BY <1>3, SweptLedger
  <1>5. Ledger!Begin(j)
    <2>1. /\ job[j].status \in {"pending", "running"} /\ job[j].error = "none"
          /\ swept[j].error = "none"
          /\ Grants(job[j]) \in Nat /\ Grants(job[j]) <= MaxRetries
          /\ swept[j].retry = Grants(job[j])
      BY <1>1, SweptRow DEF Grants, Row, IInv, FailureAccounted, Closed
    <2>2. Grants(job'[j]) = Grants(job[j]) + 1
      BY <1>2, <1>3, <2>1 DEF Grants, Row
    <2>3. PhaseOf(job[j]) = "open" /\ PhaseOf(job'[j]) = "open"
      BY <1>2, <1>3, <2>1 DEF PhaseOf
    <2> QED BY <1>2, <1>3, <2>1, <2>2, <2>3 DEF Ledger!Begin
  <1> QED BY <1>4, <1>5 DEF Ledger!Attempt, Ledger!Ids, Jobs

\* One row is rewritten and all the others are kept.
LEMMA OtherRows ==
  ASSUME IInv, NEW j \in Jobs, NEW row, job' = [job EXCEPT ![j] = row]
  PROVE  job'[j] = row /\ \A k \in Ledger!Ids \ {j} : Ledger!Keeps(k)
  BY DEF IInv, TypeOK, Ledger!Keeps, Ledger!Ids, Jobs

\* Every step of the table is a step of the ledger, or none.
LEMMA LedgerStep == IInv /\ [Next]_vars => [Ledger!LNext]_(Ledger!ledger)
  <1> SUFFICES ASSUME IInv, [Next]_vars PROVE [Ledger!LNext]_(Ledger!ledger)
    OBVIOUS
  <1>1. ASSUME NEW t \in JobTypes, CreateJob(t) PROVE Ledger!LNext
    <2> DEFINE row == [NoRow EXCEPT !.type = t, !.status = "pending"]
    <2>1. PICK j \in Jobs : job[j].status = "absent" /\ job' = [job EXCEPT ![j] = row]
      BY <1>1 DEF CreateJob
    <2>2. row.status = "pending" /\ row.retry = 0 /\ row.error = "none"
      BY DEF NoRow
    <2>3. PhaseOf(row) = "open" /\ Grants(row) = 0 /\ PhaseOf(job[j]) = "none"
      BY <2>1, <2>2 DEF PhaseOf, Grants
    <2> HIDE DEF row
    <2>4. Ledger!Submit(j)
      BY <2>1, <2>2, <2>3, OtherRows DEF Ledger!Submit
    <2> QED BY <2>1, <2>4, OtherRows DEF Ledger!LNext, Ledger!Touch, Ledger!Ids, Jobs
  <1>2. ASSUME NEW t \in JobTypes, ClaimNothing(t) PROVE Ledger!LNext
    BY <1>2, SweptLedger DEF ClaimNothing, Ledger!LNext, Ledger!Collect, Ledger!Ids, Jobs
  <1>3. ASSUME NEW t \in JobTypes, NEW j \in Jobs, Grant(t, j) PROVE Ledger!LNext
    BY <1>3, GrantLedger DEF Ledger!LNext, Ledger!Ids, Jobs
  <1>4. ASSUME NEW j \in Jobs, NEW token \in 1..issued, NEW success \in BOOLEAN,
               NEW error \in Reports, Complete(j, token, success, error)
        PROVE  Ledger!LNext
    <2> DEFINE row == [job[j] EXCEPT
                         !.status = IF success THEN "completed" ELSE "failed",
                         !.error = error,
                         !.token = NoToken,
                         !.age = 0]
    <2>1. job[j] \in Row /\ job[j].status = "running" /\ job' = [job EXCEPT ![j] = row]
      BY <1>4 DEF Complete, HoldsClaim, IInv, TypeOK
    <2>2. /\ row.status = IF success THEN "completed" ELSE "failed"
          /\ row.error = error
          /\ row.retry = job[j].retry
      BY <2>1 DEF Row
    <2> HIDE DEF row
    <2>3. /\ PhaseOf(row) \in {"done", "failed"} /\ PhaseOf(job[j]) = "open"
          /\ Grants(row) = Grants(job[j])
      BY <2>1, <2>2 DEF PhaseOf, Grants, Reports
    <2>4. Ledger!Report(j)
      BY <2>1, <2>2, <2>3, OtherRows DEF Ledger!Report
    <2> QED BY <2>1, <2>4, OtherRows DEF Ledger!LNext, Ledger!Touch, Ledger!Ids, Jobs
  <1>5. ASSUME NEW j \in Jobs, NEW t \in JobTypes, Cancel(j, t) PROVE Ledger!LNext
    <2> DEFINE row == [job[j] EXCEPT !.status = "failed", !.error = "cancelled"]
    <2>1. /\ job[j] \in Row /\ job[j].status = "pending" /\ job[j].error = "none"
          /\ job' = [job EXCEPT ![j] = row]
      BY <1>5 DEF Cancel, IInv, TypeOK, FailureAccounted, Closed
    <2>2. row.status = "failed" /\ row.error = "cancelled" /\ row.retry = job[j].retry
      BY <2>1 DEF Row
    <2> HIDE DEF row
    <2>3. /\ PhaseOf(row) = "failed" /\ PhaseOf(job[j]) = "open"
          /\ Grants(row) = Grants(job[j])
      BY <2>1, <2>2 DEF PhaseOf, Grants
    <2>4. Ledger!Withdraw(j)
      BY <2>1, <2>2, <2>3, OtherRows DEF Ledger!Withdraw
    <2> QED BY <2>1, <2>4, OtherRows DEF Ledger!LNext, Ledger!Touch, Ledger!Ids, Jobs
  <1>6. CASE Tick
    <2>1. \A k \in Jobs : /\ job'[k].status = job[k].status
                          /\ job'[k].error = job[k].error
                          /\ job'[k].retry = job[k].retry
      BY <1>6 DEF Tick, IInv, TypeOK, Row
    <2>2. \A k \in Jobs : Ledger!Keeps(k)
      BY <2>1 DEF Ledger!Keeps, PhaseOf, Grants
    <2> QED BY <2>2 DEF Ledger!LNext, Ledger!Collect, Ledger!Ids, Jobs
  <1>7. CASE UNCHANGED vars
    BY <1>7 DEF vars, Ledger!ledger
  <1> QED BY <1>1, <1>2, <1>3, <1>4, <1>5, <1>6, <1>7 DEF Next, Claim

\* Every transaction of db.py is, to the owner of a job, a move of JobLedger.
THEOREM QueueImplementsLedger == Spec => ImplementsLedger
  <1>1. Init => Ledger!LInit
    <2>1. PhaseOf(NoRow) = "none" /\ Grants(NoRow) = 0 /\ NoRow.status # "running"
      BY DEF NoRow, PhaseOf, Grants
    <2> QED BY <2>1 DEF Init, Ledger!LInit, Ledger!Ids, Jobs
  <1> QED BY <1>1, LedgerStep, Invariance, PTL DEF Spec, ImplementsLedger, Ledger!LSpec

=============================================================================
