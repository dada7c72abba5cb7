------------------------------ MODULE JobQueue ------------------------------
(***************************************************************************)
(* The jobs table of db.py: the durable queue between the LINE server and  *)
(* the workers that run on the Mac.  A job is created pending; a worker of *)
(* its type claims the oldest pending one and receives a private token;    *)
(* only that token can close the job.  A claim that is not closed in time  *)
(* is swept by the next claim of the same type: requeued while the job has *)
(* retries left, failed otherwise.                                         *)
(*                                                                         *)
(* Every operation of db.py is one SQLite write transaction, so it is one  *)
(* action.  Who presents which token is left open here (any token that was *)
(* ever handed out, at any time); MacBridge says how the real workers do.  *)
(***************************************************************************)
EXTENDS Integers, FiniteSets

CONSTANTS
  MaxJobs,     \* bound: how many rows are ever inserted
  JobTypes,    \* the values of job_type in use ("obsidian", "openclaw")
  NoType,      \* the job_type of an id that is not in use yet
  MaxRetries,  \* max_retries, 3 at every production call of create_job
  StaleAfter   \* stale_after_seconds, in clock ticks

ASSUME MaxJobsAssumption    == MaxJobs \in Nat \ {0}
ASSUME JobTypesAssumption   == NoType \notin JobTypes
ASSUME MaxRetriesAssumption == MaxRetries \in Nat
ASSUME StaleAfterAssumption == StaleAfter \in Nat \ {0}

VARIABLES
  job,         \* the rows of the table, by id (AUTOINCREMENT: in insert order)
  issued       \* how many claim tokens were generated: token k is the k-th one

vars == <<job, issued>>

Jobs == 1..MaxJobs

NoToken == 0   \* claim_token IS NULL; secrets.token_urlsafe never repeats

Statuses == {"absent", "pending", "running", "completed", "failed"}
Closed == {"completed", "failed"}

\* last_error: who wrote it, not its text; "none" is NULL.
Reports == {"none", "reported"}   \* what a completion may say
Errors == Reports \cup {"timed_out", "cancelled"}

(***************************************************************************)
(* age is the clock minus updated_at.  The code reads updated_at only of   *)
(* running rows, and only to compare it with StaleAfter, so it is counted  *)
(* up to StaleAfter + 1 and kept at 0 in the other rows.                   *)
(***************************************************************************)
Row == [type   : JobTypes \cup {NoType},
        status : Statuses,
        retry  : 0..MaxRetries,
        token  : Nat,
        error  : Errors,
        age    : 0..(StaleAfter + 1)]

NoRow == [type |-> NoType, status |-> "absent", retry |-> 0,
          token |-> NoToken, error |-> "none", age |-> 0]

Init ==
  /\ job = [j \in Jobs |-> NoRow]
  /\ issued = 0

-----------------------------------------------------------------------------
(* Operations *)

\* create_job: the next id of the table becomes a pending row.
CreateJob(t) ==
  \E j \in Jobs :
    /\ job[j].status = "absent"
    /\ \A k \in Jobs : k < j => job[k].status # "absent"
    /\ job' = [job EXCEPT ![j] = [NoRow EXCEPT !.type = t, !.status = "pending"]]
    /\ UNCHANGED issued

\* updated_at < datetime('now', '-N seconds'): strictly older than the limit.
IsStale(row, t) ==
  row.type = t /\ row.status = "running" /\ row.age > StaleAfter

\* Variants of Swept: the token survives the requeue; the requeue is not counted.
SweptWithToken(row, t) ==
  IF ~IsStale(row, t) THEN row
  ELSE IF row.retry >= MaxRetries
  THEN [row EXCEPT !.status = "failed", !.error = "timed_out", !.token = NoToken, !.age = 0]
  ELSE [row EXCEPT !.status = "pending", !.retry = @ + 1, !.age = 0]

SweptUncounted(row, t) ==
  IF ~IsStale(row, t) THEN row
  ELSE IF row.retry >= MaxRetries
  THEN [row EXCEPT !.status = "failed", !.error = "timed_out", !.token = NoToken, !.age = 0]
  ELSE [row EXCEPT !.status = "pending", !.token = NoToken, !.age = 0]

\* The first two UPDATEs of a claim, on one row.
Swept(row, t) ==
  IF ~IsStale(row, t) THEN row
  ELSE IF row.retry >= MaxRetries
  THEN [row EXCEPT !.status = "failed", !.error = "timed_out",
                   !.token = NoToken, !.age = 0]
  ELSE [row EXCEPT !.status = "pending", !.retry = @ + 1,
                   !.token = NoToken, !.age = 0]

SweptJobs(t) == [j \in Jobs |-> Swept(job[j], t)]

\* The rows the SELECT of a claim sees: those the same transaction requeued too.
Claimable(t) ==
  {j \in Jobs : SweptJobs(t)[j].type = t /\ SweptJobs(t)[j].status = "pending"}

\* claim_pending_job_by_type returns None; what it swept stays committed.
ClaimNothing(t) ==
  /\ Claimable(t) = {}
  /\ job' = SweptJobs(t)
  /\ UNCHANGED issued

\* Variant of Grant: the token is derived from the job, not generated anew.
GrantStableToken(t, j) ==
  /\ j \in Claimable(t)
  /\ \A k \in Claimable(t) : j <= k
  /\ issued' = issued + 1
  /\ job' = [SweptJobs(t) EXCEPT
               ![j] = [@ EXCEPT !.status = "running", !.token = j, !.age = 0]]

\* claim_pending_job_by_type hands the oldest pending row out under a new token.
Grant(t, j) ==
  /\ j \in Claimable(t)
  /\ \A k \in Claimable(t) : j <= k
  /\ issued' = issued + 1
  /\ job' = [SweptJobs(t) EXCEPT
               ![j] = [@ EXCEPT !.status = "running", !.token = issued + 1, !.age = 0]]

Claim(t) == ClaimNothing(t) \/ \E j \in Jobs : Grant(t, j)

\* The WHERE clause of complete_claimed_job.
HoldsClaim(j, token) ==
  job[j].status = "running" /\ job[j].token = token

\* complete_claimed_job with rowcount 1; with rowcount 0 nothing changes.  The
\* caller's last_error is stored as it comes: a failure may come without one.
Complete(j, token, success, error) ==
  /\ HoldsClaim(j, token)
  /\ job' = [job EXCEPT ![j] =
               [@ EXCEPT !.status = IF success THEN "completed" ELSE "failed",
                         !.error = error,
                         !.token = NoToken,
                         !.age = 0]]
  /\ UNCHANGED issued

(***************************************************************************)
(* cancel_pending_job_by_type, outcome "cancelled".  The other outcomes    *)
(* (not_found, message_mismatch, not_pending, not_cancellable) roll back.  *)
(* The message never changes after the insert, so its hash stands for the  *)
(* id.                                                                     *)
(***************************************************************************)
Cancel(j, t) ==
  /\ job[j].type = t
  /\ job[j].status = "pending"
  /\ job[j].token = NoToken
  /\ job' = [job EXCEPT ![j] = [@ EXCEPT !.status = "failed", !.error = "cancelled"]]
  /\ UNCHANGED issued

\* The clock that CURRENT_TIMESTAMP and datetime('now') read.
Tick ==
  /\ job' = [j \in Jobs |->
               IF job[j].status = "running" /\ job[j].age <= StaleAfter
               THEN [job[j] EXCEPT !.age = @ + 1]
               ELSE job[j]]
  /\ UNCHANGED issued

Next ==
  \/ \E t \in JobTypes : CreateJob(t)
  \/ \E t \in JobTypes : Claim(t)
  \/ \E j \in Jobs, token \in 1..issued, success \in BOOLEAN, error \in Reports :
       Complete(j, token, success, error)
  \/ \E j \in Jobs, t \in JobTypes : Cancel(j, t)
  \/ Tick

Spec == Init /\ [][Next]_vars

-----------------------------------------------------------------------------
(* What the rows mean to whoever enqueued the jobs *)

\* How often a row was handed out, told from its columns.
Grants(row) ==
  row.retry + (IF \/ row.status \in {"running", "completed"}
                  \/ row.status = "failed" /\ row.error # "cancelled"
               THEN 1 ELSE 0)

\* A completion closed the row as failed, with or without a word of its own.
ReportedFailed(row) == row.status = "failed" /\ row.error \in Reports

PhaseOf(row) ==
  CASE row.status = "absent" -> "none"
    [] row.status = "completed" -> "done"
    [] row.status = "failed" -> "failed"
    [] OTHER -> "open"

Ledger == INSTANCE JobLedger WITH
            phase    <- [j \in Jobs |-> PhaseOf(job[j])],
            attempts <- [j \in Jobs |-> Grants(job[j])],
            live     <- [j \in Jobs |-> job[j].status = "running"]

-----------------------------------------------------------------------------
(* Properties *)

\* The rows and the token counter keep their types; in particular no row is
\* ever requeued past max_retries.
TypeOK ==
  /\ job \in [Jobs -> Row]
  /\ issued \in Nat

\* A row has a token exactly while it is running: no sweep, cancellation or
\* completion leaves a token behind that a late worker could still present.
TokenIffRunning ==
  \A j \in Jobs : job[j].token # NoToken <=> job[j].status = "running"

\* A token was generated before it is stored, and opens one row only.
TokenExclusive ==
  /\ \A j \in Jobs : job[j].token <= issued
  /\ \A i, j \in Jobs :
       i # j /\ job[i].token # NoToken => job[i].token # job[j].token

\* What a worker holds: a claim is exclusive and exists only while running.
ClaimSafety == TokenIffRunning /\ TokenExclusive

\* A row that waits or runs carries no error, whatever happened to its earlier
\* claims; the words of the sweep and of a cancellation stand only in failed rows,
\* and the sweep's only where the retries are used up.
FailureAccounted ==
  \A j \in Jobs :
    /\ job[j].status \notin Closed => job[j].error = "none"
    /\ job[j].error \in {"timed_out", "cancelled"} => job[j].status = "failed"
    /\ job[j].error = "timed_out" => job[j].retry = MaxRetries

Held == {job[j].token : j \in Jobs} \ {NoToken}

\* A token that opens no row now never opens one again: after a claim is swept
\* or closed, its late completion is rejected whatever happens to the row.
TokensNeverRevive ==
  [][\A token \in 1..issued : token \notin Held => token \notin Held']_vars

\* A completed or failed row never changes again.
ClosedIsFinal ==
  [][\A j \in Jobs : job[j].status \in Closed => job'[j] = job[j]]_vars

\* The table keeps the promises of JobLedger: every transaction of db.py looks
\* to the owner of a job like one of the moves of that module.
ImplementsLedger == Ledger!LSpec

=============================================================================
