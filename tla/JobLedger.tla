----------------------------- MODULE JobLedger ------------------------------
(***************************************************************************)
(* What the jobs table promises to whoever enqueues a job, with no word of *)
(* tokens, clocks or sweeps: the job is open until somebody reports it,    *)
(* the operator withdraws it, or the queue gives it up; it is attempted    *)
(* one attempt at a time and at most MaxRetries + 1 times; it is given up  *)
(* only after the last attempt; and once it is done or failed, it stays    *)
(* so.  JobQueue implements this module.                                   *)
(***************************************************************************)
EXTENDS Integers

CONSTANTS MaxJobs, MaxRetries

VARIABLES
  phase,      \* what became of the job
  attempts,   \* how many attempts were begun
  live        \* is the last attempt still the one that may report?

ledger == <<phase, attempts, live>>

Ids == 1..MaxJobs

LInit ==
  /\ phase = [j \in Ids |-> "none"]
  /\ attempts = [j \in Ids |-> 0]
  /\ live = [j \in Ids |-> FALSE]

\* The job is what it was.
Keeps(j) ==
  phase'[j] = phase[j] /\ attempts'[j] = attempts[j] /\ live'[j] = live[j]

Submit(j) ==
  /\ phase[j] = "none"
  /\ phase'[j] = "open" /\ attempts'[j] = 0 /\ ~live'[j]

\* An attempt begins; if one was live, it is superseded in the same step.
Begin(j) ==
  /\ phase[j] = "open" /\ attempts[j] <= MaxRetries
  /\ phase'[j] = "open" /\ attempts'[j] = attempts[j] + 1 /\ live'[j]

\* The live attempt is taken back, and another one is still allowed.
Lapse(j) ==
  /\ phase[j] = "open" /\ live[j] /\ attempts[j] <= MaxRetries
  /\ phase'[j] = "open" /\ attempts'[j] = attempts[j] /\ ~live'[j]

\* The live attempt is taken back, and it was the last one.
GiveUp(j) ==
  /\ phase[j] = "open" /\ live[j] /\ attempts[j] = MaxRetries + 1
  /\ phase'[j] = "failed" /\ attempts'[j] = attempts[j] /\ ~live'[j]

Report(j) ==
  /\ phase[j] = "open" /\ live[j]
  /\ phase'[j] \in {"done", "failed"} /\ attempts'[j] = attempts[j] /\ ~live'[j]

Withdraw(j) ==
  /\ phase[j] = "open" /\ ~live[j]
  /\ phase'[j] = "failed" /\ attempts'[j] = attempts[j] /\ ~live'[j]

(***************************************************************************)
(* A step of the queue touches one job, except that taking back attempts   *)
(* (and giving jobs up) may happen to several jobs at once, together with  *)
(* the beginning of at most one attempt.                                   *)
(***************************************************************************)
Touch(j) ==
  /\ Submit(j) \/ Report(j) \/ Withdraw(j)
  /\ \A k \in Ids \ {j} : Keeps(k)

TakesBack(j) == Lapse(j) \/ GiveUp(j)

Collect == \A j \in Ids : Keeps(j) \/ TakesBack(j)

Attempt(j) ==
  /\ Begin(j)
  /\ \A k \in Ids \ {j} : Keeps(k) \/ TakesBack(k)

LNext == Collect \/ \E j \in Ids : Touch(j) \/ Attempt(j)

LSpec == LInit /\ [][LNext]_ledger

=============================================================================
