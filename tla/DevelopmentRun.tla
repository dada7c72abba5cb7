--------------------------- MODULE DevelopmentRun ---------------------------
(* One guarded development request: core/line_development_runtime.py takes   *)
(* the roles of core/quality_runtime.py over a git worktree, under the stop  *)
(* latch of core/immediate_stop.py and the scope check of                    *)
(* core/execution_safety.py, and publishes what came through.  Requests run  *)
(* one after the other over the same worktree, and each one may be killed.   *)
(*                                                                           *)
(* Data: the one selected file is a member of Contents, whatever else the    *)
(* tests drop into the worktree is the flag strays.  What a role finds or    *)
(* proposes is a choice, what it does to the worktree is not.                *)
EXTENDS Naturals, FiniteSets

CONSTANTS Contents,     \* versions of the selected file
          Original,     \* the one committed before the first request
          Nothing,      \* no version at all
          MaxRounds,    \* rounds of each quality gate
          MaxRuns       \* requests explored

ASSUME DevelopmentAssumption ==
  /\ Original \in Contents /\ Nothing \notin Contents
  /\ MaxRounds \in 1..3
  /\ MaxRuns \in Nat

VARIABLES
  latch,      \* the stop file: absent, stopped or unreadable
  at,         \* the role or the publishing step the request is at
  running,    \* the role's executor, or the push, is under way
  gate,       \* the gate whose repair budget is being spent
  tries,      \* repairs begun for each gate
  touched,    \* DevelopmentState.touched names the file
  tree, index, head, strays,   \* the worktree
  baseline,   \* what HEAD held when the request began
  remote,     \* what the pushed branch holds
  runs,       \* requests begun
  passed,     \* history: the content each gate accepted last in this request
  vouched,    \* history: contents all the gates of one request accepted
  condemned,  \* history: a stop placed before the push and cleared by nobody
  excused     \* history: a kill or a failing git command may have left dirt

git  == <<tree, index, head, strays>>
plan == <<gate, tries, touched>>
seen == <<passed, vouched>>
vars == <<latch, at, running, gate, tries, touched, tree, index, head, strays,
          baseline, remote, runs, passed, vouched, condemned, excused>>

Gates    == {"test", "review"}
Checkers == {"tester", "reviewer", "integrator"}
Writers  == {"implementer", "debugger", "refactorer"}
Roles    == Writers \cup Checkers
Steps    == {"manager", "baseline", "rollback", "add", "commit", "checkout", "push"}

TypeOK ==
  /\ latch \in {"absent", "stopped", "unreadable"}
  /\ at \in Roles \cup Steps \cup {"idle"}
  /\ running \in BOOLEAN
  /\ gate \in Gates
  /\ tries \in [Gates -> 0..(MaxRounds - 1)]
  /\ touched \in BOOLEAN
  /\ tree \in Contents /\ index \in Contents /\ head \in Contents
  /\ strays \in BOOLEAN
  /\ baseline \in Contents /\ remote \in Contents
  /\ runs \in 0..MaxRuns
  /\ passed \in [Checkers -> Contents \cup {Nothing}]
  /\ vouched \in SUBSET Contents
  /\ condemned \in BOOLEAN /\ excused \in BOOLEAN

Init ==
  /\ latch = "absent" /\ at = "idle" /\ running = FALSE
  /\ gate = "test" /\ tries = [g \in Gates |-> 0] /\ touched = FALSE
  /\ tree = Original /\ index = Original /\ head = Original /\ strays = FALSE
  /\ baseline = Original /\ remote = Original /\ runs = 0
  /\ passed = [c \in Checkers |-> Nothing] /\ vouched = {Original}
  /\ condemned = FALSE /\ excused = FALSE

(* A file that cannot be read taken for no stop.                             *)
StoppedIfReadable == latch = "stopped"

Stopped == latch # "absent"
Clean   == tree = head /\ index = head /\ ~strays

-----------------------------------------------------------------------------
(* Before the roles.  A latched stop refuses the request at once; the        *)
(* manager reads only; the baseline must be clean.                           *)

Start ==
  /\ at = "idle" /\ ~Stopped /\ runs < MaxRuns
  /\ at' = "manager" /\ runs' = runs + 1
  /\ gate' = "test" /\ tries' = [g \in Gates |-> 0] /\ touched' = FALSE
  /\ passed' = [c \in Checkers |-> Nothing]
  /\ UNCHANGED <<latch, running, git, baseline, remote, vouched, condemned, excused>>

SelectTarget ==
  /\ at = "manager"
  /\ \/ ~Stopped /\ at' = "baseline"
     \/ at' = "idle"
  /\ UNCHANGED <<latch, running, plan, git, baseline, remote, runs, seen, condemned, excused>>

TakeBaseline ==
  /\ at = "baseline"
  /\ \/ Clean /\ baseline' = head /\ at' = "implementer" /\ excused' = FALSE
     \/ UNCHANGED <<baseline, excused>> /\ at' = "idle"
  /\ UNCHANGED <<latch, running, plan, git, remote, runs, seen, condemned>>

-----------------------------------------------------------------------------
(* Where QualityRuntime.run goes from a role.                                *)

Succeeded ==
  /\ at' = CASE at = "implementer" -> "tester"
             [] at = "tester"      -> "reviewer"
             [] at = "debugger"    -> "refactorer"
             [] at = "refactorer"  -> "tester"
             [] at = "reviewer"    -> "integrator"
             [] at = "integrator"  -> IF touched THEN "add" ELSE "rollback"
  /\ gate' = IF at = "tester" THEN "review" ELSE gate
  /\ UNCHANGED tries

Retry ==
  /\ at' = "debugger" /\ UNCHANGED gate
  /\ tries' = [tries EXCEPT ![gate] = @ + 1]

GiveUp == at' = "rollback" /\ UNCHANGED <<gate, tries>>

MayRetry == at \in {"tester", "reviewer"} /\ tries[gate] < MaxRounds - 1

(* A retest that fails inside the review gate is re-reviewed all the same.   *)
FailedRetestReviewed ==
  IF at = "tester" /\ gate = "review"
    THEN at' = "reviewer" /\ UNCHANGED <<gate, tries>>
    ELSE IF MayRetry THEN Retry ELSE GiveUp

(* A failing retest goes round without being counted.                        *)
FailedRetestUncounted ==
  IF at = "tester" /\ gate = "review"
    THEN at' = "debugger" /\ UNCHANGED <<gate, tries>>
    ELSE IF MayRetry THEN Retry ELSE GiveUp

Failed == IF MayRetry THEN Retry ELSE GiveUp

(* GitWorktreeSafetyGate.verify: nothing outside the file, and no change     *)
(* claimed where there is none.                                              *)
InScope(claimed, t, s) == ~s /\ (t = baseline => ~claimed)

(* _execute: the latch is read before the executor starts, and a role that   *)
(* finds it set fails like any other.                                        *)
Begin ==
  /\ at \in Roles /\ ~running
  /\ IF Stopped THEN Failed /\ UNCHANGED running
                ELSE running' = TRUE /\ UNCHANGED <<at, gate, tries>>
  /\ UNCHANGED <<latch, touched, git, baseline, remote, runs, seen, condemned, excused>>

(* request_stop, or its write raising out of the runtime.                    *)
StopAndFail ==
  \/ latch' = "stopped" /\ condemned' = TRUE /\ Failed
  \/ UNCHANGED <<latch, condemned>> /\ GiveUp

Accept(t) ==
  /\ Succeeded
  /\ passed' = IF at \in Checkers THEN [passed EXCEPT ![at] = t] ELSE passed
  /\ vouched' = IF /\ at = "integrator"
                   /\ passed["tester"] = t /\ passed["reviewer"] = t
                  THEN vouched \cup {t} ELSE vouched

(* What becomes of a result: its text may trip the latch, a success is       *)
(* measured against the worktree (git may fail there too).                   *)
Conclude(ok, claimed, t, s) ==
  /\ running' = FALSE
  /\ tree' = t /\ strays' = s
  /\ \/ StopAndFail /\ UNCHANGED seen
     \/ ~ok /\ Failed /\ UNCHANGED <<seen, latch, condemned>>
     \/ ok /\ InScope(claimed, t, s) /\ Accept(t) /\ UNCHANGED <<latch, condemned>>
  /\ UNCHANGED <<index, head, baseline, remote, runs, excused>>

-----------------------------------------------------------------------------
(* DevelopmentExecutor.execute.  A writer that fails may leave anything in   *)
(* the file; restore() is git checkout, which takes the index's content.     *)

(* What a plan makes of the file: it replaces a text found once by another.  *)
Edited(c) == Contents \ {c}

Implement ==
  /\ at = "implementer" /\ running
  /\ \/ touched' = FALSE /\ Conclude(TRUE, FALSE, tree, strays)
     \/ \E c \in Edited(tree) : touched' = TRUE /\ Conclude(TRUE, TRUE, c, strays)
     \/ \E c \in Contents : UNCHANGED touched /\ Conclude(FALSE, FALSE, c, strays)

Test ==
  /\ at = "tester" /\ running
  /\ \E ok \in BOOLEAN, s \in {strays, TRUE} : Conclude(ok, touched, tree, s)
  /\ UNCHANGED touched

Debug ==
  /\ at = "debugger" /\ running
  /\ LET restored == IF touched THEN index ELSE tree
     IN  \/ UNCHANGED touched /\ Conclude(TRUE, FALSE, tree, strays)
         \/ \E c \in Edited(restored) :
              touched' = TRUE /\ Conclude(TRUE, TRUE, c, strays)
         \/ \E c \in Contents : UNCHANGED touched /\ Conclude(FALSE, FALSE, c, strays)

Refactor ==
  /\ at = "refactorer" /\ running
  /\ \/ UNCHANGED touched /\ Conclude(TRUE, FALSE, tree, strays)
     \/ \E c \in Edited(tree) : touched' = TRUE /\ Conclude(TRUE, TRUE, c, strays)
     \/ \E c \in Contents : UNCHANGED touched /\ Conclude(FALSE, FALSE, c, strays)

(* The reviewer wants a diff for a touched file, the integrator any change.  *)
Review ==
  /\ at = "reviewer" /\ running
  /\ \/ (touched => tree # index) /\ Conclude(TRUE, touched, tree, strays)
     \/ Conclude(FALSE, FALSE, tree, strays)
  /\ UNCHANGED touched

Integrate ==
  /\ at = "integrator" /\ running
  /\ \/ (touched => ~Clean) /\ Conclude(TRUE, touched, tree, strays)
     \/ Conclude(FALSE, FALSE, tree, strays)
  /\ UNCHANGED touched

Role == Begin \/ Implement \/ Test \/ Debug \/ Refactor \/ Review \/ Integrate

-----------------------------------------------------------------------------
(* Publishing: the latch is read again before add, commit and push.          *)

StopHere(step) ==
  /\ at = step /\ ~running /\ Stopped
  /\ at' = "rollback"
  /\ UNCHANGED <<latch, running, plan, git, baseline, remote, runs, seen, condemned, excused>>

Add ==
  /\ at = "add" /\ ~Stopped
  /\ \/ at' = "commit" /\ index' = tree /\ UNCHANGED <<tree, excused>>
     \/ at' = "idle" /\ tree' = index /\ excused' = TRUE /\ UNCHANGED index
     \/ at' = "idle" /\ index' = tree /\ excused' = TRUE /\ UNCHANGED tree
  /\ UNCHANGED <<latch, running, plan, head, strays, baseline, remote, runs, seen, condemned>>

Commit ==
  /\ at = "commit" /\ ~Stopped
  /\ \/ at' = "checkout" /\ head' = index /\ UNCHANGED <<tree, excused>>
     \/ at' = "idle" /\ tree' = index /\ excused' = TRUE /\ UNCHANGED head
  /\ UNCHANGED <<latch, running, plan, index, strays, baseline, remote, runs, seen, condemned>>

Checkout ==
  /\ at = "checkout"
  /\ at' \in {"push", "idle"}
  /\ UNCHANGED <<latch, running, plan, git, baseline, remote, runs, seen, condemned, excused>>

BeginPush ==
  /\ at = "push" /\ ~running /\ ~Stopped
  /\ running' = TRUE
  /\ UNCHANGED <<latch, at, plan, git, baseline, remote, runs, seen, condemned, excused>>

Push ==
  /\ at = "push" /\ running
  /\ remote' \in {head, remote}
  /\ at' = "idle" /\ running' = FALSE
  /\ UNCHANGED <<latch, plan, git, baseline, runs, seen, condemned, excused>>

(* The reset without the clean.                                              *)
RollbackTracked ==
  /\ at = "rollback"
  /\ at' = "idle"
  /\ tree' = baseline /\ index' = baseline /\ head' = baseline
  /\ UNCHANGED <<latch, running, plan, strays, baseline, remote, runs, seen, condemned, excused>>

(* _rollback_to_clean_baseline: its result is not looked at.                 *)
Rollback ==
  /\ at = "rollback"
  /\ at' = "idle"
  /\ \/ /\ tree' = baseline /\ index' = baseline /\ head' = baseline
        /\ \/ strays' = FALSE /\ UNCHANGED excused
           \/ UNCHANGED strays /\ excused' = TRUE
     \/ UNCHANGED git /\ excused' = TRUE
  /\ UNCHANGED <<latch, running, plan, baseline, remote, runs, seen, condemned>>

Publish ==
  \/ \E step \in {"add", "commit", "push"} : StopHere(step)
  \/ Add \/ Commit \/ Checkout \/ BeginPush \/ Push \/ Rollback

-----------------------------------------------------------------------------
(* Around the request: the operator's file, and the process being killed.    *)

PlaceStop ==
  /\ ~Stopped
  /\ latch' \in {"stopped", "unreadable"}
  /\ condemned' = ~(at = "push" /\ running)
  /\ UNCHANGED <<at, running, plan, git, baseline, remote, runs, seen, excused>>

ClearStop ==
  /\ Stopped
  /\ latch' = "absent" /\ condemned' = FALSE
  /\ UNCHANGED <<at, running, plan, git, baseline, remote, runs, seen, excused>>

Kill ==
  /\ at # "idle"
  /\ remote' \in IF at = "push" /\ running THEN {head, remote} ELSE {remote}
  /\ at' = "idle" /\ running' = FALSE /\ excused' = TRUE
  /\ UNCHANGED <<latch, plan, git, baseline, runs, seen, condemned>>

Request == Start \/ SelectTarget \/ TakeBaseline \/ Role \/ Publish

Next == Request \/ PlaceStop \/ ClearStop \/ Kill

Spec == Init /\ [][Next]_vars

FairSpec == Spec /\ WF_vars((at # "idle") /\ Request)

-----------------------------------------------------------------------------
(* What is committed, and what is pushed, is a content that the tester, the  *)
(* reviewer and the integrator of one request accepted, one after the other, *)
(* whatever was repaired, retried, killed or left behind in between.         *)
PublishedIsVerified == head \in vouched /\ remote \in vouched

(* A stop placed before the push began, by the operator or by the request    *)
(* itself on seeing a result, is never followed by a push while it stands.   *)
StopBinds == [][condemned => UNCHANGED remote]_vars

(* Between requests the worktree is clean, and the next request accepted,    *)
(* unless a request was killed or a git command failed on it.                *)
DirtIsExplained == at = "idle" /\ ~excused => Clean

(* A request ends, though both gates send it back to the debugger.           *)
RequestEnds == at # "idle" ~> at = "idle"
=============================================================================
