------------------------ MODULE DevelopmentRunProofs ------------------------
(***************************************************************************)
(* What a development request guarantees for any contents, any budget and  *)
(* any number of requests over one worktree.  The invariant follows the    *)
(* content from gate to gate: a gate's verdict is about what is in the     *)
(* tree when the next step looks, because a writer always leads back to    *)
(* the tester.                                                             *)
(*                                                                         *)
(* Behind it, the programs that write the content (Workers): for every     *)
(* repository, they commit what passed, and no test is lost.               *)
(***************************************************************************)
EXTENDS DevelopmentRun, Workers, TLAPS

\* The content under review is the one tested, the one integrated also reviewed,
\* and nothing else is added, committed or rolled back to.
Followed ==
  /\ head \in vouched /\ remote \in vouched /\ baseline \in vouched
  /\ at \in {"reviewer", "integrator"} => passed["tester"] = tree
  /\ at = "integrator" => passed["reviewer"] = tree
  /\ at = "add" => tree \in vouched
  /\ at = "commit" => index \in vouched

\* A stop that stands is in the file, and no push under way ignored one.
StopsStand ==
  /\ condemned => Stopped
  /\ at = "push" /\ running => ~condemned
  /\ running => at \in Roles \cup {"push"}

\* Where the worktree is clean, or becoming so, without an excuse.
DirtFollowed ==
  /\ at \in {"idle", "manager", "baseline", "checkout", "push"} /\ ~excused => Clean
  /\ at \in {"add", "commit"} => ~strays
  /\ at = "commit" => index = tree

IInv == TypeOK /\ Followed /\ StopsStand /\ DirtFollowed

\* The first request finds everything as committed.
LEMMA InitIInv == Init => IInv
<1> SUFFICES ASSUME Init PROVE IInv
  OBVIOUS
<1>1. TypeOK
  <2>1. 0 \in 0..(MaxRounds - 1) /\ 0 \in 0..MaxRuns /\ Original \in Contents
    BY DevelopmentAssumption
  <2>2. tries \in [Gates -> 0..(MaxRounds - 1)]
    BY <2>1 DEF Init
  <2>3. passed \in [Checkers -> Contents \cup {Nothing}]
    BY DEF Init
  <2> QED BY <2>1, <2>2, <2>3 DEF Init, TypeOK, Gates
<1>2. Followed /\ StopsStand /\ DirtFollowed
  BY DEF Init, Followed, StopsStand, DirtFollowed, Clean
<1> QED BY <1>1, <1>2 DEF IInv

\* A failing role leads to the debugger, within the budget, or to the rollback.
LEMMA FailedGoes ==
  ASSUME TypeOK, Failed
  PROVE  /\ at' \in {"debugger", "rollback"} /\ gate' = gate
         /\ tries' \in [Gates -> 0..(MaxRounds - 1)]
<1>1. CASE MayRetry
  <2>1. tries[gate] + 1 \in 0..(MaxRounds - 1)
    BY <1>1, DevelopmentAssumption DEF MayRetry, TypeOK
  <2> QED BY <1>1, <2>1 DEF Failed, Retry, TypeOK
<1>2. CASE ~MayRetry
  BY <1>2 DEF Failed, GiveUp, TypeOK
<1> QED BY <1>1, <1>2

\* Every result keeps the invariant, provided checkers leave the file alone.
LEMMA ConcludeInv ==
  ASSUME IInv, at \in Roles, NEW ok \in BOOLEAN, NEW claimed \in BOOLEAN,
         NEW t \in Contents, NEW s \in BOOLEAN,
         at \in Checkers => t = tree,
         touched' \in BOOLEAN, Conclude(ok, claimed, t, s)
  PROVE  IInv'
<1>1. /\ running' = FALSE /\ tree' = t /\ strays' = s
      /\ UNCHANGED <<index, head, baseline, remote, runs, excused>>
  BY DEF Conclude
<1>2. CASE Failed /\ UNCHANGED seen
  <2>1. /\ at' \in {"debugger", "rollback"} /\ gate' = gate
        /\ tries' \in [Gates -> 0..(MaxRounds - 1)]
    BY <1>2, FailedGoes DEF IInv
  <2>2. \/ latch' = "stopped" /\ condemned' = TRUE
        \/ UNCHANGED <<latch, condemned>>
    BY DEF Conclude, StopAndFail
  <2>3. TypeOK'
    BY <1>1, <1>2, <2>1, <2>2 DEF IInv, TypeOK, seen, Roles, Steps, Writers
  <2>4. Followed' /\ StopsStand' /\ DirtFollowed'
    BY <1>1, <1>2, <2>1, <2>2
    DEF IInv, Followed, StopsStand, DirtFollowed, seen, Stopped
  <2> QED BY <2>3, <2>4 DEF IInv
<1>3. CASE GiveUp /\ UNCHANGED <<latch, condemned, seen>>
  <2>1. TypeOK'
    BY <1>1, <1>3 DEF IInv, TypeOK, seen, GiveUp, Steps
  <2>2. Followed' /\ StopsStand' /\ DirtFollowed'
    BY <1>1, <1>3
    DEF IInv, Followed, StopsStand, DirtFollowed, seen, Stopped, GiveUp
  <2> QED BY <2>1, <2>2 DEF IInv
<1>4. CASE InScope(claimed, t, s) /\ Accept(t) /\ UNCHANGED <<latch, condemned>>
  <2>1. ~s /\ UNCHANGED tries
    BY <1>4 DEF InScope, Accept, Succeeded
  <2>2. /\ at = "implementer" => at' = "tester"
        /\ at = "tester" => at' = "reviewer"
        /\ at = "debugger" => at' = "refactorer"
        /\ at = "refactorer" => at' = "tester"
        /\ at = "reviewer" => at' = "integrator"
        /\ at = "integrator" => at' \in {"add", "rollback"}
    BY <1>4 DEF Accept, Succeeded
  <2>3. gate' \in Gates
    BY <1>4 DEF Accept, Succeeded, IInv, TypeOK, Gates
  <2>4. passed' = IF at \in Checkers THEN [passed EXCEPT ![at] = t] ELSE passed
    BY <1>4 DEF Accept
  <2>5. /\ vouched \subseteq vouched' /\ vouched' \subseteq vouched \cup {t}
        /\ at = "integrator" => t \in vouched'
    <3>1. at = "integrator" => passed["tester"] = t /\ passed["reviewer"] = t
      BY DEF IInv, Followed, Checkers
    <3> QED BY <1>4, <3>1 DEF Accept
  <2>6. TypeOK'
    <3>1. at' \in Roles \cup Steps
      BY <2>2 DEF Roles, Writers, Checkers, Steps
    <3>2. passed' \in [Checkers -> Contents \cup {Nothing}]
      BY <2>4 DEF IInv, TypeOK
    <3> QED BY <1>1, <1>4, <2>1, <2>3, <2>5, <3>1, <3>2 DEF IInv, TypeOK
  <2>7. Followed'
    <3>1. at' = "reviewer" => passed'["tester"] = t
      BY <2>2, <2>4 DEF Roles, Writers, Checkers, IInv, TypeOK
    <3>2. at' = "integrator" => passed'["tester"] = t /\ passed'["reviewer"] = t
      BY <2>2, <2>4 DEF Roles, Writers, Checkers, IInv, TypeOK, Followed
    <3>3. at' # "commit" /\ (at' = "add" => t \in vouched')
      BY <2>2, <2>5 DEF Roles, Writers, Checkers
    <3> QED BY <1>1, <2>5, <3>1, <3>2, <3>3 DEF IInv, Followed
  <2>8. StopsStand' /\ DirtFollowed'
    <3>1. at' \in Roles \cup {"add", "rollback"}
      BY <2>2 DEF Roles, Writers, Checkers
    <3> QED BY <1>1, <1>4, <2>1, <3>1
      DEF IInv, StopsStand, DirtFollowed, Stopped, Roles, Writers, Checkers
  <2> QED BY <2>6, <2>7, <2>8 DEF IInv
<1> QED BY <1>2, <1>3, <1>4 DEF Conclude, StopAndFail

\* A role keeps the invariant: the executor that does not start fails, and every
\* one that did comes to a conclusion.
LEMMA RoleInv ==
  ASSUME IInv, Role
  PROVE  IInv'
<1>1. CASE Begin
  <2>1. UNCHANGED <<latch, touched, git, baseline, remote, runs, seen, condemned, excused>>
    BY <1>1 DEF Begin
  <2>2. at \in Roles
    BY <1>1 DEF Begin
  <2>3. CASE Failed /\ UNCHANGED running
    <3>1. /\ at' \in {"debugger", "rollback"} /\ gate' = gate
          /\ tries' \in [Gates -> 0..(MaxRounds - 1)]
      BY <2>3, FailedGoes DEF IInv
    <3>2. TypeOK'
      BY <2>1, <2>3, <3>1 DEF IInv, TypeOK, git, seen, Roles, Steps, Writers
    <3>3. Followed' /\ StopsStand' /\ DirtFollowed'
      BY <1>1, <2>1, <2>3, <3>1
      DEF Begin, IInv, Followed, StopsStand, DirtFollowed, git, seen, Stopped
    <3> QED BY <3>2, <3>3 DEF IInv
  <2>4. CASE running' = TRUE /\ UNCHANGED <<at, gate, tries>>
    <3>1. at # "push"
      BY <2>2 DEF Roles, Writers, Checkers
    <3>2. TypeOK'
      BY <2>1, <2>4 DEF IInv, TypeOK, git, seen
    <3>3. Followed' /\ StopsStand' /\ DirtFollowed'
      BY <2>1, <2>2, <2>4, <3>1
      DEF IInv, Followed, StopsStand, DirtFollowed, git, seen, Stopped, Clean
    <3> QED BY <3>2, <3>3 DEF IInv
  <2> QED BY <1>1, <2>3, <2>4 DEF Begin
<1>2. /\ tree \in Contents /\ strays \in BOOLEAN /\ touched \in BOOLEAN
  BY DEF IInv, TypeOK
<1>3. CASE Implement
  <2>1. at \in Roles /\ at \notin Checkers
    BY <1>3 DEF Implement, Roles, Writers, Checkers
  <2> QED BY <1>2, <1>3, <2>1, ConcludeInv DEF Implement, Edited
<1>4. CASE Test
  <2>1. at \in Roles
    BY <1>4 DEF Test, Roles, Checkers
  <2> QED BY <1>2, <1>4, <2>1, ConcludeInv DEF Test
<1>5. CASE Debug
  <2>1. at \in Roles /\ at \notin Checkers
    BY <1>5 DEF Debug, Roles, Writers, Checkers
  <2> QED BY <1>2, <1>5, <2>1, ConcludeInv DEF Debug, Edited
<1>6. CASE Refactor
  <2>1. at \in Roles /\ at \notin Checkers
    BY <1>6 DEF Refactor, Roles, Writers, Checkers
  <2> QED BY <1>2, <1>6, <2>1, ConcludeInv DEF Refactor, Edited
<1>7. CASE Review
  <2>1. at \in Roles
    BY <1>7 DEF Review, Roles, Checkers
  <2> QED BY <1>2, <1>7, <2>1, ConcludeInv DEF Review
<1>8. CASE Integrate
  <2>1. at \in Roles
    BY <1>8 DEF Integrate, Roles, Checkers
  <2> QED BY <1>2, <1>8, <2>1, ConcludeInv DEF Integrate
<1> QED BY <1>1, <1>3, <1>4, <1>5, <1>6, <1>7, <1>8 DEF Role

\* The steps before the roles keep the invariant.
LEMMA OpenInv ==
  ASSUME IInv, Start \/ SelectTarget \/ TakeBaseline
  PROVE  IInv'
<1>1. CASE Start
  <2>1. TypeOK'
    <3>1. runs + 1 \in 0..MaxRuns /\ 0 \in 0..(MaxRounds - 1)
      BY <1>1, DevelopmentAssumption DEF Start, IInv, TypeOK
    <3>2. /\ tries' \in [Gates -> 0..(MaxRounds - 1)]
          /\ passed' \in [Checkers -> Contents \cup {Nothing}]
      BY <1>1, <3>1 DEF Start
    <3> QED BY <1>1, <3>1, <3>2 DEF Start, IInv, TypeOK, git, Steps, Gates
  <2>2. ~running
    BY <1>1 DEF Start, IInv, StopsStand, Roles, Writers, Checkers
  <2>3. Followed' /\ StopsStand' /\ DirtFollowed'
    BY <1>1, <2>2 DEF Start, IInv, Followed, StopsStand, DirtFollowed, git, Stopped, Clean
  <2> QED BY <2>1, <2>3 DEF IInv
<1>2. CASE SelectTarget
  <2>1. TypeOK'
    BY <1>2 DEF SelectTarget, IInv, TypeOK, git, plan, seen, Steps
  <2>2. ~running
    BY <1>2 DEF SelectTarget, IInv, StopsStand, Roles, Writers, Checkers
  <2>3. Followed' /\ StopsStand' /\ DirtFollowed'
    BY <1>2, <2>2 DEF SelectTarget, IInv, Followed, StopsStand, DirtFollowed, git, seen, Stopped, Clean
  <2> QED BY <2>1, <2>3 DEF IInv
<1>3. CASE TakeBaseline
  <2>1. TypeOK'
    BY <1>3 DEF TakeBaseline, IInv, TypeOK, git, plan, seen, Steps, Roles, Writers
  <2>2. ~running
    BY <1>3 DEF TakeBaseline, IInv, StopsStand, Roles, Writers, Checkers
  <2>3. Followed' /\ StopsStand' /\ DirtFollowed'
    BY <1>3, <2>2 DEF TakeBaseline, IInv, Followed, StopsStand, DirtFollowed, git, seen, Stopped, Clean
  <2> QED BY <2>1, <2>3 DEF IInv
<1> QED BY <1>1, <1>2, <1>3

\* Publishing and the rollback keep the invariant.
LEMMA PublishInv ==
  ASSUME IInv, Publish
  PROVE  IInv'
<1>1. ASSUME NEW step \in {"add", "commit", "push"}, StopHere(step) PROVE IInv'
  <2>1. TypeOK'
    BY <1>1 DEF StopHere, IInv, TypeOK, git, plan, seen, Steps
  <2>2. Followed' /\ StopsStand' /\ DirtFollowed'
    BY <1>1 DEF StopHere, IInv, Followed, StopsStand, DirtFollowed, git, seen, Stopped
  <2> QED BY <2>1, <2>2 DEF IInv
<1>2. CASE Add
  <2>1. TypeOK'
    BY <1>2 DEF Add, IInv, TypeOK, plan, seen, Steps
  <2>2. ~running
    BY <1>2 DEF Add, IInv, StopsStand, Roles, Writers, Checkers
  <2>3. Followed' /\ StopsStand' /\ DirtFollowed'
    BY <1>2, <2>2 DEF Add, IInv, Followed, StopsStand, DirtFollowed, seen, Stopped, TypeOK
  <2> QED BY <2>1, <2>3 DEF IInv
<1>3. CASE Commit
  <2>1. TypeOK'
    BY <1>3 DEF Commit, IInv, TypeOK, plan, seen, Steps
  <2>2. ~running
    BY <1>3 DEF Commit, IInv, StopsStand, Roles, Writers, Checkers
  <2>3. Followed' /\ StopsStand' /\ DirtFollowed'
    BY <1>3, <2>2 DEF Commit, IInv, Followed, StopsStand, DirtFollowed, seen, Stopped, Clean
  <2> QED BY <2>1, <2>3 DEF IInv
<1>4. CASE Checkout
  <2>1. TypeOK'
    BY <1>4 DEF Checkout, IInv, TypeOK, git, plan, seen, Steps
  <2>2. ~running
    BY <1>4 DEF Checkout, IInv, StopsStand, Roles, Writers, Checkers
  <2>3. Followed' /\ StopsStand' /\ DirtFollowed'
    BY <1>4, <2>2 DEF Checkout, IInv, Followed, StopsStand, DirtFollowed, git, seen, Stopped, Clean
  <2> QED BY <2>1, <2>3 DEF IInv
<1>5. CASE BeginPush
  <2>1. TypeOK'
    BY <1>5 DEF BeginPush, IInv, TypeOK, git, plan, seen
  <2>2. Followed' /\ StopsStand' /\ DirtFollowed'
    BY <1>5 DEF BeginPush, IInv, Followed, StopsStand, DirtFollowed, git, seen, Stopped, Clean
  <2> QED BY <2>1, <2>2 DEF IInv
<1>6. CASE Push
  <2>1. TypeOK'
    BY <1>6 DEF Push, IInv, TypeOK, git, plan, seen
  <2>2. Followed' /\ StopsStand' /\ DirtFollowed'
    BY <1>6 DEF Push, IInv, Followed, StopsStand, DirtFollowed, git, seen, Stopped, Clean
  <2> QED BY <2>1, <2>2 DEF IInv
<1>7. CASE Rollback
  <2>1. TypeOK'
    BY <1>7 DEF Rollback, IInv, TypeOK, git, plan, seen
  <2>2. Followed' /\ StopsStand' /\ DirtFollowed'
    BY <1>7 DEF Rollback, IInv, Followed, StopsStand, DirtFollowed, git, seen, Stopped, Clean,
               Roles, Writers, Checkers
  <2> QED BY <2>1, <2>2 DEF IInv
<1> QED BY <1>1, <1>2, <1>3, <1>4, <1>5, <1>6, <1>7 DEF Publish

\* The operator and the kill keep the invariant.
LEMMA SurroundingsInv ==
  ASSUME IInv, PlaceStop \/ ClearStop \/ Kill
  PROVE  IInv'
<1>1. CASE PlaceStop
  <2>1. TypeOK'
    BY <1>1 DEF PlaceStop, IInv, TypeOK, git, plan, seen
  <2>2. Followed' /\ StopsStand' /\ DirtFollowed'
    BY <1>1 DEF PlaceStop, IInv, Followed, StopsStand, DirtFollowed, git, seen, Stopped, Clean
  <2> QED BY <2>1, <2>2 DEF IInv
<1>2. CASE ClearStop
  <2>1. TypeOK'
    BY <1>2 DEF ClearStop, IInv, TypeOK, git, plan, seen
  <2>2. Followed' /\ StopsStand' /\ DirtFollowed'
    BY <1>2 DEF ClearStop, IInv, Followed, StopsStand, DirtFollowed, git, seen, Stopped, Clean
  <2> QED BY <2>1, <2>2 DEF IInv
<1>3. CASE Kill
  <2>1. TypeOK'
    BY <1>3 DEF Kill, IInv, TypeOK, git, plan, seen
  <2>2. Followed' /\ StopsStand' /\ DirtFollowed'
    BY <1>3 DEF Kill, IInv, Followed, StopsStand, DirtFollowed, git, seen, Stopped, Clean
  <2> QED BY <2>1, <2>2 DEF IInv
<1> QED BY <1>1, <1>2, <1>3

\* Every step keeps the invariant.
LEMMA NextIInv == IInv /\ [Next]_vars => IInv'
<1> SUFFICES ASSUME IInv, [Next]_vars PROVE IInv'
  OBVIOUS
<1>1. CASE Next
  BY <1>1, OpenInv, RoleInv, PublishInv, SurroundingsInv DEF Next, Request
<1>2. CASE UNCHANGED vars
  <2>1. TypeOK'
    BY <1>2 DEF vars, IInv, TypeOK
  <2>2. Followed' /\ StopsStand' /\ DirtFollowed'
    BY <1>2 DEF vars, IInv, Followed, StopsStand, DirtFollowed, Stopped, Clean
  <2> QED BY <2>1, <2>2 DEF IInv
<1> QED BY <1>1, <1>2

\* The inductive invariant holds of every request.
LEMMA Invariance == Spec => []IInv
BY InitIInv, NextIInv, PTL DEF Spec

\* Contents, budgets and the history keep their types; neither gate spends more
\* than the rounds QualityRuntime was given.
THEOREM TypeCorrect == Spec => []TypeOK
<1>1. IInv => TypeOK
  BY DEF IInv
<1> QED BY <1>1, Invariance, PTL

\* For every budget and any number of requests, killed or not, what is committed
\* or pushed went through the tester, the reviewer and the integrator.
THEOREM OnlyVerifiedIsPublished == Spec => []PublishedIsVerified
<1>1. IInv => PublishedIsVerified
  BY DEF IInv, Followed, PublishedIsVerified
<1> QED BY <1>1, Invariance, PTL

\* A worktree is left dirty only by a kill or by a git command that failed.
THEOREM DirtHasACause == Spec => []DirtIsExplained
<1>1. IInv => DirtIsExplained
  BY DEF IInv, DirtFollowed, DirtIsExplained
<1> QED BY <1>1, Invariance, PTL

\* No push follows a stop that was placed before it and still stands: only a push
\* changes the remote, and the latch was read when it began.
THEOREM StopsBind == Spec => StopBinds
<1>1. IInv /\ [Next]_vars => [condemned => UNCHANGED remote]_vars
  <2> SUFFICES ASSUME IInv, Next, condemned PROVE UNCHANGED remote
    BY DEF vars
  <2>1. ~(at = "push" /\ running)
    BY DEF IInv, StopsStand
  <2>2. CASE Start \/ SelectTarget \/ TakeBaseline
    BY <2>2 DEF Start, SelectTarget, TakeBaseline
  <2>3. CASE Role
    BY <2>3 DEF Role, Begin, Implement, Test, Debug, Refactor, Review, Integrate, Conclude
  <2>4. CASE Publish
    BY <2>1, <2>4
    DEF Publish, StopHere, Add, Commit, Checkout, BeginPush, Push, Rollback
  <2>5. CASE PlaceStop \/ ClearStop \/ Kill
    BY <2>1, <2>5 DEF PlaceStop, ClearStop, Kill
  <2> QED BY <2>2, <2>3, <2>4, <2>5 DEF Next, Request
<1> QED BY <1>1, Invariance, PTL DEF Spec, StopBinds

-----------------------------------------------------------------------------
(* The workers: plans and what they do to the tests                        *)

\* A text may follow another in a file: the tests of a test file are kept.
Keeps(file, text, new) == IsTest(file) => KeepsTests(text, new)

\* A plan that may be applied: where it can be, the tests are kept.
Sound(file, text, draft) ==
  Unique(text, draft.old) => Keeps(file, text, Replaced(text, draft.old, draft.new))

AllSound(file, text, found) == \A j \in found : j.verdict = "ok" => Sound(file, text, j.plan)

\* Nothing is lost by doing nothing, nor by keeping twice.
LEMMA KeepsOn ==
  /\ \A text : KeepsTests(text, text)
  /\ \A t, u, v : KeepsTests(t, u) /\ KeepsTests(u, v) => KeepsTests(t, v)
BY DEF KeepsTests

\* validate_plan accepts no edit that changes a test.
LEMMA AcceptedIsSound ==
  ASSUME NEW file, NEW text, NEW draft, Verdict(draft, text, IsTest(file)) = "ok"
  PROVE  Sound(file, text, draft)
<1>1. IsTest(file) => TestDefinitionsUnchanged(text, draft)
  BY DEF Verdict
<1> QED BY <1>1 DEF Sound, Keeps, TestDefinitionsUnchanged

LEMMA JudgedIsSound ==
  ASSUME NEW file, NEW text, NEW draft
  PROVE  /\ Judge(file, text, draft).plan = draft
         /\ Judge(file, text, draft).verdict = "ok" => Sound(file, text, draft)
<1>1. /\ Judge(file, text, draft).plan = draft
      /\ Judge(file, text, draft).verdict = "ok" => Verdict(draft, text, IsTest(file)) = "ok"
  BY DEF Judge, Judgement
<1> QED BY <1>1, AcceptedIsSound

LEMMA AskedIsSound ==
  ASSUME NEW file, NEW text
  PROVE  AllSound(file, text, Asked(file, text))
BY JudgedIsSound DEF AllSound, Asked

\* A repair keeps a plan with the verdict it had, or takes one that was judged itself.
LEMMA RepairIsSound ==
  ASSUME NEW file, NEW text, NEW found, NEW verdict, NEW asked,
         AllSound(file, text, found), AllSound(file, text, asked)
  PROVE  /\ AllSound(file, text, Repair(found, verdict, asked))
         /\ AllSound(file, text, Recount(found, asked))
<1>1. ASSUME NEW j \in Repair(found, verdict, asked), j.verdict = "ok"
      PROVE  Sound(file, text, j.plan)
  <2>1. CASE j \in found
    BY <1>1, <2>1 DEF AllSound
  <2>2. CASE j \notin found
    <3>1. PICK i \in found, a \in asked : j = IF Valid(a.verdict) THEN a ELSE Judgement(i.plan, a.verdict)
      BY <1>1, <2>2 DEF Repair, Those
    <3>2. Valid(a.verdict)
      BY <1>1, <3>1 DEF Valid, Judgement
    <3> QED BY <1>1, <3>1, <3>2 DEF AllSound
  <2> QED BY <2>1, <2>2
<1>2. ASSUME NEW j \in Recount(found, asked), j.verdict = "ok"
      PROVE  Sound(file, text, j.plan)
  <2>1. CASE j \in found
    BY <1>2, <2>1 DEF AllSound
  <2>2. CASE j \notin found
    <3>1. PICK i \in found, a \in asked :
            j = IF a.verdict \in {"ok", "raised"} THEN a
                ELSE Judgement(i.plan, "invalid_change_count_repair_failed")
      BY <1>2, <2>2 DEF Recount, Those
    <3>2. j = a
      BY <1>2, <3>1 DEF Judgement
    <3> QED BY <1>2, <3>2 DEF AllSound
  <2> QED BY <2>1, <2>2
<1> QED BY <1>1, <1>2 DEF AllSound

\* What is salvaged was validated itself.
LEMMA SalvagedIsSound ==
  ASSUME NEW file, NEW text, NEW draft, Salvage(draft, text).shape = "edit"
  PROVE  Sound(file, text, Salvage(draft, text))
<1> DEFINE made == AppendPlan(text, NewTests(text, Replaced(text, draft.old, draft.new)))
<1>1. Refused.shape = "foreign"
  BY DEF Refused, Plan
<1>2. Salvage(draft, text) = made /\ Verdict(made, text, TRUE) = "ok"
  BY <1>1 DEF Salvage
<1> HIDE DEF made
<1>3. TestDefinitionsUnchanged(text, made)
  BY <1>2 DEF Verdict
<1> QED BY <1>2, <1>3 DEF Sound, Keeps, TestDefinitionsUnchanged

LEMMA OnlyAddIsSound ==
  ASSUME NEW file, NEW text, NEW found, NEW asked,
         AllSound(file, text, found), AllSound(file, text, asked)
  PROVE  AllSound(file, text, OnlyAdd(found, asked, text))
<1> SUFFICES ASSUME NEW j \in OnlyAdd(found, asked, text), j.verdict = "ok"
             PROVE  Sound(file, text, j.plan)
  BY DEF AllSound
<1>1. CASE j \in found
  BY <1>1 DEF AllSound
<1>2. CASE j \notin found
  <2>1. PICK i \in found, a \in asked :
          j = IF a.verdict = "raised" \/ (a.verdict = "ok" /\ AddsOneTest(a.plan, text)) THEN a
              ELSE IF Salvage(a.plan, text).shape = "edit" THEN Judgement(Salvage(a.plan, text), "ok")
              ELSE Judgement(i.plan, "existing_test_modified_repair_failed")
    BY <1>2 DEF OnlyAdd, Those
  <2>2. j = a \/ (Salvage(a.plan, text).shape = "edit" /\ j = Judgement(Salvage(a.plan, text), "ok"))
    BY <2>1 DEF Judgement
  <2>3. CASE j = a
    BY <2>3 DEF AllSound
  <2>4. CASE Salvage(a.plan, text).shape = "edit" /\ j = Judgement(Salvage(a.plan, text), "ok")
    <3>1. j.plan = Salvage(a.plan, text)
      BY <2>4 DEF Judgement
    <3> QED BY <2>4, <3>1, SalvagedIsSound
  <2> QED BY <2>2, <2>3, <2>4
<1> QED BY <1>1, <1>2

\* However many repairs follow one another, what they let through keeps the tests.
LEMMA RepairedIsSound ==
  ASSUME NEW file, NEW text, NEW draft
  PROVE  /\ AllSound(file, text, Shaped(file, text, draft))
         /\ AllSound(file, text, Bounded(file, text, draft))
<1> DEFINE asked  == Asked(file, text)
           first  == {Judge(file, text, draft)}
           fields == Repair(first, "invalid_old_new", asked)
           counts == Recount(fields, asked)
           plain  == Repair(counts, "diff_marker_in_replacement", asked)
<1>1. AllSound(file, text, asked)
  BY AskedIsSound
<1>2. AllSound(file, text, first)
  BY JudgedIsSound DEF AllSound
<1> HIDE DEF asked, first
<1>3. AllSound(file, text, fields)
  BY <1>1, <1>2, RepairIsSound
<1> HIDE DEF fields
<1>4. AllSound(file, text, counts)
  BY <1>1, <1>3, RepairIsSound
<1> HIDE DEF counts
<1>5. AllSound(file, text, plain)
  BY <1>1, <1>4, RepairIsSound
<1> HIDE DEF plain
<1>6. AllSound(file, text, Repair(plain, "change_too_large", asked))
  BY <1>1, <1>5, RepairIsSound
<1>7. Shaped(file, text, draft) = Repair(plain, "change_too_large", asked)
  BY DEF Shaped, plain, counts, fields, first, asked
<1>8. AllSound(file, text, Bounded(file, text, draft))
  BY <1>1, <1>6, <1>7, OnlyAddIsSound DEF Bounded, asked
<1> QED BY <1>6, <1>7, <1>8

LEMMA ApplicationsKeep ==
  ASSUME NEW file, NEW text, NEW draft, Sound(file, text, draft),
         NEW new \in Applications(file, text, draft)
  PROVE  Keeps(file, text, new)
<1> DEFINE valid == {draft} \cup {j.plan : j \in Those(Asked(file, text), "ok")}
<1>1. PICK p \in valid : Unique(text, p.old) /\ new = Replaced(text, p.old, p.new)
  BY DEF Applications
<1>2. \A j \in Those(Asked(file, text), "ok") : Sound(file, text, j.plan)
  BY AskedIsSound DEF AllSound, Those
<1>3. Sound(file, text, p)
  BY <1>2
<1> QED BY <1>1, <1>3 DEF Sound

LEMMA OutcomesKeep ==
  ASSUME NEW file, NEW text, NEW first, NEW result \in Outcomes(file, text, first)
  PROVE  Keeps(file, text, result.text)
<1> DEFINE found == UNION {Bounded(file, text, draft) : draft \in first}
<1>1. AllSound(file, text, found)
  BY RepairedIsSound DEF AllSound
<1>2. CASE result.text = text
  BY <1>2, KeepsOn DEF Keeps
<1>3. CASE result.text # text
  <2> DEFINE news == UNION {Applications(file, text, j.plan) : j \in Those(found, "ok")}
  <2>1. /\ \A j \in found : Result(Valid(j.verdict), FALSE, text, j.verdict).text = text
        /\ Result(FALSE, FALSE, text, "apply").text = text
        /\ Outcomes(file, text, first) =
             {Result(Valid(j.verdict), FALSE, text, j.verdict) : j \in found \ Those(found, "ok")}
             \cup {Result(FALSE, FALSE, text, "apply")}
             \cup {Result(TRUE, TRUE, new, "ok") : new \in news}
    BY DEF Outcomes, Result
  <2> HIDE DEF news, found
  <2>2. result \in {Result(TRUE, TRUE, new, "ok") : new \in news}
    BY <1>3, <2>1
  <2>3. PICK j \in Those(found, "ok") : \E new \in Applications(file, text, j.plan) :
          result = Result(TRUE, TRUE, new, "ok")
    BY <2>2 DEF news
  <2>4. PICK new \in Applications(file, text, j.plan) : result = Result(TRUE, TRUE, new, "ok")
    BY <2>3
  <2>5. Sound(file, text, j.plan)
    BY <1>1 DEF AllSound, Those
  <2>6. result.text = new
    BY <2>4 DEF Result
  <2> QED BY <2>5, <2>6, ApplicationsKeep
<1> QED BY <1>2, <1>3

LEMMA DirectKeeps ==
  ASSUME NEW file, NEW text, NEW draft, NEW result \in Direct(file, text, draft)
  PROVE  Keeps(file, text, result.text)
<1>1. CASE result.text = text
  BY <1>1, KeepsOn DEF Keeps
<1>2. CASE result.text # text
  <2>1. /\ Judge(file, text, draft).verdict = "ok" /\ Unique(text, draft.old)
        /\ result.text = Replaced(text, draft.old, draft.new)
    BY <1>2 DEF Direct, Result
  <2> QED BY <2>1, JudgedIsSound DEF Sound
<1> QED BY <1>1, <1>2

\* Every outcome has a text.
LEMMA OutcomesHaveText ==
  ASSUME NEW file, NEW text, NEW first, NEW result \in Outcomes(file, text, first)
  PROVE  "text" \in DOMAIN result
<1> DEFINE found == UNION {Bounded(file, text, draft) : draft \in first}
           news  == UNION {Applications(file, text, j.plan) : j \in Those(found, "ok")}
<1>1. /\ \A j \in found : "text" \in DOMAIN Result(Valid(j.verdict), FALSE, text, j.verdict)
      /\ "text" \in DOMAIN Result(FALSE, FALSE, text, "apply")
      /\ \A new \in news : "text" \in DOMAIN Result(TRUE, TRUE, new, "ok")
  BY DEF Result
<1>2. Outcomes(file, text, first) =
        {Result(Valid(j.verdict), FALSE, text, j.verdict) : j \in found \ Those(found, "ok")}
        \cup {Result(FALSE, FALSE, text, "apply")}
        \cup {Result(TRUE, TRUE, new, "ok") : new \in news}
  BY DEF Outcomes
<1> HIDE DEF found, news
<1> QED BY <1>1, <1>2

-----------------------------------------------------------------------------
(* The workers: the invariant                                              *)

\* A working copy has its files in the tree, in the index and in the head.
Holds(files, content) == content = [p \in files |-> content[p]]

Copies(r, files) ==
  /\ r = [tree |-> r.tree, index |-> r.index, head |-> r.head]
  /\ Holds(files, r.tree) /\ Holds(files, r.index) /\ Holds(files, r.head)

\* On text: every version of the file has the tests of the first, and behind the tests
\* the tree is what they saw.
KeptSince0(text) == KeepsTests(Text0[File], text)

OnTextInv ==
  OnText =>
    /\ Copies(repo, DOMAIN Text0) /\ File \in DOMAIN Text0
    /\ DOMAIN mem = {"file", "task", "touched", "gate", "tries", "passed"}
    /\ pc # "idle" /\ program = "roles" => mem.task \in Requests(File)
    /\ KeptSince0(repo.tree[File]) /\ KeptSince0(repo.index[File]) /\ KeptSince0(repo.head[File])
    /\ pc \in {"reviewer", "integrator", "land", "commit"} => mem.passed = Text

\* The nightly worker stages nothing before it delivers, and the gate lets it deliver
\* only if all that changed is in the files it was given.
NightlyInv ==
  program = "nightly" =>
    /\ Copies(repo, Paths) /\ DOMAIN mem = {"chosen", "patch", "attempts", "passed"}
    /\ pc # "exit" => repo.index = repo.head
    /\ pc \in {"gate", "deliver"} => mem.passed = repo.tree
    /\ pc = "deliver" => \A p \in Paths \ mem.chosen : repo.tree[p] = repo.head[p]

\* A builder writes where nothing was: what it did not make is as committed, and what it
\* made is not in the index.
AppInv ==
  program \in {"app", "universal"} =>
    /\ Copies(repo, AppFiles) /\ DOMAIN mem = DOMAIN AppStart("main", {})
    /\ pc \in {"idle", "create", "clone", "plan", "tests", "deliver"} =>
         \A p \in AppFiles : IF p \in mem.made THEN repo.index[p] = NoFile
                              ELSE repo.index[p] = repo.tree[p]
    /\ pc \in {"idle", "create", "clone"} => mem.made = {}
    /\ pc = "deliver" => mem.passed = repo.tree

WorkersInv == OnTextInv /\ NightlyInv /\ AppInv

\* What git does to a working copy, one command at a time.
LEMMA CopyIs ==
  ASSUME NEW files, NEW r, Copies(r, files)
  PROVE  /\ r = [tree |-> r.tree, index |-> r.index, head |-> r.head]
         /\ Holds(files, r.tree) /\ Holds(files, r.index) /\ Holds(files, r.head)
         /\ DOMAIN r.tree = files /\ DOMAIN r.index = files
BY DEF Copies, Holds

LEMMA TakenIs ==
  ASSUME NEW files, NEW into, Holds(files, into), NEW from, NEW paths
  PROVE  /\ Holds(files, Taken(from, into, paths))
         /\ \A p \in files : Taken(from, into, paths)[p] = IF p \in paths THEN from[p] ELSE into[p]
<1>1. DOMAIN into = files
  BY DEF Holds
<1> QED BY <1>1 DEF Holds, Taken

LEMMA StagedFacts ==
  ASSUME NEW files, NEW r, Copies(r, files), NEW paths
  PROVE  /\ Copies(Staged(r, paths), files)
         /\ Staged(r, paths).tree = r.tree /\ Staged(r, paths).head = r.head
         /\ \A p \in files : Staged(r, paths).index[p] = IF p \in paths THEN r.tree[p] ELSE r.index[p]
<1> DEFINE new == Taken(r.tree, r.index, paths)
<1>1. Staged(r, paths) = [tree |-> r.tree, index |-> new, head |-> r.head]
  BY CopyIs DEF Staged
<1>2. /\ Holds(files, new) /\ Holds(files, r.tree) /\ Holds(files, r.head)
      /\ \A p \in files : new[p] = IF p \in paths THEN r.tree[p] ELSE r.index[p]
  BY CopyIs, TakenIs
<1> HIDE DEF new
<1> QED BY <1>1, <1>2 DEF Copies

LEMMA RestoredFacts ==
  ASSUME NEW files, NEW r, Copies(r, files), NEW paths
  PROVE  /\ Copies(Restored(r, paths), files)
         /\ Restored(r, paths).index = r.index /\ Restored(r, paths).head = r.head
         /\ \A p \in files : Restored(r, paths).tree[p] = IF p \in paths THEN r.index[p] ELSE r.tree[p]
<1> DEFINE new == Taken(r.index, r.tree, paths)
<1>1. Restored(r, paths) = [tree |-> new, index |-> r.index, head |-> r.head]
  BY CopyIs DEF Restored
<1>2. /\ Holds(files, new) /\ Holds(files, r.index) /\ Holds(files, r.head)
      /\ \A p \in files : new[p] = IF p \in paths THEN r.index[p] ELSE r.tree[p]
  BY CopyIs, TakenIs
<1> HIDE DEF new
<1> QED BY <1>1, <1>2 DEF Copies

LEMMA WrittenFacts ==
  ASSUME NEW files, NEW r, Copies(r, files), NEW path, NEW content
  PROVE  /\ Copies(Written(r, path, content), files)
         /\ Written(r, path, content).index = r.index /\ Written(r, path, content).head = r.head
         /\ \A p \in files : Written(r, path, content).tree[p] = IF p = path THEN content ELSE r.tree[p]
<1> DEFINE new == [r.tree EXCEPT ![path] = content]
<1>1. Written(r, path, content) = [tree |-> new, index |-> r.index, head |-> r.head]
  BY CopyIs DEF Written
<1>2. DOMAIN r.tree = files
  BY CopyIs
<1>3. /\ Holds(files, new) /\ Holds(files, r.index) /\ Holds(files, r.head)
      /\ \A p \in files : new[p] = IF p = path THEN content ELSE r.tree[p]
  BY <1>2, CopyIs DEF Holds
<1> HIDE DEF new
<1> QED BY <1>1, <1>3 DEF Copies

LEMMA CommittedFacts ==
  ASSUME NEW files, NEW r, Copies(r, files)
  PROVE  /\ Copies(Committed(r), files)
         /\ Committed(r).tree = r.tree /\ Committed(r).index = r.index /\ Committed(r).head = r.index
<1>1. Committed(r) = [tree |-> r.tree, index |-> r.index, head |-> r.index]
  BY CopyIs DEF Committed
<1> QED BY <1>1, CopyIs DEF Copies

LEMMA ResetFacts ==
  ASSUME NEW files, NEW r, Copies(r, files)
  PROVE  /\ Copies(Reset(r), files)
         /\ Reset(r).tree = r.head /\ Reset(r).index = r.head /\ Reset(r).head = r.head
<1>1. [r EXCEPT !.tree = r.head] = [tree |-> r.head, index |-> r.index, head |-> r.head]
  BY CopyIs
<1>2. [[tree |-> r.head, index |-> r.index, head |-> r.head] EXCEPT !.index = r.head]
        = [tree |-> r.head, index |-> r.head, head |-> r.head]
  OBVIOUS
<1>3. Reset(r) = [[r EXCEPT !.tree = r.head] EXCEPT !.index = r.head]
  BY DEF Reset
<1> QED BY <1>1, <1>2, <1>3, CopyIs DEF Copies

-----------------------------------------------------------------------------
(* The workers: on text                                                    *)

\* What keeps the tests of a version keeps those of the first.
LEMMA KeptOn ==
  ASSUME File \in DOMAIN Text0, NEW text, NEW new, KeptSince0(text), Keeps(File, text, new)
  PROVE  KeptSince0(new)
<1>1. CASE IsTest(File)
  BY <1>1, KeepsOn DEF Keeps, KeptSince0
<1>2. CASE ~IsTest(File)
  <2>1. TestNames(Text0[File]) = {}
    BY <1>2, PatchAssumption
  <2> QED BY <2>1 DEF KeptSince0, KeepsTests
<1> QED BY <1>1, <1>2

Fields == {"file", "task", "touched", "gate", "tries", "passed"}

\* Only a checker that is content leads on towards the commit, and no result changes
\* what is remembered of the file.
LEMMA Routed ==
  ASSUME NEW ok, NEW m, DOMAIN m = Fields, Route(ok, m),
         pc \in {"implementer", "tester", "debugger", "refactorer", "reviewer", "integrator"}
  PROVE  /\ DOMAIN mem' = Fields /\ mem'.file = m.file /\ mem'.task = m.task
         /\ mem'.touched = m.touched /\ mem'.passed = m.passed
         /\ pc' \in {"tester", "debugger", "refactorer", "reviewer", "integrator", "land", "rollback"}
         /\ pc' \in {"reviewer", "integrator", "land"} =>
              ok /\ pc \in {"tester", "reviewer", "integrator"}
<1>1. CASE ok
  <2>1. pc' = Next1[pc] /\ mem' = [m EXCEPT !.gate = IF pc = "tester" THEN "review" ELSE @]
    BY <1>1 DEF Route
  <2>2. /\ pc' \in {"tester", "debugger", "refactorer", "reviewer", "integrator", "land", "rollback"}
        /\ pc' \in {"reviewer", "integrator", "land"} => pc \in {"tester", "reviewer", "integrator"}
    BY <2>1 DEF Next1
  <2> QED BY <1>1, <2>1, <2>2 DEF Fields
<1>2. CASE ~ok
  <2>1. pc' \in {"debugger", "rollback"} /\ (mem' = m \/ mem' = [m EXCEPT !.tries[m.gate] = @ + 1])
    BY <1>2 DEF Route
  <2> QED BY <2>1 DEF Fields
<1> QED BY <1>1, <1>2

\* A role that writes what keeps the tests of the text it worked on.
LEMMA WriteInv ==
  ASSUME OnTextInv, program = "roles", program' = program,
         pc \in {"implementer", "debugger", "refactorer"},
         NEW base, Copies(base, DOMAIN Text0), base.index = repo.index, base.head = repo.head,
         KeptSince0(base.tree[File]),
         NEW result, Keeps(File, base.tree[File], result.text), NEW untouched,
         Write(base, result, untouched)
  PROVE  OnTextInv'
<1>1. /\ Copies(repo, DOMAIN Text0) /\ File \in DOMAIN Text0 /\ DOMAIN mem = Fields
      /\ mem.task \in Requests(File)
      /\ KeptSince0(repo.index[File]) /\ KeptSince0(repo.head[File])
  BY DEF OnTextInv, OnText, Fields
<1> DEFINE m == [mem EXCEPT !.touched = IF result.edited THEN TRUE
                                        ELSE IF untouched /\ result.ok THEN FALSE ELSE @]
<1>2. DOMAIN m = Fields /\ m.file = mem.file /\ m.task = mem.task
  BY <1>1 DEF Fields
<1>3. Route(result.ok, m) /\ repo' = Written(base, File, result.text)
  BY DEF Write
<1> HIDE DEF m
<1>4. /\ DOMAIN mem' = Fields /\ mem'.file = mem.file /\ mem'.task = mem.task
      /\ pc' \notin {"reviewer", "integrator", "land", "idle", "commit"}
  BY <1>2, <1>3, Routed
<1>5. /\ Copies(repo', DOMAIN Text0) /\ repo'.index = repo.index /\ repo'.head = repo.head
      /\ repo'.tree[File] = result.text
  <2> DEFINE w == Written(base, File, result.text)
  <2>1. /\ Copies(w, DOMAIN Text0) /\ w.index = base.index /\ w.head = base.head
        /\ \A p \in DOMAIN Text0 : w.tree[p] = IF p = File THEN result.text ELSE base.tree[p]
    BY WrittenFacts
  <2> HIDE DEF w
  <2>2. repo' = w
    BY <1>3 DEF w
  <2> QED BY <1>1, <2>1, <2>2
<1>6. KeptSince0(result.text)
  BY <1>1, KeptOn
<1>7. Fields = {"file", "task", "touched", "gate", "tries", "passed"}
  BY DEF Fields
<1> QED BY <1>1, <1>4, <1>5, <1>6, <1>7 DEF OnTextInv, OnText, KeptSince0, File, Text

LEMMA ImplementationsKeep ==
  ASSUME mem.task \in Requests(File), NEW result \in Implementations
  PROVE  Keeps(File, Text, result.text)
<1>1. FromTable(mem.task) \/ mem.task \in {"model", "gap", "comment", "operational"}
  BY DEF Requests, FromTable
<1>2. \/ \E draft : result \in Direct(File, Text, draft)
      \/ \E first : result \in Outcomes(File, Text, first)
  BY <1>1 DEF Implementations
<1> QED BY <1>2, DirectKeeps, OutcomesKeep

\* What the invariant says on text.
LEMMA TextFacts ==
  ASSUME OnTextInv, OnText
  PROVE  /\ Copies(repo, DOMAIN Text0) /\ File \in DOMAIN Text0 /\ DOMAIN mem = Fields
         /\ pc # "idle" /\ program = "roles" => mem.task \in Requests(File)
         /\ KeptSince0(Text) /\ KeptSince0(repo.index[File]) /\ KeptSince0(repo.head[File])
         /\ pc \in {"reviewer", "integrator", "land", "commit"} => mem.passed = Text
BY DEF OnTextInv, Fields, Text

\* And what a step must leave behind for it to hold on.
LEMMA TextKept ==
  ASSUME OnTextInv, OnText, program' = program,
         Copies(repo', DOMAIN Text0), DOMAIN mem' = Fields, mem'.file = mem.file,
         pc' # "idle" /\ program = "roles" => mem'.task \in Requests(File),
         KeptSince0(repo'.tree[File]), KeptSince0(repo'.index[File]), KeptSince0(repo'.head[File]),
         pc' \in {"reviewer", "integrator", "land", "commit"} => mem'.passed = repo'.tree[File]
  PROVE  OnTextInv'
BY TextFacts DEF OnTextInv, OnText, KeptSince0, File, Text, Fields

LEMMA BeginInv == ASSUME OnTextInv, BeginRole PROVE OnTextInv'
<1>1. OnText /\ program' = program /\ repo' = repo /\ pc' = "implementer"
  BY DEF BeginRole, OnText
<1>2. PICK task \in Requests(File) :
        mem' = [mem EXCEPT !.task = task, !.touched = FALSE, !.gate = "test",
                           !.tries = [test |-> 0, review |-> 0], !.passed = <<>>]
  BY DEF BeginRole
<1>3. DOMAIN mem' = Fields /\ mem'.file = mem.file /\ mem'.task = task
  BY <1>1, <1>2, TextFacts DEF Fields
<1> QED BY <1>1, <1>3, TextFacts, TextKept DEF Text

LEMMA ImplementInv == ASSUME OnTextInv, ImplementRole PROVE OnTextInv'
<1>1. OnText /\ program = "roles" /\ pc = "implementer"
  BY DEF ImplementRole, OnText
<1>2. PICK result \in Implementations : Write(repo, result, TRUE)
  BY DEF ImplementRole
<1>3. program' = program
  BY <1>2 DEF Write
<1>4. Keeps(File, Text, result.text)
  BY <1>1, TextFacts, ImplementationsKeep
<1> QED BY <1>1, <1>2, <1>3, <1>4, TextFacts, WriteInv DEF Text

\* The verdict is about the text that is there.
LEMMA TestInv == ASSUME OnTextInv, TestRole PROVE OnTextInv'
<1>1. OnText /\ program = "roles" /\ pc = "tester" /\ program' = program /\ repo' = repo
  BY DEF TestRole, OnText
<1>2. PICK ok \in BOOLEAN : Route(ok, IF ok THEN [mem EXCEPT !.passed = Text] ELSE mem)
  BY DEF TestRole
<1> DEFINE m == IF ok THEN [mem EXCEPT !.passed = Text] ELSE mem
<1>3. DOMAIN m = Fields /\ m.file = mem.file /\ m.task = mem.task /\ (ok => m.passed = Text)
  BY <1>1, TextFacts DEF Fields
<1>4. Route(ok, m)
  BY <1>2
<1> HIDE DEF m
<1>5. /\ DOMAIN mem' = Fields /\ mem'.file = mem.file /\ mem'.task = mem.task
      /\ pc' \in {"reviewer", "integrator", "land"} => mem'.passed = Text
      /\ pc' \notin {"idle", "commit"}
  BY <1>1, <1>3, <1>4, Routed
<1> QED BY <1>1, <1>5, TextFacts, TextKept DEF Text

\* The debugger works on what the index has, or on what is there.
LEMMA DebugInv == ASSUME OnTextInv, DebugRole PROVE OnTextInv'
<1> DEFINE base == Restored(repo, IF mem.touched THEN {File} ELSE {})
<1>1. OnText /\ program = "roles" /\ pc = "debugger"
  BY DEF DebugRole, OnText
<1>2. Copies(repo, DOMAIN Text0) /\ File \in DOMAIN Text0
  BY <1>1, TextFacts
<1>3. /\ Copies(base, DOMAIN Text0) /\ base.index = repo.index /\ base.head = repo.head
      /\ base.tree[File] \in {repo.index[File], Text}
  <2> DEFINE paths == IF mem.touched THEN {File} ELSE {}
             w == Restored(repo, paths)
  <2>1. /\ Copies(w, DOMAIN Text0) /\ w.index = repo.index /\ w.head = repo.head
        /\ \A p \in DOMAIN Text0 : w.tree[p] = IF p \in paths THEN repo.index[p] ELSE repo.tree[p]
    BY <1>2, RestoredFacts
  <2>2. base = w
    OBVIOUS
  <2> HIDE DEF w, paths, base
  <2> QED BY <1>2, <2>1, <2>2 DEF Text
<1>4. KeptSince0(base.tree[File]) /\ KeptSince0(Text)
  BY <1>1, <1>3, TextFacts
<1>5. CASE \E ok, why : Write(repo, Result(ok, FALSE, Text, why), FALSE)
  <2>1. PICK ok, why : Write(repo, Result(ok, FALSE, Text, why), FALSE)
    BY <1>5
  <2>2. Result(ok, FALSE, Text, why).text = Text
    BY DEF Result
  <2>3. Keeps(File, Text, Text) /\ program' = program
    BY <2>1, KeepsOn DEF Keeps, Write
  <2> QED BY <1>1, <1>2, <1>4, <2>1, <2>2, <2>3, WriteInv DEF Text
<1>6. CASE \E result \in Outcomes(File, base.tree[File], Replies(base.tree[File])) :
             Write(base, [result EXCEPT !.ok = @ /\ result.edited], FALSE)
  <2>1. PICK result \in Outcomes(File, base.tree[File], Replies(base.tree[File])) :
             Write(base, [result EXCEPT !.ok = @ /\ result.edited], FALSE)
    BY <1>6
  <2>2. "text" \in DOMAIN result /\ Keeps(File, base.tree[File], result.text)
    BY OutcomesKeep, OutcomesHaveText
  <2> DEFINE done == [result EXCEPT !.ok = @ /\ result.edited]
  <2>3. done.text = result.text
    BY <2>2
  <2>4. Write(base, done, FALSE) /\ program' = program
    BY <2>1 DEF Write
  <2> HIDE DEF done, base
  <2> QED BY <1>1, <1>3, <1>4, <2>2, <2>3, <2>4, WriteInv
<1>7. \/ \E ok, why : Write(repo, Result(ok, FALSE, Text, why), FALSE)
      \/ \E result \in Outcomes(File, base.tree[File], Replies(base.tree[File])) :
             Write(base, [result EXCEPT !.ok = @ /\ result.edited], FALSE)
  BY DEF DebugRole
<1> QED BY <1>5, <1>6, <1>7

LEMMA RefactorInv == ASSUME OnTextInv, RefactorRole PROVE OnTextInv'
<1>1. OnText /\ program = "roles" /\ pc = "refactorer"
  BY DEF RefactorRole, OnText
<1>2. CASE Write(repo, Result(TRUE, FALSE, Text, "none"), FALSE)
  <2>1. Result(TRUE, FALSE, Text, "none").text = Text
    BY DEF Result
  <2>2. Keeps(File, Text, Text) /\ program' = program
    BY <1>2, KeepsOn DEF Keeps, Write
  <2> QED BY <1>1, <1>2, <2>1, <2>2, TextFacts, WriteInv DEF Text
<1>3. CASE \E result \in Outcomes(File, Text, Replies(Text)) : \E ok :
             Write(repo, [result EXCEPT !.ok = ok], FALSE)
  <2>0. PICK result \in Outcomes(File, Text, Replies(Text)) :
             \E ok : Write(repo, [result EXCEPT !.ok = ok], FALSE)
    BY <1>3
  <2>1. PICK ok : Write(repo, [result EXCEPT !.ok = ok], FALSE)
    BY <2>0
  <2>2. "text" \in DOMAIN result /\ Keeps(File, Text, result.text)
    BY OutcomesKeep, OutcomesHaveText
  <2> DEFINE done == [result EXCEPT !.ok = ok]
  <2>3. done.text = result.text
    BY <2>2
  <2>4. Write(repo, done, FALSE) /\ program' = program
    BY <2>1 DEF Write
  <2> HIDE DEF done
  <2> QED BY <1>1, <2>2, <2>3, <2>4, TextFacts, WriteInv DEF Text
<1> QED BY <1>2, <1>3 DEF RefactorRole

LEMMA ReviewInv == ASSUME OnTextInv, ReviewRole PROVE OnTextInv'
<1>1. /\ OnText /\ program = "roles" /\ pc \in {"reviewer", "integrator"}
      /\ program' = program /\ repo' = repo
  BY DEF ReviewRole, OnText
<1>2. PICK ok \in BOOLEAN : Route(ok, mem)
  BY DEF ReviewRole
<1>3. /\ DOMAIN mem' = Fields /\ mem'.file = mem.file /\ mem'.task = mem.task
      /\ mem'.passed = mem.passed /\ pc' \notin {"idle", "commit"}
  BY <1>1, <1>2, TextFacts, Routed
<1> QED BY <1>1, <1>3, TextFacts, TextKept DEF Text

\* What lands is the tree of the file, and that is what passed.
LEMMA LandInv ==
  ASSUME OnTextInv, Land
  PROVE  /\ OnTextInv'
         /\ pc = "land" /\ repo'.head # repo.head => repo'.head[File] = mem.passed
<1>1. /\ OnText /\ program = "roles" /\ pc \in {"land", "rollback"} /\ pc' = "idle"
      /\ program' = program /\ mem' = mem
  BY DEF Land, OnText
<1>2. Copies(repo, DOMAIN Text0) /\ File \in DOMAIN Text0 /\ DOMAIN mem = Fields
  BY <1>1, TextFacts
<1>3. CASE pc = "land" /\ mem.touched
  <2> DEFINE s == Staged(repo, {File})
             c == Committed(s)
  <2>1. /\ Copies(s, DOMAIN Text0) /\ s.tree = repo.tree
        /\ \A p \in DOMAIN Text0 : s.index[p] = IF p \in {File} THEN repo.tree[p] ELSE repo.index[p]
    BY <1>2, StagedFacts
  <2> HIDE DEF s
  <2>2. Copies(c, DOMAIN Text0) /\ c.tree = s.tree /\ c.index = s.index /\ c.head = s.index
    BY <2>1, CommittedFacts
  <2>3. repo' = c
    BY <1>1, <1>3 DEF Land, s
  <2> HIDE DEF c
  <2>4. repo'.tree[File] = Text /\ repo'.index[File] = Text /\ repo'.head[File] = Text
    BY <1>2, <2>1, <2>2, <2>3 DEF Text
  <2> QED BY <1>1, <1>2, <1>3, <2>2, <2>3, <2>4, TextFacts, TextKept
<1>4. CASE ~(pc = "land" /\ mem.touched)
  <2> DEFINE c == Reset(repo)
  <2>1. Copies(c, DOMAIN Text0) /\ c.tree = repo.head /\ c.index = repo.head /\ c.head = repo.head
    BY <1>2, ResetFacts
  <2>2. repo' = c
    BY <1>1, <1>4 DEF Land
  <2> HIDE DEF c
  <2> QED BY <1>1, <1>2, <2>1, <2>2, TextFacts, TextKept
<1> QED BY <1>3, <1>4

\* The stand-alone worker: restoring the file keeps what the index has.
LEMMA RestoredKeeps ==
  ASSUME OnTextInv, OnText, NEW base, Copies(base, DOMAIN Text0), base.head = repo.head,
         KeptSince0(base.index[File]), repo' = Restored(base, {File}), program' = program,
         mem' = mem \/ mem' = [mem EXCEPT !.tries.test = 1], pc' \in {"repair", "exit"},
         program = "patch"
  PROVE  OnTextInv'
<1>1. File \in DOMAIN Text0 /\ DOMAIN mem = Fields /\ KeptSince0(repo.head[File])
  BY TextFacts
<1>2. DOMAIN mem' = Fields /\ mem'.file = mem.file
  BY <1>1 DEF Fields
<1> DEFINE w == Restored(base, {File})
<1>3. /\ Copies(w, DOMAIN Text0) /\ w.index = base.index /\ w.head = base.head
      /\ \A p \in DOMAIN Text0 : w.tree[p] = IF p \in {File} THEN base.index[p] ELSE base.tree[p]
  BY RestoredFacts
<1> HIDE DEF w
<1>4. repo' = w
  BY DEF w
<1> QED BY <1>1, <1>2, <1>3, <1>4, TextKept

\* Writing what keeps the tests, and leaving everything as it is.
LEMMA PatchedKeeps ==
  ASSUME OnTextInv, program = "patch", program' = program,
         NEW new, Keeps(File, Text, new), repo' = Written(repo, File, new),
         mem' = mem \/ mem' = [mem EXCEPT !.touched = TRUE], pc' = "tests"
  PROVE  OnTextInv'
<1>1. OnText /\ Copies(repo, DOMAIN Text0) /\ File \in DOMAIN Text0 /\ DOMAIN mem = Fields
  BY TextFacts DEF OnText
<1>2. DOMAIN mem' = Fields /\ mem'.file = mem.file
  BY <1>1 DEF Fields
<1> DEFINE w == Written(repo, File, new)
<1>3. /\ Copies(w, DOMAIN Text0) /\ w.index = repo.index /\ w.head = repo.head
      /\ \A p \in DOMAIN Text0 : w.tree[p] = IF p = File THEN new ELSE repo.tree[p]
  BY <1>1, WrittenFacts
<1> HIDE DEF w
<1>4. repo' = w
  BY DEF w
<1>5. KeptSince0(new)
  BY <1>1, TextFacts, KeptOn
<1> QED BY <1>1, <1>2, <1>3, <1>4, <1>5, TextFacts, TextKept

LEMMA UntouchedKeeps ==
  ASSUME OnTextInv, program = "patch", program' = program, repo' = repo,
         \/ mem' = mem /\ pc' \in {"tests", "exit"}
         \/ mem' = [mem EXCEPT !.passed = Text] /\ pc' \in {"commit", "exit"}
  PROVE  OnTextInv'
<1>1. OnText /\ DOMAIN mem = Fields
  BY TextFacts DEF OnText
<1>2. /\ DOMAIN mem' = Fields /\ mem'.file = mem.file
      /\ pc' = "commit" => mem'.passed = Text
  BY <1>1 DEF Fields
<1> QED BY <1>1, <1>2, TextFacts, TextKept DEF Text

LEMMA PlanPatchInv == ASSUME OnTextInv, PlanPatch PROVE OnTextInv'
<1> DEFINE first == IF File = "dispatcher" THEN {CommentPlan(Text, Comment, Flow), Refused} ELSE Replies(Text)
           found == UNION {Shaped(File, Text, draft) : draft \in first}
<1>1. program = "patch" /\ program' = program
  BY DEF PlanPatch
<1>2. \/ pc' \in {"exit", "tests"} /\ repo' = repo /\ mem' = mem
      \/ \E j \in Those(found, "ok") : \E new \in Applications(File, Text, j.plan) :
              /\ pc' = "tests" /\ repo' = Written(repo, File, new)
              /\ mem' = [mem EXCEPT !.touched = TRUE]
  BY DEF PlanPatch, Stop
<1>3. CASE pc' \in {"exit", "tests"} /\ repo' = repo /\ mem' = mem
  BY <1>1, <1>3, UntouchedKeeps
<1>4. ASSUME NEW j \in Those(found, "ok"), NEW new \in Applications(File, Text, j.plan),
             pc' = "tests" /\ repo' = Written(repo, File, new), mem' = [mem EXCEPT !.touched = TRUE]
      PROVE  OnTextInv'
  <2>1. AllSound(File, Text, found)
    BY RepairedIsSound DEF AllSound
  <2>2. Sound(File, Text, j.plan)
    BY <2>1 DEF AllSound, Those
  <2>3. Keeps(File, Text, new)
    BY <2>2, ApplicationsKeep
  <2> QED BY <1>1, <1>4, <2>3, PatchedKeeps
<1> QED BY <1>2, <1>3, <1>4

LEMMA TestPatchInv == ASSUME OnTextInv, TestPatch PROVE OnTextInv'
<1>1. program = "patch" /\ program' = program /\ OnText
  BY DEF TestPatch, OnText
<1>2. \/ repo' = repo /\ mem' = mem /\ pc' = "exit"
      \/ repo' = repo /\ mem' = [mem EXCEPT !.passed = Text] /\ pc' \in {"commit", "exit"}
      \/ /\ repo' = Restored(repo, {File}) /\ pc' \in {"repair", "exit"}
         /\ mem' = mem \/ mem' = [mem EXCEPT !.tries.test = 1]
  BY DEF TestPatch, Stop
<1> QED BY <1>1, <1>2, UntouchedKeeps, RestoredKeeps, TextFacts

LEMMA RepairPatchInv == ASSUME OnTextInv, RepairPatch PROVE OnTextInv'
<1> DEFINE plans == IF File = "dispatcher" THEN {CommentPlan(Text, Comment, Flow), Refused} ELSE Replies(Text)
<1>1. program = "patch" /\ program' = program
  BY DEF RepairPatch
<1>2. \/ pc' = "exit" /\ repo' = repo /\ mem' = mem
      \/ \E result \in UNION {Direct(File, Text, draft) : draft \in plans} :
              pc' = "tests" /\ repo' = Written(repo, File, result.text) /\ mem' = mem
  BY DEF RepairPatch, Stop
<1>3. ASSUME NEW result \in UNION {Direct(File, Text, draft) : draft \in plans},
             pc' = "tests" /\ repo' = Written(repo, File, result.text) /\ mem' = mem
      PROVE  OnTextInv'
  <2>1. Keeps(File, Text, result.text)
    BY DirectKeeps
  <2> QED BY <1>1, <1>3, <2>1, PatchedKeeps
<1> QED BY <1>1, <1>2, <1>3, UntouchedKeeps

LEMMA CommitPatchInv ==
  ASSUME OnTextInv, CommitPatch
  PROVE  /\ OnTextInv'
         /\ repo'.head # repo.head => repo'.head[File] = mem.passed
<1>1. /\ program = "patch" /\ program' = program /\ OnText /\ pc = "commit"
      /\ pc' = "exit" /\ mem' = mem
  BY DEF CommitPatch, OnText, Stop
<1>2. Copies(repo, DOMAIN Text0) /\ File \in DOMAIN Text0 /\ DOMAIN mem = Fields
  BY <1>1, TextFacts
<1> DEFINE s == Staged(repo, {File})
<1>3. /\ Copies(s, DOMAIN Text0) /\ s.tree = repo.tree /\ s.head = repo.head
      /\ \A p \in DOMAIN Text0 : s.index[p] = IF p \in {File} THEN repo.tree[p] ELSE repo.index[p]
  BY <1>2, StagedFacts
<1>4. repo' \in {Restored(repo, {File}), Restored(s, {File}), Committed(s)}
  BY DEF CommitPatch, Stop
<1> HIDE DEF s
<1>5. s.index[File] = Text
  BY <1>2, <1>3 DEF Text
<1>6. CASE repo' = Committed(s)
  <2> DEFINE c == Committed(s)
  <2>1. Copies(c, DOMAIN Text0) /\ c.tree = s.tree /\ c.index = s.index /\ c.head = s.index
    BY <1>3, CommittedFacts
  <2>2. repo' = c
    BY <1>6
  <2> HIDE DEF c
  <2> QED BY <1>1, <1>2, <1>3, <1>5, <2>1, <2>2, TextFacts, TextKept DEF Text
<1>7. CASE repo' = Restored(repo, {File}) \/ repo' = Restored(s, {File})
  <2>1. OnTextInv'
    BY <1>1, <1>2, <1>3, <1>5, <1>7, TextFacts, RestoredKeeps
  <2>2. repo'.head = repo.head
    BY <1>2, <1>3, <1>7, RestoredFacts
  <2> QED BY <2>1, <2>2
<1> QED BY <1>4, <1>6, <1>7

-----------------------------------------------------------------------------
(* The workers: diffs at night                                             *)

\* What the invariant says at night.
LEMMA NightFacts ==
  ASSUME NightlyInv, program = "nightly"
  PROVE  /\ Copies(repo, Paths) /\ DOMAIN mem = {"chosen", "patch", "attempts", "passed"}
         /\ pc # "exit" => repo.index = repo.head
         /\ pc \in {"gate", "deliver"} => mem.passed = repo.tree
         /\ pc = "deliver" => \A p \in Paths \ mem.chosen : repo.tree[p] = repo.head[p]
BY DEF NightlyInv

LEMMA AppliedFacts ==
  ASSUME NEW r, Copies(r, Paths), NEW patch
  PROVE  Copies(Applied(r, patch), Paths) /\ Applied(r, patch).index = r.index /\ Applied(r, patch).head = r.head
<1> DEFINE new == Taken(patch.result, r.tree, DOMAIN patch.result)
<1>1. Applied(r, patch) = [tree |-> new, index |-> r.index, head |-> r.head]
  BY CopyIs DEF Applied
<1>2. Holds(Paths, new) /\ Holds(Paths, r.index) /\ Holds(Paths, r.head)
  BY CopyIs, TakenIs
<1> HIDE DEF new
<1> QED BY <1>1, <1>2 DEF Copies

\* A step that neither stages nor delivers.
LEMMA NightKept ==
  ASSUME NightlyInv, program = "nightly", program' = program, pc # "exit",
         Copies(repo', Paths), repo'.index = repo.index, repo'.head = repo.head,
         DOMAIN mem' = DOMAIN mem, pc' # "deliver", pc' = "gate" => mem'.passed = repo'.tree
  PROVE  NightlyInv'
BY NightFacts DEF NightlyInv

LEMMA DiffInv ==
  ASSUME NightlyInv, program = "nightly", DiffStep
  PROVE  /\ NightlyInv'
         /\ pc = "deliver" /\ repo'.head # repo.head => repo'.head = mem.passed
<1> USE NightFacts
<1>1. CASE ProposeDiff
  <2>1. program' = program /\ repo' = repo /\ pc = "idle" /\ pc' \in {"exit", "apply"} /\ DOMAIN mem' = DOMAIN mem
    BY <1>1 DEF ProposeDiff, Leave
  <2> QED BY <2>1, NightKept
<1>2. CASE TestDiff
  <2> DEFINE after == IF Fits(repo, mem.patch) THEN Applied(repo, mem.patch) ELSE repo
             back  == Restored(after, mem.chosen)
  <2>1. Copies(after, Paths) /\ after.index = repo.index /\ after.head = repo.head
    BY AppliedFacts
  <2>2. program' = program /\ pc = "apply"
    BY <1>2 DEF TestDiff
  <2>3. \/ repo' = after /\ pc' = "gate" /\ mem' = [mem EXCEPT !.passed = after.tree]
        \/ repo' = after /\ pc' \in {"repair", "exit"} /\ mem' = mem
        \/ repo' = back /\ pc' = "exit" /\ mem' = mem
    BY <1>2 DEF TestDiff, Leave
  <2> HIDE DEF after
  <2>4. Copies(back, Paths) /\ back.index = repo.index /\ back.head = repo.head
    BY <2>1, RestoredFacts
  <2> HIDE DEF back
  <2>5. DOMAIN mem' = DOMAIN mem /\ (pc' = "gate" => mem'.passed = repo'.tree)
    BY <2>3
  <2> QED BY <2>1, <2>2, <2>3, <2>4, <2>5, NightKept
<1>3. CASE RepairDiff
  <2> DEFINE back == Restored(repo, mem.chosen)
  <2>1. Copies(back, Paths) /\ back.index = repo.index /\ back.head = repo.head
    BY RestoredFacts
  <2>2. /\ program' = program /\ pc = "repair" /\ repo' \in {repo, back} /\ pc' \in {"exit", "apply"}
        /\ DOMAIN mem' = DOMAIN mem
    BY <1>3 DEF RepairDiff, Leave
  <2> HIDE DEF back
  <2> QED BY <2>1, <2>2, NightKept
<1>4. CASE GateDiff
  <2>1. program' = program /\ pc = "gate"
    BY <1>4 DEF GateDiff
  <2>2. CASE Leave(Restored(repo, mem.chosen))
    <3> DEFINE back == Restored(repo, mem.chosen)
    <3>1. Copies(back, Paths) /\ back.index = repo.index /\ back.head = repo.head
      BY RestoredFacts
    <3>2. repo' = back /\ pc' = "exit" /\ mem' = mem
      BY <2>2 DEF Leave
    <3> HIDE DEF back
    <3> QED BY <2>1, <3>1, <3>2, NightKept
  <2>3. CASE Verified(repo, mem.chosen) /\ pc' = "deliver" /\ UNCHANGED <<repo, mem>>
    <3>1. DOMAIN repo.tree = Paths
      BY CopyIs
    <3>2. \A p \in Paths \ mem.chosen : repo.tree[p] = repo.head[p]
      BY <2>3, <3>1 DEF Verified
    <3> QED BY <2>1, <2>3, <3>2 DEF NightlyInv
  <2> QED BY <1>4, <2>1, <2>2, <2>3 DEF GateDiff
<1>5. CASE DeliverDiff
  <2> DEFINE s == Staged(repo, mem.chosen)
             c == Committed(s)
  <2>1. program' = program /\ pc = "deliver" /\ pc' = "exit" /\ mem' = mem /\ repo' \in {repo, s, c}
    BY <1>5 DEF DeliverDiff, Leave
  <2>2. /\ Copies(s, Paths) /\ s.tree = repo.tree /\ s.head = repo.head
        /\ \A p \in Paths : s.index[p] = IF p \in mem.chosen THEN repo.tree[p] ELSE repo.index[p]
    BY StagedFacts
  <2> HIDE DEF s
  <2>3. Copies(c, Paths) /\ c.head = s.index
    BY <2>2, CommittedFacts
  <2> HIDE DEF c
  <2>4. NightlyInv'
    BY <2>1, <2>2, <2>3 DEF NightlyInv
  <2>5. \A p \in Paths : s.index[p] = repo.tree[p]
    BY <2>1, <2>2
  <2>6. s.index = repo.tree
    BY <2>2, <2>5 DEF Copies, Holds
  <2> QED BY <2>1, <2>2, <2>3, <2>4, <2>6
<1> QED BY <1>1, <1>2, <1>3, <1>4, <1>5 DEF DiffStep, ProposeDiff, TestDiff, RepairDiff, GateDiff

-----------------------------------------------------------------------------
(* The workers: the builders                                               *)

Building == program \in {"app", "universal"}

AppFields == {"plan", "made", "attempt", "runs", "emptyAnswer", "remote", "present", "created",
              "pushed", "passed"}

\* Every file is either unmade, and as committed, or made, and new.
MadeIsNew(r, made) ==
  \A p \in AppFiles : IF p \in made THEN r.index[p] = NoFile ELSE r.index[p] = r.tree[p]

\* What the invariant says of a builder.
LEMMA AppFacts ==
  ASSUME AppInv, Building
  PROVE  /\ Copies(repo, AppFiles) /\ DOMAIN mem = AppFields
         /\ pc \in {"idle", "create", "clone", "plan", "tests", "deliver"} => MadeIsNew(repo, mem.made)
         /\ pc \in {"idle", "create", "clone"} => mem.made = {}
         /\ pc = "deliver" => mem.passed = repo.tree
<1>1. DOMAIN AppStart("main", {}) = AppFields
  BY DEF AppStart, AppFields
<1> QED BY <1>1 DEF AppInv, Building, MadeIsNew

\* And what a step must leave behind.
LEMMA AppKept ==
  ASSUME program' = program, Copies(repo', AppFiles), DOMAIN mem' = AppFields,
         pc' \in {"idle", "create", "clone", "plan", "tests", "deliver"} => MadeIsNew(repo', mem'.made),
         pc' \in {"idle", "create", "clone"} => mem'.made = {},
         pc' = "deliver" => mem'.passed = repo'.tree
  PROVE  AppInv'
<1>1. DOMAIN AppStart("main", {}) = AppFields
  BY DEF AppStart, AppFields
<1> QED BY <1>1 DEF AppInv, MadeIsNew

\* Writing and removing files of the tree.
LEMMA WroteFacts ==
  ASSUME NEW r, Copies(r, AppFiles), NEW paths
  PROVE  /\ Copies(Wrote(r, paths), AppFiles) /\ Copies(Cleared(r, paths), AppFiles)
         /\ Wrote(r, paths).index = r.index /\ Wrote(r, paths).head = r.head
         /\ Cleared(r, paths).index = r.index /\ Cleared(r, paths).head = r.head
         /\ \A p \in AppFiles \ paths : Wrote(r, paths).tree[p] = r.tree[p]
         /\ \A p \in AppFiles : Cleared(r, paths).tree[p] = IF p \in paths THEN NoFile ELSE r.tree[p]
<1> DEFINE w == [p \in AppFiles |-> IF p \in paths THEN Content ELSE r.tree[p]]
           c == [p \in AppFiles |-> IF p \in paths THEN NoFile ELSE r.tree[p]]
<1>1. /\ Wrote(r, paths) = [tree |-> w, index |-> r.index, head |-> r.head]
      /\ Cleared(r, paths) = [tree |-> c, index |-> r.index, head |-> r.head]
  BY CopyIs DEF Wrote, Cleared
<1>2. /\ Holds(AppFiles, w) /\ Holds(AppFiles, c)
      /\ \A p \in AppFiles \ paths : w[p] = r.tree[p]
      /\ \A p \in AppFiles : c[p] = IF p \in paths THEN NoFile ELSE r.tree[p]
  BY DEF Holds
<1>3. Holds(AppFiles, r.index) /\ Holds(AppFiles, r.head)
  BY CopyIs
<1> HIDE DEF w, c
<1> QED BY <1>1, <1>2, <1>3 DEF Copies

\* A program that returns is over, unless it is the builder with its workflow.
LEMMA ReturnIs ==
  ASSUME Building, NEW r, Return(r)
  PROVE  repo' = r /\ pc' = "exit" /\ mem' = mem
BY DEF Return, Building

LEMMA ReturnInv ==
  ASSUME AppInv, Building, program' = program, NEW r, Copies(r, AppFiles), Return(r)
  PROVE  AppInv'
BY ReturnIs, AppFacts, AppKept

LEMMA RetryInv ==
  ASSUME AppInv, Building, program' = program, RetryApp(repo),
         pc \in {"idle", "plan", "tests"}
  PROVE  AppInv'
<1>1. CASE repo' = repo /\ pc' = "plan" /\ mem' = [mem EXCEPT !.attempt = @ + 1]
  <2>1. DOMAIN mem' = AppFields /\ mem'.made = mem.made
    BY <1>1, AppFacts DEF AppFields
  <2> QED BY <1>1, <2>1, AppFacts, AppKept
<1>2. CASE Return(repo)
  BY <1>2, AppFacts, ReturnInv
<1> QED BY <1>1, <1>2 DEF RetryApp

\* A new plan, of files that are not there once what the last one made is gone.
LEMMA PlannedInv ==
  ASSUME AppInv, Building, program' = program, pc \in {"idle", "plan"},
         NEW draft \in SUBSET AppFiles,
         \A p \in draft : p \in mem.made \/ repo.tree[p] = NoFile,
         repo' = Wrote(Cleared(repo, mem.made), draft), pc' = "tests",
         mem' = [mem EXCEPT !.made = draft]
  PROVE  AppInv'
<1> DEFINE c == Cleared(repo, mem.made)
           w == Wrote(c, draft)
<1>1. Copies(repo, AppFiles) /\ DOMAIN mem = AppFields /\ MadeIsNew(repo, mem.made)
  BY AppFacts
<1>2. /\ Copies(c, AppFiles) /\ c.index = repo.index
      /\ \A p \in AppFiles : c.tree[p] = IF p \in mem.made THEN NoFile ELSE repo.tree[p]
  BY <1>1, WroteFacts
<1> HIDE DEF c
<1>3. /\ Copies(w, AppFiles) /\ w.index = c.index
      /\ \A p \in AppFiles \ draft : w.tree[p] = c.tree[p]
  BY <1>2, WroteFacts
<1>4. repo' = w
  BY DEF c
<1> HIDE DEF w
<1>5. DOMAIN mem' = AppFields /\ mem'.made = draft
  BY <1>1 DEF AppFields
<1>6. MadeIsNew(repo', mem'.made)
  BY <1>1, <1>2, <1>3, <1>4, <1>5 DEF MadeIsNew
<1> QED BY <1>3, <1>4, <1>5, <1>6, AppKept

LEMMA PlanAppInv == ASSUME AppInv, Building, PlanApp PROVE AppInv'
<1>1. program = "app" /\ program' = program /\ pc \in {"idle", "plan"} /\ Copies(repo, AppFiles)
  BY AppFacts DEF PlanApp
<1> DEFINE c == Cleared(repo, mem.made)
<1>2. Copies(c, AppFiles)
  BY <1>1, WroteFacts
<1>3. \/ RetryApp(repo)
      \/ Return(c)
      \/ \E draft \in Plans(Present(repo)) :
           \/ /\ pc' = "tests" /\ repo' = Wrote(c, draft)
              /\ mem' = [mem EXCEPT !.made = draft]
           \/ \E part \in SUBSET draft : Return(Wrote(c, part))
  BY DEF PlanApp
<1>4. CASE RetryApp(repo)
  BY <1>1, <1>4, RetryInv
<1>5. CASE Return(c)
  BY <1>1, <1>2, <1>5, ReturnInv
<1>6. ASSUME NEW draft \in Plans(Present(repo)), pc' = "tests", repo' = Wrote(c, draft),
             mem' = [mem EXCEPT !.made = draft]
      PROVE  AppInv'
  <2>1. draft \in SUBSET AppFiles /\ \A p \in draft : repo.tree[p] = NoFile
    BY <1>1 DEF Plans, Present
  <2> QED BY <1>1, <1>6, <2>1, PlannedInv
<1>7. ASSUME NEW part, Return(Wrote(c, part))
      PROVE  AppInv'
  <2>1. Copies(Wrote(c, part), AppFiles)
    BY <1>2, WroteFacts
  <2> QED BY <1>1, <1>7, <2>1, ReturnInv
<1> QED BY <1>3, <1>4, <1>5, <1>6, <1>7

LEMMA PlanFilesInv == ASSUME AppInv, Building, PlanFiles PROVE AppInv'
<1>1. program = "universal" /\ program' = program /\ pc = "plan" /\ Copies(repo, AppFiles)
  BY AppFacts DEF PlanFiles, Building
<1> DEFINE c == Cleared(repo, mem.made)
<1>2. /\ Copies(c, AppFiles)
      /\ \A p \in AppFiles : c.tree[p] = IF p \in mem.made THEN NoFile ELSE repo.tree[p]
  BY <1>1, WroteFacts
<1>3. \/ Return(repo)
      \/ \E draft \in Plans({}) :
           \/ /\ draft \cap Present(c) = {}
              /\ pc' = "tests" /\ repo' = Wrote(c, draft)
              /\ mem' = [mem EXCEPT !.made = draft]
           \/ \E part \in (SUBSET draft) \ {draft} : Return(Wrote(c, part))
  BY <1>1 DEF PlanFiles
<1>4. CASE Return(repo)
  BY <1>1, <1>4, ReturnInv
<1>5. ASSUME NEW draft \in Plans({}), draft \cap Present(c) = {}, pc' = "tests", repo' = Wrote(c, draft),
             mem' = [mem EXCEPT !.made = draft]
      PROVE  AppInv'
  <2>1. draft \in SUBSET AppFiles
    BY <1>1 DEF Plans
  <2>2. \A p \in draft : p \in mem.made \/ repo.tree[p] = NoFile
    BY <1>2, <1>5, <2>1 DEF Present
  <2> QED BY <1>1, <1>5, <2>1, <2>2, PlannedInv
<1>6. ASSUME NEW part, Return(Wrote(c, part))
      PROVE  AppInv'
  <2>1. Copies(Wrote(c, part), AppFiles)
    BY <1>2, WroteFacts
  <2> QED BY <1>1, <1>6, <2>1, ReturnInv
<1> QED BY <1>3, <1>4, <1>5, <1>6

LEMMA TestAppInv == ASSUME AppInv, Building, TestApp PROVE AppInv'
<1>1. pc = "tests" /\ program' = program /\ Copies(repo, AppFiles) /\ DOMAIN mem = AppFields
  BY AppFacts DEF TestApp
<1>2. \/ pc' = "deliver" /\ mem' = [mem EXCEPT !.passed = repo.tree] /\ repo' = repo
      \/ RetryApp(repo)
      \/ Return(repo)
      \/ Return(Cleared(repo, mem.made))
  BY DEF TestApp
<1>3. CASE pc' = "deliver" /\ mem' = [mem EXCEPT !.passed = repo.tree] /\ repo' = repo
  <2>1. DOMAIN mem' = AppFields /\ mem'.made = mem.made /\ mem'.passed = repo.tree
    BY <1>1, <1>3 DEF AppFields
  <2> QED BY <1>1, <1>3, <2>1, AppFacts, AppKept
<1>4. CASE RetryApp(repo)
  BY <1>1, <1>4, RetryInv
<1>5. CASE Return(repo) \/ Return(Cleared(repo, mem.made))
  BY <1>1, <1>5, ReturnInv, WroteFacts
<1> QED BY <1>2, <1>3, <1>4, <1>5

\* Only what was made is added; the rest is as committed, so that the commit is the tree.
LEMMA CommitAppInv ==
  ASSUME AppInv, Building, CommitApp
  PROVE  /\ AppInv'
         /\ repo'.head # repo.head => repo'.head = mem.passed
<1>1. /\ pc = "deliver" /\ program' = program /\ Copies(repo, AppFiles) /\ DOMAIN mem = AppFields
      /\ mem.passed = repo.tree /\ MadeIsNew(repo, mem.made)
  BY AppFacts DEF CommitApp
<1> DEFINE s == Staged(repo, mem.made)
           c == Committed(s)
           dropped(r) == IF program = "app" THEN Cleared(r, mem.made) ELSE r
<1>2. /\ Copies(s, AppFiles) /\ s.tree = repo.tree /\ s.head = repo.head
      /\ \A p \in AppFiles : s.index[p] = IF p \in mem.made THEN repo.tree[p] ELSE repo.index[p]
  BY <1>1, StagedFacts
<1>3. Return(dropped(repo)) \/ Return(dropped(s)) \/ (repo' = c /\ pc' = "push" /\ mem' = mem)
  BY DEF CommitApp
<1>4. /\ Copies(dropped(repo), AppFiles) /\ dropped(repo).head = repo.head
      /\ Copies(dropped(s), AppFiles) /\ dropped(s).head = repo.head
  BY <1>1, <1>2, WroteFacts
<1> HIDE DEF s
<1>5. Copies(c, AppFiles) /\ c.head = s.index
  BY <1>2, CommittedFacts
<1>6. CASE Return(dropped(repo)) \/ Return(dropped(s))
  BY <1>1, <1>4, <1>6, ReturnIs, ReturnInv
<1>7. CASE repo' = c /\ pc' = "push" /\ mem' = mem
  <2>1. \A p \in AppFiles : s.index[p] = repo.tree[p]
    BY <1>1, <1>2 DEF MadeIsNew
  <2>2. s.index = repo.tree
    BY <1>1, <1>2, <2>1 DEF Copies, Holds
  <2>3. repo'.head = mem.passed
    BY <1>1, <1>5, <1>7, <2>2
  <2> HIDE DEF c
  <2> QED BY <1>1, <1>5, <1>7, <2>3, AppKept
<1> QED BY <1>3, <1>6, <1>7

LEMMA AppStepInv ==
  ASSUME AppInv, Building, AppStep
  PROVE  /\ AppInv'
         /\ pc = "deliver" /\ repo'.head # repo.head => repo'.head = mem.passed
<1>1. Copies(repo, AppFiles) /\ DOMAIN mem = AppFields
  BY AppFacts
<1>2. CASE PlanFirst
  <2>1. /\ program = "universal" /\ program' = program /\ pc = "idle" /\ repo' = repo
        /\ pc' \in {"exit", "create"} /\ mem' \in {mem, [mem EXCEPT !.emptyAnswer = FALSE]}
    BY <1>2 DEF PlanFirst, Building
  <2>2. DOMAIN mem' = AppFields /\ mem'.made = mem.made
    BY <1>1, <2>1 DEF AppFields
  <2> QED BY <1>1, <2>1, <2>2, AppFacts, AppKept
<1>3. CASE CreateRepository
  <2>1. program' = program /\ pc = "create"
    BY <1>3 DEF CreateRepository
  <2>2. CASE Return(repo)
    BY <1>1, <2>1, <2>2, ReturnInv
  <2>3. CASE pc' = "clone" /\ repo' = repo /\ \E x : mem' = [mem EXCEPT !.remote = x]
    <3>1. DOMAIN mem' = AppFields /\ mem'.made = mem.made
      BY <1>1, <2>3 DEF AppFields
    <3> QED BY <1>1, <2>1, <2>3, <3>1, AppFacts, AppKept
  <2> QED BY <1>3, <2>1, <2>2, <2>3 DEF CreateRepository
<1>4. CASE AnotherRun
  <2>1. /\ program' = program /\ pc' = pc /\ repo' = repo /\ pc \in {"create", "clone", "base"}
        /\ \E x : mem' = [mem EXCEPT !.remote = x]
    BY <1>4 DEF AnotherRun
  <2>2. DOMAIN mem' = AppFields /\ mem'.made = mem.made
    BY <1>1, <2>1 DEF AppFields
  <2> QED BY <1>1, <2>1, <2>2, AppFacts, AppKept
<1>5. CASE CloneRepo
  <2>1. program = "universal" /\ program' = program /\ pc = "clone"
    BY <1>5 DEF CloneRepo, Building
  <2>2. CASE Return(repo)
    BY <1>1, <2>1, <2>2, ReturnInv
  <2>3. CASE repo' = Fresh(AppContents(mem.present)) /\ pc' = "plan" /\ mem' = mem
    <3>1. Copies(repo', AppFiles) /\ repo'.index = repo'.tree
      BY <2>3 DEF Fresh, AppContents, Copies, Holds
    <3>2. mem.made = {}
      BY <2>1, AppFacts
    <3> QED BY <1>1, <2>1, <2>3, <3>1, <3>2, AppKept DEF MadeIsNew
  <2> QED BY <1>5, <2>1, <2>2, <2>3 DEF CloneRepo
<1>6. CASE PlanApp \/ PlanFiles
  <2>1. pc # "deliver"
    BY <1>6 DEF PlanApp, PlanFiles
  <2> QED BY <1>6, <2>1, PlanAppInv, PlanFilesInv
<1>7. CASE TestApp
  <2>1. pc # "deliver"
    BY <1>7 DEF TestApp
  <2> QED BY <1>7, <2>1, TestAppInv
<1>8. CASE CommitApp
  BY <1>8, CommitAppInv
<1>9. CASE PushApp \/ RequestApp
  <2>1. program' = program /\ pc \in {"push", "request"}
    BY <1>9 DEF PushApp, RequestApp
  <2>2. CASE Return(repo)
    BY <1>1, <2>1, <2>2, ReturnInv
  <2>3. CASE pc' \in {"request", "exit"} /\ repo' = repo
             /\ mem' \in {[mem EXCEPT !.pushed = TRUE], [mem EXCEPT !.created = TRUE]}
    <3>1. DOMAIN mem' = AppFields
      BY <1>1, <2>3 DEF AppFields
    <3> QED BY <1>1, <2>1, <2>3, <3>1, AppKept
  <2> QED BY <1>9, <2>1, <2>2, <2>3 DEF PushApp, RequestApp
<1> QED BY <1>2, <1>3, <1>4, <1>5, <1>6, <1>7, <1>8, <1>9
        DEF AppStep, EnsureMainBase, Scaffold, Building

-----------------------------------------------------------------------------
(* The workers: their invariant and what it shows                          *)

LEMMA WorkersInvInit == WorkersInit => WorkersInv
<1> SUFFICES ASSUME WorkersInit PROVE WorkersInv
  OBVIOUS
<1>1. pc = "idle"
  BY DEF WorkersInit
<1>2. OnTextInv
  <2> SUFFICES ASSUME OnText PROVE OnTextInv
    BY DEF OnTextInv
  <2>1. repo = Fresh(Text0) /\ \E f \in DOMAIN Text0 : mem = PatchStart(f)
    BY PatchAssumption DEF WorkersInit, OnText
  <2>2. /\ File \in DOMAIN Text0
        /\ DOMAIN mem = {"file", "task", "touched", "gate", "tries", "passed"}
    <3>1. PICK f \in DOMAIN Text0 : mem = PatchStart(f)
      BY <2>1
    <3>2. mem.file = f /\ DOMAIN mem = {"file", "task", "touched", "gate", "tries", "passed"}
      BY <3>1 DEF PatchStart
    <3> QED BY <3>1, <3>2 DEF File
  <2>3. repo = [tree |-> Text0, index |-> Text0, head |-> Text0]
    BY <2>1 DEF Fresh
  <2>4. Holds(DOMAIN Text0, Text0)
    BY PatchAssumption DEF Holds
  <2>5. Copies(repo, DOMAIN Text0)
    BY <2>3, <2>4 DEF Copies
  <2> QED BY <1>1, <2>2, <2>3, <2>5, KeepsOn DEF OnTextInv, KeptSince0
<1>3. NightlyInv
  BY <1>1 DEF NightlyInv, WorkersInit, Fresh, DiffFiles, DiffStart, Copies, Holds
<1>4. AppInv
  <2> SUFFICES ASSUME Building PROVE AppInv
    BY DEF AppInv, Building
  <2>1. \E was : repo = Fresh(AppContents(was))
    BY DEF WorkersInit, Building
  <2>2. \E side, present : mem = AppStart(side, present)
    <3>1. CASE program = "app"
      BY <3>1 DEF WorkersInit
    <3>2. CASE program = "universal"
      BY <3>2 DEF WorkersInit
    <3> QED BY <3>1, <3>2 DEF Building
  <2>3. Copies(repo, AppFiles) /\ repo.index = repo.tree
    BY <2>1 DEF Fresh, AppContents, Copies, Holds
  <2>4. DOMAIN mem = DOMAIN AppStart("main", {}) /\ mem.made = {}
    BY <2>2 DEF AppStart
  <2> QED BY <1>1, <2>3, <2>4 DEF AppInv
<1> QED BY <1>2, <1>3, <1>4 DEF WorkersInv

\* No program turns into another.
LEMMA ProgramStays == WorkersNext => program' = program
BY DEF WorkersNext, RoleStep, BeginRole, ImplementRole, TestRole, DebugRole, RefactorRole, ReviewRole,
       Land, Write, PatchStep, PlanPatch, TestPatch, RepairPatch, CommitPatch,
       DiffStep, ProposeDiff, TestDiff, RepairDiff, GateDiff, DeliverDiff,
       AppStep, PlanFirst, CreateRepository, AnotherRun, CloneRepo, EnsureMainBase, PlanApp, PlanFiles,
       TestApp, CommitApp, PushApp, RequestApp, Scaffold

CommitsTested ==
  pc \in {"land", "commit", "deliver"} /\ repo'.head # repo.head =>
    /\ OnText => repo'.head[mem.file] = mem.passed
    /\ program \in {"nightly", "app", "universal"} => repo'.head = mem.passed

\* Of each program, its own part of the invariant; the others' do not speak of it.
LEMMA WorkersInvStep ==
  ASSUME WorkersInv, WorkersNext
  PROVE  WorkersInv' /\ CommitsTested
<1>1. program' = program
  BY ProgramStays
<1>2. CASE OnText
  <2>1. program \in {"roles", "patch"}
    BY <1>2 DEF OnText
  <2>2. NightlyInv' /\ AppInv'
    BY <1>1, <2>1 DEF NightlyInv, AppInv
  <2>3. CASE RoleStep
    <3>1. CASE Land
      <4>1. pc \in {"land", "rollback"}
        BY <3>1 DEF Land
      <4> QED BY <2>1, <2>2, <3>1, <4>1, LandInv DEF WorkersInv, CommitsTested, File
    <3>2. CASE ~Land
      <4>1. pc \notin {"land", "commit", "deliver"}
        BY <2>3, <3>2
           DEF RoleStep, BeginRole, ImplementRole, TestRole, DebugRole, RefactorRole, ReviewRole
      <4>2. OnTextInv'
        BY <2>3, <3>2, BeginInv, ImplementInv, TestInv, DebugInv, RefactorInv, ReviewInv
           DEF RoleStep, WorkersInv
      <4> QED BY <2>2, <4>1, <4>2 DEF WorkersInv, CommitsTested
    <3> QED BY <3>1, <3>2
  <2>4. CASE PatchStep
    <3>1. CASE CommitPatch
      BY <2>1, <2>2, <3>1, CommitPatchInv DEF WorkersInv, CommitsTested, File
    <3>2. CASE ~CommitPatch
      <4>1. pc \notin {"land", "commit", "deliver"}
        BY <2>4, <3>2 DEF PatchStep, PlanPatch, TestPatch, RepairPatch
      <4>2. OnTextInv'
        BY <2>4, <3>2, PlanPatchInv, TestPatchInv, RepairPatchInv DEF PatchStep, WorkersInv
      <4> QED BY <2>2, <4>1, <4>2 DEF WorkersInv, CommitsTested
    <3> QED BY <3>1, <3>2
  <2>5. ~DiffStep /\ ~AppStep
    BY <2>1 DEF DiffStep, ProposeDiff, TestDiff, RepairDiff, GateDiff, DeliverDiff,
                AppStep, PlanFirst, CreateRepository, AnotherRun, CloneRepo, EnsureMainBase, PlanApp,
                PlanFiles, TestApp, CommitApp, PushApp, RequestApp, Scaffold, Builders
  <2> QED BY <2>3, <2>4, <2>5 DEF WorkersNext
<1>3. CASE ~OnText
  <2>1. program \notin {"roles", "patch"} /\ OnTextInv'
    BY <1>1, <1>3 DEF OnText, OnTextInv
  <2>2. ~RoleStep /\ ~PatchStep
    BY <2>1 DEF RoleStep, BeginRole, ImplementRole, TestRole, DebugRole, RefactorRole, ReviewRole, Land,
                PatchStep, PlanPatch, TestPatch, RepairPatch, CommitPatch
  <2>3. CASE program = "nightly"
    <3>1. ~AppStep
      BY <2>3 DEF AppStep, PlanFirst, CreateRepository, AnotherRun, CloneRepo, EnsureMainBase, PlanApp,
                  PlanFiles, TestApp, CommitApp, PushApp, RequestApp, Scaffold, Builders
    <3>2. DiffStep
      BY <2>2, <3>1 DEF WorkersNext
    <3>3. pc \notin {"land", "commit"}
      BY <3>2 DEF DiffStep, ProposeDiff, TestDiff, RepairDiff, GateDiff, DeliverDiff
    <3>4. NightlyInv' /\ (pc = "deliver" /\ repo'.head # repo.head => repo'.head = mem.passed)
      BY <2>3, <3>2, DiffInv DEF WorkersInv
    <3>5. AppInv'
      BY <1>1, <2>3 DEF AppInv
    <3> QED BY <1>3, <2>1, <3>3, <3>4, <3>5 DEF WorkersInv, CommitsTested
  <2>4. CASE Building
    <3>1. ~DiffStep
      BY <2>4 DEF DiffStep, ProposeDiff, TestDiff, RepairDiff, GateDiff, DeliverDiff, Building
    <3>2. AppStep
      BY <2>2, <3>1 DEF WorkersNext
    <3>3. pc \notin {"land", "commit"}
      BY <3>2 DEF AppStep, PlanFirst, CreateRepository, AnotherRun, CloneRepo, EnsureMainBase, PlanApp,
                  PlanFiles, TestApp, CommitApp, PushApp, RequestApp, Scaffold
    <3>4. AppInv' /\ (pc = "deliver" /\ repo'.head # repo.head => repo'.head = mem.passed)
      BY <2>4, <3>2, AppStepInv DEF WorkersInv
    <3>5. NightlyInv'
      BY <1>1, <2>4 DEF NightlyInv, Building
    <3> QED BY <1>3, <2>1, <3>3, <3>4, <3>5 DEF WorkersInv, CommitsTested
  <2>5. CASE program # "nightly" /\ ~Building
    BY <1>1, <1>3, <2>1, <2>5 DEF WorkersInv, CommitsTested, NightlyInv, AppInv, Building
  <2> QED BY <2>3, <2>4, <2>5
<1> QED BY <1>2, <1>3

LEMMA WorkersInvHolds == WorkersSpec => []WorkersInv
<1>1. WorkersInv /\ UNCHANGED shared => WorkersInv'
  BY DEF WorkersInv, OnTextInv, NightlyInv, AppInv, shared, OnText, KeptSince0, File, Text
<1>2. WorkersInv /\ [WorkersNext]_shared => WorkersInv'
  BY <1>1, WorkersInvStep
<1> QED BY <1>2, WorkersInvInit, PTL DEF WorkersSpec

\* For every repository and every answer of a model: no sequence of plans, repairs, salvaged
\* repairs and refactorings commits a file that has lost or changed a test.
THEOREM TestsAreKept == WorkersSpec => []TestsKept
<1>1. WorkersInv => TestsKept
  BY DEF WorkersInv, OnTextInv, TestsKept, OnText, KeptSince0, File
<1> QED BY <1>1, WorkersInvHolds, PTL

\* What the roles, the stand-alone worker, the nightly worker and the builders of whole
\* applications commit is what their last test run saw.
THEOREM CommitsAreTested == WorkersSpec => TestedIsCommitted
<1>1. WorkersInv /\ [WorkersNext]_shared => [CommitsTested]_shared
  BY WorkersInvStep
<1>2. [CommitsTested]_shared =>
        [(pc \in {"land", "commit", "deliver"} /\ repo'.head # repo.head) =>
           /\ OnText => repo'.head[mem.file] = mem.passed
           /\ program \in {"nightly", "app", "universal"} => repo'.head = mem.passed]_shared
  BY DEF CommitsTested
<1> QED BY <1>1, <1>2, WorkersInvHolds, PTL DEF WorkersSpec, TestedIsCommitted
=============================================================================
