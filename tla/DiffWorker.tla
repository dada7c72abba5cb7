----------------------------- MODULE DiffWorker -----------------------------
(***************************************************************************)
(* Unified diffs turned into commits: scripts/line_development_worker.py   *)
(* ("v1", which opens a pull request or, at night, leaves a commit) and    *)
(* scripts/nightly_task_worker.py ("nightly", with the safety gate of      *)
(* core/execution_safety.py).  A file holds Absent, what was committed, or *)
(* what the first or the second patch makes of it.                         *)
(***************************************************************************)
EXTENDS WorkerRepo

Absent  == 0
Main    == 1
Tracked == {"one", "two"}
Paths   == Tracked \cup {"fresh"}

DiffFiles == [p \in Paths |-> IF p \in Tracked THEN Main ELSE Absent]
DiffStart == [chosen |-> {}, patch |-> <<>>, attempts |-> 0, passed |-> DiffFiles]

\* validate_diff names the files a patch leaves there, and no file it deletes.
Patches(seen, new) ==
  UNION {{[base |-> [p \in ps |-> seen[p]], result |-> r] :
            r \in {q \in [ps -> {Absent, Main, new}] :
                     (\A p \in ps : q[p] # seen[p]) /\ \E p \in ps : q[p] # Absent}}
           : ps \in (SUBSET Paths) \ {{}}}

\* git apply --check, and git apply.
Fits(r, patch)    == \A p \in DOMAIN patch.base : r.tree[p] = patch.base[p]
Applied(r, patch) == [r EXCEPT !.tree = Taken(patch.result, r.tree, DOMAIN patch.result)]

Leave(r) == pc' = "exit" /\ repo' = r /\ UNCHANGED mem

\* The files, a policy that may refuse them, and the first patch.  Without a diff the
\* first worker only runs the tests.
ProposeDiff ==
  /\ program \in {"v1", "nightly"} /\ pc = "idle"
  /\ \/ Leave(repo)
     \/ \E chosen \in (SUBSET Tracked) \ {{}}, patch \in Patches(repo.tree, 2) :
          /\ pc' = "apply" /\ UNCHANGED repo
          /\ mem' = [mem EXCEPT !.chosen = chosen, !.patch = patch, !.attempts = 1]
  /\ UNCHANGED program

\* apply_and_test.  A patch that does not apply fails like a test, and pytest that
\* takes too long ends the process.
TestDiff ==
  /\ program \in {"v1", "nightly"} /\ pc = "apply"
  /\ LET fits == Fits(repo, mem.patch)
         after == IF fits THEN Applied(repo, mem.patch) ELSE repo
     IN  \/ /\ fits /\ repo' = after
            /\ pc' = IF program = "nightly" THEN "gate" ELSE "deliver"
            /\ mem' = [mem EXCEPT !.passed = after.tree]
         \/ mem.attempts = 1 /\ pc' = "repair" /\ repo' = after /\ UNCHANGED mem
         \/ mem.attempts = 2 /\ Leave(Restored(after, mem.chosen))
         \/ fits /\ Leave(after)
  /\ UNCHANGED program

\* The one repair, of the files as the prompt shows them or as they are restored.  A
\* rejected repair leaves the first worker's files patched.
RepairDiff ==
  /\ program \in {"v1", "nightly"} /\ pc = "repair"
  /\ LET restored == Restored(repo, mem.chosen)
     IN  \/ Leave(repo)
         \/ program = "nightly" /\ Leave(restored)
         \/ \E patch \in Patches(repo.tree, 3) \cup Patches(restored.tree, 3) :
              /\ pc' = "apply" /\ repo' = restored
              /\ mem' = [mem EXCEPT !.patch = patch, !.attempts = 2]
  /\ UNCHANGED program

\* GitWorktreeSafetyGate.verify: something changed, all of it in the manifest.
Verified(r, allowed) ==
  LET changed == {p \in DOMAIN r.tree : r.tree[p] # r.head[p]}
  IN  changed # {} /\ changed \subseteq allowed

GateDiff ==
  /\ program = "nightly" /\ pc = "gate"
  /\ \/ Verified(repo, mem.chosen) /\ pc' = "deliver" /\ UNCHANGED <<repo, mem>>
     \/ Leave(Restored(repo, mem.chosen))
  /\ UNCHANGED program

\* Only the chosen files are added.  A branch, an add or a commit that fails leaves
\* everything where it is.
DeliverDiff ==
  /\ program \in {"v1", "nightly"} /\ pc = "deliver"
  /\ LET staged == Staged(repo, mem.chosen)
     IN  \/ Leave(repo)
         \/ repo.tree # repo.index /\ Leave(staged)
         \/ staged.index # repo.head /\ Leave(Committed(staged))
  /\ UNCHANGED program

DiffStep == ProposeDiff \/ TestDiff \/ RepairDiff \/ GateDiff \/ DeliverDiff
=============================================================================
