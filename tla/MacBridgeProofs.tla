-------------------------- MODULE MacBridgeProofs --------------------------
(***************************************************************************)
(* Proofs about MacBridge, for every number of jobs, every finite set of   *)
(* bridges of either type, every value of max_retries and of               *)
(* stale_after_seconds, with and without faults of the server.             *)
(***************************************************************************)
EXTENDS MacBridge, FiniteSetTheorems, TLAPS

\* The queue again, with what JobQueueProofs proves about it.
Table == INSTANCE JobQueueProofs

USE TableAssumption

-----------------------------------------------------------------------------
(* The table under the bridges *)

\* Table and Queue name the same operators on the same variables.
LEMMA SameOperations ==
  /\ Queue!Init <=> Table!Init
  /\ \A t \in JobTypes : Queue!CreateJob(t) <=> Table!CreateJob(t)
  /\ \A t \in JobTypes : Queue!ClaimNothing(t) <=> Table!ClaimNothing(t)
  /\ \A t \in JobTypes, j \in Jobs : Queue!Grant(t, j) <=> Table!Grant(t, j)
  /\ \A t \in JobTypes, j \in Jobs : Queue!Cancel(j, t) <=> Table!Cancel(j, t)
  /\ \A j, token, success, error :
        Queue!Complete(j, token, success, error) <=> Table!Complete(j, token, success, error)
  /\ Queue!Tick <=> Table!Tick
  BY DEF Queue!Init, Table!Init, Queue!CreateJob, Table!CreateJob,
         Queue!ClaimNothing, Table!ClaimNothing, Queue!Grant, Table!Grant,
         Queue!Complete, Table!Complete, Queue!Cancel, Table!Cancel,
         Queue!Tick, Table!Tick, Queue!Claimable, Table!Claimable,
         Queue!SweptJobs, Table!SweptJobs, Queue!Swept, Table!Swept,
         Queue!IsStale, Table!IsStale, Queue!Jobs, Table!Jobs,
         Queue!NoRow, Table!NoRow, Queue!NoToken, Table!NoToken,
         Queue!HoldsClaim, Table!HoldsClaim

\* So do they name the same words and rows.
LEMMA SameWords ==
  /\ Queue!Reports = {"none", "reported"} /\ Table!Reports = {"none", "reported"}
  /\ \A row : Queue!ReportedFailed(row) <=> Table!ReportedFailed(row)
  BY DEF Queue!Reports, Table!Reports, Queue!ReportedFailed, Table!ReportedFailed

\* The outcome of the row was reported by a bridge, and was s.
Says(row, s) ==
  IF s THEN row.status = "completed" ELSE Table!ReportedFailed(row)

\* Nobody reported the row, and nobody claimed it.
SameWord(old, new) ==
  /\ new.status = "completed" <=> old.status = "completed"
  /\ Table!ReportedFailed(new) <=> Table!ReportedFailed(old)

\* The invariant of the table, and that an id not in use has used no retry.
TInv ==
  /\ Table!IInv
  /\ \A j \in Jobs : job[j].status = "absent" => job[j].retry = 0

\* The table goes from one good state to another, no row is reported, and only
\* the row claimed is handed out once more.
TableStep(claimed) ==
  /\ TInv' /\ [Table!Next]_(Table!vars)
  /\ \A j \in Jobs :
       /\ SameWord(job[j], job'[j])
       /\ Table!Grants(job'[j]) =
            Table!Grants(job[j]) + (IF j \in claimed THEN 1 ELSE 0)

\* A row has its retries, and one attempt more while it runs.
LEMMA GrantsType ==
  ASSUME NEW row \in Table!Row
  PROVE  Table!Grants(row) \in Nat
  BY DEF Table!Row, Table!Grants

\* A sweep reports nothing and hands nothing out.
LEMMA SweptQuiet ==
  ASSUME NEW row \in Table!Row, NEW t \in JobTypes,
         row.status \notin Table!Closed => row.error = "none"
  PROVE  /\ SameWord(row, Table!Swept(row, t))
         /\ Table!Grants(Table!Swept(row, t)) = Table!Grants(row)
         /\ Table!Swept(row, t).status = "absent" => Table!Swept(row, t) = row
  <1>1. /\ row.retry \in Nat
        /\ row.status = "running" => row.error = "none"
    BY DEF Table!Row, Table!Errors, Table!Closed
  <1>2. CASE Table!Swept(row, t) = row
    BY <1>2 DEF SameWord
  <1>3. CASE Table!Swept(row, t) # row
    BY <1>1, <1>3, Table!SweptRow DEF SameWord, Table!Grants, Table!ReportedFailed, Table!Reports
  <1> QED BY <1>2, <1>3

\* A good row that runs, or waits, says no error.
LEMMA GoodRows ==
  ASSUME TInv, NEW j \in Jobs
  PROVE  /\ job[j] \in Table!Row
         /\ Table!Grants(job[j]) \in Nat
         /\ job[j].status \notin Table!Closed => job[j].error = "none"
         /\ issued \in Nat
  BY GrantsType DEF TInv, Table!IInv, Table!TypeOK, Table!FailureAccounted, Jobs, Table!Jobs

LEMMA ClaimNothingStep ==
  ASSUME TInv, NEW t \in JobTypes, Table!ClaimNothing(t)
  PROVE  TableStep({})
  <1>1. [Table!Next]_(Table!vars)
    BY DEF Table!Next, Table!Claim
  <1>2. Table!IInv'
    BY <1>1, Table!NextIInv DEF TInv
  <1>3. ASSUME NEW j \in Jobs
        PROVE  job'[j] = Table!Swept(job[j], t)
    BY <1>3 DEF Table!ClaimNothing, Table!SweptJobs, Jobs, Table!Jobs
  <1>4. TInv'
    BY <1>2, <1>3, GoodRows, SweptQuiet DEF TInv
  <1> QED BY <1>1, <1>3, <1>4, GoodRows, SweptQuiet DEF TableStep

LEMMA GrantStep ==
  ASSUME TInv, NEW t \in JobTypes, NEW k \in Jobs, Table!Grant(t, k)
  PROVE  TableStep({k})
  <1> DEFINE swept == Table!SweptJobs(t)
             granted == [swept[k] EXCEPT !.status = "running",
                                         !.token = issued + 1, !.age = 0]
  <1>1. [Table!Next]_(Table!vars)
    BY DEF Table!Next, Table!Claim, Jobs, Table!Jobs
  <1>2. Table!IInv'
    BY <1>1, Table!NextIInv DEF TInv
  <1>3. job' = [swept EXCEPT ![k] = granted] /\ swept[k].status = "pending"
    BY DEF Table!Grant, Table!Claimable
  <1>4. ASSUME NEW j \in Jobs
        PROVE  /\ swept[j] = Table!Swept(job[j], t) /\ swept[j] \in Table!Row
               /\ job'[j] = IF j = k THEN granted ELSE swept[j]
               /\ SameWord(job[j], swept[j])
               /\ Table!Grants(swept[j]) = Table!Grants(job[j])
    <2>1. swept[j] = Table!Swept(job[j], t)
      BY DEF Table!SweptJobs, Jobs, Table!Jobs
    <2>2. job'[j] = IF j = k THEN granted ELSE swept[j]
      BY <1>3 DEF Table!SweptJobs, Jobs, Table!Jobs
    <2> QED BY <2>1, <2>2, GoodRows, SweptQuiet, Table!SweptRow
  <1>5. job'[k].status = "running" /\ job'[k].error = "none"
    <2>1. job'[k] = granted /\ swept[k] \in Table!Row
      BY <1>4
    <2>2. granted.status = "running" /\ granted.error = swept[k].error
      BY <2>1 DEF Table!Row
    <2>3. job'[k].status \notin Table!Closed => job'[k].error = "none"
      BY <1>2 DEF Table!IInv, Table!FailureAccounted, Jobs, Table!Jobs
    <2> QED BY <2>1, <2>2, <2>3 DEF Table!Closed
  <1>6. SameWord(job[k], job'[k])
        /\ Table!Grants(job'[k]) = Table!Grants(job[k]) + 1
    <2>1. job'[k] = granted /\ swept[k] \in Table!Row
      BY <1>4
    <2>2. /\ granted.error = swept[k].error /\ granted.retry = swept[k].retry
          /\ swept[k].retry \in Nat
      BY <2>1 DEF Table!Row
    <2>3. SameWord(swept[k], granted)
      BY <1>3, <1>5, <2>1, <2>2 DEF SameWord, Table!ReportedFailed, Table!Reports
    <2>4. Table!Grants(granted) = Table!Grants(swept[k]) + 1
      BY <1>3, <1>5, <2>1, <2>2 DEF Table!Grants
    <2> QED BY <1>4, <2>1, <2>3, <2>4 DEF SameWord
  <1>7. ASSUME NEW j \in Jobs
        PROVE  /\ SameWord(job[j], job'[j])
               /\ Table!Grants(job'[j]) =
                    Table!Grants(job[j]) + (IF j \in {k} THEN 1 ELSE 0)
    BY <1>4, <1>6, GoodRows
  <1>8. TInv'
    BY <1>2, <1>4, <1>5, GoodRows, SweptQuiet DEF TInv
  <1> QED BY <1>1, <1>7, <1>8 DEF TableStep

LEMMA CreateStep ==
  ASSUME TInv, NEW t \in JobTypes, Table!CreateJob(t)
  PROVE  TableStep({})
  <1>1. [Table!Next]_(Table!vars)
    BY DEF Table!Next
  <1>2. Table!IInv'
    BY <1>1, Table!NextIInv DEF TInv
  <1> DEFINE row == [Table!NoRow EXCEPT !.type = t, !.status = "pending"]
  <1>3. PICK k \in Jobs : job[k].status = "absent" /\ job' = [job EXCEPT ![k] = row]
    BY DEF Table!CreateJob, Jobs, Table!Jobs
  <1>4. row.status = "pending" /\ row.error = "none" /\ row.retry = 0
    BY DEF Table!NoRow
  <1>5. \A j \in Jobs : job'[j] = IF j = k THEN row ELSE job[j]
    BY <1>3 DEF TInv, Table!IInv, Table!TypeOK, Jobs, Table!Jobs
  <1>6. /\ SameWord(job[k], row)
        /\ Table!Grants(row) = Table!Grants(job[k])
    BY <1>3, <1>4, GoodRows DEF SameWord, Table!Grants, TInv, Table!Closed, Table!ReportedFailed, Table!Reports
  <1>7. ASSUME NEW j \in Jobs
        PROVE  /\ SameWord(job[j], job'[j]) /\ Table!Grants(job'[j]) = Table!Grants(job[j])
               /\ job'[j].status = "absent" => job'[j] = job[j]
    BY <1>4, <1>5, <1>6 DEF SameWord
  <1>8. TInv'
    BY <1>2, <1>7 DEF TInv
  <1> QED BY <1>1, <1>7, <1>8, GoodRows DEF TableStep

LEMMA CancelStep ==
  ASSUME TInv, NEW t \in JobTypes, NEW k \in Jobs, Table!Cancel(k, t)
  PROVE  TableStep({})
  <1>1. [Table!Next]_(Table!vars)
    BY DEF Table!Next, Jobs, Table!Jobs
  <1>2. Table!IInv'
    BY <1>1, Table!NextIInv DEF TInv
  <1> DEFINE row == [job[k] EXCEPT !.status = "failed", !.error = "cancelled"]
  <1>3. \A j \in Jobs : job'[j] = IF j = k THEN row ELSE job[j]
    BY DEF Table!Cancel, TInv, Table!IInv, Table!TypeOK, Jobs, Table!Jobs
  <1>4. job[k].status = "pending" /\ job[k].error = "none"
    BY GoodRows DEF Table!Cancel, Table!Closed
  <1>5. /\ row.status = "failed" /\ row.error = "cancelled"
        /\ row.retry = job[k].retry
    BY GoodRows DEF Table!Row
  <1>6. /\ SameWord(job[k], row)
        /\ Table!Grants(row) = Table!Grants(job[k])
    BY <1>4, <1>5 DEF SameWord, Table!Grants, Table!ReportedFailed, Table!Reports
  <1>7. ASSUME NEW j \in Jobs
        PROVE  /\ SameWord(job[j], job'[j]) /\ Table!Grants(job'[j]) = Table!Grants(job[j])
               /\ job'[j].status = "absent" => job'[j] = job[j]
    BY <1>3, <1>5, <1>6 DEF SameWord
  <1>8. TInv'
    BY <1>2, <1>7 DEF TInv
  <1> QED BY <1>1, <1>7, <1>8, GoodRows DEF TableStep

LEMMA TickStep ==
  ASSUME TInv, Table!Tick
  PROVE  TableStep({})
  <1>1. [Table!Next]_(Table!vars)
    BY DEF Table!Next
  <1>2. Table!IInv'
    BY <1>1, Table!NextIInv DEF TInv
  <1>3. ASSUME NEW j \in Jobs
        PROVE  /\ job'[j].status = job[j].status /\ job'[j].error = job[j].error
               /\ job'[j].retry = job[j].retry
    BY GoodRows DEF Table!Tick, Table!Row, Jobs, Table!Jobs
  <1>4. ASSUME NEW j \in Jobs
        PROVE  SameWord(job[j], job'[j]) /\ Table!Grants(job'[j]) = Table!Grants(job[j])
    BY <1>3 DEF SameWord, Table!Grants, Table!ReportedFailed
  <1>5. TInv'
    BY <1>2, <1>3 DEF TInv
  <1> QED BY <1>1, <1>4, <1>5, GoodRows DEF TableStep

\* A report closes the row it was claimed for with its outcome, and counts as
\* the attempt it was.
LEMMA CompleteStep ==
  ASSUME TInv, NEW k \in Jobs, NEW token \in Nat, NEW success \in BOOLEAN,
         NEW error \in Table!Reports, Table!Complete(k, token, success, error)
  PROVE  /\ TInv' /\ [Table!Next]_(Table!vars)
         /\ job[k].status = "running" /\ job[k].error = "none"
         /\ \A s \in BOOLEAN : Says(job'[k], s) <=> s = success
         /\ \A j \in Jobs : Table!Grants(job'[j]) = Table!Grants(job[j])
         /\ \A j \in Jobs \ {k} : job'[j] = job[j]
  <1>1. job[k].status = "running" /\ job[k].token = token /\ job[k].error = "none"
    BY GoodRows DEF Table!Complete, Table!HoldsClaim, Table!Closed
  <1>2. token \in 1..issued
    <2>1. job[k].token # 0 /\ job[k].token <= issued
      BY <1>1 DEF TInv, Table!IInv, Table!ClaimSafety, Table!TokenIffRunning,
                  Table!TokenExclusive, Table!NoToken, Jobs, Table!Jobs
    <2> QED BY <1>1, <2>1, GoodRows
  <1>3. [Table!Next]_(Table!vars)
    BY <1>2 DEF Table!Next, Jobs, Table!Jobs
  <1>4. Table!IInv'
    BY <1>3, Table!NextIInv DEF TInv
  <1> DEFINE row == [job[k] EXCEPT !.status = IF success THEN "completed" ELSE "failed",
                                   !.error = error,
                                   !.token = Table!NoToken, !.age = 0]
  <1>5. \A j \in Jobs : job'[j] = IF j = k THEN row ELSE job[j]
    BY DEF Table!Complete, TInv, Table!IInv, Table!TypeOK, Jobs, Table!Jobs
  <1>6. /\ row.status = IF success THEN "completed" ELSE "failed"
        /\ row.error = error
        /\ row.retry = job[k].retry
    BY GoodRows DEF Table!Row
  <1>7. Table!Grants(row) = Table!Grants(job[k])
    BY <1>1, <1>6 DEF Table!Grants, Table!Reports
  <1>8. \A s \in BOOLEAN : Says(row, s) <=> s = success
    BY <1>6 DEF Says, Table!ReportedFailed
  <1>9. TInv'
    <2>1. row.status # "absent"
      BY <1>6
    <2> QED BY <1>4, <1>5, <2>1 DEF TInv
  <1> QED BY <1>1, <1>3, <1>5, <1>7, <1>8, <1>9

-----------------------------------------------------------------------------
(* The inductive invariant *)

\* The bridges and the handlers hold values of their types.
Types ==
  /\ bridge \in [Bridges -> BridgeState]
  /\ calls \subseteq Call
  /\ applied \in [Jobs -> Nat]
  /\ told \in [Jobs -> Seq(BOOLEAN)]
  /\ untold \subseteq Jobs
  /\ wordless \subseteq Jobs

\* What a user heard is what the row says.  A handler whose report was accepted
\* is the only one of its job, says what the row says, and nobody heard it yet.
Verdicts ==
  /\ \A j \in Jobs :
       \/ told[j] = <<>>
       \/ \E s \in BOOLEAN : told[j] = <<s>> /\ Says(job[j], s)
  /\ \A c \in calls :
       Accepted(c) => told[c.job] = <<>> /\ Says(job[c.job], c.success)
  /\ \A c, d \in calls :
       Accepted(c) /\ Accepted(d) /\ c.job = d.job => c = d

\* The bridges that were handed the job and have not executed it yet.
Holders(j) == {b \in Bridges : bridge[b].pc = "holding" /\ bridge[b].job = j}

\* Every execution, done or still to come, was paid for by a claim.
Paid ==
  \A j \in Jobs : applied[j] + Cardinality(Holders(j)) <= Table!Grants(job[j])

\* A success that a bridge, a handler or the row speaks of did take effect.
TookEffect ==
  /\ \A b \in Bridges :
       bridge[b].pc = "executed" /\ bridge[b].success => applied[bridge[b].job] > 0
  /\ \A c \in calls : c.success => applied[c.job] > 0
  /\ \A j \in Jobs : job[j].status = "completed" => applied[j] > 0

Reporting == Verdicts /\ ReportsAreTold

IInv == TInv /\ Types /\ Reporting /\ Paid /\ TookEffect

\* What a bridge keeps, told from its program counter.
LEMMA StateFacts ==
  ASSUME Types, NEW b \in Bridges
  PROVE  /\ bridge[b].pc \in {"idle", "holding", "executed", "waiting"}
         /\ bridge[b].pc \in {"holding", "executed"} =>
              bridge[b].job \in Jobs /\ bridge[b].token \in Nat
         /\ bridge[b].pc = "executed" => bridge[b].success \in BOOLEAN
         /\ bridge[b].pc = "idle" <=> bridge[b] = Idle
  <1>1. bridge[b] \in BridgeState
    BY DEF Types
  <1> QED BY <1>1 DEF BridgeState, Idle

\* The table is empty, nobody works, and nobody was told anything.
LEMMA InitIInv == Init => IInv
  <1> SUFFICES ASSUME Init PROVE IInv
    OBVIOUS
  <1>1. \A j \in Jobs : job[j] = Table!NoRow
    BY DEF Init, Queue!Init, Queue!Jobs, Queue!NoRow, Table!NoRow, Jobs,
           Queue!NoToken, Table!NoToken
  <1>2. TInv
    BY <1>1, SameOperations, Table!InitIInv DEF Init, TInv, Table!NoRow
  <1>3. Types
    BY DEF Init, Types, BridgeState, Idle
  <1>4. Reporting
    BY <1>1, SameWords
       DEF Init, Reporting, Verdicts, ReportsAreTold, Table!NoRow, Table!ReportedFailed
  <1>5. Paid
    <2>1. \A j \in Jobs : Holders(j) = {}
      BY DEF Holders, Init, Idle
    <2>2. Table!Grants(Table!NoRow) = 0
      BY DEF Table!NoRow, Table!Grants
    <2>3. ASSUME NEW j \in Jobs
          PROVE  applied[j] = 0 /\ Cardinality(Holders(j)) = 0 /\ Table!Grants(job[j]) = 0
      <3>1. applied[j] = 0
        BY DEF Init
      <3>2. Cardinality(Holders(j)) = 0
        BY <2>1, FS_EmptySet
      <3>3. Table!Grants(job[j]) = 0
        BY <1>1, <2>2
      <3> QED BY <3>1, <3>2, <3>3
    <2> QED BY <2>3 DEF Paid
  <1>6. TookEffect
    BY <1>1 DEF Init, TookEffect, Idle, Table!NoRow
  <1> QED BY <1>2, <1>3, <1>4, <1>5, <1>6 DEF IInv

-----------------------------------------------------------------------------
(* Steps that tell nobody anything *)

\* As long as no report is accepted, finished or forgotten, what was told stays
\* right.
LEMMA KeepsReporting ==
  ASSUME IInv, told' = told, untold' = untold, wordless' = wordless,
         \A j \in Jobs : SameWord(job[j], job'[j]),
         {c \in calls' : Accepted(c)} = {c \in calls : Accepted(c)}
  PROVE  Reporting'
  <1>1. \A c : c \in calls' /\ Accepted(c) <=> c \in calls /\ Accepted(c)
    OBVIOUS
  <1>2. \A c \in calls : c.job \in Jobs
    BY DEF IInv, Types, Call
  <1>3. \A j \in Jobs, s \in BOOLEAN : Says(job'[j], s) <=> Says(job[j], s)
    BY DEF Says, SameWord
  <1>4. \A c \in calls : c.success \in BOOLEAN
    BY DEF IInv, Types, Call
  <1>5. Verdicts'
    BY <1>1, <1>2, <1>3, <1>4 DEF IInv, Reporting, Verdicts, Accepted
  <1>6. ReportsAreTold'
    BY <1>1, SameWords DEF IInv, Reporting, ReportsAreTold, BeingTold, SameWord
  <1> QED BY <1>5, <1>6 DEF Reporting

\* As long as nobody executes anything or is handed a job, what took effect
\* stays paid for.
LEMMA KeepsEffects ==
  ASSUME IInv, TInv', applied' = applied,
         \A j \in Jobs : job'[j].status = "completed" => applied[j] > 0,
         \A j \in Jobs : Table!Grants(job'[j]) >= Table!Grants(job[j]),
         \A j \in Jobs : Holders(j)' \subseteq Holders(j),
         \A b \in Bridges : bridge'[b].pc = "executed" => bridge'[b] = bridge[b],
         \A c \in calls' : c.success => applied[c.job] > 0
  PROVE  Paid' /\ TookEffect'
  <1>1. ASSUME NEW j \in Jobs
        PROVE  applied'[j] + Cardinality(Holders(j)') <= Table!Grants(job'[j])
    <2>1. IsFiniteSet(Holders(j))
      BY BridgesAssumption, FS_Subset DEF Holders
    <2>2. /\ Cardinality(Holders(j)') <= Cardinality(Holders(j))
          /\ Cardinality(Holders(j)') \in Nat /\ Cardinality(Holders(j)) \in Nat
      BY <2>1, FS_Subset, FS_CardinalityType
    <2>3. Table!Grants(job[j]) \in Nat /\ Table!Grants(job'[j]) \in Nat
      <3>1. job'[j] \in Table!Row
        BY DEF TInv, Table!IInv, Table!TypeOK, Jobs, Table!Jobs
      <3> QED BY <3>1, GoodRows, GrantsType DEF IInv
    <2>4. applied[j] \in Nat /\ applied[j] + Cardinality(Holders(j)) <= Table!Grants(job[j])
      BY DEF IInv, Types, Paid
    <2>5. Table!Grants(job'[j]) >= Table!Grants(job[j])
      OBVIOUS
    <2> QED BY <2>2, <2>3, <2>4, <2>5
  <1>2. TookEffect'
    BY DEF IInv, TookEffect
  <1> QED BY <1>1, <1>2 DEF Paid, Holders

\* LINE, the operator, the clock, and a claim whose answer is lost.
LEMMA TableInv ==
  ASSUME IInv, NEW claimed, TableStep(claimed), UNCHANGED <<bridge, world>>
  PROVE  IInv'
  <1>1. Types'
    BY DEF IInv, Types, world
  <1>2. Reporting'
    BY KeepsReporting DEF TableStep, world
  <1>3. \A j \in Jobs : Table!Grants(job'[j]) >= Table!Grants(job[j])
    BY GoodRows DEF TableStep, IInv
  <1>4. Paid' /\ TookEffect'
    BY <1>3, KeepsEffects
       DEF TableStep, world, Holders, IInv, TookEffect, SameWord
  <1> QED BY <1>1, <1>2, <1>4 DEF IInv, TableStep

\* The table is left alone.
LEMMA SameTable ==
  ASSUME IInv, UNCHANGED <<job, issued>>
  PROVE  /\ TInv'
         /\ \A j \in Jobs : SameWord(job[j], job'[j])
         /\ \A j \in Jobs : Table!Grants(job'[j]) >= Table!Grants(job[j])
  <1>1. [Table!Next]_(Table!vars)
    BY DEF Table!vars
  <1>2. Table!IInv'
    BY <1>1, Table!NextIInv DEF IInv, TInv
  <1> QED BY <1>2, GoodRows DEF IInv, TInv, SameWord

\* The bridge forgets what it did: a lost report, an answer, a crash.
LEMMA ForgetInv ==
  ASSUME IInv, NEW b \in Bridges, bridge' = [bridge EXCEPT ![b] = Idle],
         UNCHANGED <<job, issued, world>>
  PROVE  IInv'
  <1>1. Types'
    BY DEF IInv, Types, world, BridgeState, Idle
  <1>2. Reporting'
    BY KeepsReporting, SameTable DEF world
  <1>3. \A a \in Bridges : bridge'[a] = IF a = b THEN Idle ELSE bridge[a]
    BY DEF IInv, Types
  <1>4. \A j \in Jobs : Holders(j)' \subseteq Holders(j)
    BY <1>3 DEF Holders, Idle
  <1>5. \A a \in Bridges : bridge'[a].pc = "executed" => bridge'[a] = bridge[a]
    BY <1>3 DEF Idle
  <1>6. Paid' /\ TookEffect'
    BY <1>4, <1>5, SameTable, KeepsEffects DEF world, IInv, TookEffect
  <1> QED BY <1>1, <1>2, <1>6, SameTable DEF IInv

LEMMA SendCompleteInv ==
  ASSUME IInv, NEW b \in Bridges, SendComplete(b)
  PROVE  IInv'
  <1>1. PICK incident \in BOOLEAN :
          calls' = calls \cup
            {[job |-> bridge[b].job, token |-> bridge[b].token,
              success |-> bridge[b].success, incident |-> incident,
              stage |-> "arrived"]}
    BY DEF SendComplete
  <1> DEFINE new == [job |-> bridge[b].job, token |-> bridge[b].token,
                     success |-> bridge[b].success, incident |-> incident,
                     stage |-> "arrived"]
  <1>2. /\ bridge[b].pc = "executed" /\ bridge' = [bridge EXCEPT ![b] = [pc |-> "waiting"]]
        /\ UNCHANGED <<job, issued, applied, told, untold, wordless>>
    BY DEF SendComplete
  <1>3. new \in Call /\ (new.success => applied[new.job] > 0)
    BY <1>2, StateFacts DEF IInv, TookEffect, Call
  <1>4. Types'
    BY <1>1, <1>2, <1>3 DEF IInv, Types, BridgeState
  <1>5. {c \in calls' : Accepted(c)} = {c \in calls : Accepted(c)}
    BY <1>1 DEF Accepted
  <1>6. Reporting'
    BY <1>2, <1>5, KeepsReporting, SameTable
  <1>7. \A a \in Bridges : bridge'[a] = IF a = b THEN [pc |-> "waiting"] ELSE bridge[a]
    BY <1>2 DEF IInv, Types
  <1>8. \A j \in Jobs : Holders(j)' \subseteq Holders(j)
    BY <1>7 DEF Holders
  <1>9. \A a \in Bridges : bridge'[a].pc = "executed" => bridge'[a] = bridge[a]
    BY <1>7
  <1>10. \A c \in calls' : c.success => applied[c.job] > 0
    BY <1>1, <1>3 DEF IInv, TookEffect
  <1>11. Paid' /\ TookEffect'
    BY <1>2, <1>8, <1>9, <1>10, SameTable, KeepsEffects DEF IInv, TookEffect
  <1> QED BY <1>2, <1>4, <1>6, <1>11, SameTable DEF IInv

-----------------------------------------------------------------------------
(* A claim and an execution *)

\* The claim of a bridge that answered pays for the execution the bridge owes.
LEMMA GrantedInv ==
  ASSUME IInv, NEW b \in Bridges, NEW k \in Jobs, TableStep({k}), bridge[b] = Idle,
         bridge' = [bridge EXCEPT ![b] =
                      [pc |-> "holding", job |-> k, token |-> issued + 1]],
         UNCHANGED world
  PROVE  IInv'
  <1> DEFINE held == [pc |-> "holding", job |-> k, token |-> issued + 1]
  <1>1. \A a \in Bridges : bridge'[a] = IF a = b THEN held ELSE bridge[a]
    BY DEF IInv, Types
  <1>2. Types'
    <2>1. held \in BridgeState
      BY GoodRows DEF IInv, BridgeState
    <2> QED BY <2>1 DEF IInv, Types, world
  <1>3. Reporting'
    BY KeepsReporting DEF TableStep, world
  <1>4. ASSUME NEW j \in Jobs
        PROVE  applied'[j] + Cardinality(Holders(j)') <= Table!Grants(job'[j])
    <2>1. IsFiniteSet(Holders(j)) /\ Cardinality(Holders(j)) \in Nat
      BY BridgesAssumption, FS_Subset, FS_CardinalityType DEF Holders
    <2>2. Table!Grants(job[j]) \in Nat /\ applied[j] \in Nat /\ applied'[j] = applied[j]
      BY GoodRows DEF IInv, Types, world
    <2>3. applied[j] + Cardinality(Holders(j)) <= Table!Grants(job[j])
      BY DEF IInv, Paid
    <2>4. CASE j = k
      <3>1. Holders(j)' = Holders(j) \cup {b} /\ b \notin Holders(j)
        BY <1>1, <2>4 DEF Holders, Idle
      <3>2. Cardinality(Holders(j)') = Cardinality(Holders(j)) + 1
        BY <2>1, <3>1, FS_AddElement
      <3>3. Table!Grants(job'[j]) = Table!Grants(job[j]) + 1
        BY <2>4 DEF TableStep
      <3> QED BY <2>1, <2>2, <2>3, <3>2, <3>3
    <2>5. CASE j # k
      <3>1. Holders(j)' = Holders(j)
        BY <1>1, <2>5 DEF Holders, Idle
      <3>2. Table!Grants(job'[j]) = Table!Grants(job[j])
        BY <2>2, <2>5 DEF TableStep
      <3> QED BY <2>2, <2>3, <3>1, <3>2
    <2> QED BY <2>4, <2>5
  <1>5. TookEffect'
    BY <1>1 DEF IInv, TookEffect, TableStep, SameWord, world
  <1> QED BY <1>2, <1>3, <1>4, <1>5 DEF IInv, TableStep, Paid, Holders

\* The execution that a bridge owed is owed no longer.
LEMMA ExecuteInv ==
  ASSUME IInv, NEW b \in Bridges, Execute(b)
  PROVE  IInv'
  <1> DEFINE k == bridge[b].job
  <1>1. PICK success \in BOOLEAN, effect \in BOOLEAN :
          /\ success => effect
          /\ applied' = IF effect THEN [applied EXCEPT ![k] = @ + 1] ELSE applied
          /\ bridge' = [bridge EXCEPT ![b] =
                          [pc |-> "executed", job |-> k,
                           token |-> bridge[b].token, success |-> success]]
    BY DEF Execute
  <1> DEFINE done == [pc |-> "executed", job |-> k,
                      token |-> bridge[b].token, success |-> success]
  <1>2. /\ bridge[b].pc = "holding"
        /\ UNCHANGED <<job, issued, calls, told, untold, wordless>>
    BY DEF Execute
  <1>3. k \in Jobs /\ bridge[b].token \in Nat
    BY <1>2, StateFacts DEF IInv
  <1>4. \A a \in Bridges : bridge'[a] = IF a = b THEN done ELSE bridge[a]
    BY <1>1 DEF IInv, Types
  <1>5. \A j \in Jobs :
          /\ applied[j] \in Nat
          /\ applied'[j] = IF j = k /\ effect THEN applied[j] + 1 ELSE applied[j]
    BY <1>1, <1>3 DEF IInv, Types
  <1>6. Types'
    <2>1. done \in BridgeState
      BY <1>3 DEF BridgeState
    <2>2. applied' \in [Jobs -> Nat]
      BY <1>1, <1>3 DEF IInv, Types
    <2> QED BY <1>1, <1>2, <2>1, <2>2 DEF IInv, Types
  <1>7. Reporting'
    BY <1>2, KeepsReporting, SameTable
  <1>8. ASSUME NEW j \in Jobs
        PROVE  applied'[j] + Cardinality(Holders(j)') <= Table!Grants(job'[j])
    <2>1. IsFiniteSet(Holders(j)) /\ Cardinality(Holders(j)) \in Nat
      BY BridgesAssumption, FS_Subset, FS_CardinalityType DEF Holders
    <2>2. Table!Grants(job[j]) \in Nat /\ job'[j] = job[j]
      BY <1>2, GoodRows DEF IInv
    <2>3. applied[j] + Cardinality(Holders(j)) <= Table!Grants(job[j])
      BY DEF IInv, Paid
    <2>4. CASE j = k
      <3>1. Holders(j)' = Holders(j) \ {b} /\ b \in Holders(j)
        BY <1>2, <1>4, <2>4 DEF Holders
      <3>2. Cardinality(Holders(j)') = Cardinality(Holders(j)) - 1
        BY <2>1, <3>1, FS_RemoveElement
      <3>3. applied'[j] <= applied[j] + 1 /\ applied'[j] \in Nat
        BY <1>5
      <3> QED BY <1>5, <2>1, <2>2, <2>3, <3>2, <3>3
    <2>5. CASE j # k
      <3>1. Holders(j)' = Holders(j)
        BY <1>2, <1>4, <2>5 DEF Holders
      <3> QED BY <1>5, <2>2, <2>3, <2>5, <3>1
    <2> QED BY <2>4, <2>5
  <1>9. TookEffect'
    <2>1. \A j \in Jobs : applied[j] > 0 => applied'[j] > 0
      BY <1>5
    <2>2. success => applied'[k] > 0
      BY <1>1, <1>3, <1>5
    <2>3. ASSUME NEW a \in Bridges, bridge'[a].pc = "executed", bridge'[a].success
          PROVE  applied'[bridge'[a].job] > 0
      BY <1>4, <2>1, <2>2, <2>3, StateFacts DEF IInv, TookEffect
    <2>4. ASSUME NEW c \in calls', c.success
          PROVE  applied'[c.job] > 0
      BY <1>2, <2>1, <2>4 DEF IInv, TookEffect, Types, Call
    <2>5. ASSUME NEW j \in Jobs, job'[j].status = "completed"
          PROVE  applied'[j] > 0
      BY <1>2, <2>1, <2>5 DEF IInv, TookEffect
    <2> QED BY <2>3, <2>4, <2>5 DEF TookEffect
  <1> QED BY <1>2, <1>6, <1>7, <1>8, <1>9, SameTable DEF IInv, Paid, Holders

-----------------------------------------------------------------------------
(* The handlers of the server *)

\* A step of a handler that leaves the table alone and lets in no call from
\* nowhere.
LEMMA HandlerEffects ==
  ASSUME IInv, UNCHANGED <<job, issued, bridge, applied>>,
         \A c \in calls' : \E d \in calls : c.job = d.job /\ c.success = d.success
  PROVE  TInv' /\ Paid' /\ TookEffect'
  <1>1. \A c \in calls' : c.success => applied[c.job] > 0
    BY DEF IInv, TookEffect
  <1>2. \A j \in Jobs : Holders(j)' = Holders(j)
    BY DEF Holders
  <1> QED BY <1>1, <1>2, SameTable, KeepsEffects DEF IInv, TookEffect

\* A call at its next stage is the same call in all else.
LEMMA StageFacts ==
  ASSUME IInv, NEW c \in calls,
         NEW stage \in {"checked", "committed", "repaired"}
  PROVE  /\ [c EXCEPT !.stage = stage] \in Call
         /\ [c EXCEPT !.stage = stage].stage = stage
         /\ [c EXCEPT !.stage = stage].job = c.job
         /\ [c EXCEPT !.stage = stage].success = c.success
         /\ c \in Call /\ c.job \in Jobs /\ c.success \in BOOLEAN
  <1>1. c \in Call
    BY DEF IInv, Types
  <1> QED BY <1>1 DEF Call

LEMMA CallReadInv ==
  ASSUME IInv, NEW c \in calls, CallRead(c)
  PROVE  IInv'
  <1> DEFINE next == [c EXCEPT !.stage = "checked"]
  <1>1. /\ c.stage = "arrived" /\ calls' \in {(calls \ {c}) \cup {next}, calls \ {c}}
        /\ UNCHANGED <<job, issued, bridge, applied, told, untold, wordless>>
    BY DEF CallRead, AtStage
  <1>2. /\ next \in Call /\ next.stage = "checked"
        /\ next.job = c.job /\ next.success = c.success
    BY StageFacts
  <1>3. Types'
    BY <1>1, <1>2 DEF IInv, Types
  <1>4. {d \in calls' : Accepted(d)} = {d \in calls : Accepted(d)}
    BY <1>1, <1>2 DEF Accepted
  <1>5. Reporting'
    BY <1>1, <1>4, KeepsReporting, SameTable
  <1>6. TInv' /\ Paid' /\ TookEffect'
    BY <1>1, <1>2, HandlerEffects
  <1> QED BY <1>3, <1>5, <1>6 DEF IInv

\* A handler closes the row with a word that a completion may say.
LEMMA ClosedByItsCall ==
  ASSUME TInv, NEW c, c.job \in Jobs, c.token \in Nat, c.success \in BOOLEAN, Close(c)
  PROVE  /\ TInv' /\ [Table!Next]_(Table!vars)
         /\ job[c.job].status = "running" /\ job[c.job].error = "none"
         /\ \A s \in BOOLEAN : Says(job'[c.job], s) <=> s = c.success
         /\ \A j \in Jobs : Table!Grants(job'[j]) = Table!Grants(job[j])
         /\ \A j \in Jobs \ {c.job} : job'[j] = job[j]
  <1>1. PICK error \in ErrorsOf(c) : Queue!Complete(c.job, c.token, c.success, error)
    BY DEF Close
  <1>2. error \in Table!Reports
    BY SameWords DEF ErrorsOf
  <1>3. Table!Complete(c.job, c.token, c.success, error)
    BY <1>1, SameOperations
  <1> QED BY <1>2, <1>3, CompleteStep

\* The row was running, so nobody was told, or is about to be told, about it.
LEMMA CallCommitInv ==
  ASSUME IInv, NEW c \in calls, CallCommit(c)
  PROVE  IInv'
  <1> DEFINE next == [c EXCEPT !.stage = "committed"]
             k == c.job
  <1>1. c.stage = "checked" /\ UNCHANGED <<bridge, applied, told, untold, wordless>>
    BY DEF CallCommit
  <1>2. /\ next \in Call /\ next.stage = "committed"
        /\ next.job = c.job /\ next.success = c.success
        /\ k \in Jobs /\ c.success \in BOOLEAN /\ c.token \in Nat
    BY StageFacts DEF Call
  <1>3. CASE calls' = calls \ {c} /\ UNCHANGED <<job, issued>>
    <2>1. {d \in calls' : Accepted(d)} = {d \in calls : Accepted(d)}
      BY <1>1, <1>3 DEF Accepted
    <2>2. Reporting'
      BY <1>1, <1>3, <2>1, KeepsReporting, SameTable
    <2>3. TInv' /\ Paid' /\ TookEffect'
      BY <1>1, <1>3, HandlerEffects
    <2>4. Types'
      BY <1>1, <1>3 DEF IInv, Types
    <2> QED BY <2>2, <2>3, <2>4 DEF IInv
  <1>4. CASE Close(c) /\ calls' = (calls \ {c}) \cup {next}
    <2>1. /\ TInv'
          /\ job[k].status = "running" /\ job[k].error = "none"
          /\ \A s \in BOOLEAN : Says(job'[k], s) <=> s = c.success
          /\ \A j \in Jobs : Table!Grants(job'[j]) = Table!Grants(job[j])
          /\ \A j \in Jobs \ {k} : job'[j] = job[j]
      BY <1>2, <1>4, ClosedByItsCall DEF IInv
    <2>2. Types'
      BY <1>1, <1>2, <1>4 DEF IInv, Types
    <2>3. told[k] = <<>> /\ \A d \in calls : d.job = k => ~Accepted(d)
      <3>1. \A s \in BOOLEAN : ~Says(job[k], s)
        BY <2>1 DEF Says, Table!ReportedFailed
      <3>2. \A d \in calls : d.success \in BOOLEAN
        BY StageFacts
      <3> QED BY <1>2, <3>1, <3>2 DEF IInv, Reporting, Verdicts
    <2>4. \A d \in calls' : Accepted(d) => d = next \/ (d \in calls /\ d.job # k)
      BY <1>4, <2>3
    <2>5. Verdicts'
      <3>1. ASSUME NEW j \in Jobs
            PROVE  told[j] = <<>> \/ \E s \in BOOLEAN : told[j] = <<s>> /\ Says(job'[j], s)
        BY <2>1, <2>3 DEF IInv, Reporting, Verdicts
      <3>2. ASSUME NEW d \in calls', Accepted(d)
            PROVE  told[d.job] = <<>> /\ Says(job'[d.job], d.success)
        <4>1. CASE d = next
          BY <1>2, <2>1, <2>3, <4>1
        <4>2. CASE d \in calls /\ d.job # k
          <5>1. d.job \in Jobs \ {k}
            BY <4>2, StageFacts
          <5> QED BY <2>1, <3>2, <4>2, <5>1 DEF IInv, Reporting, Verdicts
        <4> QED BY <2>4, <3>2, <4>1, <4>2
      <3>3. ASSUME NEW d \in calls', NEW e \in calls',
                   Accepted(d), Accepted(e), d.job = e.job
            PROVE  d = e
        BY <1>2, <2>4, <3>3 DEF IInv, Reporting, Verdicts
      <3> QED BY <1>1, <3>1, <3>2, <3>3 DEF Verdicts, Accepted
    <2>6. ReportsAreTold'
      <3>1. Accepted(next) /\ next \in calls'
        BY <1>2, <1>4 DEF Accepted
      <3>2. BeingTold(k)'
        BY <1>2, <3>1 DEF BeingTold, Accepted
      <3>3. ASSUME NEW j \in Jobs \ {k}, BeingTold(j) PROVE BeingTold(j)'
        BY <1>1, <1>4, <3>3 DEF BeingTold, Accepted
      <3> QED BY <1>1, <2>1, <3>2, <3>3 DEF ReportsAreTold, IInv, Reporting
    <2>7. \A j \in Jobs : job'[j].status = "completed" => applied[j] > 0
      <3>1. job'[k].status = "completed" => c.success
        BY <1>2, <2>1 DEF Says
      <3> QED BY <2>1, <3>1 DEF IInv, TookEffect
    <2>8. \A d \in calls' : d.success => applied[d.job] > 0
      BY <1>2, <1>4 DEF IInv, TookEffect
    <2>9. \A j \in Jobs : /\ Table!Grants(job'[j]) >= Table!Grants(job[j])
                          /\ Holders(j)' = Holders(j)
      BY <1>1, <2>1, GoodRows DEF Holders, IInv
    <2>10. Paid' /\ TookEffect'
      BY <1>1, <2>1, <2>7, <2>8, <2>9, KeepsEffects
    <2> QED BY <2>1, <2>2, <2>5, <2>6, <2>10 DEF IInv, Reporting
  <1> QED BY <1>3, <1>4 DEF CallCommit, AtStage

\* A handler that told its user, or died, leaves what the others are to tell.
LEMMA HandlerOver ==
  ASSUME IInv, NEW c \in calls, Accepted(c), calls' = calls \ {c},
         UNCHANGED <<job, issued, bridge, applied>>,
         \/ /\ told' = [told EXCEPT ![c.job] = Append(@, c.success)]
            /\ UNCHANGED <<untold, wordless>>
         \/ untold' = untold \cup {c.job} /\ UNCHANGED <<told, wordless>>
         \/ c.success /\ wordless' = wordless \cup {c.job} /\ UNCHANGED <<told, untold>>
  PROVE  IInv'
  <1> DEFINE k == c.job
  <1>1. k \in Jobs /\ c.success \in BOOLEAN
    BY StageFacts
  <1>2. told[k] = <<>> /\ Says(job[k], c.success)
    BY DEF IInv, Reporting, Verdicts
  <1>3. \A d \in calls' : d \in calls /\ (Accepted(d) => d.job # k)
    BY DEF IInv, Reporting, Verdicts
  <1>4. \A j \in Jobs : told'[j] = told[j] \/ (j = k /\ told'[j] = <<c.success>>)
    BY <1>1, <1>2 DEF IInv, Types
  <1>5. \A j \in Jobs \ {k} : told'[j] = told[j]
    BY <1>1 DEF IInv, Types
  <1>6. Types'
    <2>1. Append(told[k], c.success) \in Seq(BOOLEAN)
      BY <1>1 DEF IInv, Types
    <2>2. told' \in [Jobs -> Seq(BOOLEAN)]
      BY <1>1, <2>1, Zenon DEF IInv, Types
    <2>3. untold' \subseteq Jobs /\ wordless' \subseteq Jobs
      BY <1>1 DEF IInv, Types
    <2> QED BY <2>2, <2>3 DEF IInv, Types
  <1>7. Verdicts'
    <2>1. ASSUME NEW j \in Jobs
          PROVE  told'[j] = <<>> \/ \E s \in BOOLEAN : told'[j] = <<s>> /\ Says(job[j], s)
      BY <1>1, <1>2, <1>4 DEF IInv, Reporting, Verdicts
    <2>2. ASSUME NEW d \in calls', Accepted(d)
          PROVE  told'[d.job] = <<>> /\ Says(job[d.job], d.success)
      <3>1. d \in calls /\ d.job \in Jobs \ {k}
        BY <1>3, <2>2, StageFacts
      <3> QED BY <1>5, <2>2, <3>1 DEF IInv, Reporting, Verdicts
    <2>3. ASSUME NEW d \in calls', NEW e \in calls',
                 Accepted(d), Accepted(e), d.job = e.job
          PROVE  d = e
      BY <1>3, <2>3 DEF IInv, Reporting, Verdicts
    <2> QED BY <2>1, <2>2, <2>3 DEF Verdicts, Accepted
  <1>8. ReportsAreTold'
    <2>1. \/ told'[k] # <<>> \/ k \in untold'
          \/ k \in wordless' /\ job'[k].status = "completed"
      <3>1. Append(told[k], c.success) # <<>>
        BY <1>1, <1>2
      <3>2. \/ told'[k] = Append(told[k], c.success) \/ k \in untold'
            \/ k \in wordless' /\ job'[k].status = "completed"
        BY <1>1, <1>2 DEF IInv, Types, Says
      <3> QED BY <3>1, <3>2
    <2>2. ASSUME NEW j \in Jobs \ {k}, BeingTold(j) PROVE BeingTold(j)'
      BY <2>2 DEF BeingTold, Accepted
    <2>3. untold \subseteq untold' /\ wordless \subseteq wordless'
      OBVIOUS
    <2> QED BY <1>5, <2>1, <2>2, <2>3 DEF ReportsAreTold, IInv, Reporting
  <1>9. TInv' /\ Paid' /\ TookEffect'
    BY HandlerEffects
  <1> QED BY <1>6, <1>7, <1>8, <1>9 DEF IInv, Reporting

LEMMA CallRepairInv ==
  ASSUME IInv, NEW c \in calls, CallRepair(c)
  PROVE  IInv'
  <1> DEFINE next == [c EXCEPT !.stage = "repaired"]
  <1>1. c.stage = "committed" /\ UNCHANGED <<job, issued, bridge, applied, told, wordless>>
    BY DEF CallRepair
  <1>2. /\ next \in Call /\ next.stage = "repaired"
        /\ next.job = c.job /\ next.success = c.success
        /\ c.job \in Jobs /\ c.success \in BOOLEAN
    BY StageFacts
  <1>3. CASE calls' = (calls \ {c}) \cup {next} /\ UNCHANGED untold
    <2>1. Types'
      BY <1>1, <1>2, <1>3 DEF IInv, Types
    <2>2. \A d \in calls' : Accepted(d) =>
            \E e \in calls : /\ Accepted(e) /\ d.job = e.job /\ d.success = e.success
                             /\ d # e => d = next /\ e = c
      BY <1>1, <1>2, <1>3 DEF Accepted
    <2>3. Verdicts'
      <3>1. ASSUME NEW d \in calls', Accepted(d)
            PROVE  told[d.job] = <<>> /\ Says(job[d.job], d.success)
        BY <2>2, <3>1 DEF IInv, Reporting, Verdicts
      <3>2. ASSUME NEW d \in calls', NEW e \in calls',
                   Accepted(d), Accepted(e), d.job = e.job
            PROVE  d = e
        BY <1>1, <1>2, <1>3, <3>2 DEF IInv, Reporting, Verdicts, Accepted
      <3> QED BY <1>1, <3>1, <3>2 DEF IInv, Reporting, Verdicts, Accepted
    <2>4. ReportsAreTold'
      <3>1. Accepted(next) /\ next \in calls'
        BY <1>2, <1>3 DEF Accepted
      <3>2. ASSUME NEW j \in Jobs, BeingTold(j) PROVE BeingTold(j)'
        BY <1>2, <1>3, <3>1, <3>2 DEF BeingTold, Accepted
      <3> QED BY <1>1, <1>3, <3>2 DEF ReportsAreTold, IInv, Reporting
    <2>5. TInv' /\ Paid' /\ TookEffect'
      BY <1>1, <1>2, <1>3, HandlerEffects
    <2> QED BY <2>1, <2>3, <2>4, <2>5 DEF IInv, Reporting
  <1>4. CASE calls' = calls \ {c} /\ untold' = untold \cup {c.job}
    BY <1>1, <1>4, HandlerOver DEF Accepted
  <1> QED BY <1>3, <1>4 DEF CallRepair, AtStage

LEMMA CallNotifyInv ==
  ASSUME IInv, NEW c \in calls, CallNotify(c)
  PROVE  IInv'
  <1>1. Accepted(c)
    BY DEF CallNotify, Accepted
  <1> QED BY <1>1, HandlerOver DEF CallNotify

\* The handlers are gone, and those that were to tell something are remembered.
LEMMA ServerRestartInv ==
  ASSUME IInv, ServerRestart
  PROVE  IInv'
  <1>1. /\ calls' = {} /\ UNCHANGED <<job, issued, bridge, applied, told, wordless>>
        /\ untold' = untold \cup {c.job : c \in {d \in calls : Accepted(d)}}
    BY DEF ServerRestart
  <1>2. Types'
    <2>1. \A c \in calls : c.job \in Jobs
      BY StageFacts
    <2> QED BY <1>1, <2>1 DEF IInv, Types
  <1>3. Verdicts'
    BY <1>1 DEF IInv, Reporting, Verdicts
  <1>4. ReportsAreTold'
    <2>1. \A j \in Jobs : BeingTold(j) => j \in untold'
      BY <1>1 DEF BeingTold
    <2> QED BY <1>1, <2>1 DEF ReportsAreTold, IInv, Reporting
  <1>5. TInv' /\ Paid' /\ TookEffect'
    BY <1>1, HandlerEffects
  <1> QED BY <1>2, <1>3, <1>4, <1>5 DEF IInv, Reporting

-----------------------------------------------------------------------------
(* Every step *)

LEMMA NextIInv == IInv /\ [Next]_vars => IInv'
  <1> SUFFICES ASSUME IInv, [Next]_vars PROVE IInv'
    OBVIOUS
  <1> USE DEF JobTypes
  <1>1. ASSUME NEW t \in JobTypes, Enqueue(t) PROVE IInv'
    <2>1. TableStep({})
      BY <1>1, SameOperations, CreateStep DEF Enqueue, IInv
    <2> QED BY <1>1, <2>1, TableInv DEF Enqueue
  <1>2. ASSUME NEW j \in Jobs, CancelJob(j) PROVE IInv'
    <2>1. TableStep({})
      BY <1>2, SameOperations, CancelStep DEF CancelJob, IInv
    <2> QED BY <1>2, <2>1, TableInv DEF CancelJob
  <1>3. CASE Clock
    <2>1. TableStep({})
      BY <1>3, SameOperations, TickStep DEF Clock, IInv
    <2> QED BY <1>3, <2>1, TableInv DEF Clock
  <1>4. ASSUME NEW b \in Bridges PROVE BridgeType[b] \in JobTypes
    BY BridgeTypeAssumption
  <1>5. ASSUME NEW b \in Bridges, ClaimAnswered(b) PROVE IInv'
    <2>1. CASE Queue!ClaimNothing(BridgeType[b]) /\ UNCHANGED <<bridge, world>>
      <3>1. TableStep({})
        BY <1>4, <2>1, SameOperations, ClaimNothingStep DEF IInv
      <3> QED BY <2>1, <3>1, TableInv
    <2>2. ASSUME NEW j \in Jobs, Queue!Grant(BridgeType[b], j),
                 bridge' = [bridge EXCEPT ![b] =
                              [pc |-> "holding", job |-> j, token |-> issued + 1]]
          PROVE  IInv'
      <3>1. TableStep({j})
        BY <1>4, <2>2, SameOperations, GrantStep DEF IInv
      <3>2. bridge[b] = Idle /\ UNCHANGED world
        BY <1>5 DEF ClaimAnswered
      <3> QED BY <2>2, <3>1, <3>2, GrantedInv
    <2> QED BY <1>5, <2>1, <2>2 DEF ClaimAnswered
  <1>6. ASSUME NEW b \in Bridges, ClaimLost(b) PROVE IInv'
    <2>1. PICK j \in Jobs : Queue!Grant(BridgeType[b], j)
      BY <1>6 DEF ClaimLost
    <2>2. TableStep({j})
      BY <1>4, <2>1, SameOperations, GrantStep DEF IInv
    <2> QED BY <1>6, <2>2, TableInv DEF ClaimLost
  <1>7. ASSUME NEW b \in Bridges, Work(b) \/ BridgeCrash(b) PROVE IInv'
    <2>1. CASE Execute(b)
      BY <2>1, ExecuteInv
    <2>2. CASE SendComplete(b)
      BY <2>2, SendCompleteInv
    <2>3. CASE CompleteLost(b) \/ Return(b) \/ BridgeCrash(b)
      BY <2>3, ForgetInv DEF CompleteLost, Return, BridgeCrash
    <2> QED BY <1>7, <2>1, <2>2, <2>3 DEF Work
  <1>8. ASSUME NEW c \in calls, HandleCall(c) PROVE IInv'
    BY <1>8, CallReadInv, CallCommitInv, CallRepairInv, CallNotifyInv DEF HandleCall
  <1>9. CASE ServerRestart
    BY <1>9, ServerRestartInv
  <1>10. CASE UNCHANGED vars
    <2>1. UNCHANGED <<job, issued>> /\ UNCHANGED <<bridge, world>>
      BY <1>10 DEF vars, world
    <2>2. TableStep({})
      BY <2>1, SameTable, GoodRows DEF IInv, TableStep, Table!vars
    <2> QED BY <2>1, <2>2, TableInv
  <1> QED BY <1>1, <1>2, <1>3, <1>5, <1>6, <1>7, <1>8, <1>9, <1>10 DEF Next, Poll

LEMMA Invariance == Spec => []IInv
  BY InitIInv, NextIInv, PTL DEF Spec

\* The types of the table, the bridges and the handlers: no handler reports under
\* a token that no claim could have given it.
THEOREM TypeCorrect == Spec => []TypeOK
  <1>1. IInv => TypeOK
    BY DEF IInv, TInv, Types, TypeOK, Table!IInv, Table!TypeOK, Queue!TypeOK,
           Queue!Jobs, Table!Jobs, Queue!Row, Table!Row, Queue!Statuses,
           Table!Statuses, Queue!Reports, Table!Reports, Queue!Errors, Table!Errors
  <1> QED BY <1>1, Invariance, PTL

\* A user hears once about a job, and what he hears is what the table says for
\* ever after, whoever executed it, however late, and whatever got lost.
THEOREM UsersAreToldOnce == Spec => []ToldOnceForAll
  <1>1. IInv => ToldOnceForAll
    <2> SUFFICES ASSUME IInv, NEW j \in Jobs
                 PROVE  /\ Len(told[j]) <= 1
                        /\ \A i \in DOMAIN told[j] :
                             IF told[j][i] THEN job[j].status = "completed"
                             ELSE Queue!ReportedFailed(job[j])
      BY Zenon DEF ToldOnceForAll, ToldAtMostOnce, ToldIsFinal
    <2>1. CASE told[j] = <<>>
      BY <2>1
    <2>2. ASSUME NEW s \in BOOLEAN, told[j] = <<s>>, Says(job[j], s)
          PROVE  /\ Len(told[j]) <= 1
                 /\ \A i \in DOMAIN told[j] :
                      IF told[j][i] THEN job[j].status = "completed"
                      ELSE Queue!ReportedFailed(job[j])
      <3>1. Len(told[j]) = 1 /\ DOMAIN told[j] = {1} /\ told[j][1] = s
        BY <2>2
      <3> QED BY <2>2, <3>1, SameWords DEF Says
    <2> QED BY <2>1, <2>2 DEF IInv, Reporting, Verdicts
  <1> QED BY <1>1, Invariance, PTL

\* No report that the table accepted is forgotten: the user was told, is about to
\* be told, or a fault of the server prevented it.
THEOREM NoReportIsForgotten == Spec => []ReportsAreTold
  BY Invariance, PTL DEF IInv, Reporting

\* A job takes effect at most once per claim, and a completed job took effect.
THEOREM EffectsArePaidFor == Spec => []AppliedPerClaim
  <1>1. IInv => AppliedPerClaim
    <2> SUFFICES ASSUME IInv, NEW j \in Jobs
                 PROVE  applied[j] <= Table!Grants(job[j])
      BY DEF AppliedPerClaim, IInv, TookEffect, Queue!Grants, Table!Grants
    <2>1. Cardinality(Holders(j)) \in Nat
      BY BridgesAssumption, FS_Subset, FS_CardinalityType DEF Holders
    <2>2. applied[j] \in Nat /\ Table!Grants(job[j]) \in Nat
      BY GoodRows DEF IInv, Types
    <2> QED BY <2>1, <2>2 DEF IInv, Paid
  <1> QED BY <1>1, Invariance, PTL

-----------------------------------------------------------------------------
(* The bridges and the server use the queue as it is meant *)

\* Whatever the bridges, the handlers and their faults do, to the table it is one
\* of its own operations; a report in particular carries a token that was issued.
LEMMA StepIsTableStep == IInv /\ [Next]_vars => [Table!Next]_(Table!vars)
  <1> SUFFICES ASSUME IInv, [Next]_vars PROVE [Table!Next]_(Table!vars)
    OBVIOUS
  <1> USE DEF JobTypes
  <1>1. ASSUME NEW b \in Bridges PROVE BridgeType[b] \in JobTypes
    BY BridgeTypeAssumption
  <1>2. ASSUME NEW t \in JobTypes, Enqueue(t) PROVE Table!Next
    BY <1>2, SameOperations DEF Enqueue, Table!Next
  <1>3. ASSUME NEW j \in Jobs, CancelJob(j) PROVE Table!Next
    BY <1>3, SameOperations DEF CancelJob, Table!Next, Jobs, Table!Jobs
  <1>4. CASE Clock
    BY <1>4, SameOperations DEF Clock, Table!Next
  <1>5. ASSUME NEW b \in Bridges, Poll(b) PROVE Table!Next
    <2>1. Queue!ClaimNothing(BridgeType[b]) \/ \E j \in Jobs : Queue!Grant(BridgeType[b], j)
      BY <1>5 DEF Poll, ClaimAnswered, ClaimLost
    <2>2. Table!Claim(BridgeType[b])
      BY <1>1, <2>1, SameOperations DEF Table!Claim, Jobs, Table!Jobs
    <2> QED BY <1>1, <2>2 DEF Table!Next
  <1>6. ASSUME NEW b \in Bridges, Work(b) \/ BridgeCrash(b) PROVE UNCHANGED Table!vars
    BY <1>6 DEF Work, BridgeCrash, Execute, SendComplete, CompleteLost, Return, Table!vars
  <1>7. ASSUME NEW c \in calls, CallCommit(c) PROVE [Table!Next]_(Table!vars)
    <2>1. CASE Close(c)
      <3>1. c.job \in Jobs /\ c.success \in BOOLEAN /\ c.token \in Nat
        BY DEF IInv, Types, Call
      <3> QED BY <2>1, <3>1, ClosedByItsCall DEF IInv
    <2>2. CASE UNCHANGED <<job, issued>>
      BY <2>2 DEF Table!vars
    <2> QED BY <1>7, <2>1, <2>2 DEF CallCommit
  <1>8. ASSUME NEW c \in calls, CallRead(c) \/ CallRepair(c) \/ CallNotify(c)
        PROVE  UNCHANGED Table!vars
    BY <1>8 DEF CallRead, CallRepair, CallNotify, Table!vars
  <1>9. CASE ServerRestart \/ UNCHANGED vars
    BY <1>9 DEF ServerRestart, vars, Table!vars
  <1> QED BY <1>2, <1>3, <1>4, <1>5, <1>6, <1>7, <1>8, <1>9 DEF Next, HandleCall

\* The bridges at work implement the queue of JobQueue.
THEOREM BridgesUseTheQueue == Spec => Table!Spec
  <1>1. Init => Table!Init
    BY SameOperations DEF Init
  <1> QED BY <1>1, StepIsTableStep, Invariance, PTL DEF Spec, Table!Spec

\* So to whoever enqueued a job the bridges, with all their faults, look like the
\* abstract ledger: one attempt at a time, at most MaxRetries + 1 of them, and an
\* end that is final.
THEOREM BridgesKeepTheLedger == Spec => Table!ImplementsLedger
  BY BridgesUseTheQueue, Table!QueueImplementsLedger, PTL

=============================================================================
