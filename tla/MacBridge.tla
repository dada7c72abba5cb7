------------------------------ MODULE MacBridge -----------------------------
(***************************************************************************)
(* The Mac bridges at work on the jobs table.  A bridge process on the Mac *)
(* polls POST /claim, executes the job locally, and reports the outcome    *)
(* with POST /complete; the server closes the job and pushes the reply to  *)
(* the LINE user.  Requests and answers get lost, a client gives up        *)
(* waiting while the server goes on, a bridge dies or sleeps in the middle *)
(* of a job, and the server is restarted between any two steps.            *)
(*                                                                         *)
(* The two kinds of bridge are scripts/obsidian_mac_bridge.py and          *)
(* scripts/openclaw_mac_bridge.py.  Started with --watch they poll for     *)
(* ever; by default they make one round, which somebody has to start, as   *)
(* scripts/obsidian_mac_startup.py does at login if a job is pending and   *)
(* the user agrees.                                                        *)
(***************************************************************************)
EXTENDS Integers, Sequences, FiniteSets

CONSTANTS
  MaxJobs, MaxRetries, StaleAfter, NoType,   \* as in JobQueue
  Obsidian, OpenClaw,  \* the two job types
  Bridges,             \* the bridge processes
  BridgeType,          \* which type of job a bridge claims
  ServerFaults         \* may a LINE push fail and may the server restart?

JobTypes == {Obsidian, OpenClaw}

ASSUME TableAssumption ==
  /\ MaxJobs \in Nat \ {0} /\ NoType \notin JobTypes
  /\ MaxRetries \in Nat /\ StaleAfter \in Nat \ {0}
ASSUME BridgesAssumption == IsFiniteSet(Bridges)
ASSUME BridgeTypeAssumption == BridgeType \in [Bridges -> JobTypes]
ASSUME FaultsAssumption == ServerFaults \in BOOLEAN

VARIABLES
  job, issued,  \* the table, see JobQueue
  bridge,       \* what each bridge process is doing, in its memory
  calls,        \* the /complete requests the server is working on
  applied,      \* how often the local command of a job took effect on the Mac
  told,         \* the outcomes pushed to the LINE user, per job
  untold,       \* history: the jobs a fault of the server kept from being told
  wordless      \* history: the jobs whose report had nothing to tell

vars == <<job, issued, bridge, calls, applied, told, untold, wordless>>
world == <<calls, applied, told, untold, wordless>>

Queue == INSTANCE JobQueue

Jobs == 1..MaxJobs

\* What a bridge keeps in memory of the job it is busy with.
BridgeState ==
  [pc : {"idle", "waiting"}]
    \cup [pc : {"holding"}, job : Jobs, token : Nat]
    \cup [pc : {"executed"}, job : Jobs, token : Nat, success : BOOLEAN]

Idle == [pc |-> "idle"]

(***************************************************************************)
(* A /complete request.  job and token identify it: a bridge never sends   *)
(* the same one twice.  incident says that the failure it reports is one   *)
(* for which the server asks for a repair run before it answers.           *)
(***************************************************************************)
Call == [job : Jobs, token : Nat, success : BOOLEAN, incident : BOOLEAN,
         stage : {"arrived", "checked", "committed", "repaired"}]

Init ==
  /\ Queue!Init
  /\ bridge = [b \in Bridges |-> Idle]
  /\ calls = {}
  /\ applied = [j \in Jobs |-> 0]
  /\ told = [j \in Jobs |-> <<>>]
  /\ untold = {}
  /\ wordless = {}

-----------------------------------------------------------------------------
(* LINE and the operator *)

\* enqueue_obsidian_request and enqueue_openclaw_request.
Enqueue(t) ==
  /\ Queue!CreateJob(t)
  /\ UNCHANGED <<bridge, world>>

\* POST /api/obsidian/jobs/<id>/cancel; OpenClaw has no such route.
CancelJob(j) ==
  /\ Queue!Cancel(j, Obsidian)
  /\ UNCHANGED <<bridge, world>>

Clock ==
  /\ Queue!Tick
  /\ UNCHANGED <<bridge, world>>

-----------------------------------------------------------------------------
(* The bridge process *)

(***************************************************************************)
(* POST /claim.  The handler reads the claimed row again after the         *)
(* transaction; an answer that reaches the client does so within its       *)
(* timeout of 10 or 15 seconds, long before the claim can be stale, so the *)
(* row it carries is still the one that was granted.                       *)
(***************************************************************************)
ClaimAnswered(b) ==
  /\ bridge[b] = Idle
  /\ \/ /\ Queue!ClaimNothing(BridgeType[b])
        /\ UNCHANGED bridge
     \/ \E j \in Jobs :
          /\ Queue!Grant(BridgeType[b], j)
          /\ bridge' = [bridge EXCEPT ![b] =
                          [pc |-> "holding", job |-> j, token |-> issued + 1]]
  /\ UNCHANGED world

\* The claim is committed, and the answer is lost, late or unreadable.
ClaimLost(b) ==
  /\ bridge[b] = Idle
  /\ \E j \in Jobs : Queue!Grant(BridgeType[b], j)
  /\ UNCHANGED <<bridge, world>>

\* Variant of Execute: a failed command is run again before anything is reported.
ExecuteAgain(b) ==
  /\ bridge[b].pc = "holding"
  /\ LET j == bridge[b].job IN
       \E success \in BOOLEAN, effect \in BOOLEAN :
         /\ success => effect
         /\ applied' = IF effect THEN [applied EXCEPT ![j] = @ + 1] ELSE applied
         /\ bridge' = IF ~success THEN bridge ELSE
                        [bridge EXCEPT ![b] =
                         [pc |-> "executed", job |-> j,
                          token |-> bridge[b].token, success |-> success]]
  /\ UNCHANGED <<job, issued, calls, told, untold, wordless>>

(***************************************************************************)
(* execute_local_job, run_openclaw.  A success took effect; a failure (a   *)
(* rejected command, an exception, a timeout) may have taken effect before *)
(* it failed.  There is no limit on how long it takes: the Mac may sleep.  *)
(***************************************************************************)
Execute(b) ==
  /\ bridge[b].pc = "holding"
  /\ LET j == bridge[b].job IN
       \E success \in BOOLEAN, effect \in BOOLEAN :
         /\ success => effect
         /\ applied' = IF effect THEN [applied EXCEPT ![j] = @ + 1] ELSE applied
         /\ bridge' = [bridge EXCEPT ![b] =
                         [pc |-> "executed", job |-> j,
                          token |-> bridge[b].token, success |-> success]]
  /\ UNCHANGED <<job, issued, calls, told, untold, wordless>>

\* POST /complete reaches the server.
SendComplete(b) ==
  /\ bridge[b].pc = "executed"
  /\ \E incident \in BOOLEAN :
       /\ incident => BridgeType[b] = Obsidian /\ ~bridge[b].success
       /\ calls' = calls \cup
            {[job |-> bridge[b].job, token |-> bridge[b].token,
              success |-> bridge[b].success, incident |-> incident,
              stage |-> "arrived"]}
  /\ bridge' = [bridge EXCEPT ![b] = [pc |-> "waiting"]]
  /\ UNCHANGED <<job, issued, applied, told, untold, wordless>>

\* POST /complete does not reach the server; the bridge does not try again.
CompleteLost(b) ==
  /\ bridge[b].pc = "executed"
  /\ bridge' = [bridge EXCEPT ![b] = Idle]
  /\ UNCHANGED <<job, issued, world>>

\* Variant of Return: no timeout, the client waits for as long as the server works.
ReturnAnswered(b) ==
  /\ bridge[b].pc = "waiting"
  /\ \A c \in calls : BridgeType[b] # job[c.job].type
  /\ bridge' = [bridge EXCEPT ![b] = Idle]
  /\ UNCHANGED <<job, issued, world>>

(***************************************************************************)
(* Any answer, good or bad, and a timeout alike: the bridge forgets the    *)
(* job and polls again.  The server may still be working on the call.      *)
(***************************************************************************)
Return(b) ==
  /\ bridge[b].pc = "waiting"
  /\ bridge' = [bridge EXCEPT ![b] = Idle]
  /\ UNCHANGED <<job, issued, world>>

\* The process is killed and started again; it keeps nothing on disk.
BridgeCrash(b) ==
  /\ bridge[b] # Idle
  /\ bridge' = [bridge EXCEPT ![b] = Idle]
  /\ UNCHANGED <<job, issued, world>>

-----------------------------------------------------------------------------
(* The /complete handlers of the server *)

AtStage(c, stage) == (calls \ {c}) \cup {[c EXCEPT !.stage = stage]}

(***************************************************************************)
(* get_job and the checks on it: the obsidian route looks at the status,   *)
(* the openclaw route at the token too.  A call that fails them is         *)
(* answered 409 and is over.                                               *)
(***************************************************************************)
CallRead(c) ==
  /\ c.stage = "arrived"
  /\ LET row == job[c.job] IN
       calls' = IF /\ row.status = "running"
                   /\ row.type = OpenClaw => row.token = c.token
                THEN AtStage(c, "checked")
                ELSE calls \ {c}
  /\ UNCHANGED <<job, issued, bridge, applied, told, untold, wordless>>

(***************************************************************************)
(* What the report leaves in last_error.  OpenClaw names every failure;    *)
(* the commands that Obsidian rejects come with a reply and no error.      *)
(***************************************************************************)
ErrorsOf(c) ==
  IF c.success THEN {"none"}
  ELSE IF job[c.job].type = OpenClaw THEN {"reported"} ELSE Queue!Reports

Close(c) == \E error \in ErrorsOf(c) : Queue!Complete(c.job, c.token, c.success, error)

\* Variant of CallCommit: the row count of the UPDATE is not looked at.
CallCommitRegardless(c) ==
  /\ c.stage = "checked"
  /\ calls' = AtStage(c, "committed")
  /\ IF Queue!HoldsClaim(c.job, c.token)
     THEN Close(c)
     ELSE UNCHANGED <<job, issued>>
  /\ UNCHANGED <<bridge, applied, told, untold, wordless>>

\* complete_claimed_job, on the row as it is by now.
CallCommit(c) ==
  /\ c.stage = "checked"
  /\ IF Queue!HoldsClaim(c.job, c.token)
     THEN /\ Close(c)
          /\ calls' = AtStage(c, "committed")
     ELSE /\ calls' = calls \ {c}
          /\ UNCHANGED <<job, issued>>
  /\ UNCHANGED <<bridge, applied, told, untold, wordless>>

\* Variant of CallRepair: a refused repair request ends the handler.
CallRepairStrict(c) ==
  /\ c.stage = "committed" /\ c.incident
  /\ calls' \in {AtStage(c, "repaired"), calls \ {c}}
  /\ UNCHANGED <<job, issued, bridge, applied, told, untold, wordless>>

(***************************************************************************)
(* request_obsidian_incident_repair, before the user is told anything.  It *)
(* catches httpx.HTTPError only: an answer of GitHub that is not JSON ends *)
(* the handler here, with the job closed.                                  *)
(***************************************************************************)
CallRepair(c) ==
  /\ c.stage = "committed" /\ c.incident
  /\ \/ calls' = AtStage(c, "repaired") /\ UNCHANGED untold
     \/ ServerFaults /\ calls' = calls \ {c} /\ untold' = untold \cup {c.job}
  /\ UNCHANGED <<job, issued, bridge, applied, told, wordless>>

(***************************************************************************)
(* _line_push of the reply: tried once, and an exception is only reported  *)
(* back.  The obsidian route pushes nothing if the reply is blank, and     *)
(* that of a note read is the note: of an empty one the user hears         *)
(* nothing.  The openclaw route has words for every outcome.               *)
(***************************************************************************)
CallNotify(c) ==
  /\ c.stage = IF c.incident THEN "repaired" ELSE "committed"
  /\ \/ told' = [told EXCEPT ![c.job] = Append(@, c.success)] /\ UNCHANGED <<untold, wordless>>
     \/ ServerFaults /\ untold' = untold \cup {c.job} /\ UNCHANGED <<told, wordless>>
     \/ /\ c.success /\ job[c.job].type = Obsidian
        /\ wordless' = wordless \cup {c.job}
        /\ UNCHANGED <<told, untold>>
  /\ calls' = calls \ {c}
  /\ UNCHANGED <<job, issued, bridge, applied>>

\* The table has taken the report, and the user is still to be told.
Accepted(c) == c.stage \in {"committed", "repaired"}

\* Render restarts the service: the handlers are gone, the table stays.
ServerRestart ==
  /\ ServerFaults
  /\ calls # {}
  /\ calls' = {}
  /\ untold' = untold \cup {c.job : c \in {d \in calls : Accepted(d)}}
  /\ UNCHANGED <<job, issued, bridge, applied, told, wordless>>

HandleCall(c) == CallRead(c) \/ CallCommit(c) \/ CallRepair(c) \/ CallNotify(c)

Poll(b) == ClaimAnswered(b) \/ ClaimLost(b)

Work(b) == Execute(b) \/ SendComplete(b) \/ CompleteLost(b) \/ Return(b)

Next ==
  \/ \E t \in JobTypes : Enqueue(t)
  \/ \E j \in Jobs : CancelJob(j)
  \/ Clock
  \/ \E b \in Bridges : Poll(b) \/ Work(b) \/ BridgeCrash(b)
  \/ \E c \in calls : HandleCall(c)
  \/ ServerRestart

Spec == Init /\ [][Next]_vars

(***************************************************************************)
(* A bridge that has begun a round goes on with it: every local execution  *)
(* ends (a file operation, or a subprocess with a timeout), every request  *)
(* has a timeout.  And time passes.  Nothing is said about lost messages,  *)
(* crashes, or the server's answers, nor that any bridge ever polls.       *)
(***************************************************************************)
Fairness ==
  /\ \A b \in Bridges : WF_vars(Work(b))
  /\ WF_vars(Clock)

FairSpec == Spec /\ Fairness

-----------------------------------------------------------------------------
(* Properties *)

\* The table, the bridges and the handlers hold values of their types.
TypeOK ==
  /\ Queue!TypeOK
  /\ bridge \in [Bridges -> BridgeState]
  /\ calls \subseteq Call
  /\ applied \in [Jobs -> Nat]
  /\ told \in [Jobs -> Seq(BOOLEAN)]
  /\ untold \subseteq Jobs
  /\ wordless \subseteq Jobs

\* A user hears at most once about a job, however often it was executed and
\* reported, and by however many bridges.
ToldAtMostOnce ==
  \A j \in Jobs : Len(told[j]) <= 1

\* What the user hears is what the table says for ever after: a job whose result
\* was pushed is never retried, cancelled or given up.
ToldIsFinal ==
  \A j \in Jobs : \A i \in DOMAIN told[j] :
    IF told[j][i] THEN job[j].status = "completed" ELSE Queue!ReportedFailed(job[j])

\* The message to the user is the only one about the job, and the last word on it.
ToldOnceForAll == ToldAtMostOnce /\ ToldIsFinal

\* A job takes effect on the Mac at most once per claim, so at most MaxRetries + 1
\* times, and a completed job did take effect.
AppliedPerClaim ==
  \A j \in Jobs :
    /\ applied[j] <= Queue!Grants(job[j])
    /\ job[j].status = "completed" => applied[j] > 0

\* The server is about to tell the user the outcome of the job.
BeingTold(j) ==
  \E c \in calls : c.job = j /\ Accepted(c)

\* Every outcome that a bridge reported and the table accepted is told to the user,
\* unless the push failed or the handler ended before it; and only a success may
\* have had nothing to tell.
ReportsAreTold ==
  \A j \in Jobs :
    job[j].status = "completed" \/ Queue!ReportedFailed(job[j]) =>
      \/ told[j] # <<>> \/ BeingTold(j)
      \/ j \in untold
      \/ j \in wordless /\ job[j].status = "completed"

Waits(j, t) == job[j].type = t /\ job[j].status = "pending"

\* A round that the launcher begins: it asks for a pending job first.
Launch(b) == (\E j \in Jobs : Waits(j, BridgeType[b])) /\ Poll(b)

Watched(t) == \E b \in Bridges : BridgeType[b] = t /\ WF_vars(Poll(b))
Launched(t) == \E b \in Bridges : BridgeType[b] = t /\ WF_vars(Launch(b))

\* A lost claim that nobody is called for any more.
Stranded(j, t) == job[j].status = "running" /\ \A k \in Jobs : ~Waits(k, t)

\* While a bridge of its type keeps polling, every job is closed in the end,
\* although claims and completions get lost and bridges die in the middle of
\* their jobs.  Bridges that are started for pending jobs only, again and again,
\* let no job wait for ever either, but may leave it running for ever.
EveryJobCloses ==
  \A t \in JobTypes, j \in Jobs :
    /\ Watched(t) => (Waits(j, t) ~> job[j].status \in Queue!Closed)
    /\ Launched(t) => [](Waits(j, t) => \/ <>(job[j].status \in Queue!Closed)
                                       \/ <>[]Stranded(j, t))

=============================================================================
