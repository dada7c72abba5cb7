# A verification project for line-bot

line-bot is an AI secretary for LINE. A Flask service answers LINE's webhook; agents
behind it talk to models and services; longer work is handed to bridge processes on a
Mac, to GitHub Actions, and to a guarded development runtime that edits, tests and
publishes this very repository. What can go wrong in it is mostly not in one function:
it is redelivery, restarts, lost answers and timeouts between processes that share a
SQLite table, a worktree, a state branch, a list of workflow runs, or nothing.

This directory holds TLA+ models of it, TLC configurations that check them on small
instances, and theorems that TLAPS proves for every value of the constants.
`PROJECT.json` ties every definition to the lines it models, every property to a change
of the code that would break it, and every hazard to the properties about it.

    tlc -workers 2 -config MCNoteSave.cfg MCNoteSave      # one run
    tlapm JobQueueProofs.tla                              # one module of proofs

## 1. Inventory

| component | state it keeps | operations | how it interacts |
|---|---|---|---|
| **Jobs table** `db.py`, `job_store.py` | rows with status, retry count, claim token, `updated_at` | create, claim by type (with the sweep of stale claims), complete under a token, cancel | SQLite, written by the service only; every operation one transaction |
| **Mac bridges** `routes/*_bridge.py`, `scripts/*_mac_bridge.py`, `core/*_bridge.py` | a bridge: the job in its memory; the server: handlers under way | enqueue, poll/claim, execute, complete, ask for a repair, push the reply, cancel | HTTP between Mac and server; push to LINE; repair dispatch to GitHub |
| **LINE webhook** `config.py`, `app.py` | `processed_events`; per process a cache of ids, a lock, user locks, threads | accept an event once, work, reply, push, apologise | LINE redelivers; processes share the database only |
| **Conversation** `app.py`, `core/request_path.py`, `core/distributed_*.py`, `graph/`, `agents/{notes,memory,normal,english}` | questions put to a user, memories, reminders, vocabulary quiz and profile, cooldowns of providers | choose a route, run specialists, ask and confirm, call tools, fail over | LINE messages of a user wait for each other, `/internal/ask` does not |
| **Management and scheduler** `core/management_bridge.py`, `core/multi_agent.py`, `core/distributed_scheduler.py`, `core/agent_communication.py` | a plan, the results, bounded mailboxes | gate, plan, restrict, batch, execute, combine | a message it does not answer goes on to the conversation |
| **Agent runtime** `core/agent_runtime.py` | the tasks of a development, its rounds | batches, repair, follow-up, gate, report | reports go to the self-improvement history |
| **Repair pipeline** `graph/`, `agents/{debug,fix,patch,test,commit,deploy}`, `scripts/nightly_worker.py` | one working directory, approvals | diagnose, patch on a new branch, test, commit, deploy | all users' runs share REPO_WORKDIR |
| **Distributed-loop intake** `distributed_loop_trigger.py`, `obsidian_loop_dispatch.py` | cooldown per category in memory; GitHub's list of runs | count, dispatch, poll; check, dispatch, remember | REST to GitHub, which nobody locks |
| **Autonomous loop** its workflow, `scripts/run_minimal_autonomous_loop.py`, `scripts/recovery_ai*.py`, `{core,scripts}/control_tower*.py`, `scripts/chain_job_ai.py` | state on a branch: completed ids, failure records | resume, refill, select, launch, retry, publish, persist, report, chain | starts the guarded runtime; is dispatched by the intake |
| **Development run** `core/line_development_runtime.py`, `core/quality_runtime.py` | a git worktree, repair budgets, the remote branch | roles, two gates with repair, commit, push, rollback | a child of the loop, or a run of its own |
| **Development workers, builders** `scripts/*_worker*.py`, `scripts/*app_builder.py` | a worktree, attempts | plan, validate, repair the plan, apply, test, commit, deliver | the roles above use worker_v2; the others are workflows |
| **Stop latch, scope check** `core/immediate_stop.py`, `core/execution_safety.py` | the stop file | read, latch; compare the worktree with what was claimed | between the roles of a run, and by operators |
| **Self-improvement history** `core/self_improvement*.py`, `scripts/self_improvement_state.py` | signals and memories, at most 200, on the state branch | restore, observe, append, sanitize, validate, persist | inside the loop's workflow and each development run |
| **Note-save guard and MCP session** `note_save_guard.py`, `mcp_client.py`, `render_client.py` | a row per text in `note_save_attempts`; whether the notes service is suspended | claim, save, retry, read back; resume and suspend the service | called from any thread; HTTP to the notes service and to Render |
| **Mac pending queue** `core/pending_queue.py` | SQLite rows with approval, priority, retries | enqueue, approve, claim, finish, recover | a library; only tests call it today |
| Untyped job worker, reply splitting, voice store, vault files, watchdog, ledger, pages, answering agents | little, or what others keep | answer, report | everything above |

Hard behaviours, and what makes each component correct:

- *Jobs and bridges.* A claim is committed and its answer lost; the Mac sleeps through the
  900 seconds of a claim and completes late; the server restarts between the UPDATE and the
  push; bridges are started for pending jobs only, so that nobody sweeps a lost claim. A dead
  token must stay dead, the user must be told once and the truth, and a job must come to an end
  while somebody polls.
- *Webhook.* Redelivery, processes that share no lock, a cache that forgets, an INSERT that
  fails, a process that dies after accepting. Work must start at most once; one message in, at
  most one message out; a failed reply must have a fallback; no lock may stay, but where a call
  to LINE never returns.
- *Conversation.* A question outlives the message that asked it, a second message comes before
  the first is done, a provider executes tools and then fails. What a message does it must do
  once, and a yes must do what the question said.
- *Management, agent runtime.* The model chooses the tasks, their order and their resources.
  Nothing may run twice, before what it needs, or count as ready on evidence older than the
  last repair.
- *Repair pipeline.* One working copy, several users, git commands that fail in between. A
  run must commit its patch, as tested.
- *Intake.* Every list of runs is old when it is used, and an accepted POST may look like a
  failed one. No request may dispatch twice.
- *Autonomous loop.* A run is cut anywhere; what it decides on are copies; its records reach
  the branch in two pushes. A hold must bind until a human lifts it, a completed id must have
  been published, and the report must be true.
- *Development run, workers.* Two gates send work back, a stop may appear at any moment, git may
  fail between any two commands, a plan is repaired several times. Only what was tested and
  accepted may be published, existing tests must survive, and a request must end.
- *Self-improvement.* Workflow runs are repeated and cut. One memory of each, no raw text.
- *Note saving.* The service is asleep, slow, started and stopped by whoever comes first. The
  note must be stored once, the user told the truth, the service asleep again in the end.
- *Pending queue.* A recovery cannot see whether the worker it takes the task from is alive.

All hazards with their lines are in `PROJECT.json`.

## 2. Modules

    JobLedger  <--(refines)--  JobQueue  <--(INSTANCE)--  MacBridge
                                  |                          |
                     JobQueueProofs, MCJobQueue   MacBridgeProofs, MCMacBridge
    LineWebhook     LineWebhookProofs      MCLineWebhook
    NoteSave        NoteSaveProofs         MCNoteSave
    DevelopmentRun  DevelopmentRunProofs   MCDevelopmentRun
    LoopDispatch --.                       MCLoopDispatch
    PendingQueue --+- HandoverProofs       MCPendingQueue
    LoopPolicy <- AutonomousLoop <- AutonomousLoopProofs, MCAutonomousLoop (2 runs)

    PlanRules <- TestPlans <- PatchWorker --.
    GitRepo <- WorkerRepo <--- DiffWorker --+- Workers <- DevelopmentRunProofs, MCWorkers
                          `--- AppBuilder --'
    GitRepo <- RepairPipeline --.
    TaskGraphs <- AgentRuntime -+
    TaskGraphs, AgentMail <- Management -+- Secretary <- SecretaryProofs, MCSecretary (2 runs)
    Improvement ----------------+
    Conversation ---------------'

Definitions marked "Variant of" or "Mutant" are the code with one plausible mistake in it;
they are used by no action, and `PROJECT.json` says which property notices each.

**JobQueue** is the jobs table: `job` is the rows, `issued` counts the tokens that
`secrets.token_urlsafe` handed out (token *k* is the *k*-th). `CreateJob`, `Claim` (the
two sweeping UPDATEs, then `ClaimNothing` or `Grant`), `Complete` and `Cancel` are the
transactions of `db.py` (a failed completion may carry an error or none, and stores what it
carries); `Tick` is the clock behind `CURRENT_TIMESTAMP`. Any token may be
presented by anybody at any time. **JobLedger** is what the queue promises whoever enqueues:
a job is open, live in one attempt at most, closed once, and takes a bounded number of
attempts. `JobQueue!Ledger` is the refinement mapping.

**MacBridge** puts the real workers on that table: a bridge is idle, holding, executed or
waiting; `calls` are the `/complete` handlers of the server, at the stage their last
transaction left them, so that other claims and calls come between `get_job` (`CallRead`),
`complete_claimed_job` (`CallCommit`), the repair request (`CallRepair`) and the push
(`CallNotify`), which a blank reply does not get (`wordless`). `ClaimLost`, `CompleteLost`, `Return` before the handler is done,
`BridgeCrash` and `ServerRestart` are the faults.

**LineWebhook** follows a delivery from `/callback` through the duplicate filter (`Enter`,
`Check`, `Create`, one action per lock or statement) into its thread (`TakeUser`, `Work`)
and out through `Send` with its fallbacks. A call to LINE may also never return (`Hang`): the
thread then keeps the lock of its user. What may fail is the constant `Faults`.

**LoopDispatch** has GitHub on one side (`Starts`, `Appears`, `GetsSlot`, `Begins`, `Ends`;
external) and the two modules that dispatch on the other: a LINE request reads one list per
step (`Counts`), then is turned away, dispatches, polls; a repair reads a page, dispatches,
and remembers the category if the answer arrives. A run of a requester in `Lag` may be missing
from every list for a while; `missed` remembers that a check went ahead without seeing it.

**LoopPolicy** and **AutonomousLoop** are the distributed loop: the decisions as operators
(Recovery AI's action, the Control Tower's selection, the judgement of a child, the gates of a
row, publication, the final report, the chain), and the steps of the workflow in order.
`branch` is the durable state, `local` the run's copy; a commit is the task that made it and a
SHA the sequence of commits since the start, so that gates that compare SHAs compare histories.

**DevelopmentRun** takes requests through the roles over one worktree (`tree`, `index`, `head`
of the selected file, `strays` for anything else). `Begin` reads the latch, a role's action
does what the executor does to the worktree and ends in `Conclude`; `Succeeded` and `Failed`
are the routing of `QualityRuntime.run` with the budget of each gate; `Publish` is what
follows. Killing the process and placing or clearing a stop may happen at any time.

**Workers** has the programs that write code, one at a time over one worktree (`GitRepo`: what
git does to tree, index and head). *PlanRules* is search-and-replace on a text made of pieces
(a top-level definition each): validation, the test-preserving rule, application. *TestPlans*
is the table of deterministic plans, one row per reviewed task, with the anchors it looks for.
*PatchWorker* makes a plan (from the table, a model, or a repair of a rejected plan), applies,
tests and commits it, as the roles of the development run and as stand-alone worker_v2;
*DiffWorker* the two workers that take unified diffs; *AppBuilder* the four programs that write
whole applications, with repository creation, base branch, attempts and workflow retries.

**Secretary** has the programs that answer one message or do one pass of a workflow. They share
no variable, so one of them at a time shows what all together would:
*RepairPipeline* (`work`: the graph state of each run, `copy`: REPO_WORKDIR; a file's content is
the set of runs whose patch is in it; the candidates name any of the files of the patch, since
a rename or a section without a header of its own hides one); *Management* (`desk`: plan, batches run, results, mailbox,
reply) on *TaskGraphs* (dependencies, resources, batches) and *AgentMail* (validation, routes,
mailbox limit); *AgentRuntime* (`team`); *Improvement* (`durable`: what is on the branch, `loop`:
a workflow run); *Conversation* (`talk`: where each message is and what it did, `mind`:
notes, memories, reminders and open questions, `lessons`, `up`: the providers that are not
cooling down).

**NoteSave** follows calls of `save_note_safely` with the same text. A call is in one of two
session frames, the guard's and the request's inside it; `Look`, `Resume` and `Leave` are
`mcp_service_session`, `Claim` and the `Writes` are the transactions on the row, `PostSave`,
`Await` and `PostRead` the requests, `SaveAnswered` and `ReadAnswered` what the guard makes of
their answers. An answer that is no MCP result makes `_call` ask once more (`Resend`), after
the first request was served; `forgotten` remembers the calls whose second save was then
refused. The notes service compares and stores in two steps (external).

**PendingQueue** has one action per transaction, and workers that claim, finish and die.

## 3. Runs

| run | instance | distinct states | it shows |
|---|---|---|---|
| MCJobQueue | 3 jobs, 2 types, 1 retry, stale after 1 tick | 60,931 | claims are exclusive, dead tokens stay dead; refines JobLedger |
| MCMacBridge | 1 job, 2 retries, 2 Obsidian bridges, 1 OpenClaw bridge, all faults | 57,381 | user told once and finally, one effect per claim, only server faults or an empty reply silence a report, every job closes while a bridge polls |
| MCLineWebhook | 2 events of a user, 2 deliveries each, 1 process, cache of 1, all faults but the ambiguous send | 274,820 | work at most once, one message at most, fallbacks cover, handlers finish unless a call to LINE hangs |
| MCLoopDispatch | 1 LINE request and 2 categories of repair, whose runs may stay unlisted but for one category's, 1 process, 3 runs, a page of 1, cooldown of 2 ticks | 1,031,679 | repairs overlap only unseen, one run per request, cooldown, every request answered |
| MCPendingQueue | 2 tasks, 2 workers, 2 priorities, 2 recoveries | 219,691 | recoveries accounted, claims exclusive unless recovered |
| MCDevelopmentRun | 2 requests, 3 contents, 3 rounds per gate | 29,643 | only verified content published, stops bind, dirt explained, requests end |
| MCNoteSave | 2 calls, 2 attempts, service on demand, all faults | 4,579,408 | stored once, answers true (with two excuses), service suspended again, no claim left behind |
| MCAutonomousLoop | 2 tasks, 1 tracked, 1 approved addition, HOLD after 3 failures, 1 retry, chains of 1, a human | 2,900,044 | holds bind and only a human lifts them, completed was published, the report is true |
| MCAutonomousLoopChain | the same instance | violation | finding 1 |
| MCWorkers | every worker and builder in turn, 2 rounds of each gate, the plans of the table on the file as it is | 79,073 | existing tests kept, what is committed was tested, plans stay applicable |
| MCSecretary | 2 users and the nightly run; 3 tasks, 2 messages; 2 cycles; 3 asks, 2 follow-ups, 2 calls | 1,507,358 | the eight properties of the programs below |
| MCSecretaryMemory | the conversation alone | violation | finding 2 |

In MCSecretary the programs, each alone, have 110,659 (repair pipeline), 22,264 (management),
46,054 (agent runtime), 403,173 (self-improvement) and about 630,000 (conversation) states. They
share no variable, so the states are added and not multiplied; model values stand for users in one
program and for files or roles in the other, so that one symmetry serves all.

*Why the bounds are enough.* MaxRetries, MaxAttempts, MaxRounds and GateRounds only shorten sequences
that repeat; each is large enough to reach the step behind the last retry, and the MaxRounds of
MCDevelopmentRun and MCSecretary is the code's own 3, and so is HoldAfter. Three jobs of two types are
the least in which a claim sweeps one row and grants another while a third stays out of its type.
One job is enough in MacBridge, whose actions never relate two jobs; three bridges give two of a
type, one overtaking the other, and one that must stay away. A cache of one id evicts with the
second event; with one process a redelivery meets the lock and the cache, and that several
processes are safe is proved (section 5). Three runs let a repair meet an active and a finished
one. `StaleAfter`, `Cooldown` and the TTL of NoteSave are compared with the clock only, so one or
two ticks (or a flag) stand for 900, 1800 and 600 seconds. A page of one run
among three is too short, as the code's page of ten may be: the second run created hides the
first. Two calls in NoteSave give an
owner and a blocked or overtaking call; the invariant of its proof was also checked with three.
Two tasks in AutonomousLoop are what a run may take at most, and give a task that fails beside one
that passes; one tracked task and one that is added cover both ways into the catalog.
Two users' runs are enough for one to stage what the other commits. MaxRecords 5 cuts
the history that the code cuts at 200; MaxDevelopments only ends the run. Three tasks of
MCSecretary are a chain, a fork and a join; five topics exceed the four specialists of a plan.

*Deadlock* is looked for in MCJobQueue, MCMacBridge, MCDevelopmentRun, MCAutonomousLoop and
MCAutonomousLoopChain. In the other models every call, event, task or message may be over, and the
system rests.

## 4. Fairness

- `MacBridge!FairSpec`: a bridge that has begun a round goes on with it (a local command is a
  file operation or a subprocess with a timeout, every request has a timeout), and time passes.
  Nothing is assumed of the server, of messages, or of the absence of crashes; nor that anybody
  polls. That is a premise of `EveryJobCloses`, in two forms: a bridge that polls for ever
  (`Watched`, the option `--watch`), and one that is started, whenever a row is pending, for one
  round (`Launched`: `scripts/obsidian_mac_startup.py:337-391`, which also asks a human, and is itself
  run once per login). Under the second no job waits for ever, but one whose claim was lost may
  stay running for ever (`Stranded`).
- `LineWebhook!FairSpec`: the steps of a handler or thread go on. Models and the gateway's HTTP
  calls have timeouts (Groq 15 s), and so has SQLite; a lock that stays free is taken. The calls to
  LINE have none (`app.py:219`, `config.py:215`), so that one may hang: `Hang` takes the thread
  to a stage that no fairness leaves, and `HandlersFinish` excepts it and whoever waits for its
  lock (`Blocked`). LINE owes no redelivery.
- `LoopDispatch!FairSpec`: a request goes on with what it does when nothing fails (each GET
  has a timeout of 8 seconds, polling ends after 20). That something fails is not assumed.
- `DevelopmentRun!FairSpec`: a request that has begun goes on; every subprocess has a timeout.

The other modules check safety only.

## 5. Proofs

All theorems hold for every value of the constants that the named assumptions of a module
allow: any number of jobs, events, processes, deliveries, calls, tasks, workers, contents,
retries and attempts, and every set of faults. The type invariants are theorems here; Secretary's,
the type of five programs at once, is also the invariant of a run.

*JobQueueProofs.* The invariant is `TypeOK /\ ClaimSafety /\ FailureAccounted`, inductive as it
stands once the sweep is described row by row (`SweptRow`). From it follow `TypeCorrect`,
`ClaimsAreSafe`, `FailuresAreAccounted`; `ClosedRowsAreFinal` and `DeadTokensStayDead` step by
step, since only `Grant` stores a token, and it stores `issued + 1`; and
`QueueImplementsLedger`: every transaction is a step or a stutter of JobLedger.

*MacBridgeProofs.* A completion handler was accepted only if the table took its token, and the
table takes one per job: `Verdicts` says that the accepted call of a job is unique, that the row says
what the call says, and that nobody has been told yet. That, and that a told job stays closed, is
`UsersAreToldOnce`. A report that was neither told nor prevented by a fault of the server is a
success with an empty reply (`NoReportIsForgotten`). For `EffectsArePaidFor` it is not enough to look at one bridge: a bridge may hold a job
whose claim has long been swept. `Paid` counts: the executions done and the bridges that
still hold the job are together no more than the claims granted (this needs finitely many
bridges). `BridgesUseTheQueue` shows that no interleaving of bridges and handlers does to the table
anything but its own operations; with `QueueImplementsLedger` the three-level refinement
MacBridge, JobQueue, JobLedger is complete (`BridgesKeepTheLedger`).

*LineWebhookProofs.* `WorkStartsOnce` does not need the cache or the locks: an event is
counted as accepted only in the step that stores its row (`Counted`). `UserHearsOnce` needs
more: accepted once means at most one delivery beyond the filter (`OneRunner`), and while it is
there the user has heard nothing (`Unheard`), as long as a failed send is one that was not
delivered. `CachesAreSound` rests on the lock: between the check and the INSERT nobody else
of the process fills the cache. `FallbacksAreTried` needs to know who replies at all (`Repliers`) and
follows the stages of `Send`.

*HandoverProofs* has the two ways in which work is handed to somebody else. Of the pending queue: the
row does not name its worker, so the invariant says when a worker's belief is right
(`ClaimsHold`), as long as the task was not recovered under it. Of the dispatches: `RequestsRunOnce`
follows from who owns a run (`OwnInv`). `RepairsTakeTurns` and `CooldownIsKept` assume one service
process, as part of their statements, because the memory and the lock are a process's own
(`OneProcess`). Nothing is assumed of the page or of the lists: `RepairInv` says that a process that is
about to dispatch could not see any repair run that is outstanding, because its check overlooked
an unlisted one or because at least a page of listed runs is younger (`Unseen`, which lasts, as the
list only grows). Runs are created in order, so the younger ones lie between the two repairs:
they are more than a page apart. `CoolInv` says that each remembered time is one at which the
category was dispatched.

*AutonomousLoopProofs.* A run decides on copies. `Covers` says that what the branch blocks is blocked in
the run's copy, but for a task whose review was just approved; since a record only
gains failures until a human clears it, `HoldsNeedAHuman` follows. For the rest of the properties the
invariant has to follow a run from its selection to its report. `RunInv` says, in ten parts: until it
picks a task a run has no rows (`Fresh`), its queue holds eligible tasks only and is empty only if
refill had nothing to add (`Refilled`); behind the selection no task at hand is completed
(`Picked`) and none behind the gate is blocked (`InHand`), so that `LaunchedMayRun` follows; the SHA
a row names is a commit of the checkout (`Grown`), a verified row that the loop went on from has a clean record
(`Clean`), a run without a task wrote a marker and found nothing held (`Marked`), and what a step reports
as a success has happened (`Truthful`), so that a completed id was published (`CompletedArePublished`) and
the final report tells the truth (`ReportsAreTrue`). That the selection only drops tasks from a list
(`AmongIs`) is an induction over sequences; it is done by least counterexample from the
well-foundedness of the natural numbers, without the induction theorems of the library. `MaxAdditions > 0`
is what the code demands (`autonomous_task_refill.py:100`); with no additions allowed an empty
queue would not show that there was nothing to add. `RunInv` was checked with TLC on MCAutonomousLoop before it
was proved.

*SecretaryProofs.* The five programs share no variable, so the invariant is the conjunction of
theirs, and a step of one leaves the others' alone.
*Agent runtime*: `LogShows` relates the batches run to the plan in hand (follow-up tasks count only behind
the last repair, in their order) and `Phases` says which plan each position works on; together they give
`GatesFollowRepairs`. *Management*: `Progress` says that while a request goes on everything that
ran succeeded and every task that ran is in the plan, which is why a batch repeats nothing and starts behind what it needs.
*Repair pipeline*: contents of the shared copy only grow while runs overlap, so `PatchFollowed` holds
of a run whoever else is at work (what it applied is still there); `Alone` says what only an
undisturbed run may rely on: the branch is its own, the index is the head plus those files of its patch that were added. `ModesApart` keeps
the night's copy away from the users'. *Self-improvement*: `OncePerRun` and `Generic` are kept by what
the code does to records on the way to the branch (append, keep the newest, sanitize, validate). The fold over the results of a
cycle is unrolled, because a cycle has at most two. *Conversation*: `Proper` says what a request may have done at each position
(a provider that called tools is the last one asked); `ErasesInv` counts: the requests that have erased the notes or
are about to, and the question if it is open, are no more than the times it was put; `LessonsInv`
uses the lock of the user: one message of LINE at a time, so the question it read is the one it grades.

*DevelopmentRunProofs.* `Followed` says what the request has left to show at each position
(a tester has passed this very content when the reviewer is reached, and so on): the routing
never reaches publishing around a gate, however repairs are mixed. `StopsStand` ties a stop placed in
time to a request that can no longer push. `DirtFollowed` says who will clean up.

*Workers, in the same module.* A plan is `Sound` for a text if, where it applies, the tests are
kept. A plan that `validate_plan` accepts is, by the rule for tests; what a repair, a recount, a
replacement or a salvage lets through was judged itself (`RepairIsSound`, `SalvagedIsSound`,
`OnlyAddIsSound`), so that every outcome of any sequence of them keeps the tests
(`OutcomesKeep`), whatever the models answer: `Replies` is never expanded. `KeepsTests` is transitive, hence
`OnTextInv`: the file in the tree, in the index and in the head has the tests of the first commit (every role
starts from one of the three), and from the reviewer on the tree is what the tester passed. From this
follow `TestsAreKept` and the part of `CommitsAreTested` for text. For the nightly worker
(`NightlyInv`) nothing is staged before it delivers, and its gate lets through only changes in the
files it was given, so that adding these adds all there is. For the builders (`AppInv`,
`MadeIsNew`) what was made was not there before, and what was not made is as in the index. `PatchAssumption` says
of the repository that only its test files define tests. `WorkersInv` was checked with TLC on MCWorkers before it
was proved.

*NoteSaveProofs.* `Placed` and `Answered` say what a call's position implies about its request;
`OneAtATime` that, unless a TTL ended under a busy call, one call at most is responsible or has a
save under way, and the row says so; `Owned` that a service which is up has a session that
will suspend it. The row carries the name of the text and not of the claim, which is why the
induction needs to know that whoever deletes it is the one responsible, or that the note is there. `Kept` names, for every row, a call
that is still responsible or has a reason to leave the row behind (`ClaimsAreGivenBack`). `AnswersHold`
has to follow a save that is sent twice: from the first malformed answer on the call is marked, and
only a refusal of the second request brings it among the `forgotten`.

*Only model-checked.* Liveness (`EveryJobCloses`, `HandlersFinish`, `LineAnswers`, `RequestEnds`) is out
of reach of the prover. `PlansStayApplicable` is about the texts of this very repository, which only an
evaluation can tell: for other texts it need not hold.

## 6. Findings

By runs:

1. *The chain stops where it should go on* (MCAutonomousLoopChain). Chain Job AI is to go on
   when runtime, Control Tower and durable completion evidence agree (`scripts/chain_job_ai.py:4`),
   but reads the completion from an artifact copied before the completion is written to the branch.
2. *はい erases nothing* (MCSecretaryMemory). 「はい」と送ってください asks the memory agent
   (`agents/memory/handlers.py:213`); the answer はい is routed to the normal agent.

Met on the way, and not made runs of their own (the line is where it bites):

- Service: a job whose claims all time out is failed by the sweep, which tells nobody
  (`db.py:264`), although the result was promised on this LINE (`app.py:394`). Reading an empty note is answered
  by silence: its reply is blank (`agents/obsidian/node.py:97`, `routes/obsidian_bridge.py:191`). With
  the launcher alone a lost claim stays running until another job arrives, against
  `docs/obsidian-integration.md:52`. A call to LINE that hangs under the lock of a user blocks him until a
  restart (`app.py:551`). A database error in
  `create_processed_event` drops a new message as a duplicate (`config.py:86`). Runs move from
  pending to in progress while the lists are read in the opposite order, so a third LINE run gets
  past the limit of two (`distributed_loop_trigger.py:475`).
- Conversation: "明日の10時の予定を削除して" is saved as a note, against the example in the
  prompt (`agents/normal/node.py:258`). The pending note question has no expiry and belongs to no
  message. A provider that set a reminder and then failed is followed by "all providers
  unavailable", and a resend sets it twice. `grade_quiz` reads and updates without a transaction;
  `/internal/ask` takes no user lock. Plans with weather always raise, with English are always rejected.
- Management: a plan of six with a fallback raises ValueError though nothing ran; a message id
  over 200 characters raises after execution.
- Note saving: a malformed answer to a save makes `_call` send it again (`note_save_guard.py:109`); if
  that is refused, the user is told that a stored note was not saved.
- Repair pipeline: a patch with a rename, or with a section that has no header of its own, is
  tested whole and committed in part (`agents/patch/generator.py:42`, `agents/commit/node.py:84`). Two users' runs over one REPO_WORKDIR can commit each other's files; a failed
  `git commit` leaves a staged index (against `agents/commit/node.py:7`); HEAD stays on the
  fix branch, so that branches stack; the nightly worker's cut of its output can report a commit
  that was made as `repair_failed_no_retry`.
- Agent runtime: after a repair, tasks of the first plan that have not run never do; a batch
  that raises loses the results of the others.
- Self-improvement: a pattern with more than eight alike signals makes the proposal raise after
  the signals were appended (against `self_improvement_cycle.py:47`); one failure is counted
  twice; appending the loop's results is not idempotent; the memory of a PASS precedes the gates of
  publication; the `<n>` repair pattern never matches.
- Workers: v1 and the builder commit chosen files of a tree that was tested as a whole; the docstring of
  the anchor repair says "exactly one" where two pass; the deterministic plan for English
  casefolding does not apply at this commit.
- Autonomous loop: incident runs never publish; a blocked child without `failure_reason` is recorded as
  an unknown failure; a resume is spent when the run ends without a task or fails to persist; the 40-minute timeout loses
  failure counts; a partly successful run of two tasks loses the first one's work; the guard
  `recovery_ai_state_persist_failed` cannot fire.

## 7. What the properties excuse, and what the models leave out

An excuse in a property is a statement about the code, and each was put there because a
run without it failed:

- `HeardAtMostOnce` assumes that a send that raises delivered nothing. The code cannot tell;
  with the fault "ambiguous" a user may hear up to three times.
- `ReportsAreTold` excuses faults of the server and the empty reply of a success. `EveryJobCloses` has the
  polling of a bridge as its premise, `HandlersFinish` excepts a call to LINE that never returns and
  those who wait for its lock.
- `FallbacksCover` leaves out the dashboard, whose reply has no push behind it.
- `CooldownHolds` excuses lost answers and restarts, `OneRepairAtATime` runs that the check
  could not see: not listed yet, or hidden by a page of younger ones. Both are about one process.
- `StoredOnce` excuses a call whose claim outlived `MCP_SAVE_PENDING_TTL_SEC`; with the default
  timeouts a call stays under it by seconds (about 585 of 600).
- `AnswersAreTrue` excuses calls that the database refused: the catch-all then answers that
  nothing was saved; and those whose save was sent again after a malformed answer and then refused. `LeftSuspended` excuses failed requests to Render and crashes, and
  `NoClaimLeftBehind` calls that do not know what became of their save, crashed ones, and
  those the database refused.
- `DirtIsExplained` excuses kills and failed git commands, of which the code ignores two.
- `ClaimsExclusive` excuses tasks that were recovered under a living worker.
- `TestedIsCommitted` leaves out v1 and the builder, `CommitsItsPatch` covers runs that nobody
  disturbed, over an index that was clean when they began, and of their patch the files that the
  candidates name.

Abstracted in the modules: texts, signatures, validation and authentication of requests,
logging, audit rows, prompts, the wake-up cooldown of `mcp_client`, the stop seen after the commit and before the new branch
(`core/line_development_runtime.py:2873`), other systems' side of every HTTP call (marked
external in the map). A database error is a fault of the webhook and of the guard; in the jobs
table it would roll a transaction back, which is a step that does not happen.

Not modelled:

- the untyped job worker: nothing in the repository starts it; it claims any row without a token,
  and would break JobQueue's properties of every row it takes;
- reply splitting: a pure function on UTF-16 lengths, better enumerated by its tests;
- the voice store (an expiry in one process), the vault's files (one command at a time, with the job around it
  in MacBridge), the watchdog and the ledger (report only), dashboards and pages (read only);
- answering agents: request in, text out; what a later message can meet of them is in Conversation;
- agent handoffs and events, the handoffs and candidates of self-improvement: value types that no
  program keeps;
- the graph behind the older `generate_reply`, used when AI_CORE_DYNAMIC_GRAPH is off, and
  `select_daily_words`.

## 8. What could come next

1. *UntypedWorker*: `job_worker.py` composed with JobQueue; which properties survive it.
2. *A workflow over two repositories*: AutonomousLoop composed with DevelopmentRun by its
   outcome instead of the choice of a child.
3. *LineSplit*: `split_line_message` against a reference definition on bounded texts.
4. *Liveness of the autonomous loop*: under which reviews and faults a held task runs again.
