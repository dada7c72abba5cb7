---------------------------- MODULE LoopDispatch ----------------------------
(***************************************************************************)
(* Who starts runs of the distributed loop on GitHub Actions.  A LINE      *)
(* command asks distributed_loop_trigger.py, which counts the runs that    *)
(* are not over, list by list, dispatches one more if there is room, and   *)
(* polls until it sees it.  A failed Obsidian job asks                     *)
(* obsidian_loop_dispatch.py, which dispatches a repair run unless one is  *)
(* active or the category is cooling down.  Schedules and comments start   *)
(* runs as well.  Nobody locks anything at GitHub: every list is old by    *)
(* the time it is used.                                                    *)
(***************************************************************************)
EXTENDS Integers, FiniteSets, Sequences

CONSTANTS
  Handlers,    \* the LINE requests
  InFlight,    \* how many of them the service works on at the same time
  Procs,       \* the service processes, as far as repairs are concerned
  Categories,  \* AUTOREPAIR_INCIDENT_CATEGORIES
  Other,       \* stands for every other trigger of the workflow
  OtherRuns,   \* are there other triggers?
  MaxRuns,     \* bound: how many runs are ever created
  Cooldown,    \* AUTOREPAIR_COOLDOWN_SECONDS, in clock ticks
  PageSize,    \* how many runs the repair check looks at (per_page)
  Lag,         \* the requesters whose new runs may be missing from the lists for a while
  Faults       \* what may go wrong, see AllFaults

(***************************************************************************)
(* "refused": GitHub answers a request with an error;                      *)
(* "lost":    GitHub starts the run, and the answer does not arrive;       *)
(* "restart": a service process is restarted.                              *)
(***************************************************************************)
AllFaults == {"refused", "lost", "restart"}

ASSUME RequestersAssumption ==
  /\ Handlers \cap Categories = {}
  /\ Other \notin Handlers \cup Categories
  /\ "idle" \notin Categories
ASSUME BoundsAssumption ==
  /\ MaxRuns \in Nat /\ Cooldown \in Nat /\ InFlight \in Nat
  /\ PageSize \in Nat \ {0}
ASSUME SwitchAssumption == OtherRuns \in BOOLEAN
ASSUME LagAssumption == Lag \subseteq Handlers \cup Categories \cup {Other}
ASSUME FaultsAssumption == Faults \subseteq AllFaults

VARIABLES
  run,     \* the workflow runs at GitHub, in the order of their creation; "missed" is
           \* history: the check for a repair went ahead while the run was not listed yet
  line,    \* what each LINE request is doing
  repair,  \* what the repair request of a process is doing, under its lock
  cool,    \* _LAST_DISPATCH_AT: how long a category still has to cool down
  recent,  \* history: how long ago GitHub started a repair run of a category, likewise
  forgot   \* history: the categories whose last repair run the service does not know of

vars == <<run, line, repair, cool, recent, forgot>>

Runs == 1..MaxRuns

\* The statuses both modules count as not over.  "waiting" and "requested" do not
\* occur in this workflow, which has no protected environment.
Outstanding == {"pending", "queued", "in_progress"}

NoRun == [status |-> "none", by |-> Other, listed |-> FALSE, missed |-> FALSE]

\* The lists a LINE request reads, in this order.
StatusOrder == <<"in_progress", "queued", "pending", "waiting">>

\* What a request remembers of the lists it read is forgotten when it is done with them.
At(pc) == [pc |-> pc, next |-> 1, seen |-> {}]

Init ==
  /\ run = [r \in Runs |-> NoRun]
  /\ line = [h \in Handlers |-> At("idle")]
  /\ repair = [p \in Procs |-> "idle"]
  /\ cool = [p \in Procs |-> [c \in Categories |-> 0]]
  /\ recent = [c \in Categories |-> 0]
  /\ forgot = {}

-----------------------------------------------------------------------------
(* GitHub Actions: one run of the concurrency group at a time, none dropped *)

Created == {r \in Runs : run[r].status # "none"}

Listed == {r \in Created : run[r].listed}

SlotFree == \A r \in Runs : run[r].status \notin {"queued", "in_progress"}

\* The workflow is dispatched: the next run exists, and is listed at once or later.
Starts(r, by) ==
  /\ r \notin Created
  /\ \A q \in Runs : q < r => q \in Created
  /\ \E listed \in BOOLEAN :
       /\ listed \/ by \in Lag
       /\ run' = [run EXCEPT ![r] = [status |-> IF SlotFree THEN "queued" ELSE "pending",
                                     by |-> by, listed |-> listed, missed |-> FALSE]]

OtherTrigger ==
  /\ OtherRuns
  /\ \E r \in Runs : Starts(r, Other)
  /\ UNCHANGED <<line, repair, cool, recent, forgot>>

Appears(r) ==
  /\ r \in Created \ Listed
  /\ run' = [run EXCEPT ![r].listed = TRUE]
  /\ UNCHANGED <<line, repair, cool, recent, forgot>>

\* The oldest pending run gets the slot.
GetsSlot(r) ==
  /\ run[r].status = "pending" /\ SlotFree
  /\ \A q \in Runs : run[q].status = "pending" => r <= q
  /\ run' = [run EXCEPT ![r].status = "queued"]
  /\ UNCHANGED <<line, repair, cool, recent, forgot>>

Begins(r) ==
  /\ run[r].status = "queued"
  /\ run' = [run EXCEPT ![r].status = "in_progress"]
  /\ UNCHANGED <<line, repair, cool, recent, forgot>>

\* The run ends, or somebody cancels it.
Ends(r) ==
  /\ run[r].status \in Outstanding
  /\ run' = [run EXCEPT ![r].status = "completed"]
  /\ UNCHANGED <<line, repair, cool, recent, forgot>>

GitHub(r) == Appears(r) \/ GetsSlot(r) \/ Begins(r) \/ Ends(r)

-----------------------------------------------------------------------------
(* The LINE command: request_distributed_loop *)

Busy == {h \in Handlers : line[h].pc \in {"counting", "polling"}}

Asks(h) ==
  /\ line[h].pc = "idle"
  /\ Cardinality(Busy) < InFlight
  /\ line' = [line EXCEPT ![h] = At("counting")]
  /\ UNCHANGED <<run, repair, cool, recent, forgot>>

\* One GET: the listed runs with the next status are added to those seen before.
Counts(h) ==
  /\ line[h].pc = "counting" /\ line[h].next <= Len(StatusOrder)
  /\ line' = [line EXCEPT
                ![h].next = @ + 1,
                ![h].seen = @ \cup {r \in Listed : run[r].status = StatusOrder[line[h].next]}]
  /\ UNCHANGED <<run, repair, cool, recent, forgot>>

Counted(h) == line[h].pc = "counting" /\ line[h].next > Len(StatusOrder)

Full(h) == Cardinality(line[h].seen) >= 2

TurnsAway(h) ==
  /\ Counted(h) /\ Full(h)
  /\ line' = [line EXCEPT ![h] = At("busy")]
  /\ UNCHANGED <<run, repair, cool, recent, forgot>>

\* The POST: GitHub starts the run; its answer arrives, or the handler gives up.
Dispatches(h) ==
  /\ Counted(h) /\ ~Full(h)
  /\ \E r \in Runs : Starts(r, h)
  /\ \/ line' = [line EXCEPT ![h] = At("polling")]
     \/ "lost" \in Faults /\ line' = [line EXCEPT ![h] = At("failed")]
  /\ UNCHANGED <<repair, cool, recent, forgot>>

\* Any GET or the POST is answered with an error, or not at all.
Fails(h) ==
  /\ "refused" \in Faults
  /\ line[h].pc \in {"counting", "polling"}
  /\ line' = [line EXCEPT ![h] = At("failed")]
  /\ UNCHANGED <<run, repair, cool, recent, forgot>>

\* Variant of Polls: a run that cannot be found is requested again.
PollsAndResends(h) ==
  /\ line[h].pc = "polling"
  /\ \/ /\ \E r \in Listed : run[r].by = h
        /\ line' = [line EXCEPT ![h] = At("started")]
     \/ line' = [line EXCEPT ![h] = At("counting")]
  /\ UNCHANGED <<run, repair, cool, recent, forgot>>

\* Variant of Polls: there is no deadline.
PollsForEver(h) ==
  /\ line[h].pc = "polling"
  /\ \E r \in Listed : run[r].by = h
  /\ line' = [line EXCEPT ![h] = At("started")]
  /\ UNCHANGED <<run, repair, cool, recent, forgot>>

\* A poll finds the run with this request's id, whatever its status; or the 20
\* seconds are over.
Polls(h) ==
  /\ line[h].pc = "polling"
  /\ \/ /\ \E r \in Listed : run[r].by = h
        /\ line' = [line EXCEPT ![h] = At("started")]
     \/ line' = [line EXCEPT ![h] = At("unseen")]
  /\ UNCHANGED <<run, repair, cool, recent, forgot>>

\* What a request does when nothing fails.
Proceeds(h) == Counts(h) \/ TurnsAway(h) \/ Dispatches(h) \/ Polls(h)

Handle(h) == Proceeds(h) \/ Fails(h)

-----------------------------------------------------------------------------
(* The repair of an Obsidian incident: request_obsidian_incident_repair *)

\* The runs on the page of the listing that the check reads.
Page == {r \in Listed : Cardinality({q \in Listed : q > r}) < PageSize}

\* What the check leaves in the histories of the runs it could not see.
Overlooks ==
  run' = [r \in Runs |-> IF r \in Created \ Listed THEN [run[r] EXCEPT !.missed = TRUE]
                                                  ELSE run[r]]

\* Variant of ChecksRepair: only a run in progress counts as active.
ChecksRunning(p, c) ==
  /\ repair[p] = "idle"
  /\ cool[p][c] = 0
  /\ \A r \in Page : run[r].status # "in_progress"
  /\ Overlooks
  /\ repair' = [repair EXCEPT ![p] = c]
  /\ UNCHANGED <<line, cool, recent, forgot>>

\* The category is not cooling down and no run on the page is active; otherwise
\* the request is answered at once and leaves nothing behind.
ChecksRepair(p, c) ==
  /\ repair[p] = "idle"
  /\ cool[p][c] = 0
  /\ \A r \in Page : run[r].status \notin Outstanding
  /\ Overlooks
  /\ repair' = [repair EXCEPT ![p] = c]
  /\ UNCHANGED <<line, cool, recent, forgot>>

\* Variant of DispatchesRepair: the dispatch is not remembered.
DispatchesUnremembered(p) ==
  /\ repair[p] \in Categories
  /\ LET c == repair[p] IN
       /\ \E r \in Runs : Starts(r, c)
       /\ recent' = [recent EXCEPT ![c] = Cooldown]
  /\ repair' = [repair EXCEPT ![p] = "idle"]
  /\ UNCHANGED <<line, cool, forgot>>

\* The POST: only an answer that arrives starts the cooldown.
DispatchesRepair(p) ==
  /\ repair[p] \in Categories
  /\ LET c == repair[p] IN
       /\ \E r \in Runs : Starts(r, c)
       /\ recent' = [recent EXCEPT ![c] = Cooldown]
       /\ \/ /\ cool' = [cool EXCEPT ![p][c] = Cooldown]
             /\ forgot' = forgot \ {c}
          \/ /\ "lost" \in Faults
             /\ forgot' = forgot \cup {c}
             /\ UNCHANGED cool
  /\ repair' = [repair EXCEPT ![p] = "idle"]
  /\ UNCHANGED line

RepairRefused(p) ==
  /\ "refused" \in Faults
  /\ repair[p] \in Categories
  /\ repair' = [repair EXCEPT ![p] = "idle"]
  /\ UNCHANGED <<run, line, cool, recent, forgot>>

\* The memory of the process is gone, and with it every cooldown.
Restart(p) ==
  /\ "restart" \in Faults
  /\ repair' = [repair EXCEPT ![p] = "idle"]
  /\ cool' = [cool EXCEPT ![p] = [c \in Categories |-> 0]]
  /\ forgot' = forgot \cup {c \in Categories : cool[p][c] > 0}
  /\ UNCHANGED <<run, line, recent>>

Less(n) == IF n > 0 THEN n - 1 ELSE 0

\* The requests of a repair take seconds, a tick of the cooldown minutes.
Tick ==
  /\ \A p \in Procs : repair[p] = "idle"
  /\ cool' = [p \in Procs |-> [c \in Categories |-> Less(cool[p][c])]]
  /\ recent' = [c \in Categories |-> Less(recent[c])]
  /\ UNCHANGED <<run, line, repair, forgot>>

Next ==
  \/ OtherTrigger
  \/ \E r \in Runs : GitHub(r)
  \/ \E h \in Handlers : Asks(h) \/ Handle(h)
  \/ \E p \in Procs :
       \/ \E c \in Categories : ChecksRepair(p, c)
       \/ DispatchesRepair(p) \/ RepairRefused(p) \/ Restart(p)
  \/ Tick

Spec == Init /\ [][Next]_vars

(***************************************************************************)
(* A handler thread runs on: every request has a timeout of 8 seconds, and *)
(* polling ends after 20.  No failure is assumed to come to its rescue.    *)
(***************************************************************************)
Fairness == \A h \in Handlers : WF_vars(Proceeds(h))

FairSpec == Spec /\ Fairness

-----------------------------------------------------------------------------
(* Properties *)

Requesters == Handlers \cup Categories \cup {Other}

\* The runs, the requests and the memory of the service have their types.
TypeOK ==
  /\ run \in [Runs -> [status : Outstanding \cup {"none", "completed"},
                      by : Requesters, listed : BOOLEAN, missed : BOOLEAN]]
  /\ line \in [Handlers ->
                [pc : {"idle", "counting", "polling", "started", "unseen", "busy", "failed"},
                 next : 1..(Len(StatusOrder) + 1), seen : SUBSET Runs]]
  /\ repair \in [Procs -> Categories \cup {"idle"}]
  /\ cool \in [Procs -> [Categories -> 0..Cooldown]]
  /\ recent \in [Categories -> 0..Cooldown]
  /\ forgot \subseteq Categories

StartedBy(requesters) ==
  {r \in Runs : run[r].status \in Outstanding /\ run[r].by \in requesters}

\* A request never dispatches twice, not even when it cannot find the run it asked
\* for; one that was turned away has no run, and one that reports a run has one.
OneRunPerRequest ==
  \A h \in Handlers :
    LET own == {r \in Runs : run[r].status # "none" /\ run[r].by = h} IN
    /\ Cardinality(own) <= 1
    /\ line[h].pc \in {"idle", "counting", "busy"} => own = {}
    /\ line[h].pc = "started" => own # {}

\* The check of _ACTIVE_RUN_STATUSES keeps repairs apart, whatever their categories: two
\* repair runs are outstanding together only if the check could not see the elder, because
\* GitHub did not list it yet or a page full of younger runs hid it.
OneRepairAtATime ==
  \A q, r \in StartedBy(Categories) : q < r => run[q].missed \/ r - q > PageSize

StartsRepair(c) ==
  \E r \in Runs : run[r].status = "none" /\ run'[r].status # "none" /\ run'[r].by = c

\* What the comment at the lock says of the category-wide cooldown: a category gets
\* no second repair run before its cooldown is over, unless the answer of GitHub was
\* lost or the service restarted in between.
CooldownHolds ==
  [][\A c \in Categories : StartsRepair(c) => recent[c] = 0 \/ c \in forgot]_vars

\* Every LINE request is answered, whatever GitHub does with its run (up to the bound
\* of the model: there is no run left to dispatch).
LineAnswers ==
  \A h \in Handlers :
    line[h].pc = "counting" ~>
      line[h].pc \in {"started", "busy", "unseen", "failed"} \/ Created = Runs

=============================================================================
