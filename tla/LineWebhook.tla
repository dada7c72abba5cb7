----------------------------- MODULE LineWebhook ----------------------------
(***************************************************************************)
(* The LINE webhook.  LINE delivers a message event to /callback, and      *)
(* delivers it again when it saw no answer in time.  The event handler     *)
(* accepts an event at most once, by a row of processed_events and a cache *)
(* in front of it, answers LINE at once, and lets a thread do the work and *)
(* answer the user.  An event is accepted BEFORE its work begins.          *)
(*                                                                         *)
(* The service may run in several processes: they share the database and   *)
(* nothing else.  Which of the things in Faults may go wrong is a          *)
(* parameter, so that a run can say what each of them costs.               *)
(***************************************************************************)
EXTENDS Integers, Sequences

CONSTANTS
  Events,         \* the message ids
  Users, UserOf,  \* who sent them
  Procs,          \* the processes of the service
  None,
  MaxDeliveries,  \* bound: how often LINE delivers one event
  CacheLimit,     \* _MAX_TRACKED_IDS
  Faults          \* what may go wrong, see AllFaults

(***************************************************************************)
(* "db":        a statement on processed_events raises;                    *)
(* "core":      the work of an event raises;                               *)
(* "reply":     LINE refuses a reply (the reply token expired);            *)
(* "push":      LINE refuses a push;                                       *)
(* "ambiguous": a message is delivered, and the call raises all the same;  *)
(* "hang":      a call to LINE never returns: the SDK is given no timeout; *)
(* "crash":     a process is killed.                                       *)
(***************************************************************************)
AllFaults == {"db", "core", "reply", "push", "ambiguous", "hang", "crash"}

ASSUME UserAssumption == UserOf \in [Events -> Users]
ASSUME NoneAssumption == None \notin (Events \X (1..MaxDeliveries))
ASSUME DeliveriesAssumption == MaxDeliveries \in Nat
ASSUME CacheAssumption == CacheLimit \in Nat
ASSUME FaultsAssumption == Faults \subseteq AllFaults

VARIABLES
  route,      \* what the message of an event asks for; LINE fixes it
  processed,  \* the event_ids of the processed_events table
  cache,      \* _processed_message_ids of a process, oldest first
  mutex,      \* which delivery holds _processed_lock of a process
  userLock,   \* which delivery holds the lock of a user in a process
  run,        \* where the handler or the thread of a delivery is
  accepted,   \* how often an event was let through to its work
  heard       \* how many messages the user got for an event

vars == <<route, processed, cache, mutex, userLock, run, accepted, heard>>

Deliveries == Events \X (1..MaxDeliveries)
EventOf(d) == d[1]

(***************************************************************************)
(* "dev" is a development instruction, "loop" one for the distributed      *)
(* loop, "dashboard" one of the two dashboard commands, "chat" any other   *)
(* text, and "audio" a voice message.                                      *)
(***************************************************************************)
Routes == {"dev", "loop", "dashboard", "chat", "audio"}

\* In the handler, under _processed_lock; then in the thread (or, for the loop
\* command, still in the handler), where a call may hang; then nothing more to do.
Deciding == {"checking", "creating"}
Working == {"queued", "working"}
Sending == {"replying", "pushing", "apologising"}
Over == {"ignored", "done", "dead"}
Stages ==
  {"unsent", "arrived", "hung"} \cup Deciding \cup Working \cup Sending \cup Over

Active(d) == run[d].at \in {"arrived", "hung"} \cup Deciding \cup Working \cup Sending

Init ==
  /\ route \in [Events -> Routes]
  /\ processed = {}
  /\ cache = [p \in Procs |-> <<>>]
  /\ mutex = [p \in Procs |-> None]
  /\ userLock = [p \in Procs |-> [u \in Users |-> None]]
  /\ run = [d \in Deliveries |-> [at |-> "unsent", proc |-> None]]
  /\ accepted = [e \in Events |-> 0]
  /\ heard = [e \in Events |-> 0]

Goes(d, stage) == run' = [run EXCEPT ![d].at = stage]

-----------------------------------------------------------------------------
(* Accepting an event *)

\* LINE delivers the event to one of the processes, for the first time or again.
Deliver(d, p) ==
  /\ run[d].at = "unsent"
  /\ \A n \in 1..(d[2] - 1) : run[<<EventOf(d), n>>].at # "unsent"
  /\ run' = [run EXCEPT ![d] = [at |-> "arrived", proc |-> p]]
  /\ UNCHANGED <<route, processed, cache, mutex, userLock, accepted, heard>>

Cached(p) == {cache[p][i] : i \in DOMAIN cache[p]}

\* The handler gets _processed_lock; an event it remembers is a duplicate.
Enter(d) ==
  /\ run[d].at = "arrived"
  /\ LET p == run[d].proc IN
       /\ mutex[p] = None
       /\ IF EventOf(d) \in Cached(p)
          THEN Goes(d, "ignored") /\ UNCHANGED mutex
          ELSE Goes(d, "checking") /\ mutex' = [mutex EXCEPT ![p] = d]
  /\ UNCHANGED <<route, processed, cache, userLock, accepted, heard>>

LeaveMutex(d) == mutex' = [mutex EXCEPT ![run[d].proc] = None]

\* is_processed_event; a read that raises counts as "not processed".
Check(d) ==
  /\ run[d].at = "checking"
  /\ \/ /\ EventOf(d) \in processed
        /\ Goes(d, "ignored")
        /\ LeaveMutex(d)
     \/ /\ EventOf(d) \notin processed \/ "db" \in Faults
        /\ Goes(d, "creating")
        /\ UNCHANGED mutex
  /\ UNCHANGED <<route, processed, cache, userLock, accepted, heard>>

\* The cache after another id was put in, the oldest one falling out at the limit.
Remember(ids, e) ==
  LET longer == Append(ids, e)
  IN IF Len(longer) > CacheLimit THEN Tail(longer) ELSE longer

\* The text of a chat waits for the lock of its user; so does the dashboard.
FirstStage(r) == IF r \in {"chat", "dashboard"} THEN "queued" ELSE "working"

\* Variant of Accept: the INSERT replaces a row that is there already.
AcceptAgain(d) ==
  LET e == EventOf(d)
      p == run[d].proc IN
  /\ processed' = processed \cup {e}
  /\ cache' = [cache EXCEPT ![p] = Remember(@, e)]
  /\ accepted' = [accepted EXCEPT ![e] = @ + 1]
  /\ Goes(d, FirstStage(route[e]))

\* The row is new: the event is let through, and the cache remembers it.
Accept(d) ==
  LET e == EventOf(d)
      p == run[d].proc IN
  /\ e \notin processed
  /\ processed' = processed \cup {e}
  /\ cache' = [cache EXCEPT ![p] = Remember(@, e)]
  /\ accepted' = [accepted EXCEPT ![e] = @ + 1]
  /\ Goes(d, FirstStage(route[e]))

(***************************************************************************)
(* create_processed_event: INSERT OR IGNORE, and what follows it under the *)
(* lock.  False means that the row is there already, or that the statement *)
(* raised; either way the event is dropped and LINE is told OK.            *)
(***************************************************************************)
Create(d) ==
  /\ run[d].at = "creating"
  /\ LeaveMutex(d)
  /\ \/ Accept(d)
     \/ /\ EventOf(d) \in processed \/ "db" \in Faults
        /\ Goes(d, "ignored")
        /\ UNCHANGED <<processed, cache, accepted>>
  /\ UNCHANGED <<route, userLock, heard>>

-----------------------------------------------------------------------------
(* Working and answering *)

UserOfDelivery(d) == UserOf[EventOf(d)]

\* _process_and_reply gets the lock of the user; the dashboard has no work to do.
TakeUser(d) ==
  /\ run[d].at = "queued"
  /\ userLock[run[d].proc][UserOfDelivery(d)] = None
  /\ userLock' = [userLock EXCEPT ![run[d].proc][UserOfDelivery(d)] = d]
  /\ Goes(d, IF route[EventOf(d)] = "dashboard" THEN "replying" ELSE "working")
  /\ UNCHANGED <<route, processed, cache, mutex, accepted, heard>>

\* The work produced something to say.  When it raises, chat and dev have a fixed
\* text to say instead; a voice message and the loop command apologise.
Work(d) ==
  /\ run[d].at = "working"
  /\ LET r == route[EventOf(d)] IN
       \/ Goes(d, IF r \in {"chat", "audio"} THEN "replying" ELSE "pushing")
       \/ "core" \in Faults /\ r \in {"audio", "loop"} /\ Goes(d, "apologising")
  /\ UNCHANGED <<route, processed, cache, mutex, userLock, accepted, heard>>

\* Variant of Fallback: the text thread has no push to fall back to.
FallbackVoiceOnly(r, stage) ==
  CASE stage = "replying" /\ r = "audio" -> "pushing"
    [] stage = "pushing" /\ r = "audio" -> "apologising"
    [] OTHER -> "done"

\* What is tried after a message could not be sent.
Fallback(r, stage) ==
  CASE stage = "replying" /\ r \in {"chat", "audio"} -> "pushing"
    [] stage = "pushing" /\ r = "audio" -> "apologising"
    [] OTHER -> "done"

\* Variant of Proceeds: the lock is not given back.
ProceedsHolding(d, stage) ==
  /\ Goes(d, stage)
  /\ UNCHANGED userLock

\* The thread ends or goes on; when it ends, it gives the lock of the user back.
Proceeds(d, stage) ==
  /\ Goes(d, stage)
  /\ userLock' =
       IF stage = "done" /\ userLock[run[d].proc][UserOfDelivery(d)] = d
       THEN [userLock EXCEPT ![run[d].proc][UserOfDelivery(d)] = None]
       ELSE userLock

Means(stage) == IF stage = "replying" THEN "reply" ELSE "push"

\* Variant of Send: the return after a reply that went through is missing.
SendOn(d) ==
  /\ run[d].at \in Sending
  /\ LET stage == run[d].at
         e == EventOf(d) IN
       \/ /\ heard' = [heard EXCEPT ![e] = @ + 1]
          /\ Proceeds(d, Fallback(route[e], stage))
       \/ /\ Means(stage) \in Faults
          /\ Proceeds(d, Fallback(route[e], stage))
          /\ UNCHANGED heard
  /\ UNCHANGED <<route, processed, cache, mutex, accepted>>

\* _line_reply, _line_push and the two SDK calls of the voice pipeline.
Send(d) ==
  /\ run[d].at \in Sending
  /\ LET stage == run[d].at
         e == EventOf(d) IN
       \/ /\ heard' = [heard EXCEPT ![e] = @ + 1]
          /\ Proceeds(d, "done")
       \/ /\ Means(stage) \in Faults
          /\ Proceeds(d, Fallback(route[e], stage))
          /\ UNCHANGED heard
       \/ /\ "ambiguous" \in Faults
          /\ heard' = [heard EXCEPT ![e] = @ + 1]
          /\ Proceeds(d, Fallback(route[e], stage))
  /\ UNCHANGED <<route, processed, cache, mutex, accepted>>

(***************************************************************************)
(* A send, or the download of a voice message, never returns: nothing that *)
(* follows it happens, and the thread keeps the lock it holds.  The        *)
(* message may have gone out all the same.                                 *)
(***************************************************************************)
Hang(d) ==
  /\ "hang" \in Faults
  /\ \/ /\ run[d].at \in Sending
        /\ \E out \in 0..1 : heard' = [heard EXCEPT ![EventOf(d)] = @ + out]
     \/ /\ run[d].at = "working" /\ route[EventOf(d)] = "audio"
        /\ UNCHANGED heard
  /\ Goes(d, "hung")
  /\ UNCHANGED <<route, processed, cache, mutex, userLock, accepted>>

\* The process is killed and started again, with an empty cache and free locks.
Crash(p) ==
  /\ "crash" \in Faults
  /\ \E d \in Deliveries : run[d].proc = p /\ Active(d)
  /\ run' = [d \in Deliveries |->
               IF run[d].proc = p /\ Active(d) THEN [run[d] EXCEPT !.at = "dead"]
               ELSE run[d]]
  /\ cache' = [cache EXCEPT ![p] = <<>>]
  /\ mutex' = [mutex EXCEPT ![p] = None]
  /\ userLock' = [userLock EXCEPT ![p] = [u \in Users |-> None]]
  /\ UNCHANGED <<route, processed, accepted, heard>>

Handle(d) == Enter(d) \/ Check(d) \/ Create(d)
Answer(d) == TakeUser(d) \/ Work(d) \/ Send(d)

Next ==
  \/ \E d \in Deliveries, p \in Procs : Deliver(d, p)
  \/ \E d \in Deliveries : Handle(d) \/ Answer(d) \/ Hang(d)
  \/ \E p \in Procs : Crash(p)

Spec == Init /\ [][Next]_vars

(***************************************************************************)
(* Threads run: statements and calls of models and tools have timeouts, a  *)
(* call to LINE returns unless it hangs, and a lock that is free for ever  *)
(* is taken.  LINE owes nothing.                                           *)
(***************************************************************************)
Fairness == \A d \in Deliveries : WF_vars(Handle(d)) /\ WF_vars(Answer(d))

FairSpec == Spec /\ Fairness

-----------------------------------------------------------------------------
(* Properties *)

\* Every variable keeps its type, and a cache its limit.
TypeOK ==
  /\ route \in [Events -> Routes]
  /\ processed \subseteq Events
  /\ cache \in [Procs -> Seq(Events)]
  /\ \A p \in Procs : Len(cache[p]) <= CacheLimit
  /\ mutex \in [Procs -> Deliveries \cup {None}]
  /\ userLock \in [Procs -> [Users -> Deliveries \cup {None}]]
  /\ run \in [Deliveries -> [at : Stages, proc : Procs \cup {None}]]
  /\ accepted \in [Events -> Nat]
  /\ heard \in [Events -> Nat]

\* However often LINE delivers an event, to whatever process, and whatever falls
\* out of the cache or is lost in a crash, its work is started at most once.
WorkAtMostOnce == \A e \in Events : accepted[e] <= 1

\* An id is in a cache once, and only when its row is stored: the cache can never
\* turn away an event that nobody accepted.
CacheSound ==
  \A p \in Procs :
    /\ Cached(p) \subseteq processed
    /\ \A i, j \in DOMAIN cache[p] : cache[p][i] = cache[p][j] => i = j

\* As long as an error means that nothing was delivered, the user gets at most one
\* message for one of theirs, through all the fallbacks.
HeardAtMostOnce == \A e \in Events : heard[e] <= 1

\* The work of an event ends with nothing heard only after a push was refused too, or for
\* a dashboard, whose reply has no fallback: no other failure leaves a user in silence.
FallbacksCover ==
  [][\A d \in Deliveries :
       LET e == EventOf(d)
       IN  run[d].at \notin Over /\ run'[d].at = "done" =>
             heard'[e] > 0 \/ run[d].at \in {"pushing", "apologising"} \/ route[e] = "dashboard"]_vars

\* The delivery waits for a thread of its user that hangs in a call to LINE.
Blocked(d) ==
  /\ run[d].at = "queued"
  /\ \E h \in Deliveries : /\ run[h].at = "hung"
                           /\ userLock[run[d].proc][UserOfDelivery(d)] = h

\* Whatever goes wrong with the work and the messages, the handler and the thread
\* of every delivery come to their end, unless a call to LINE never returns: that
\* stops the thread itself and, until a restart, the messages of the same user.
HandlersFinish ==
  \A d \in Deliveries :
    run[d].at = "arrived" ~> run[d].at \in Over \cup {"hung"} \/ Blocked(d)

=============================================================================
