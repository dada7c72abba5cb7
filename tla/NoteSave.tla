------------------------------ MODULE NoteSave ------------------------------
(***************************************************************************)
(* Saving one note: save_note_safely of note_save_guard.py, called for the *)
(* same user and text by threads of any process, with the claim it keeps   *)
(* in note_save_attempts, the save and the read-back it asks of the notes  *)
(* service, and mcp_service_session of render_client.py, which starts and  *)
(* suspends that service on demand.  The guard opens a session and every   *)
(* request opens another inside it, as call_mcp_tool does.                 *)
(***************************************************************************)
EXTENDS Integers, FiniteSets

CONSTANTS
  Calls,        \* the calls of save_note_safely with one user and one text
  MaxAttempts,  \* MCP_SAVE_MAX_ATTEMPTS
  OnDemand,     \* MCP_RENDER_ON_DEMAND: is the service suspended between sessions?
  Faults        \* what may go wrong, see AllFaults

(***************************************************************************)
(* "db":      the database refuses a transaction of the guard;             *)
(* "net":     a request is refused or rejected, or its answer unreadable;  *)
(* "service": the notes service answers a save with an error, or a request *)
(*            with a body that is no MCP result;                           *)
(* "control": a request to the Render API fails, with or without effect;   *)
(* "crash":   a process ends in the middle of a call.                      *)
(* An answer may always come too late.                                     *)
(***************************************************************************)
AllFaults == {"db", "net", "service", "control", "crash"}

ASSUME AttemptsAssumption == MaxAttempts \in Nat \ {0}
ASSUME OnDemandAssumption == OnDemand \in BOOLEAN
ASSUME FaultsAssumption == Faults \subseteq AllFaults

VARIABLES
  call,       \* what each call is doing
  row,        \* the row of the text in note_save_attempts, and whether its TTL is over
  request,    \* what became of the save a call has sent to the service
  notes,      \* how many notes with the text the service keeps
  suspended,  \* is the service suspended at Render?
  made,       \* history: the calls whose save was stored
  troubled,   \* history: the calls whose database transaction failed
  overtaken,  \* history: did the TTL end while a call with a claim was still busy?
  stranded,   \* history: did a session fail to suspend what it had resumed?
  forgotten   \* history: the calls whose save was refused after an earlier one was answered

vars == <<call, row, request, notes, suspended, made, troubled, overtaken, stranded, forgotten>>

histories == <<made, troubled, overtaken, stranded, forgotten>>

Frames == {"guard", "tool"}

Replies == {"saved", "duplicate", "error"}

\* Where a call stands; which of its sessions resumed the service (resumed_by_us);
\* the tool it asks for, whether for the second time, and for a read-back what led to
\* it; the answer it got; and what it tells the user.
Call == [pc : {"idle", "look", "resume", "claim", "ready", "post", "await",
               "leave", "settle", "over"},
         at : Frames, owns : SUBSET Frames,
         tool : {"save", "read"}, again : BOOLEAN,
         why : {"none", "blocked", "ambiguous", "saved", "error"},
         attempt : 1..MaxAttempts,
         got : Replies \cup {"none", "undelivered", "rejected", "ambiguous",
                             "malformed", "present", "absent"},
         told : {"nothing", "saved", "exists", "failed", "unknown"}]

NewCall == [pc |-> "idle", at |-> "guard", owns |-> {}, tool |-> "save", again |-> FALSE,
            why |-> "none", attempt |-> 1, got |-> "none", told |-> "nothing"]

NoRow == [state |-> "none", stale |-> FALSE]

Fresh(state) == [state |-> state, stale |-> FALSE]

Init ==
  /\ call = [c \in Calls |-> NewCall]
  /\ row = NoRow
  /\ request = [c \in Calls |-> "none"]
  /\ notes = 0
  /\ suspended = OnDemand
  /\ made = {} /\ troubled = {} /\ overtaken = FALSE /\ stranded = FALSE /\ forgotten = {}

-----------------------------------------------------------------------------
(* Steps of a call *)

At(c, pc) == call[c].pc = pc

Goes(c, next) == call' = [call EXCEPT ![c] = next]

\* The call returns: its result is fixed, the rest forgotten, and the guard's session is
\* left.
Tells(c, told) == [NewCall EXCEPT !.pc = "leave", !.owns = call[c].owns, !.told = told]

\* call_tool: a request to the service, in a session of its own.
Asks(c, tool, why) ==
  [call[c] EXCEPT !.pc = "look", !.at = "tool", !.tool = tool, !.again = FALSE,
                  !.why = why, !.got = "none"]

Gets(c, answer) == [call[c] EXCEPT !.pc = "leave", !.got = answer]

\* An exception on the way into a session: the catch-all of the guard, or a failure
\* of the request that says nothing about its delivery.
Raises(c) == IF call[c].at = "guard" THEN Tells(c, "failed") ELSE Gets(c, "ambiguous")

Inside(c) ==
  [call[c] EXCEPT !.pc = IF call[c].at = "guard" THEN "claim" ELSE "post"]

Begin(c) ==
  /\ At(c, "idle")
  /\ Goes(c, [call[c] EXCEPT !.pc = "look"])
  /\ UNCHANGED <<row, request, notes, suspended, histories>>

\* get_service and, if it says the service is up, the probe of its health.
Look(c) ==
  /\ At(c, "look")
  /\ \/ Goes(c, IF suspended THEN [call[c] EXCEPT !.pc = "resume"] ELSE Inside(c))
     \/ OnDemand /\ Faults \cap {"net", "control"} # {} /\ Goes(c, Raises(c))
  /\ UNCHANGED <<row, request, notes, suspended, histories>>

\* resume_service and the wait for it.  A request that raises may have had its
\* effect, and then nobody feels responsible; a wait that raises is cleaned up.
Resume(c) ==
  LET resumed == call[c].owns \cup {call[c].at} IN
  /\ At(c, "resume")
  /\ \/ /\ \/ Goes(c, [Inside(c) EXCEPT !.owns = resumed])
           \/ "control" \in Faults /\ Goes(c, [Raises(c) EXCEPT !.owns = resumed])
        /\ suspended' = FALSE
        /\ UNCHANGED stranded
     \/ /\ "control" \in Faults /\ Goes(c, Raises(c))
        /\ \/ suspended' = FALSE /\ stranded' = TRUE
           \/ UNCHANGED <<suspended, stranded>>
  /\ UNCHANGED <<row, request, notes, made, troubled, overtaken, forgotten>>

\* Variant of Left: the guard's session is taken for the request's.
LeftBoth(c) == {}

\* The sessions that remain when the innermost one is left.
Left(c) == call[c].owns \ {call[c].at}

\* The end of a session: a service it resumed is suspended, whoever else is using
\* it by now; a failure to do so is logged and forgotten.
Leave(c) ==
  /\ At(c, "leave")
  /\ Goes(c, [call[c] EXCEPT !.pc = IF call[c].at = "guard" THEN "over" ELSE "settle",
                             !.at = "guard", !.owns = Left(c)])
  /\ IF call[c].at \in call[c].owns
       THEN \/ suspended' = TRUE /\ UNCHANGED stranded
            \/ "control" \in Faults /\ stranded' = TRUE /\ UNCHANGED suspended
       ELSE UNCHANGED <<suspended, stranded>>
  /\ UNCHANGED <<row, request, notes, made, troubled, overtaken, forgotten>>

-----------------------------------------------------------------------------
(* The claim *)

\* The database refuses: the catch-all answers.
Refused(c) ==
  /\ "db" \in Faults
  /\ Goes(c, Tells(c, "failed"))
  /\ troubled' = troubled \cup {c}
  /\ UNCHANGED <<row, request, notes, suspended, made, overtaken, stranded, forgotten>>

\* Variant of Free: a row in state "unknown" does not block.
FreeIfUnknown == row.state \in {"none", "unknown"} \/ row.stale

\* The text is free to be claimed: it has no row, or one that nobody touched for
\* MCP_SAVE_PENDING_TTL_SEC.
Free == row.state = "none" \/ row.stale

\* _claim, one transaction: the call becomes responsible, or is blocked.
Claim(c) ==
  /\ At(c, "claim")
  /\ \/ /\ Free
        /\ Goes(c, [call[c] EXCEPT !.pc = "ready"])
        /\ row' = Fresh("in_flight")
        /\ UNCHANGED <<request, notes, suspended, histories>>
     \/ /\ ~Free
        /\ Goes(c, [call[c] EXCEPT !.pc = "ready", !.tool = "read", !.why = "blocked"])
        /\ UNCHANGED <<row, request, notes, suspended, histories>>
     \/ Refused(c)

Blocked(c) == call[c].why = "blocked"

\* The call goes on, and the row is left alone.
GoesOn(c, next) == Goes(c, next) /\ UNCHANGED <<row, request, notes, suspended, histories>>

\* Variant of Released: only a row in state "in_flight" is deleted.
ReleasedInFlight == IF row.state = "in_flight" THEN NoRow ELSE row

\* _release: the row is deleted, whatever its state.
Released == NoRow

\* _release deletes the row of the text, and _set_state updates it, whoever wrote it.
Writes(c, next, newRow) ==
  \/ Goes(c, next) /\ row' = newRow /\ UNCHANGED <<request, notes, suspended, histories>>
  \/ Refused(c)

Unknown == IF row.state = "none" THEN row ELSE Fresh("unknown")

\* wait_for_mcp_http_ready: a service that is suspended never is.
Ready(c) ==
  /\ At(c, "ready")
  /\ \/ ~suspended /\ GoesOn(c, Asks(c, call[c].tool, call[c].why))
     \/ /\ suspended \/ "net" \in Faults
        /\ \/ Blocked(c) /\ GoesOn(c, Tells(c, "unknown"))
           \/ ~Blocked(c) /\ Writes(c, Tells(c, "failed"), Released)

-----------------------------------------------------------------------------
(* The requests to the service *)

\* A save that reaches the service; one that is refused on the way, or rejected by
\* it; and one of which the caller learns neither.  It may be the second of the call.
PostSave(c) ==
  /\ At(c, "post") /\ call[c].tool = "save"
  /\ \/ /\ ~suspended
        /\ request' = [request EXCEPT ![c] = "arrived"]
        /\ Goes(c, [call[c] EXCEPT !.pc = "await"])
        /\ UNCHANGED forgotten
     \/ /\ "net" \in Faults
        /\ \E got \in {"undelivered", "rejected"} : Goes(c, Gets(c, got))
        /\ forgotten' = IF request[c] = "none" THEN forgotten ELSE forgotten \cup {c}
        /\ UNCHANGED request
     \/ /\ suspended \/ "net" \in Faults
        /\ Goes(c, Gets(c, "ambiguous"))
        /\ UNCHANGED <<request, forgotten>>
  /\ UNCHANGED <<row, notes, suspended, made, troubled, overtaken, stranded>>

\* An answer that is no MCP result (JSON null, or a null content) raises a TypeError,
\* which _call takes for a tool without a timeout parameter: it asks once more.
Malformed(c) == IF call[c].again THEN "ambiguous" ELSE "malformed"

\* The answer of the service to the save, or none in time: then the request goes its
\* own way.
Await(c) ==
  /\ At(c, "await")
  /\ \/ request[c] \in Replies /\ Goes(c, Gets(c, request[c]))
     \/ request[c] \in Replies /\ "service" \in Faults /\ Goes(c, Gets(c, Malformed(c)))
     \/ Goes(c, Gets(c, "ambiguous"))
  /\ UNCHANGED <<row, request, notes, suspended, histories>>

\* _body_present: a search for the text, which may be answered or not.
PostRead(c) ==
  /\ At(c, "post") /\ call[c].tool = "read"
  /\ \/ ~suspended /\ Goes(c, Gets(c, IF notes > 0 THEN "present" ELSE "absent"))
     \/ ~suspended /\ "service" \in Faults /\ Goes(c, Gets(c, Malformed(c)))
     \/ (suspended \/ "net" \in Faults) /\ Goes(c, Gets(c, "ambiguous"))
  /\ UNCHANGED <<row, request, notes, suspended, histories>>

\* The service takes a save: it compares the text with the notes it keeps, and
\* stores it if there is none like it; both take time, and others are served in between.
\* An error does not say whether the note was stored.
Compare(c) ==
  /\ request[c] = "arrived"
  /\ \/ request' = [request EXCEPT ![c] = IF notes > 0 THEN "duplicate" ELSE "storing"]
     \/ "service" \in Faults /\ request' = [request EXCEPT ![c] = "error"]
  /\ UNCHANGED <<call, row, notes, suspended, histories>>

Store(c) ==
  /\ request[c] = "storing"
  /\ \/ /\ request' = [request EXCEPT ![c] = "saved"]
        /\ notes' = notes + 1
        /\ made' = made \cup {c}
     \/ /\ "service" \in Faults
        /\ request' = [request EXCEPT ![c] = "error"]
        /\ \/ notes' = notes + 1 /\ made' = made \cup {c}
           \/ UNCHANGED <<notes, made>>
  /\ UNCHANGED <<call, row, suspended, troubled, overtaken, stranded, forgotten>>

Serve(c) == Compare(c) \/ Store(c)

-----------------------------------------------------------------------------
(* What the guard makes of the answers *)

\* The second request of _call, in a session of its own like the first, whatever the
\* service has made of that one.
Resend(c) ==
  /\ At(c, "settle") /\ call[c].got = "malformed"
  /\ Goes(c, [Asks(c, call[c].tool, call[c].why) EXCEPT !.again = TRUE])
  /\ UNCHANGED <<row, request, notes, suspended, histories>>

Retries(c) == call[c].got = "undelivered" /\ call[c].attempt < MaxAttempts

\* A save that was not delivered may be tried again, one that may have been never is.
SaveAnswered(c) ==
  /\ At(c, "settle") /\ call[c].tool = "save"
  /\ LET got == call[c].got IN
       \/ Retries(c) /\ GoesOn(c, [Asks(c, "save", "none") EXCEPT !.attempt = @ + 1])
       \/ /\ got \in {"undelivered", "rejected"} /\ ~Retries(c)
          /\ Writes(c, Tells(c, "failed"), Released)
       \/ got = "duplicate" /\ Writes(c, Tells(c, "exists"), Released)
       \/ got = "ambiguous" /\ Writes(c, Asks(c, "read", got), Unknown)
       \/ got \in {"saved", "error"} /\ GoesOn(c, Asks(c, "read", got))

\* Variant of Absent: a read-back that could not be made counts as one that found nothing.
AbsentOrUnread(c) == call[c].got # "present"

Absent(c) == call[c].got = "absent"

\* The read-back.  A note that is there is saved, whoever saved it; one that is not
\* there has failed if the service said so, and otherwise nobody knows.
ReadAnswered(c) ==
  /\ At(c, "settle") /\ call[c].tool = "read" /\ call[c].got # "malformed"
  /\ LET why == call[c].why
         there == call[c].got = "present"
         failed == why = "error" /\ Absent(c) IN
       \/ there /\ Writes(c, Tells(c, "saved"), Released)
       \/ failed /\ Writes(c, Tells(c, "failed"), Released)
       \/ ~there /\ why \in {"blocked", "ambiguous"} /\ GoesOn(c, Tells(c, "unknown"))
       \/ /\ ~there /\ ~failed /\ why \in {"saved", "error"}
          /\ Writes(c, Tells(c, "unknown"), Unknown)

Step(c) ==
  \/ Look(c) \/ Resume(c) \/ Leave(c)
  \/ Claim(c) \/ Ready(c)
  \/ PostSave(c) \/ Await(c) \/ PostRead(c) \/ Resend(c)
  \/ SaveAnswered(c) \/ ReadAnswered(c)

-----------------------------------------------------------------------------
(* The environment *)

\* A call that has claimed the text and is not done with it.
Responsible(c) ==
  /\ ~Blocked(c) /\ call[c].told = "nothing"
  /\ \/ call[c].pc \in {"ready", "settle"}
     \/ call[c].at = "tool" /\ call[c].pc # "over"

\* A save the service has not answered yet.
UnderWay(c) == request[c] \in {"arrived", "storing"}

\* MCP_SAVE_PENDING_TTL_SEC passes without a change of the row.
Expire ==
  /\ row.state # "none" /\ ~row.stale
  /\ row' = [row EXCEPT !.stale = TRUE]
  /\ overtaken' = (overtaken \/ \E c \in Calls : Responsible(c) \/ UnderWay(c))
  /\ UNCHANGED <<call, request, notes, suspended, made, troubled, stranded, forgotten>>

\* The process of a call is gone, and with it the end of its sessions.
Crash(c) ==
  /\ "crash" \in Faults
  /\ call[c].pc \notin {"idle", "over"}
  /\ Goes(c, [NewCall EXCEPT !.pc = "over", !.told = call[c].told])
  /\ stranded' = (stranded \/ call[c].owns # {})
  /\ UNCHANGED <<row, request, notes, suspended, made, troubled, overtaken, forgotten>>

Next ==
  \/ \E c \in Calls : Begin(c) \/ Step(c) \/ Serve(c) \/ Crash(c)
  \/ Expire

Spec == Init /\ [][Next]_vars

-----------------------------------------------------------------------------
(* Properties *)

\* Every variable keeps its type.
TypeOK ==
  /\ call \in [Calls -> Call]
  /\ row \in [state : {"none", "in_flight", "unknown"}, stale : BOOLEAN]
  /\ request \in [Calls -> {"none", "arrived", "storing"} \cup Replies]
  /\ notes \in Nat /\ suspended \in BOOLEAN
  /\ made \subseteq Calls /\ troubled \subseteq Calls
  /\ overtaken \in BOOLEAN /\ stranded \in BOOLEAN /\ forgotten \subseteq Calls

\* The text is stored once, however many calls save it, in whatever order their
\* answers get lost, although the service compares and stores in two steps: the guard
\* keeps two saves of a text it has not seen stored from being under way together.
\* Excused is a call that was still busy with its claim when the TTL ended.
StoredOnce == notes <= 1 \/ overtaken

\* What the user is told is true: a note reported as saved is there, and one reported
\* as not saved was not stored by this call and never will be.  Excused are a call
\* that the database refused (the catch-all answers "not saved" for it, also where
\* the note had been read back) and a call that sent its save again because the answer
\* was malformed: if the second is refused, nobody asks what became of the first.
AnswersAreTrue ==
  \A c \in Calls :
    /\ call[c].told \in {"saved", "exists"} => notes > 0
    /\ call[c].told = "failed" => (c \notin made /\ ~UnderWay(c)) \/ c \in troubled \cup forgotten

\* Between calls the service is suspended again, whatever sessions overlapped, unless
\* a request to the Render API failed or a process ended in its session.
LeftSuspended ==
  (\A c \in Calls : call[c].pc \in {"idle", "over"}) => suspended \/ ~OnDemand \/ stranded

\* A text does not stay blocked for nothing: when all calls are over, a row is left
\* only if some call could not tell what became of its save, or never returned, or was
\* refused by the database.  Whoever was told "not saved" can save the text again at
\* once, also when the calls deleted and relabelled each other's row.
NoClaimLeftBehind ==
  (\A c \in Calls : call[c].pc \in {"idle", "over"}) /\ row.state # "none" =>
    \E c \in Calls : At(c, "over") /\ (call[c].told \in {"unknown", "nothing"} \/ c \in troubled)

=============================================================================
