----------------------------- MODULE Conversation -----------------------------
(***************************************************************************)
(* What becomes of the messages of one user behind the gateway of app.py:  *)
(* core/request_path.py, the supervisor and the graph of the core, and the *)
(* agents that keep something: notes, memories, reminders, lessons.  LINE  *)
(* messages of a user wait for each other; /internal/ask waits for nobody. *)
(*                                                                         *)
(* A message is [says, of]: the kind of its text, and the domains whose    *)
(* intents match it.  What the gateway makes of a command (the loop, a job *)
(* for the Mac, development) and the management's work have modules of     *)
(* their own; here they are a reply.                                       *)
(***************************************************************************)
EXTENDS Naturals, Sequences, FiniteSets

CONSTANTS
  Asks,      \* the messages, each sent once
  Followups, \* bound: those of them that are answers to a question
  Topics,    \* the sets of domains that a message may match
  Calls      \* bound: tool calls in one answer of Groq

Supported == {"news", "stocks", "english", "voice", "music", "video", "jobs", "market"}
Domains   == Supported \cup {"weather"}

ASSUME ConversationAssumption ==
  IsFiniteSet(Asks) /\ Followups \subseteq Asks /\ Topics \subseteq (SUBSET Domains) \ {{}} /\ Calls \in Nat

VARIABLES
  talk,      \* the requests: where each is, what it did, and its reply
  mind,      \* the user's notes, memories and reminders, and the questions put to them
  lessons,   \* per channel, the vocabulary question and the count of turns
  up         \* the providers that are not cooling down, for all users

conversationVars == <<talk, mind, lessons, up>>

Channels   == {"line", "internal"}
Providers  == {"gemini", "groq"}
MemoryKeys == {"name", "memory"}
NoteTexts  == {"save_note", "erase_notes", "erase_note"}
MemoryTexts == {"remember", "erase_memory", "forget", "forget_it", "recall"}
Lessons    == {"quiz", "answer", "tutor"}
Messages   == [says : NoteTexts \cup MemoryTexts \cup {"command", "yes", "cancel", "chat"}, of : {{}}]
                \cup [says : Lessons, of : {{"english"}}]
                \cup [says : {"topic"}, of : Topics]
Sendable(r) == IF r \in Followups THEN {m \in Messages : m.says \in {"yes", "answer"}} ELSE Messages

Unsent == [at |-> "unsent", channel |-> "none", says |-> "none", of |-> {}, after |-> {},
           seen |-> 0, key |-> "none", order |-> << >>, did |-> << >>, results |-> << >>, reply |-> "none"]

\* `asks` is _pending_note_confirmations and _pending_delete_confirmation; `about` is
\* _pending_memory_target.
ConversationInit ==
  /\ talk = [r \in Asks |-> Unsent]
  /\ mind = [notes |-> {}, facts |-> {}, reminders |-> {}, asks |-> {}, about |-> "name"]
  /\ lessons = [c \in Channels |-> [asked |-> 0, open |-> 0, turns |-> 0]]
  /\ up = Providers

Goes(r, at)      == talk' = [talk EXCEPT ![r].at = at]
Ended(r, did, text) ==
  talk' = [talk EXCEPT ![r].at = "replied", ![r].did = did, ![r].key = "none", ![r].order = << >>,
                       ![r].reply = text]
Replies(r, text)    == Ended(r, talk[r].did, text)
Acts(r, deed, text) == Ended(r, Append(talk[r].did, deed), text)

At(r, at)  == talk[r].at = at
Says(r, S) == talk[r].says \in S
Busy(r)    == talk[r].at \notin {"unsent", "replied"}

-----------------------------------------------------------------------------
(* Receiving and routing                                                   *)

\* _process_and_reply under the lock of the user; _gateway_reply without it.
Receive(r, channel, m) ==
  /\ At(r, "unsent")
  /\ channel = "line" => \A s \in Asks : Busy(s) => talk[s].channel # "line"
  /\ talk' = [talk EXCEPT ![r].at = "routing", ![r].channel = channel, ![r].says = m.says,
                          ![r].of = m.of, ![r].after = mind.asks]
  /\ UNCHANGED <<mind, lessons, up>>

\* _handle_ai_gateway_request: a command has a handler of its own; the management answers
\* a message for two specialists or more, unless its planning fails.
Gateway(r) ==
  /\ At(r, "routing")
  /\ \/ Says(r, {"command"}) /\ Replies(r, "answer")
     \/ Cardinality(talk[r].of \cap Supported) > 1 /\ Replies(r, "answer")
  /\ UNCHANGED <<mind, lessons, up>>

\* _resolve_multi_specialist_plan: a combination with its own rule leaves out what else
\* the message asks for; without one, the weather counts for nothing.
Rules == <<{"news", "stocks", "weather"}, {"news", "stocks"}, {"news", "weather"}, {"stocks", "weather"}>>

SpecialistPlan(of) ==
  LET fitting == {i \in DOMAIN Rules : Rules[i] \subseteq of}
  IN  IF fitting # {} THEN Rules[CHOOSE i \in fitting : \A j \in fitting : i <= j]
      ELSE of \ {"weather"}

\* classify_intent, is_note_intent: while a question about the notes is open, every text
\* that gets this far is the notes agent's.
AgentFor(r) ==
  IF Says(r, NoteTexts) \/ "notes" \in mind.asks THEN "notes"
  ELSE IF Says(r, MemoryTexts) THEN "memory"
  ELSE IF Says(r, {"topic"}) THEN "weather"
  ELSE "normal"

\* run_core_request: several specialists, one, or the supervisor and its graph.
Route(r) ==
  /\ At(r, "routing") /\ ~Says(r, {"command"})
  /\ LET plan == SpecialistPlan(talk[r].of)
     IN  Goes(r, IF Cardinality(plan) > 1 THEN "planned"
                 ELSE IF Says(r, Lessons) THEN "lesson"
                 ELSE IF plan # {} THEN "dispatched"
                 ELSE AgentFor(r))
  /\ UNCHANGED <<mind, lessons, up>>

-----------------------------------------------------------------------------
(* The specialists                                                         *)

\* What handle makes of a request; a text may be empty.
Answers == {"text", "empty", "error"}

MaxSpecialists == 4

\* resolve_specialist knows no weather; the English agent of the registry takes nothing
\* that names no next agent; any other may be missing, disabled or unwilling.
MayRun(plan) == "weather" \notin plan /\ "english" \notin plan /\ Cardinality(plan) <= MaxSpecialists

\* Mutant: the whole plan is not looked at before its first specialist runs.
CheckOnTheWay(r) ==
  /\ At(r, "planned")
  /\ \/ Goes(r, "working")
     \/ \E d \in SpecialistPlan(talk[r].of) :
          talk' = [talk EXCEPT ![r].at = "replied", ![r].results = [x \in {d} |-> "text"], ![r].reply = "error"]
  /\ UNCHANGED <<mind, lessons, up>>

\* _run_multi_specialist_request: nothing runs until the whole plan passed.
CheckPlan(r) ==
  /\ At(r, "planned")
  /\ \/ MayRun(SpecialistPlan(talk[r].of)) /\ Goes(r, "working")
     \/ Replies(r, "error")
  /\ UNCHANGED <<mind, lessons, up>>

\* execute, in a thread each.
Specialist(r, d) ==
  /\ At(r, "working") /\ d \in SpecialistPlan(talk[r].of) \ DOMAIN talk[r].results
  /\ \E answer \in Answers :
       talk' = [talk EXCEPT ![r].results = [x \in DOMAIN @ \cup {d} |-> IF x = d THEN answer ELSE @[x]]]
  /\ UNCHANGED <<mind, lessons, up>>

Gave(r, answer) == {d \in DOMAIN talk[r].results : talk[r].results[d] = answer}

\* The texts there are, with the names of those that failed.
Combine(r) ==
  /\ At(r, "working") /\ DOMAIN talk[r].results = SpecialistPlan(talk[r].of)
  /\ Replies(r, IF Gave(r, "text") = {} THEN "error" ELSE "answer")
  /\ UNCHANGED <<mind, lessons, up>>

\* DistributedAgentCoordinator.dispatch: one task of the role, in one round.
Dispatched == Answers

\* The nine routes of one specialist: whatever fails is an error of the request, and no
\* other agent is tried.
Distributed(r) ==
  /\ At(r, "dispatched")
  /\ \E d \in SpecialistPlan(talk[r].of), answer \in Dispatched :
       talk' = [talk EXCEPT ![r].at = "replied", ![r].results = [x \in {d} |-> answer],
                            ![r].reply = IF answer = "error" THEN "error" ELSE "answer"]
  /\ UNCHANGED <<mind, lessons, up>>

\* weather_agent_node: a text in any case.
Weather(r) ==
  /\ At(r, "weather")
  /\ Replies(r, "answer")
  /\ UNCHANGED <<mind, lessons, up>>

-----------------------------------------------------------------------------
(* The English lessons                                                     *)
(*                                                                         *)
(* The distributed route hands the agent its task's id, with the channel   *)
(* in it, for a user: there is a question and a profile for each channel.  *)

Lesson(r) == lessons[talk[r].channel]
Noted(r, field, value) == lessons' = [lessons EXCEPT ![talk[r].channel][field] = value]

\* start_quiz: a new question takes the place of an open one.
StartQuiz(r) ==
  /\ At(r, "lesson") /\ Says(r, {"quiz"})
  /\ lessons' = [lessons EXCEPT ![talk[r].channel].asked = @ + 1, ![talk[r].channel].open = Lesson(r).asked + 1]
  /\ Replies(r, "answer")
  /\ UNCHANGED <<mind, up>>

\* grade_quiz reads the question ...
ReadQuestion(r) ==
  /\ At(r, "lesson") /\ Says(r, {"answer"})
  /\ IF Lesson(r).open = 0 THEN Replies(r, "answer")
     ELSE talk' = [talk EXCEPT ![r].at = "grading", ![r].seen = Lesson(r).open]
  /\ UNCHANGED <<mind, lessons, up>>

\* ... and closes the one there is by then.
Grade(r) ==
  /\ At(r, "grading")
  /\ Noted(r, "open", 0)
  /\ Acts(r, "grade", "answer")
  /\ UNCHANGED <<mind, up>>

\* record_observation: one more turn than it read, written by the same connection; what
\* the model then says, or a fixed text.
ReadProfile(r) ==
  /\ At(r, "lesson") /\ Says(r, {"tutor"})
  /\ talk' = [talk EXCEPT ![r].at = "profiling", ![r].seen = Lesson(r).turns]
  /\ UNCHANGED <<mind, lessons, up>>

WriteProfile(r) ==
  /\ At(r, "profiling")
  /\ \/ Noted(r, "turns", talk[r].seen + 1) /\ Acts(r, "turn", "answer")
     \/ Replies(r, "answer") /\ UNCHANGED lessons
  /\ UNCHANGED <<mind, up>>

-----------------------------------------------------------------------------
(* Notes and memories                                                      *)
(*                                                                         *)
(* A call of the MCP server may fail, before or after it did what it was   *)
(* asked for; what raises is an error of the request.                      *)

Tried(r, deed, after, text) ==
  \/ mind' = after /\ Acts(r, deed, text)
  \/ mind' = after /\ Acts(r, deed, "error")
  \/ UNCHANGED mind /\ Replies(r, "error")

\* handle_delete_all_memory and _set_pending_note_action
PutQuestion(r, question) ==
  /\ mind' = [mind EXCEPT !.asks = @ \cup {question}]
  /\ Acts(r, "ask", "answer")

\* handle_note_message.  Saving has a module of its own; what the
\* intent takes for a note is saved, be it a request to cancel an appointment.
Notes(r) ==
  /\ At(r, "notes") /\ ~Says(r, {"yes"})
  /\ \/ Says(r, {"save_note"}) /\ Tried(r, "save", [mind EXCEPT !.notes = @ \cup {r}], "answer")
     \/ Says(r, {"erase_notes"}) /\ PutQuestion(r, "notes")
     \/ /\ Says(r, {"erase_note"})
        /\ \E id \in Asks : Tried(r, "delete", [mind EXCEPT !.notes = @ \ {id}], "answer")
     \/ ~Says(r, NoteTexts) /\ Replies(r, "answer") /\ UNCHANGED mind
  /\ UNCHANGED <<lessons, up>>

\* "はい": _pop_pending_note_action, under the lock of the questions.
Confirm(r) ==
  /\ At(r, "notes") /\ Says(r, {"yes"})
  /\ mind' = [mind EXCEPT !.asks = @ \ {"notes"}]
  /\ IF "notes" \in mind.asks THEN Goes(r, "erasing") ELSE Replies(r, "answer")
  /\ UNCHANGED <<lessons, up>>

EraseNotes(r) ==
  /\ At(r, "erasing")
  /\ Tried(r, "erase", [mind EXCEPT !.notes = {}], "answer")
  /\ UNCHANGED <<lessons, up>>

\* _find_memory_target: what was spoken of last, the entry with the date in the text, or
\* else the name, whatever the text says.
FindTarget(r) ==
  /\ At(r, "memory") /\ Says(r, {"forget", "forget_it"})
  /\ \E key \in IF Says(r, {"forget_it"}) THEN {mind.about} ELSE mind.facts \cup {"name"} :
       talk' = [talk EXCEPT ![r].at = "forgetting", ![r].key = key]
  /\ UNCHANGED <<mind, lessons, up>>

\* handle_delete_memory
Forget(r) ==
  /\ At(r, "forgetting")
  /\ LET without == [mind EXCEPT !.facts = @ \ {talk[r].key}]
     IN  \/ mind' = [without EXCEPT !.about = "name"] /\ Acts(r, "forget", "answer")
         \/ mind' \in {mind, without} /\ Replies(r, "error")
  /\ UNCHANGED <<lessons, up>>

\* handle_memory_message; no message that says yes gets here.
Memories(r) ==
  /\ At(r, "memory")
  /\ \/ Says(r, {"erase_memory"}) /\ PutQuestion(r, "memory")
     \/ /\ Says(r, {"remember"})
        /\ \E key \in MemoryKeys : Tried(r, "remember", [mind EXCEPT !.facts = @ \cup {key}], "answer")
     \/ /\ Says(r, {"recall"})
        /\ \E key \in mind.facts \cup {mind.about} : mind' = [mind EXCEPT !.about = key]
        /\ Replies(r, "answer")
  /\ UNCHANGED <<lessons, up>>

-----------------------------------------------------------------------------
(* The normal agent and its providers                                      *)

\* The reminder at the time the text names, if there is one; nothing but its id is kept.
FindReminder(r) ==
  /\ At(r, "normal") /\ Says(r, {"cancel"})
  /\ \/ \E id \in mind.reminders : talk' = [talk EXCEPT ![r].at = "cancelling", ![r].key = id]
     \/ Replies(r, "answer")
  /\ UNCHANGED <<mind, lessons, up>>

CancelReminder(r) ==
  /\ At(r, "cancelling")
  /\ Tried(r, "cancel", [mind EXCEPT !.reminders = @ \ {talk[r].key}], "answer")
  /\ UNCHANGED <<lessons, up>>

\* ordered: those available now, the primary one first; it is not looked at again.
Ordered == (IF "gemini" \in up THEN <<"gemini">> ELSE << >>) \o (IF "groq" \in up THEN <<"groq">> ELSE << >>)

AskProviders(r) ==
  /\ At(r, "normal") /\ ~Says(r, {"cancel"})
  /\ talk' = [talk EXCEPT ![r].at = "generating", ![r].order = Ordered]
  /\ UNCHANGED <<mind, lessons, up>>

Asking(r, p)  == At(r, "generating") /\ talk[r].order # << >> /\ Head(talk[r].order) = p
Unavailable(r, did) == talk' = [talk EXCEPT ![r].order = Tail(@), ![r].did = did]
Available(r, did)   == Ended(r, did, "answer")

\* call_gemini_via_n8n, which has no tools.
Gemini(r) ==
  /\ Asking(r, "gemini")
  /\ \/ up' = up \cup {"gemini"} /\ Available(r, talk[r].did)
     \/ up' = up \ {"gemini"} /\ Unavailable(r, talk[r].did)
  /\ UNCHANGED <<mind, lessons>>

Tools == {"set", "cancel", "other"}

\* Mutant: what has been executed is not remembered.
AllOf(calls) == SelectSeq(calls, LAMBDA c : c # "other")

\* The gate and executed_side_effect_tools: the first of each.
Executable(calls) ==
  LET Once(tool) == IF \E i \in DOMAIN calls : calls[i] = tool THEN <<tool>> ELSE << >>
  IN  Once("set") \o Once("cancel")

\* dispatch_tool_call: a reminder with an id of its own; one is cancelled by its id.
Called(r, did) ==
  {[mind EXCEPT !.reminders = (@ \ gone) \cup made] :
     gone \in IF \E i \in DOMAIN did : did[i] = "cancel" THEN SUBSET mind.reminders ELSE {{}},
     made \in IF \E i \in DOMAIN did : did[i] = "set" THEN {{}, {r}} ELSE {{}}}

\* handle_normal_message: a first call that fails makes the provider unavailable; the
\* tools of a first answer are executed; then the second call fails, or there is an answer
\* (without a second call, when a tool failed).
Groq(r) ==
  /\ Asking(r, "groq")
  /\ \/ up' = up \ {"groq"} /\ Unavailable(r, talk[r].did) /\ UNCHANGED mind
     \/ \E calls \in UNION {[1 .. n -> Tools] : n \in 0 .. Calls} :
          LET did == Executable(calls)
          IN  /\ \E after \in Called(r, did) :
                   Cardinality(mind.reminders \ after.reminders) <= 1 /\ mind' = after
              /\ \/ up' = up \ {"groq"} /\ did # << >> /\ Unavailable(r, did)
                 \/ up' = up \cup {"groq"} /\ Available(r, did)
  /\ UNCHANGED lessons

\* _ALL_PROVIDERS_UNAVAILABLE_REPLY
Exhausted(r) ==
  /\ At(r, "generating") /\ talk[r].order = << >>
  /\ Replies(r, "answer")
  /\ UNCHANGED <<mind, lessons, up>>

\* The cooldown of a provider ends.
Cooled(p) ==
  /\ p \notin up
  /\ up' = up \cup {p}
  /\ UNCHANGED <<talk, mind, lessons>>

ConversationNext ==
  \/ \E r \in Asks :
       \/ \E channel \in Channels, m \in Sendable(r) : Receive(r, channel, m)
       \/ Gateway(r) \/ Route(r) \/ CheckPlan(r) \/ Combine(r) \/ Distributed(r) \/ Weather(r)
       \/ \E d \in Supported : Specialist(r, d)
       \/ StartQuiz(r) \/ ReadQuestion(r) \/ Grade(r) \/ ReadProfile(r) \/ WriteProfile(r)
       \/ Notes(r) \/ Confirm(r) \/ EraseNotes(r)
       \/ FindTarget(r) \/ Forget(r) \/ Memories(r)
       \/ FindReminder(r) \/ CancelReminder(r)
       \/ AskProviders(r) \/ Gemini(r) \/ Groq(r) \/ Exhausted(r)
  \/ \E p \in Providers : Cooled(p)

-----------------------------------------------------------------------------
ConversationTypeOK ==
  /\ up \subseteq Providers
  /\ mind.notes \subseteq Asks /\ mind.facts \subseteq MemoryKeys /\ mind.about \in MemoryKeys
  /\ mind.asks \subseteq {"notes", "memory"}
  /\ \A c \in Channels : lessons[c].open \in {0, lessons[c].asked}
  /\ \A r \in Asks : DOMAIN talk[r].results \subseteq Supported

Deeds(r, deed) == Cardinality({i \in DOMAIN talk[r].did : talk[r].did[i] = deed})
Did(deed)      == {r \in Asks : Deeds(r, deed) > 0}

\* What a message has done it has done once, whichever provider answered in the end: at most
\* one reminder set and one cancelled; the notes are erased at most once for each time the
\* question was put; and a vocabulary question on LINE is graded once, because the lock of
\* the user keeps its messages apart.
ActsOnce ==
  /\ \A r \in Asks : Deeds(r, "set") <= 1 /\ Deeds(r, "cancel") <= 1
  /\ Cardinality(Did("erase")) <= Cardinality({r \in Did("ask") : Says(r, {"erase_notes"})})
  /\ \A r, s \in Did("grade") : r # s /\ talk[r].channel = "line" /\ talk[s].channel = "line" =>
       talk[r].seen # talk[s].seen

\* A request for several specialists that ends in an error has run none of them, or all.
WholePlanOrNone ==
  \A r \in Asks : talk[r].reply = "error" /\ Cardinality(SpecialistPlan(talk[r].of)) > 1 =>
    DOMAIN talk[r].results \in {{}, SpecialistPlan(talk[r].of)}

\* "Erase all memories? Send はい": a yes that was sent while that question, and no other,
\* was open has erased the memories, unless the request failed.
YesErasesMemories ==
  \A r \in Asks : At(r, "replied") /\ Says(r, {"yes"}) /\ talk[r].after = {"memory"} /\ talk[r].reply # "error" =>
    Deeds(r, "erase_memory") > 0
=============================================================================
