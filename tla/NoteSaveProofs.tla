--------------------------- MODULE NoteSaveProofs ---------------------------
(***************************************************************************)
(* What saving a note guarantees for any number of calls, under every      *)
(* fault.  The heart is OneAtATime: as long as the note has not been seen  *)
(* stored, the row of the text stands for one call or one save under way,  *)
(* so the service never compares the text for two of them at once.         *)
(***************************************************************************)
EXTENDS NoteSave, TLAPS

\* What the position of a call says of the rest of it.
Placed(c) ==
  /\ call[c].told # "nothing" => call[c].pc \in {"leave", "over"} /\ call[c].at = "guard"
  /\ call[c].pc \in {"idle", "claim", "ready", "settle", "over"} => call[c].at = "guard"
  /\ call[c].pc \in {"post", "await"} => call[c].at = "tool"
  /\ call[c].at = "guard" /\ call[c].pc \notin {"ready", "settle"} => call[c].tool = "save"
  /\ call[c].tool = "save" => call[c].why = "none"
  /\ call[c].pc \notin {"leave", "settle"} => call[c].got = "none"
  /\ call[c].pc = "leave" /\ call[c].at = "guard" => call[c].got = "none"
  /\ call[c].pc = "ready" => call[c].tool = "save" \/ call[c].why = "blocked"

\* What the answers a call has in hand say of its save, and of the notes.
Answered(c) ==
  /\ /\ call[c].pc \in {"idle", "look", "resume", "claim", "ready", "post"}
     /\ call[c].tool = "save"
     => request[c] \notin {"arrived", "storing"}
  /\ call[c].at = "guard" /\ call[c].pc \in {"idle", "look", "resume", "claim", "ready"}
     /\ call[c].tool = "save"
     => request[c] = "none"
  /\ call[c].got \in {"undelivered", "rejected"} =>
       \/ request[c] = "none"
       \/ request[c] \in Replies /\ c \in forgotten
  /\ call[c].got = "error" \/ call[c].why = "error" => request[c] = "error"
  /\ call[c].got \in {"duplicate", "present"} \/ request[c] = "duplicate" => notes > 0
  /\ call[c].got = "absent" /\ call[c].why = "error" => c \notin made
  /\ call[c].got = "malformed" /\ call[c].tool = "save" => request[c] \in Replies
  /\ c \in made => request[c] # "none" /\ notes > 0
  /\ call[c].told \in {"saved", "exists"} => notes > 0
  /\ call[c].told = "failed" =>
       \/ c \notin made /\ request[c] \in {"none", "error"}
       \/ c \in troubled \cup forgotten

Active(c) == Responsible(c) \/ UnderWay(c)

OneAtATime ==
  ~overtaken =>
    /\ notes <= 1
    /\ notes > 0 => \A c \in Calls : request[c] # "storing"
    /\ notes = 0 => /\ \A c \in Calls : Active(c) => row.state # "none" /\ ~row.stale
                    /\ \A c, d \in Calls : Active(c) /\ Active(d) => c = d

\* A service that is up was resumed by a session that has not ended.
Owned ==
  /\ \A c \in Calls : /\ call[c].pc \in {"idle", "over"} => call[c].owns = {}
                      /\ call[c].at = "guard" => "tool" \notin call[c].owns
  /\ suspended \/ ~OnDemand \/ stranded \/ \E c \in Calls : call[c].owns # {}

IInv ==
  /\ TypeOK
  /\ \A c \in Calls : Placed(c) /\ Answered(c)
  /\ OneAtATime
  /\ Owned

\* The first state.
LEMMA InitIInv == Init => IInv
<1> SUFFICES ASSUME Init PROVE IInv
  OBVIOUS
<1>1. NewCall \in Call
  BY AttemptsAssumption DEF NewCall, Call, Frames, Replies
<1>2. TypeOK
  BY <1>1, OnDemandAssumption DEF Init, TypeOK, NoRow, Replies
<1>3. \A c \in Calls : Placed(c) /\ Answered(c)
  BY DEF Init, Placed, Answered, NewCall, Replies
<1>4. OneAtATime
  BY DEF Init, OneAtATime, Active, Responsible, UnderWay, NewCall
<1>5. Owned
  BY DEF Init, Owned, NewCall
<1> QED BY <1>2, <1>3, <1>4, <1>5 DEF IInv

\* A step of one call leaves the others where they are.
LEMMA Others ==
  ASSUME IInv, NEW c \in Calls, NEW next \in Call, Goes(c, next)
  PROVE  /\ call' \in [Calls -> Call] /\ call'[c] = next
         /\ \A d \in Calls : d # c => call'[d] = call[d]
BY DEF IInv, TypeOK, Goes

\* What a step of one call has to establish where it neither sends a save nor hears
\* from the service: the facts about this call, and what became of its claim.  The row
\* may only go if the note is there, or with the claim of a call that has no save
\* under way.
LEMMA CallStep ==
  ASSUME IInv, NEW c \in Calls, NEW next \in Call, Goes(c, next),
         UNCHANGED <<request, notes, made, overtaken>>,
         troubled' \in {troubled, troubled \cup {c}},
         forgotten' \in {forgotten, forgotten \cup {c}},
         Placed(c)', Answered(c)',
         Responsible(c)' => Responsible(c),
         \/ row' = row
         \/ row.state # "none" /\ row'.state # "none" /\ ~row'.stale
         \/ notes > 0
         \/ Responsible(c) /\ ~Responsible(c)' /\ ~UnderWay(c)
  PROVE  (\A d \in Calls : Placed(d)' /\ Answered(d)') /\ OneAtATime'
<1>1. /\ call' \in [Calls -> Call] /\ call'[c] = next
      /\ \A d \in Calls : d # c => call'[d] = call[d]
  BY Others
<1>2. \A d \in Calls : Placed(d)' /\ Answered(d)'
  <2> SUFFICES ASSUME NEW d \in Calls, d # c PROVE Placed(d)' /\ Answered(d)'
    OBVIOUS
  <2>1. Placed(d) /\ Answered(d)
    BY DEF IInv
  <2> QED BY <1>1, <2>1 DEF Placed, Answered, Replies
<1>3. \A d \in Calls : Active(d)' => Active(d)
  BY <1>1 DEF Active, Responsible, UnderWay, Blocked
<1>4. ASSUME Responsible(c), ~Responsible(c)', ~UnderWay(c), ~overtaken, notes = 0
      PROVE  \A d \in Calls : ~Active(d)'
  <2>1. ~Active(c)'
    BY <1>4 DEF Active, UnderWay
  <2>2. \A d \in Calls : Active(d) => d = c
    BY <1>4 DEF IInv, OneAtATime, Active
  <2> QED BY <1>3, <2>1, <2>2
<1>5. OneAtATime'
  <2> SUFFICES ASSUME ~overtaken PROVE OneAtATime'
    BY DEF OneAtATime
  <2>1. OneAtATime /\ notes \in Nat
    BY DEF IInv, TypeOK
  <2>2. CASE notes > 0
    BY <2>1, <2>2 DEF OneAtATime
  <2>3. CASE notes = 0
    BY <2>1, <2>3, <1>3, <1>4 DEF OneAtATime
  <2> QED BY <2>1, <2>2, <2>3
<1> QED BY <1>2, <1>5

\* Likewise for the sessions: the service stays up without one only if a request to
\* the Render API failed.
LEMMA SessionStep ==
  ASSUME IInv, NEW c \in Calls, NEW next \in Call, Goes(c, next),
         next.pc \in {"idle", "over"} => next.owns = {},
         next.at = "guard" => "tool" \notin next.owns,
         stranded => stranded',
         \/ suspended' = suspended /\ next.owns = call[c].owns
         \/ suspended' \/ stranded' \/ next.owns # {}
  PROVE  Owned'
<1>1. /\ call' \in [Calls -> Call] /\ call'[c] = next
      /\ \A d \in Calls : d # c => call'[d] = call[d]
  BY Others
<1>2. Owned
  BY DEF IInv
<1> QED BY <1>1, <1>2 DEF Owned

Rows == [state : {"none", "in_flight", "unknown"}, stale : BOOLEAN]

\* What may happen to the row in a step of a call, see CallStep.
RowKept(c) ==
  /\ row' \in Rows
  /\ \/ row' = row
     \/ row.state # "none" /\ row'.state # "none" /\ ~row'.stale
     \/ notes > 0
     \/ Responsible(c) /\ ~Responsible(c)' /\ ~UnderWay(c)

\* The steps that leave the sessions as they are.
LEMMA PlainStep ==
  ASSUME IInv, NEW c \in Calls, NEW next \in Call, Goes(c, next),
         UNCHANGED <<request, notes, suspended, made, overtaken, stranded>>,
         troubled' \in {troubled, troubled \cup {c}},
         forgotten' \in {forgotten, forgotten \cup {c}},
         Placed(c)', Answered(c)',
         Responsible(c)' => Responsible(c),
         RowKept(c),
         next.pc \notin {"idle", "over"}, next.owns = call[c].owns,
         next.at = "guard" => "tool" \notin next.owns
  PROVE  IInv'
<1>1. (\A d \in Calls : Placed(d)' /\ Answered(d)') /\ OneAtATime'
  BY CallStep DEF RowKept
<1>2. Owned'
  BY SessionStep
<1>3. TypeOK'
  BY Others DEF IInv, TypeOK, RowKept, Rows
<1> QED BY <1>1, <1>2, <1>3 DEF IInv

\* What a call is before its next step.
LEMMA Standing ==
  ASSUME IInv, NEW c \in Calls
  PROVE  /\ call[c] \in Call /\ Placed(c) /\ Answered(c)
         /\ call[c].pc \in {"idle", "over"} => call[c].owns = {}
         /\ call[c].at = "guard" => "tool" \notin call[c].owns
         /\ notes \in Nat /\ call \in [Calls -> Call]
BY DEF IInv, TypeOK, Owned

\* A result, field by field.
LEMMA TellsIs ==
  ASSUME NEW c \in Calls, NEW told
  PROVE  Tells(c, told) = [pc |-> "leave", at |-> "guard", owns |-> call[c].owns,
                           tool |-> "save", again |-> FALSE,
                           why |-> "none", attempt |-> 1, got |-> "none", told |-> told]
<1>1. Tells(c, told) = [NewCall EXCEPT !.pc = "leave", !.owns = call[c].owns, !.told = told]
  BY DEF Tells
<1> QED BY <1>1 DEF NewCall

\* A call that returns.
LEMMA TellsStep ==
  ASSUME IInv, NEW c \in Calls, NEW told \in {"saved", "exists", "failed", "unknown"},
         Goes(c, Tells(c, told)), "tool" \notin call[c].owns,
         UNCHANGED <<request, notes, suspended, made, overtaken, stranded, forgotten>>,
         troubled' \in {troubled, troubled \cup {c}},
         row' \in Rows,
         row' = row \/ notes > 0 \/ (Responsible(c) /\ ~UnderWay(c))
           \/ (row.state # "none" /\ row'.state # "none" /\ ~row'.stale),
         told \in {"saved", "exists"} => notes > 0,
         told = "failed" =>
           (c \notin made /\ request[c] \in {"none", "error"}) \/ c \in troubled' \cup forgotten
  PROVE  IInv'
<1> DEFINE next == Tells(c, told)
<1>1. /\ next \in Call /\ next.pc = "leave" /\ next.at = "guard"
      /\ next.owns = call[c].owns /\ next.told = told
      /\ next.tool = "save" /\ next.why = "none" /\ next.got = "none"
  <2>1. call[c].owns \in SUBSET Frames
    BY Standing DEF Call
  <2>2. 1 \in 1..MaxAttempts
    BY AttemptsAssumption
  <2>3. next = [pc |-> "leave", at |-> "guard", owns |-> call[c].owns, tool |-> "save",
                again |-> FALSE, why |-> "none", attempt |-> 1, got |-> "none", told |-> told]
    BY TellsIs
  <2> HIDE DEF next
  <2>4. next \in Call
    BY <2>1, <2>2, <2>3 DEF Call, Frames
  <2> QED BY <2>3, <2>4
<1>2. call'[c] = next
  BY <1>1, Others
<1>3. Placed(c)'
  BY <1>1, <1>2 DEF Placed
<1>4. Answered(c)'
  BY <1>1, <1>2, Standing DEF Answered
<1>5. ~Responsible(c)'
  BY <1>1, <1>2 DEF Responsible
<1>6. RowKept(c)
  BY <1>5 DEF RowKept
<1> QED BY <1>1, <1>3, <1>4, <1>5, <1>6, PlainStep

\* A call that the database refuses.
LEMMA RefusedInv ==
  ASSUME IInv, NEW c \in Calls, Refused(c), call[c].at = "guard"
  PROVE  IInv'
<1>1. row \in Rows /\ "tool" \notin call[c].owns
  BY Standing DEF IInv, TypeOK, Rows
<1> QED BY <1>1, TellsStep DEF Refused

LEMMA BeginInv == ASSUME IInv, NEW c \in Calls, Begin(c) PROVE IInv'
<1> DEFINE next == [call[c] EXCEPT !.pc = "look"]
<1>1. GoesOn(c, next) /\ next \in Call
  BY Standing DEF Begin, GoesOn, Call
<1>2. call'[c] = next /\ UNCHANGED <<request, notes, made, troubled, forgotten>>
  BY <1>1, Others DEF GoesOn, histories
<1>3. Placed(c)' /\ Answered(c)'
  BY <1>1, <1>2, Standing DEF Begin, At, Placed, Answered, Replies, Call
<1>4. Responsible(c)' => Responsible(c)
  BY <1>1, <1>2, Standing DEF Begin, At, Placed, Responsible, Blocked, Call
<1>5. RowKept(c)
  BY DEF Begin, RowKept, Rows, IInv, TypeOK
<1> QED BY <1>1, <1>3, <1>4, <1>5, PlainStep, Standing DEF Begin, At, Call, Placed, histories

\* Entering a session without resuming anything.
LEMMA LookInv == ASSUME IInv, NEW c \in Calls, Look(c) PROVE IInv'
<1>1. /\ At(c, "look") /\ UNCHANGED <<row, request, notes, suspended>>
      /\ UNCHANGED <<made, troubled, overtaken, stranded, forgotten>>
  BY DEF Look, histories
<1>2. call[c].told = "nothing" /\ row \in Rows
  BY <1>1, Standing DEF At, Placed, Call, IInv, TypeOK, Rows
<1>3. ASSUME NEW next \in Call, Goes(c, next), next.pc \in {"resume", "claim", "post", "leave"},
             next.at = call[c].at, next.owns = call[c].owns, next.tool = call[c].tool,
             next.why = call[c].why, next.got \in {call[c].got, "ambiguous"},
             next.pc # "leave" => next.got = call[c].got,
             next.told = "nothing",
             next.pc = "claim" => next.at = "guard",
             next.pc \in {"post", "leave"} => next.at = "tool"
      PROVE  IInv'
  <2>1. call'[c] = next
    BY <1>3, Others
  <2>2. Placed(c)' /\ Answered(c)'
    BY <1>1, <1>2, <1>3, <2>1, Standing DEF At, Placed, Answered, Replies
  <2>3. Responsible(c)' => Responsible(c)
    BY <1>1, <1>2, <1>3, <2>1 DEF At, Responsible, Blocked
  <2>4. RowKept(c)
    BY <1>1, <1>2 DEF RowKept
  <2> QED BY <1>1, <1>3, <2>2, <2>3, <2>4, PlainStep, Standing
<1>4. CASE Goes(c, [call[c] EXCEPT !.pc = "resume"])
  <2>1. [call[c] EXCEPT !.pc = "resume"] \in Call
    BY Standing DEF Call
  <2> QED BY <1>2, <1>3, <1>4, <2>1, Standing DEF Call
<1>5. CASE Goes(c, Inside(c))
  <2>1. Inside(c) \in Call
    BY Standing DEF Inside, Call
  <2> QED BY <1>2, <1>3, <1>5, <2>1, Standing DEF Inside, Call, Frames
<1>6. CASE Goes(c, Raises(c)) /\ call[c].at = "guard"
  <2>1. call[c].tool = "save"
    BY <1>1, <1>6, Standing DEF At, Placed
  <2>2. request[c] = "none" /\ c \notin made
    BY <1>1, <1>6, <2>1, Standing DEF At, Answered
  <2>3. Goes(c, Tells(c, "failed"))
    BY <1>6 DEF Raises
  <2> QED BY <1>1, <1>2, <1>6, <2>2, <2>3, Standing, TellsStep
<1>7. CASE Goes(c, Raises(c)) /\ call[c].at # "guard"
  <2>1. Goes(c, Gets(c, "ambiguous")) /\ call[c].at = "tool"
    BY <1>7, Standing DEF Raises, Call, Frames
  <2>2. Gets(c, "ambiguous") \in Call
    BY Standing DEF Gets, Call
  <2> QED BY <1>2, <1>3, <2>1, <2>2, Standing DEF Gets, Call
<1> QED BY <1>4, <1>5, <1>6, <1>7 DEF Look

\* Waiting for the service with the claim in hand, or blocked by another's.
LEMMA ReadyInv == ASSUME IInv, NEW c \in Calls, Ready(c) PROVE IInv'
<1>1. At(c, "ready") /\ call[c].at = "guard" /\ call[c].told = "nothing" /\ row \in Rows
  BY Standing DEF Ready, At, Placed, Call, IInv, TypeOK, Rows
<1>2. CASE GoesOn(c, Asks(c, call[c].tool, call[c].why))
  <2> DEFINE next == Asks(c, call[c].tool, call[c].why)
  <2>1. /\ next \in Call /\ next.pc = "look" /\ next.at = "tool" /\ next.got = "none"
        /\ next.owns = call[c].owns /\ next.tool = call[c].tool
        /\ next.why = call[c].why /\ next.told = "nothing"
    BY <1>1, Standing DEF Asks, Call, Frames
  <2>2. call'[c] = next
    BY <1>2, <2>1, Others DEF GoesOn
  <2>3. UNCHANGED <<row, request, notes, suspended, made, troubled, overtaken, stranded, forgotten>>
    BY <1>2 DEF GoesOn, histories
  <2>4. Placed(c)' /\ Answered(c)'
    BY <1>1, <2>1, <2>2, <2>3, Standing DEF At, Placed, Answered, Replies
  <2>5. Responsible(c)' => Responsible(c)
    BY <1>1, <2>1, <2>2 DEF At, Responsible, Blocked
  <2>6. RowKept(c)
    BY <1>1, <2>3 DEF RowKept
  <2> QED BY <1>2, <2>1, <2>3, <2>4, <2>5, <2>6, PlainStep DEF GoesOn
<1>3. CASE GoesOn(c, Tells(c, "unknown"))
  BY <1>1, <1>3, Standing, TellsStep DEF GoesOn, histories
<1>4. CASE ~Blocked(c) /\ Writes(c, Tells(c, "failed"), Released)
  <2>1. call[c].tool = "save" => request[c] = "none" /\ c \notin made
    BY <1>1, Standing DEF At, Answered
  <2>2. call[c].tool = "save"
    BY <1>1, <1>4, Standing DEF At, Placed, Blocked, Call
  <2>3. Responsible(c) /\ ~UnderWay(c) /\ Released \in Rows
    BY <1>1, <1>4, <2>1, <2>2 DEF At, Responsible, UnderWay, Released, NoRow, Rows
  <2>4. CASE Refused(c)
    BY <1>1, <2>4, RefusedInv
  <2>5. CASE Goes(c, Tells(c, "failed")) /\ row' = Released
             /\ UNCHANGED <<request, notes, suspended, histories>>
    BY <1>1, <2>1, <2>2, <2>3, <2>5, Standing, TellsStep DEF histories
  <2> QED BY <1>4, <2>4, <2>5 DEF Writes
<1> QED BY <1>2, <1>3, <1>4 DEF Ready

\* An answer, or the lack of one.
LEMMA GetsStep ==
  ASSUME IInv, NEW c \in Calls, call[c].pc \in {"post", "await"},
         NEW got \in Replies \cup {"undelivered", "rejected", "ambiguous", "malformed",
                                   "present", "absent"},
         Goes(c, Gets(c, got)),
         UNCHANGED <<row, request, notes, suspended, made, troubled, overtaken, stranded>>,
         forgotten' \in {forgotten, forgotten \cup {c}},
         got \in {"undelivered", "rejected"} =>
           \/ request[c] = "none"
           \/ request[c] \in Replies /\ c \in forgotten',
         got = "malformed" /\ call[c].tool = "save" => request[c] \in Replies,
         got = "error" => request[c] = "error",
         got \in {"duplicate", "present"} => notes > 0,
         got = "absent" /\ call[c].why = "error" => c \notin made
  PROVE  IInv'
<1> DEFINE next == Gets(c, got)
<1>1. /\ next \in Call /\ next.pc = "leave" /\ next.at = call[c].at /\ next.got = got
      /\ next.owns = call[c].owns /\ next.tool = call[c].tool
      /\ next.why = call[c].why /\ next.told = call[c].told
  BY Standing DEF Gets, Call
<1>2. call'[c] = next /\ row \in Rows
  BY <1>1, Others DEF IInv, TypeOK, Rows
<1>3. UNCHANGED <<row, request, notes, suspended, made, troubled, overtaken, stranded>>
  OBVIOUS
<1>4. Placed(c)' /\ Answered(c)'
  BY <1>1, <1>2, <1>3, Standing DEF Placed, Answered, Replies
<1>5. Responsible(c)' => Responsible(c)
  BY <1>1, <1>2, Standing DEF Responsible, Blocked, Placed
<1>6. RowKept(c)
  BY <1>2, <1>3 DEF RowKept
<1> QED BY <1>1, <1>3, <1>4, <1>5, <1>6, PlainStep, Standing DEF Placed

LEMMA AwaitInv == ASSUME IInv, NEW c \in Calls, Await(c) PROVE IInv'
<1>1. call[c].pc = "await" /\ UNCHANGED <<row, request, notes, suspended, histories>>
  BY DEF Await, At
<1>2. CASE request[c] \in Replies /\ Goes(c, Gets(c, request[c]))
  BY <1>1, <1>2, GetsStep, Standing DEF Answered, Replies, histories
<1>3. CASE Goes(c, Gets(c, "ambiguous"))
  BY <1>1, <1>3, GetsStep DEF histories
<1>4. CASE request[c] \in Replies /\ Goes(c, Gets(c, "malformed"))
  BY <1>1, <1>4, GetsStep DEF histories
<1> QED BY <1>2, <1>3, <1>4 DEF Await, Malformed

LEMMA PostReadInv == ASSUME IInv, NEW c \in Calls, PostRead(c) PROVE IInv'
<1>1. /\ call[c].pc = "post" /\ call[c].tool = "read"
      /\ UNCHANGED <<row, request, notes, suspended, histories>>
  BY DEF PostRead, At
<1>2. CASE notes > 0 /\ Goes(c, Gets(c, "present"))
  BY <1>1, <1>2, GetsStep DEF histories
<1>3. CASE ~(notes > 0) /\ Goes(c, Gets(c, "absent"))
  BY <1>1, <1>3, GetsStep, Standing DEF Answered, histories
<1>4. CASE Goes(c, Gets(c, "ambiguous"))
  BY <1>1, <1>4, GetsStep DEF histories
<1>5. CASE Goes(c, Gets(c, "malformed"))
  BY <1>1, <1>5, GetsStep DEF histories
<1> QED BY <1>2, <1>3, <1>4, <1>5 DEF PostRead, Malformed

LEMMA PostSaveInv == ASSUME IInv, NEW c \in Calls, PostSave(c) PROVE IInv'
<1>1. /\ call[c].pc = "post" /\ call[c].tool = "save" /\ call[c].at = "tool"
      /\ call[c].told = "nothing" /\ call[c].why = "none"
      /\ request[c] \in {"none"} \cup Replies
  BY Standing DEF PostSave, At, Placed, Answered, Call, IInv, TypeOK
<1>2. ASSUME NEW got \in {"undelivered", "rejected"}, Goes(c, Gets(c, got)),
             forgotten' = IF request[c] = "none" THEN forgotten ELSE forgotten \cup {c},
             UNCHANGED request
      PROVE  IInv'
  <2>1. UNCHANGED <<row, notes, suspended, made, troubled, overtaken, stranded>>
    BY DEF PostSave
  <2>2. request[c] = "none" \/ (request[c] \in Replies /\ c \in forgotten')
    BY <1>1, <1>2
  <2>3. forgotten' \in {forgotten, forgotten \cup {c}}
    BY <1>2
  <2> QED BY <1>1, <1>2, <2>1, <2>2, <2>3, GetsStep
<1>3. CASE request' = [request EXCEPT ![c] = "arrived"]
             /\ Goes(c, [call[c] EXCEPT !.pc = "await"]) /\ UNCHANGED forgotten
  <2> DEFINE next == [call[c] EXCEPT !.pc = "await"]
  <2>1. /\ next \in Call /\ next.pc = "await" /\ next.at = "tool" /\ next.tool = "save"
        /\ next.why = "none" /\ next.told = "nothing" /\ next.got = call[c].got
        /\ next.owns = call[c].owns
    BY <1>1, Standing DEF Call
  <2>2. /\ call'[c] = next /\ \A d \in Calls : d # c => call'[d] = call[d]
        /\ call' \in [Calls -> Call]
    BY <1>3, <2>1, Others
  <2>3. /\ request' \in [Calls -> {"none", "arrived", "storing"} \cup Replies]
        /\ request'[c] = "arrived" /\ \A d \in Calls : d # c => request'[d] = request[d]
    BY <1>3 DEF IInv, TypeOK
  <2>4. UNCHANGED <<row, notes, suspended, made, troubled, overtaken, stranded, forgotten>>
    BY <1>3 DEF PostSave
  <2>5. TypeOK'
    BY <2>2, <2>3, <2>4 DEF IInv, TypeOK
  <2>6. Placed(c)' /\ Answered(c)'
    <3>1. call[c].got \notin {"undelivered", "rejected", "error"}
      BY <1>1, Standing DEF Placed, Answered, Replies
    <3> QED BY <1>1, <2>1, <2>2, <2>3, <2>4, <3>1, Standing DEF Placed, Answered, Replies
  <2>7. \A d \in Calls : d # c => Placed(d)' /\ Answered(d)'
    BY <2>2, <2>3, <2>4, Standing DEF Placed, Answered, Replies
  <2>8. \A d \in Calls : Active(d)' => Active(d)
    <3>1. Active(c)
      BY <1>1 DEF Active, Responsible, Blocked
    <3> QED BY <2>2, <2>3, <3>1 DEF Active, Responsible, UnderWay, Blocked
  <2>9. OneAtATime'
    BY <2>3, <2>4, <2>8 DEF IInv, OneAtATime
  <2>10. Owned'
    BY <1>3, <2>1, <2>4, SessionStep, Standing
  <2> QED BY <2>5, <2>6, <2>7, <2>9, <2>10 DEF IInv
<1>4. CASE Goes(c, Gets(c, "ambiguous")) /\ UNCHANGED <<request, forgotten>>
  BY <1>1, <1>4, GetsStep DEF PostSave
<1> QED BY <1>2, <1>3, <1>4 DEF PostSave

\* The next request of a call that has the claim; the row is left as it is, or updated.
LEMMA AsksStep ==
  ASSUME IInv, NEW c \in Calls, At(c, "settle"), ~Blocked(c),
         NEW tool \in {"save", "read"}, NEW why \in {"none", "ambiguous", "saved", "error"},
         NEW next \in Call, Goes(c, next),
         next.pc = "look", next.at = "tool", next.tool = tool, next.why = why,
         next.got = "none", next.owns = call[c].owns, next.told = call[c].told,
         UNCHANGED <<request, notes, suspended, histories>>,
         row' \in {row, Unknown},
         tool = "save" => why = "none" /\ request[c] \notin {"arrived", "storing"},
         why = "error" => request[c] = "error"
  PROVE  IInv'
<1>1. call'[c] = next /\ call[c].told = "nothing"
  BY Others, Standing DEF At, Placed, Call
<1>2. UNCHANGED <<request, notes, suspended, made, troubled, overtaken, stranded, forgotten>>
  BY DEF histories
<1>3. Placed(c)' /\ Answered(c)'
  BY <1>1, <1>2, Standing DEF Placed, Answered, Replies
<1>4. Responsible(c)
  BY <1>1 DEF Responsible, At
<1>5. RowKept(c)
  <2>1. row \in Rows
    BY DEF IInv, TypeOK, Rows
  <2>2. CASE row' = row
    BY <2>1, <2>2 DEF RowKept
  <2>3. CASE row' = Fresh("unknown") /\ row.state # "none"
    BY <2>1, <2>3 DEF RowKept, Rows, Fresh
  <2> QED BY <2>2, <2>3 DEF Unknown
<1> QED BY <1>1, <1>2, <1>3, <1>4, <1>5, PlainStep

LEMMA SaveAnsweredInv == ASSUME IInv, NEW c \in Calls, SaveAnswered(c) PROVE IInv'
<1>1. /\ At(c, "settle") /\ call[c].tool = "save" /\ call[c].at = "guard"
      /\ call[c].told = "nothing" /\ ~Blocked(c) /\ "tool" \notin call[c].owns
      /\ row \in Rows /\ Released \in Rows
  BY Standing DEF SaveAnswered, At, Placed, Call, Blocked, IInv, TypeOK, Rows, Released, NoRow
<1>2. Responsible(c)
  BY <1>1 DEF Responsible, At
<1>3. CASE Refused(c)
  BY <1>1, <1>3, RefusedInv
<1>4. CASE Retries(c) /\ GoesOn(c, [Asks(c, "save", "none") EXCEPT !.attempt = @ + 1])
  <2> DEFINE next == [Asks(c, "save", "none") EXCEPT !.attempt = @ + 1]
  <2>1. call[c].attempt + 1 \in 1..MaxAttempts
    BY <1>4, Standing, AttemptsAssumption DEF Retries, Call
  <2>2. /\ next \in Call /\ next.pc = "look" /\ next.at = "tool" /\ next.tool = "save"
        /\ next.why = "none" /\ next.got = "none" /\ next.owns = call[c].owns
        /\ next.told = call[c].told
    <3> DEFINE asked == Asks(c, "save", "none")
    <3>1. /\ asked \in Call /\ asked.pc = "look" /\ asked.at = "tool" /\ asked.tool = "save"
          /\ asked.why = "none" /\ asked.got = "none" /\ asked.owns = call[c].owns
          /\ asked.told = call[c].told /\ asked.attempt = call[c].attempt
      BY Standing DEF Asks, Call, Frames
    <3>2. next = [asked EXCEPT !.attempt = @ + 1]
      OBVIOUS
    <3> HIDE DEF asked, next
    <3> QED BY <2>1, <3>1, <3>2 DEF Call
  <2>3. request[c] \notin {"arrived", "storing"}
    BY <1>4, Standing DEF Retries, Answered, Replies
  <2> QED BY <1>1, <1>4, <2>2, <2>3, AsksStep DEF GoesOn
<1>5. CASE /\ call[c].got \in {"undelivered", "rejected"}
           /\ Goes(c, Tells(c, "failed")) /\ row' = Released
           /\ UNCHANGED <<request, notes, suspended, histories>>
  <2>1. ((c \notin made /\ request[c] = "none") \/ c \in forgotten) /\ ~UnderWay(c)
    BY <1>5, Standing DEF Answered, UnderWay, Replies
  <2> QED BY <1>1, <1>2, <1>5, <2>1, TellsStep DEF histories
<1>6. CASE /\ call[c].got = "duplicate"
           /\ Goes(c, Tells(c, "exists")) /\ row' = Released
           /\ UNCHANGED <<request, notes, suspended, histories>>
  <2>1. notes > 0
    BY <1>6, Standing DEF Answered
  <2> QED BY <1>1, <1>6, <2>1, TellsStep DEF histories
<1>7. ASSUME NEW why \in {"ambiguous", "saved", "error"}, call[c].got = why,
             Goes(c, Asks(c, "read", why)), row' \in {row, Unknown},
             UNCHANGED <<request, notes, suspended, histories>>
      PROVE  IInv'
  <2> DEFINE next == Asks(c, "read", why)
  <2>1. /\ next \in Call /\ next.pc = "look" /\ next.at = "tool" /\ next.tool = "read"
        /\ next.why = why /\ next.got = "none" /\ next.owns = call[c].owns
        /\ next.told = call[c].told
    BY Standing DEF Asks, Call, Frames
  <2>2. why = "error" => request[c] = "error"
    BY <1>7, Standing DEF Answered
  <2> QED BY <1>1, <1>7, <2>1, <2>2, AsksStep
<1>8. CASE call[c].got = "ambiguous" /\ Writes(c, Asks(c, "read", call[c].got), Unknown)
  BY <1>3, <1>7, <1>8 DEF Writes
<1>9. CASE call[c].got \in {"saved", "error"} /\ GoesOn(c, Asks(c, "read", call[c].got))
  BY <1>7, <1>9 DEF GoesOn
<1> QED BY <1>3, <1>4, <1>5, <1>6, <1>8, <1>9 DEF SaveAnswered, Writes

LEMMA ReadAnsweredInv == ASSUME IInv, NEW c \in Calls, ReadAnswered(c) PROVE IInv'
<1>1. /\ At(c, "settle") /\ call[c].at = "guard" /\ "tool" \notin call[c].owns
      /\ call[c].told = "nothing" /\ row \in Rows /\ Released \in Rows
      /\ Unknown \in Rows /\ (row.state = "none" => Unknown = row)
      /\ (row.state # "none" => Unknown.state # "none" /\ ~Unknown.stale)
  BY Standing DEF ReadAnswered, At, Placed, Call, IInv, TypeOK, Rows, Released, NoRow, Unknown, Fresh
<1>2. CASE Refused(c)
  BY <1>1, <1>2, RefusedInv
<1>3. CASE /\ call[c].got = "present" /\ Goes(c, Tells(c, "saved")) /\ row' = Released
           /\ UNCHANGED <<request, notes, suspended, histories>>
  <2>1. notes > 0
    BY <1>3, Standing DEF Answered
  <2> QED BY <1>1, <1>3, <2>1, TellsStep DEF histories
<1>4. CASE /\ call[c].why = "error" /\ Absent(c) /\ Goes(c, Tells(c, "failed"))
           /\ row' = Released /\ UNCHANGED <<request, notes, suspended, histories>>
  <2>1. request[c] = "error" /\ c \notin made /\ ~UnderWay(c)
    BY <1>4, Standing DEF Answered, Absent, UnderWay
  <2>2. Responsible(c)
    BY <1>1, <1>4 DEF Responsible, Blocked, At
  <2> QED BY <1>1, <1>4, <2>1, <2>2, TellsStep DEF histories
<1>5. CASE /\ Goes(c, Tells(c, "unknown")) /\ row' \in {row, Unknown}
           /\ UNCHANGED <<request, notes, suspended, histories>>
  BY <1>1, <1>5, TellsStep DEF histories
<1> QED BY <1>2, <1>3, <1>4, <1>5 DEF ReadAnswered, Writes, GoesOn

\* The second request of a call or of its read-back: nothing is under way by then.
LEMMA ResendInv == ASSUME IInv, NEW c \in Calls, Resend(c) PROVE IInv'
<1> DEFINE asked == Asks(c, call[c].tool, call[c].why)
           next == [asked EXCEPT !.again = TRUE]
<1>1. /\ At(c, "settle") /\ call[c].at = "guard" /\ call[c].told = "nothing"
      /\ call[c].got = "malformed" /\ row \in Rows /\ "tool" \notin call[c].owns
  BY Standing DEF Resend, At, Placed, Call, IInv, TypeOK, Rows
<1>2. UNCHANGED <<row, request, notes, suspended, made, troubled, overtaken, stranded, forgotten>>
  BY DEF Resend, histories
<1>3. /\ asked \in Call /\ asked.pc = "look" /\ asked.at = "tool" /\ asked.got = "none"
      /\ asked.tool = call[c].tool /\ asked.why = call[c].why
      /\ asked.owns = call[c].owns /\ asked.told = "nothing"
  BY <1>1, Standing DEF Asks, Call, Frames
<1>4. Goes(c, next)
  BY DEF Resend
<1> HIDE DEF asked
<1>5. /\ next \in Call /\ next.pc = "look" /\ next.at = "tool" /\ next.got = "none"
      /\ next.tool = call[c].tool /\ next.why = call[c].why
      /\ next.owns = call[c].owns /\ next.told = "nothing"
  BY <1>3 DEF Call
<1> HIDE DEF next
<1>6. call'[c] = next
  BY <1>4, <1>5, Others
<1>7. Placed(c)' /\ Answered(c)'
  BY <1>1, <1>2, <1>5, <1>6, Standing DEF At, Placed, Answered, Replies
<1>8. Responsible(c)' => Responsible(c)
  BY <1>1, <1>5, <1>6 DEF At, Responsible, Blocked
<1>9. RowKept(c)
  BY <1>1, <1>2 DEF RowKept
<1> QED BY <1>2, <1>4, <1>5, <1>7, <1>8, <1>9, PlainStep

\* A claim is granted only while no other call and no save is about, or the note is
\* there, or a call was overtaken.
LEMMA ClaimInv == ASSUME IInv, NEW c \in Calls, Claim(c) PROVE IInv'
<1>1. /\ call[c].pc = "claim" /\ call[c].at = "guard" /\ "tool" \notin call[c].owns
      /\ call[c].tool = "save" /\ call[c].told = "nothing" /\ call[c].got = "none"
      /\ call[c].why = "none" /\ request[c] = "none" /\ row \in Rows
  BY Standing DEF Claim, At, Placed, Answered, Replies, Call, IInv, TypeOK, Rows
<1>2. CASE Refused(c)
  BY <1>1, <1>2, RefusedInv
<1>3. CASE /\ ~Free
           /\ Goes(c, [call[c] EXCEPT !.pc = "ready", !.tool = "read", !.why = "blocked"])
           /\ UNCHANGED <<row, request, notes, suspended, histories>>
  <2> DEFINE next == [call[c] EXCEPT !.pc = "ready", !.tool = "read", !.why = "blocked"]
  <2>1. /\ next \in Call /\ next.pc = "ready" /\ next.at = "guard" /\ next.tool = "read"
        /\ next.why = "blocked" /\ next.got = "none" /\ next.owns = call[c].owns
        /\ next.told = "nothing"
    BY <1>1, Standing DEF Call
  <2>2. call'[c] = next
    BY <1>3, <2>1, Others
  <2>3. UNCHANGED <<row, request, notes, suspended, made, troubled, overtaken, stranded, forgotten>>
    BY <1>3 DEF histories
  <2>4. Placed(c)' /\ Answered(c)'
    BY <2>1, <2>2, <2>3, Standing DEF Placed, Answered, Replies
  <2>5. ~Responsible(c)' /\ RowKept(c)
    BY <1>1, <2>1, <2>2, <2>3 DEF Responsible, Blocked, RowKept
  <2> QED BY <1>1, <1>3, <2>1, <2>3, <2>4, <2>5, PlainStep
<1>4. CASE /\ Free /\ Goes(c, [call[c] EXCEPT !.pc = "ready"]) /\ row' = Fresh("in_flight")
           /\ UNCHANGED <<request, notes, suspended, histories>>
  <2> DEFINE next == [call[c] EXCEPT !.pc = "ready"]
  <2>1. /\ next \in Call /\ next.pc = "ready" /\ next.at = "guard" /\ next.tool = "save"
        /\ next.why = "none" /\ next.got = "none" /\ next.owns = call[c].owns
        /\ next.told = "nothing"
    BY <1>1, Standing DEF Call
  <2>2. /\ call'[c] = next /\ call' \in [Calls -> Call]
        /\ \A d \in Calls : d # c => call'[d] = call[d]
    BY <1>4, <2>1, Others
  <2>3. UNCHANGED <<request, notes, suspended, made, troubled, overtaken, stranded, forgotten>>
    BY <1>4 DEF histories
  <2>4. TypeOK'
    BY <1>4, <2>2, <2>3 DEF IInv, TypeOK, Fresh
  <2>5. Placed(c)' /\ Answered(c)'
    BY <1>1, <2>1, <2>2, <2>3, Standing DEF Placed, Answered, Replies
  <2>6. \A d \in Calls : d # c => Placed(d)' /\ Answered(d)'
    BY <2>2, <2>3, Standing DEF Placed, Answered, Replies
  <2>7. \A d \in Calls : Active(d)' => Active(d) \/ d = c
    BY <2>2, <2>3 DEF Active, Responsible, UnderWay, Blocked
  <2>8. ~overtaken /\ notes = 0 => \A d \in Calls : ~Active(d)
    BY <1>4 DEF IInv, OneAtATime, Free
  <2>9. OneAtATime'
    <3>1. row'.state # "none" /\ ~row'.stale
      BY <1>4 DEF Fresh
    <3> QED BY <2>3, <2>7, <2>8, <3>1 DEF IInv, OneAtATime
  <2>10. Owned'
    BY <1>1, <1>4, <2>1, <2>3, SessionStep
  <2> QED BY <2>4, <2>5, <2>6, <2>9, <2>10 DEF IInv
<1> QED BY <1>2, <1>3, <1>4 DEF Claim

\* The start of the service, which may fail with or without effect.
LEMMA ResumeInv == ASSUME IInv, NEW c \in Calls, Resume(c) PROVE IInv'
<1> DEFINE resumed == call[c].owns \cup {call[c].at}
<1>1. /\ call[c].pc = "resume" /\ call[c].told = "nothing" /\ call[c].got = "none"
      /\ row \in Rows /\ call[c].at \in Frames /\ resumed \in SUBSET Frames
  BY Standing DEF Resume, At, Placed, Call, IInv, TypeOK, Rows
<1>2. /\ UNCHANGED <<row, request, notes, made, troubled, overtaken, forgotten>>
      /\ suspended' \in BOOLEAN /\ stranded' \in BOOLEAN /\ (stranded => stranded')
  <2>1. suspended \in BOOLEAN /\ stranded \in BOOLEAN
    BY DEF IInv, TypeOK
  <2>2. /\ UNCHANGED <<row, request, notes, made, troubled, overtaken, forgotten>>
        /\ suspended' = FALSE \/ UNCHANGED suspended
        /\ stranded' = TRUE \/ UNCHANGED stranded
    BY DEF Resume
  <2>3. suspended' \in BOOLEAN
    BY <2>1, <2>2
  <2>4. stranded' \in BOOLEAN
    BY <2>1, <2>2
  <2>5. stranded => stranded'
    BY <2>2, Zenon
  <2> QED BY <2>2, <2>3, <2>4, <2>5
<1>3. ASSUME NEW next \in Call, Goes(c, next),
             next.pc \notin {"idle", "over"},
             next.at = "guard" => "tool" \notin next.owns,
             \/ suspended' = suspended /\ next.owns = call[c].owns
             \/ suspended' \/ stranded' \/ next.owns # {},
             Placed(c)', Answered(c)', Responsible(c)' => Responsible(c)
      PROVE  IInv'
  <2>1. (\A d \in Calls : Placed(d)' /\ Answered(d)') /\ OneAtATime'
    BY <1>2, <1>3, CallStep
  <2>2. Owned'
    BY <1>2, <1>3, SessionStep
  <2>3. TypeOK'
    BY <1>2, <1>3, Others DEF IInv, TypeOK
  <2> QED BY <2>1, <2>2, <2>3 DEF IInv
<1>4. ASSUME NEW owns \in {call[c].owns, resumed}, NEW next, Goes(c, next),
             \/ next = [Inside(c) EXCEPT !.owns = owns]
             \/ call[c].at # "guard" /\ next = [Gets(c, "ambiguous") EXCEPT !.owns = owns],
             \/ owns = resumed
             \/ stranded' \/ UNCHANGED suspended
      PROVE  IInv'
  <2>1. /\ next \in Call /\ next.at = call[c].at /\ next.owns = owns
        /\ next.tool = call[c].tool /\ next.why = call[c].why /\ next.told = "nothing"
    <3>1. owns \in SUBSET Frames
      BY <1>1, Standing DEF Call
    <3>2. CASE next = [Inside(c) EXCEPT !.owns = owns]
      BY <1>1, <3>1, <3>2, Standing DEF Inside, Call
    <3>3. CASE next = [Gets(c, "ambiguous") EXCEPT !.owns = owns]
      BY <1>1, <3>1, <3>3, Standing DEF Gets, Call
    <3> QED BY <1>4, <3>2, <3>3
  <2>2. \/ next.pc = "claim" /\ next.at = "guard" /\ next.got = "none"
        \/ next.pc = "post" /\ next.at = "tool" /\ next.got = "none"
        \/ next.pc = "leave" /\ next.at = "tool" /\ next.got = "ambiguous"
    <3>1. CASE next = [Inside(c) EXCEPT !.owns = owns]
      BY <1>1, <3>1, Standing DEF Inside, Call, Frames
    <3>2. CASE call[c].at # "guard" /\ next = [Gets(c, "ambiguous") EXCEPT !.owns = owns]
      BY <1>1, <3>2, Standing DEF Gets, Call, Frames
    <3> QED BY <1>4, <3>1, <3>2
  <2>3. call'[c] = next
    BY <1>4, <2>1, Others
  <2>4. Placed(c)' /\ Answered(c)'
    BY <1>1, <1>2, <2>1, <2>2, <2>3, Standing DEF Placed, Answered, Replies
  <2>5. Responsible(c)' => Responsible(c)
    BY <1>1, <2>1, <2>2, <2>3 DEF Responsible, Blocked
  <2>6. next.at = "guard" => "tool" \notin next.owns
    <3> SUFFICES ASSUME call[c].at = "guard" PROVE "tool" \notin owns
      BY <2>1
    <3> QED BY Standing
  <2>7. resumed # {}
    OBVIOUS
  <2> QED BY <1>3, <1>4, <2>1, <2>2, <2>4, <2>5, <2>6, <2>7
<1>5. ASSUME NEW owns \in {call[c].owns, resumed}, call[c].at = "guard",
             Goes(c, [Tells(c, "failed") EXCEPT !.owns = owns]),
             \/ owns = resumed
             \/ stranded' \/ UNCHANGED suspended
      PROVE  IInv'
  <2> DEFINE failed == Tells(c, "failed")
             next == [failed EXCEPT !.owns = owns]
  <2>1. owns \in SUBSET Frames /\ 1 \in 1..MaxAttempts
    BY <1>1, AttemptsAssumption, Standing DEF Call
  <2>2. /\ next.pc = "leave" /\ next.at = "guard" /\ next.owns = owns
        /\ next.tool = "save" /\ next.why = "none" /\ next.got = "none"
        /\ next.told = "failed"
    BY DEF Tells, NewCall
  <2>3. next \in Call
    <3>1. failed \in Call
      BY <2>1, Standing DEF Tells, NewCall, Call, Frames
    <3> HIDE DEF failed
    <3> QED BY <2>1, <3>1 DEF Call
  <2> HIDE DEF next
  <2>4. call'[c] = next
    BY <1>5, <2>3, Others DEF next
  <2>5. request[c] = "none" /\ c \notin made
    BY <1>1, <1>5, Standing DEF Placed, Answered, Replies
  <2>6. Placed(c)' /\ Answered(c)' /\ ~Responsible(c)'
    BY <1>2, <2>2, <2>4, <2>5, Standing DEF Placed, Answered, Replies, Responsible
  <2>7. "tool" \notin owns /\ resumed # {}
    BY <1>5, Standing
  <2>8. Goes(c, next)
    BY <1>5 DEF next
  <2> QED BY <1>3, <1>5, <2>2, <2>3, <2>6, <2>7, <2>8
<1>6. CASE Goes(c, [Inside(c) EXCEPT !.owns = resumed])
  BY <1>4, <1>6
<1>7. CASE Goes(c, [Raises(c) EXCEPT !.owns = resumed])
  BY <1>4, <1>5, <1>7 DEF Raises
<1>8. CASE Goes(c, Raises(c)) /\ (stranded' \/ UNCHANGED suspended)
  <2>1. CASE call[c].at = "guard"
    <3>1. [Tells(c, "failed") EXCEPT !.owns = call[c].owns] = Tells(c, "failed")
      BY DEF Tells, NewCall
    <3> QED BY <1>5, <1>8, <2>1, <3>1 DEF Raises
  <2>2. CASE call[c].at # "guard"
    <3>1. [Gets(c, "ambiguous") EXCEPT !.owns = call[c].owns] = Gets(c, "ambiguous")
      BY Standing DEF Gets, Call
    <3> QED BY <1>4, <1>8, <2>2, <3>1 DEF Raises
  <2> QED BY <2>1, <2>2
<1> QED BY <1>6, <1>7, <1>8 DEF Resume

\* The end of a session.
LEMMA LeaveInv == ASSUME IInv, NEW c \in Calls, Leave(c) PROVE IInv'
<1> DEFINE next == [call[c] EXCEPT !.pc = IF call[c].at = "guard" THEN "over" ELSE "settle",
                                   !.at = "guard", !.owns = Left(c)]
<1>1. /\ call[c].pc = "leave" /\ row \in Rows /\ Goes(c, next)
      /\ UNCHANGED <<row, request, notes, made, troubled, overtaken, forgotten>>
  BY DEF Leave, At, IInv, TypeOK, Rows
<1>2. /\ suspended' \in BOOLEAN /\ stranded' \in BOOLEAN
  BY DEF Leave, IInv, TypeOK
<1>3. stranded => stranded'
  BY Zenon DEF Leave
<1>4. /\ next \in Call /\ next.at = "guard" /\ next.owns = Left(c)
      /\ next.pc = (IF call[c].at = "guard" THEN "over" ELSE "settle")
      /\ next.tool = call[c].tool /\ next.why = call[c].why /\ next.got = call[c].got
      /\ next.told = call[c].told
  BY Standing DEF Call, Frames, Left
<1>5. call'[c] = next
  BY <1>1, <1>4, Others
<1>6. Placed(c)' /\ Answered(c)'
  BY <1>1, <1>4, <1>5, Standing DEF Placed, Answered, Replies
<1>7. Responsible(c)' => Responsible(c)
  BY <1>1, <1>4, <1>5, Standing DEF Responsible, Blocked, Call, Frames
<1>8. next.pc \in {"idle", "over"} => next.owns = {}
  BY <1>4, Standing DEF Left, Call, Frames
<1>9. "tool" \notin next.owns
  BY <1>4, Standing DEF Left, Call, Frames
<1>10. \/ suspended' = suspended /\ next.owns = call[c].owns
       \/ suspended' \/ stranded'
  <2>1. CASE call[c].at \in call[c].owns
    BY <2>1 DEF Leave
  <2>2. CASE call[c].at \notin call[c].owns
    BY <1>4, <2>2, Standing DEF Leave, Left, Call
  <2> QED BY <2>1, <2>2
<1>11. (\A d \in Calls : Placed(d)' /\ Answered(d)') /\ OneAtATime'
  BY <1>1, <1>4, <1>6, <1>7, CallStep
<1>12. Owned'
  BY <1>1, <1>3, <1>4, <1>8, <1>9, <1>10, SessionStep
<1>13. TypeOK'
  BY <1>1, <1>2, <1>4, Others DEF IInv, TypeOK
<1> QED BY <1>11, <1>12, <1>13 DEF IInv

\* The end of a process.
LEMMA CrashInv == ASSUME IInv, NEW c \in Calls, Crash(c) PROVE IInv'
<1> DEFINE next == [NewCall EXCEPT !.pc = "over", !.told = call[c].told]
<1>1. /\ row \in Rows /\ Goes(c, next)
      /\ UNCHANGED <<row, request, notes, suspended, made, troubled, overtaken, forgotten>>
  BY DEF Crash, IInv, TypeOK, Rows
<1>2. stranded' \in BOOLEAN /\ (stranded => stranded')
  BY DEF Crash, IInv, TypeOK
<1>3. \/ suspended' = suspended /\ call[c].owns = {}
      \/ stranded'
  BY DEF Crash
<1>4. NewCall \in Call
  BY AttemptsAssumption DEF NewCall, Call, Frames, Replies
<1>5. /\ next.pc = "over" /\ next.at = "guard" /\ next.owns = {} /\ next.tool = "save"
      /\ next.why = "none" /\ next.got = "none" /\ next.told = call[c].told
  BY DEF NewCall
<1>6. next \in Call
  <2>1. call[c].told \in {"nothing", "saved", "exists", "failed", "unknown"}
    BY Standing DEF Call
  <2> QED BY <1>4, <2>1 DEF Call
<1> HIDE DEF next
<1>7. call'[c] = next
  BY <1>1, <1>6, Others
<1>8. Placed(c)' /\ Answered(c)' /\ ~Responsible(c)'
  BY <1>1, <1>5, <1>7, Standing DEF Placed, Answered, Replies, Responsible
<1>9. (\A d \in Calls : Placed(d)' /\ Answered(d)') /\ OneAtATime'
  BY <1>1, <1>6, <1>8, CallStep
<1>10. Owned'
  BY <1>1, <1>2, <1>3, <1>5, <1>6, SessionStep
<1>11. TypeOK'
  BY <1>1, <1>2, <1>6, Others DEF IInv, TypeOK
<1> QED BY <1>9, <1>10, <1>11 DEF IInv

\* The service compares: only without a note does it go on to store.
LEMMA CompareInv == ASSUME IInv, NEW c \in Calls, Compare(c) PROVE IInv'
<1>1. /\ request[c] = "arrived"
      /\ UNCHANGED <<call, row, notes, suspended, made, troubled, overtaken, stranded, forgotten>>
  BY DEF Compare, histories
<1>2. PICK answer \in {"duplicate", "storing", "error"} :
        /\ request' = [request EXCEPT ![c] = answer]
        /\ answer = "duplicate" => notes > 0
        /\ answer = "storing" => ~(notes > 0)
  BY DEF Compare
<1>3. /\ request' \in [Calls -> {"none", "arrived", "storing"} \cup Replies]
      /\ request'[c] = answer /\ \A d \in Calls : d # c => request'[d] = request[d]
  BY <1>2 DEF IInv, TypeOK, Replies
<1>4. TypeOK'
  BY <1>1, <1>3 DEF IInv, TypeOK
<1>5. \A d \in Calls : Placed(d)' /\ Answered(d)'
  <2>1. \A d \in Calls : Placed(d)'
    BY <1>1 DEF IInv, Placed
  <2>2. Answered(c)'
    <3>1. c \in made => notes > 0
      BY Standing DEF Answered
    <3>2. call[c].told = "failed" => c \in troubled \cup forgotten
      BY <1>1, Standing DEF Answered
    <3>3. call[c].why # "error" /\ call[c].got \notin {"error", "undelivered", "rejected"}
          /\ ~(call[c].got = "malformed" /\ call[c].tool = "save")
      BY <1>1, Standing DEF Answered, Replies
    <3> QED BY <1>1, <1>2, <1>3, <3>1, <3>2, <3>3, Standing DEF Answered
  <2>3. \A d \in Calls : d # c => Answered(d)'
    BY <1>1, <1>3, Standing DEF Answered
  <2> QED BY <2>1, <2>2, <2>3
<1>6. \A d \in Calls : Active(d)' => Active(d)
  BY <1>1, <1>3 DEF Active, Responsible, UnderWay, Blocked
<1>7. OneAtATime'
  BY <1>1, <1>2, <1>3, <1>6 DEF IInv, OneAtATime
<1>8. Owned'
  BY <1>1 DEF IInv, Owned
<1> QED BY <1>4, <1>5, <1>7, <1>8 DEF IInv

\* The service stores: unless a call was overtaken, this is the first note, and no
\* other save is under way.
LEMMA StoreInv == ASSUME IInv, NEW c \in Calls, Store(c) PROVE IInv'
<1>1. /\ request[c] = "storing"
      /\ UNCHANGED <<call, row, suspended, troubled, overtaken, stranded, forgotten>>
  BY DEF Store
<1>2. PICK answer \in {"saved", "error"} : request' = [request EXCEPT ![c] = answer]
  BY DEF Store
<1>3. \/ notes' = notes + 1 /\ made' = made \cup {c}
      \/ answer = "error" /\ UNCHANGED <<notes, made>>
  BY <1>2 DEF Store, IInv, TypeOK
<1>4. /\ request' \in [Calls -> {"none", "arrived", "storing"} \cup Replies]
      /\ request'[c] = answer /\ \A d \in Calls : d # c => request'[d] = request[d]
  BY <1>2 DEF IInv, TypeOK, Replies
<1>5. notes \in Nat /\ notes' \in Nat /\ (notes > 0 => notes' > 0) /\ made \subseteq Calls
  BY <1>3 DEF IInv, TypeOK
<1>6. TypeOK'
  BY <1>1, <1>3, <1>4, <1>5 DEF IInv, TypeOK
<1>7. \A d \in Calls : Placed(d)' /\ Answered(d)'
  <2>1. \A d \in Calls : Placed(d)'
    BY <1>1 DEF IInv, Placed
  <2>2. Answered(c)'
    <3>1. c \in made' => notes' > 0
      BY <1>3, <1>5, Standing DEF Answered
    <3>2. call[c].told = "failed" => c \in troubled \cup forgotten
      BY <1>1, Standing DEF Answered
    <3>3. call[c].why # "error" /\ call[c].got \notin {"error", "undelivered", "rejected"}
          /\ ~(call[c].got = "malformed" /\ call[c].tool = "save")
          /\ ~(call[c].pc \in {"idle", "look", "resume", "claim", "ready", "post"}
                /\ call[c].tool = "save")
      BY <1>1, Standing DEF Answered, Replies
    <3> QED BY <1>1, <1>4, <1>5, <3>1, <3>2, <3>3, Standing DEF Answered
  <2>3. \A d \in Calls : d # c => Answered(d)'
    BY <1>1, <1>3, <1>4, <1>5, Standing DEF Answered
  <2> QED BY <2>1, <2>2, <2>3
<1>8. OneAtATime'
  <2> SUFFICES ASSUME ~overtaken PROVE OneAtATime'
    BY <1>1 DEF OneAtATime
  <2>1. notes = 0
    BY <1>1, <1>5 DEF IInv, OneAtATime
  <2>2. Active(c) /\ \A d \in Calls : Active(d)' => Active(d)
    BY <1>1, <1>4 DEF Active, Responsible, UnderWay, Blocked
  <2>3. \A d \in Calls : request'[d] # "storing"
    BY <1>4, <2>1, <2>2 DEF IInv, OneAtATime, Active, UnderWay
  <2> QED BY <1>1, <1>3, <1>5, <2>1, <2>2, <2>3 DEF IInv, OneAtATime
<1>9. Owned'
  BY <1>1 DEF IInv, Owned
<1> QED BY <1>6, <1>7, <1>8, <1>9 DEF IInv

\* The TTL ends: if a call or a save is still about, the call is overtaken.
LEMMA ExpireInv == ASSUME IInv, Expire PROVE IInv'
<1>1. /\ UNCHANGED <<call, request, notes, suspended, made, troubled, stranded, forgotten>>
      /\ row' \in Rows
  BY DEF Expire, IInv, TypeOK, Rows
<1>2. /\ overtaken' \in BOOLEAN
      /\ ~overtaken' => ~overtaken /\ \A c \in Calls : ~Active(c)
  BY DEF Expire, IInv, TypeOK, Active
<1>3. TypeOK'
  BY <1>1, <1>2 DEF IInv, TypeOK, Rows
<1>4. \A c \in Calls : Placed(c)' /\ Answered(c)'
  BY <1>1 DEF IInv, Placed, Answered
<1>5. OneAtATime'
  BY <1>1, <1>2 DEF IInv, OneAtATime, Active, Responsible, UnderWay, Blocked
<1>6. Owned'
  BY <1>1 DEF IInv, Owned
<1> QED BY <1>3, <1>4, <1>5, <1>6 DEF IInv

LEMMA NextIInv == IInv /\ [Next]_vars => IInv'
<1> SUFFICES ASSUME IInv, [Next]_vars PROVE IInv'
  OBVIOUS
<1>1. CASE UNCHANGED vars
  BY <1>1 DEF vars, IInv, TypeOK, Placed, Answered, OneAtATime, Owned, Active, Responsible,
              UnderWay, Blocked
<1>2. ASSUME NEW c \in Calls, Step(c) PROVE IInv'
  BY <1>2, LookInv, ResumeInv, LeaveInv, ClaimInv, ReadyInv, PostSaveInv, AwaitInv,
     PostReadInv, ResendInv, SaveAnsweredInv, ReadAnsweredInv DEF Step
<1>3. ASSUME NEW c \in Calls, Serve(c) PROVE IInv'
  BY <1>3, CompareInv, StoreInv DEF Serve
<1> QED BY <1>1, <1>2, <1>3, BeginInv, CrashInv, ExpireInv DEF Next

LEMMA Invariance == Spec => []IInv
BY InitIInv, NextIInv, PTL DEF Spec

\* Every variable keeps its type, and no call makes more attempts than it may.
THEOREM TypeCorrect == Spec => []TypeOK
<1>1. IInv => TypeOK
  BY DEF IInv
<1> QED BY <1>1, Invariance, PTL

\* However many calls save the text, with whatever faults, it is stored once, unless
\* the TTL ended under a busy call: the claim in note_save_attempts does its job.
THEOREM SavedOnce == Spec => []StoredOnce
<1>1. IInv => StoredOnce
  BY DEF IInv, OneAtATime, StoredOnce
<1> QED BY <1>1, Invariance, PTL

\* No user is told that a note is saved which is not there, and only a refused database
\* transaction, or a second sending of the save that is refused, makes the guard call a
\* stored note unsaved.
THEOREM AnswersHold == Spec => []AnswersAreTrue
<1>1. IInv => AnswersAreTrue
  BY DEF IInv, Answered, AnswersAreTrue, UnderWay
<1> QED BY <1>1, Invariance, PTL

\* Sessions that overlap in any way leave the service suspended.
THEOREM SessionsEndSuspended == Spec => []LeftSuspended
<1>1. IInv => LeftSuspended
  BY DEF IInv, Owned, LeftSuspended
<1> QED BY <1>1, Invariance, PTL

-----------------------------------------------------------------------------
(* Whose row is left behind *)

\* A call that may leave its row behind.
Blames(c) ==
  \/ call[c].told = "unknown"
  \/ At(c, "over") /\ call[c].told = "nothing"
  \/ c \in troubled /\ ~At(c, "idle")

Keeps(c) == Responsible(c) \/ Blames(c)

\* Every row has somebody who keeps it.
Kept == row.state # "none" => \E c \in Calls : Keeps(c)

\* A step of a call keeps the row kept if it deletes the row, or if the call keeps it
\* afterwards, or kept it no more than afterwards.
LEMMA KeptStep ==
  ASSUME IInv, Kept, NEW c \in Calls, NEW next, Goes(c, next), troubled \subseteq troubled',
         \/ row'.state = "none"
         \/ Keeps(c)'
         \/ row'.state = row.state /\ ~Keeps(c)
  PROVE  Kept'
<1>1. call'[c] = next /\ \A d \in Calls : d # c => call'[d] = call[d]
  BY Standing DEF Goes
<1>2. \A d \in Calls : d # c /\ Keeps(d) => Keeps(d)'
  BY <1>1 DEF Keeps, Blames, Responsible, Blocked, At
<1> QED BY <1>2 DEF Kept

\* A step of a call that leaves the row alone and has nothing to tell.
LEMMA KeptOnTheWay ==
  ASSUME IInv, Kept, NEW c \in Calls, NEW next, Goes(c, next), troubled \subseteq troubled',
         row' = row, call[c].told = "nothing", ~At(c, "over"),
         next.pc # "idle",
         Responsible(c) => next.at = "tool" /\ next.pc # "over" /\ next.told = "nothing"
                           /\ next.why # "blocked"
  PROVE  Kept'
<1>1. call'[c] = next
  BY Standing DEF Goes
<1>2. Keeps(c) => Keeps(c)'
  BY <1>1 DEF Keeps, Blames, Responsible, Blocked, At
<1> QED BY <1>2, KeptStep

\* A call that does not know, and one that the database refuses, keep the row.
LEMMA KeptByUnknown ==
  ASSUME IInv, Kept, NEW c \in Calls, Goes(c, Tells(c, "unknown")), UNCHANGED troubled
  PROVE  Kept'
<1>1. call'[c].told = "unknown"
  BY Standing, TellsIs DEF Goes
<1> QED BY <1>1, KeptStep DEF Keeps, Blames

LEMMA KeptByRefused ==
  ASSUME IInv, Kept, NEW c \in Calls, Refused(c)
  PROVE  Kept'
<1>1. call'[c].pc = "leave" /\ Goes(c, Tells(c, "failed")) /\ troubled' = troubled \cup {c}
  BY Standing, TellsIs DEF Refused, Goes
<1> QED BY <1>1, KeptStep DEF Keeps, Blames, At

LEMMA KeptBySessions ==
  ASSUME IInv, Kept, NEW c \in Calls, Look(c) \/ Resume(c)
  PROVE  Kept'
<1>1. /\ call[c].pc \in {"look", "resume"} /\ call[c].told = "nothing" /\ row' = row
      /\ call[c] \in Call /\ UNCHANGED troubled
  BY Standing DEF Look, Resume, At, Placed, Call, histories
<1>2. ASSUME NEW next, Goes(c, next), next.pc # "idle",
             call[c].at # "guard" => next.at = "tool" /\ next.pc # "over"
                                     /\ next.told = "nothing" /\ next.why = call[c].why
      PROVE  Kept'
  BY <1>1, <1>2, KeptOnTheWay DEF Responsible, Blocked, At, Call, Frames
<1>3. ASSUME NEW owns
      PROVE  /\ [Tells(c, "failed") EXCEPT !.owns = owns].pc = "leave"
             /\ Tells(c, "failed").pc = "leave"
  BY TellsIs
<1>4. CASE Look(c)
  <2>1. CASE Goes(c, [call[c] EXCEPT !.pc = "resume"])
    BY <1>1, <1>2, <2>1 DEF Call, Frames
  <2>2. CASE Goes(c, Inside(c))
    BY <1>1, <1>2, <2>2 DEF Inside, Call, Frames
  <2>3. CASE Goes(c, Raises(c))
    BY <1>1, <1>2, <1>3, <2>3 DEF Raises, Gets, Call, Frames
  <2> QED BY <1>4, <2>1, <2>2, <2>3 DEF Look
<1>5. CASE Resume(c)
  <2> DEFINE resumed == call[c].owns \cup {call[c].at}
  <2>1. CASE Goes(c, [Inside(c) EXCEPT !.owns = resumed])
    BY <1>1, <1>2, <2>1 DEF Inside, Call, Frames
  <2>2. CASE Goes(c, [Raises(c) EXCEPT !.owns = resumed])
    BY <1>1, <1>2, <1>3, <2>2 DEF Raises, Gets, Call, Frames
  <2>3. CASE Goes(c, Raises(c))
    BY <1>1, <1>2, <1>3, <2>3 DEF Raises, Gets, Call, Frames
  <2> QED BY <1>5, <2>1, <2>2, <2>3 DEF Resume
<1> QED BY <1>4, <1>5

LEMMA KeptByLeave ==
  ASSUME IInv, Kept, NEW c \in Calls, Leave(c)
  PROVE  Kept'
<1> DEFINE next == [call[c] EXCEPT !.pc = IF call[c].at = "guard" THEN "over" ELSE "settle",
                                   !.at = "guard", !.owns = Left(c)]
<1>1. Goes(c, next) /\ row' = row /\ UNCHANGED troubled /\ call[c].pc = "leave"
  BY DEF Leave, At
<1>2. /\ next.pc = (IF call[c].at = "guard" THEN "over" ELSE "settle")
      /\ next.told = call[c].told /\ next.why = call[c].why
  BY Standing DEF Call
<1>3. call'[c] = next
  BY <1>1, Standing DEF Goes
<1>4. Keeps(c) => Keeps(c)'
  BY <1>1, <1>2, <1>3, Standing DEF Keeps, Blames, Responsible, Blocked, At
<1> QED BY <1>1, <1>4, KeptStep

LEMMA KeptByCrash ==
  ASSUME IInv, Kept, NEW c \in Calls, Crash(c)
  PROVE  Kept'
<1> DEFINE next == [NewCall EXCEPT !.pc = "over", !.told = call[c].told]
<1>1. Goes(c, next) /\ row' = row /\ UNCHANGED troubled
  BY DEF Crash
<1>2. next.pc = "over" /\ next.told = call[c].told
  BY DEF NewCall
<1>3. call'[c] = next
  BY <1>1, Standing DEF Goes
<1>4. Keeps(c) => Keeps(c)'
  BY <1>1, <1>2, <1>3 DEF Keeps, Blames, Responsible, At
<1> QED BY <1>1, <1>4, KeptStep

LEMMA KeptByClaim ==
  ASSUME IInv, Kept, NEW c \in Calls, Claim(c)
  PROVE  Kept'
<1>1. /\ call[c].pc = "claim" /\ call[c].at = "guard" /\ call[c].told = "nothing"
      /\ call[c].why = "none" /\ call[c] \in Call
  BY Standing DEF Claim, At, Placed, Call
<1>2. CASE Goes(c, [call[c] EXCEPT !.pc = "ready"]) /\ UNCHANGED troubled
  <2>1. call'[c] = [call[c] EXCEPT !.pc = "ready"]
    BY <1>2, Standing DEF Goes
  <2>2. Responsible(c)'
    BY <1>1, <2>1 DEF Responsible, Blocked, Call
  <2> QED BY <1>2, <2>2, KeptStep DEF Keeps
<1>3. CASE /\ Goes(c, [call[c] EXCEPT !.pc = "ready", !.tool = "read", !.why = "blocked"])
           /\ row' = row /\ UNCHANGED troubled
  <2>1. ~Responsible(c) /\ ~At(c, "over")
    BY <1>1 DEF Responsible, At
  <2>2. [call[c] EXCEPT !.pc = "ready", !.tool = "read", !.why = "blocked"].pc # "idle"
    BY <1>1 DEF Call
  <2> QED BY <1>1, <1>3, <2>1, <2>2, KeptOnTheWay
<1> QED BY <1>2, <1>3, KeptByRefused DEF Claim, histories

\* Waiting for the service, asking it, and hearing from it.
LEMMA KeptByRequest ==
  ASSUME IInv, Kept, NEW c \in Calls, Ready(c) \/ PostSave(c) \/ Await(c) \/ PostRead(c)
  PROVE  Kept'
<1>1. /\ call[c].pc \in {"ready", "post", "await"} /\ call[c].told = "nothing"
      /\ call[c] \in Call
  BY Standing DEF Ready, PostSave, Await, PostRead, At, Placed, Call
<1>2. ASSUME NEW next, Goes(c, next), row' = row, UNCHANGED troubled,
             next.pc # "idle", next.pc # "over",
             next.at = "tool", next.told = "nothing", next.why = call[c].why
      PROVE  Kept'
  BY <1>1, <1>2, KeptOnTheWay DEF Responsible, Blocked, At
<1>3. CASE Ready(c)
  <2>1. CASE GoesOn(c, Asks(c, call[c].tool, call[c].why))
    BY <1>1, <1>2, <2>1 DEF GoesOn, Asks, Call, histories
  <2>2. CASE GoesOn(c, Tells(c, "unknown"))
    BY <2>2, KeptByUnknown DEF GoesOn, histories
  <2>3. CASE Goes(c, Tells(c, "failed")) /\ row' = Released /\ UNCHANGED histories
    BY <2>3, KeptStep DEF Released, NoRow, histories
  <2> QED BY <1>3, <2>1, <2>2, <2>3, KeptByRefused DEF Ready, Writes
<1>4. ASSUME NEW got, Goes(c, Gets(c, got)), row' = row, UNCHANGED troubled,
             call[c].at = "tool"
      PROVE  Kept'
  BY <1>1, <1>2, <1>4 DEF Gets, Call
<1>5. CASE PostSave(c) \/ Await(c) \/ PostRead(c)
  <2>1. call[c].at = "tool" /\ row' = row /\ UNCHANGED troubled
    BY <1>5, Standing DEF PostSave, Await, PostRead, At, Placed, histories
  <2>2. CASE Goes(c, [call[c] EXCEPT !.pc = "await"])
    BY <1>1, <1>2, <2>1, <2>2 DEF Call
  <2> QED BY <1>4, <1>5, <2>1, <2>2 DEF PostSave, Await, PostRead
<1> QED BY <1>3, <1>5

LEMMA KeptByResend ==
  ASSUME IInv, Kept, NEW c \in Calls, Resend(c)
  PROVE  Kept'
<1> DEFINE asked == Asks(c, call[c].tool, call[c].why)
           next == [asked EXCEPT !.again = TRUE]
<1>1. /\ call[c].pc = "settle" /\ call[c].told = "nothing" /\ call[c] \in Call
      /\ Goes(c, next) /\ row' = row /\ UNCHANGED troubled
  BY Standing DEF Resend, At, Placed, histories
<1>2. /\ asked \in Call /\ asked.pc = "look" /\ asked.at = "tool"
      /\ asked.why = call[c].why /\ asked.told = "nothing"
  BY <1>1 DEF Asks, Call, Frames
<1> HIDE DEF asked
<1>3. /\ next.pc = "look" /\ next.at = "tool" /\ next.told = "nothing"
      /\ next.why = call[c].why
  BY <1>2 DEF Call
<1> HIDE DEF next
<1> QED BY <1>1, <1>3, KeptOnTheWay DEF Responsible, Blocked, At

LEMMA KeptByAnswer ==
  ASSUME IInv, Kept, NEW c \in Calls, SaveAnswered(c) \/ ReadAnswered(c)
  PROVE  Kept'
<1>1. call[c] \in Call /\ call[c].told = "nothing"
  BY Standing DEF SaveAnswered, ReadAnswered, At, Placed, Call
<1>2. ASSUME NEW told, Goes(c, Tells(c, told)), row' = Released, UNCHANGED histories
      PROVE  Kept'
  BY <1>2, KeptStep DEF Released, NoRow, histories
<1>3. ASSUME NEW next, Goes(c, next), UNCHANGED histories, next.at = "tool",
             next.pc = "look", next.told = "nothing", next.why # "blocked"
      PROVE  Kept'
  <2>1. Responsible(c)'
    BY <1>3, Standing DEF Goes, Responsible, Blocked
  <2> QED BY <1>3, <2>1, KeptStep DEF Keeps, histories
<1>4. ASSUME NEW tool, NEW why \in {"none", "ambiguous", "saved", "error"},
             Goes(c, Asks(c, tool, why)), UNCHANGED histories
      PROVE  Kept'
  BY <1>1, <1>3, <1>4 DEF Asks, Call
<1>5. CASE GoesOn(c, [Asks(c, "save", "none") EXCEPT !.attempt = @ + 1])
  <2> DEFINE asked == Asks(c, "save", "none")
  <2>1. /\ asked \in Call /\ asked.at = "tool" /\ asked.pc = "look"
        /\ asked.told = "nothing" /\ asked.why = "none"
    BY <1>1 DEF Asks, Call, Frames
  <2> HIDE DEF asked
  <2>2. LET next == [asked EXCEPT !.attempt = @ + 1] IN
          /\ next.at = "tool" /\ next.pc = "look"
          /\ next.told = "nothing" /\ next.why = "none"
    BY <2>1 DEF Call
  <2>3. Goes(c, [asked EXCEPT !.attempt = @ + 1]) /\ UNCHANGED histories
    BY <1>5 DEF GoesOn, asked
  <2> QED BY <1>3, <2>2, <2>3
<1>6. CASE Goes(c, Tells(c, "unknown")) /\ UNCHANGED histories
  BY <1>6, KeptByUnknown DEF histories
<1>7. CASE SaveAnswered(c)
  BY <1>2, <1>4, <1>5, <1>7, KeptByRefused DEF SaveAnswered, Writes, GoesOn
<1>8. CASE ReadAnswered(c)
  BY <1>2, <1>6, <1>8, KeptByRefused DEF ReadAnswered, Writes, GoesOn
<1> QED BY <1>7, <1>8

LEMMA KeptByNext == ASSUME IInv, Kept, [Next]_vars PROVE Kept'
<1>1. CASE UNCHANGED <<call, troubled>> /\ row'.state = row.state
  BY <1>1 DEF Kept, Keeps, Blames, Responsible, Blocked, At
<1>2. ASSUME NEW c \in Calls, Step(c) PROVE Kept'
  BY <1>2, KeptBySessions, KeptByLeave, KeptByClaim, KeptByRequest, KeptByResend,
     KeptByAnswer DEF Step
<1>3. ASSUME NEW c \in Calls, Begin(c) PROVE Kept'
  <2>1. /\ At(c, "idle") /\ call[c].told = "nothing" /\ ~Responsible(c)
    BY <1>3, Standing DEF Begin, At, Placed, Responsible
  <2> QED BY <1>3, <2>1, KeptStep DEF Begin, Keeps, Blames, At, histories
<1>4. ASSUME NEW c \in Calls, Serve(c) PROVE Kept'
  BY <1>1, <1>4 DEF Serve, Compare, Store, histories
<1>5. CASE Expire
  BY <1>1, <1>5 DEF Expire, IInv, TypeOK
<1>6. CASE UNCHANGED vars
  BY <1>1, <1>6 DEF vars
<1> QED BY <1>2, <1>3, <1>4, <1>5, <1>6, KeptByCrash DEF Next

\* When all calls are over, a text is blocked only by a call that could not tell what
\* became of its save, or did not return, or was refused by the database.
THEOREM ClaimsAreGivenBack == Spec => []NoClaimLeftBehind
<1>1. Init => Kept
  BY DEF Init, Kept, NoRow
<1>2. IInv /\ Kept /\ [Next]_vars => Kept'
  BY KeptByNext
<1>3. IInv /\ Kept => NoClaimLeftBehind
  <2> SUFFICES ASSUME IInv, Kept, row.state # "none",
                      \A c \in Calls : call[c].pc \in {"idle", "over"}
               PROVE  \E c \in Calls : At(c, "over") /\ (\/ call[c].told \in {"unknown", "nothing"}
                                                        \/ c \in troubled)
    BY DEF NoClaimLeftBehind
  <2>1. PICK c \in Calls : Keeps(c)
    BY DEF Kept
  <2>2. ~Responsible(c)
    BY Standing DEF Responsible, Placed
  <2> QED BY <2>1, <2>2, Standing DEF Keeps, Blames, At, Placed
<1> QED BY <1>1, <1>2, <1>3, Invariance, PTL DEF Spec

=============================================================================
