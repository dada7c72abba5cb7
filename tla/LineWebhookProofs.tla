-------------------------- MODULE LineWebhookProofs -------------------------
(***************************************************************************)
(* What LineWebhook guarantees for any number of events, users, processes  *)
(* and redeliveries, any size of the cache, and any of the faults.         *)
(*                                                                         *)
(* The argument: an event is accepted by the step that inserts its row,    *)
(* and only while there is no such row (Counted).  So at most one delivery *)
(* of an event is ever past that point (OneRunner), and it has said        *)
(* nothing before it says its last word (Unheard): after a message that    *)
(* went through, the thread is done, and a message that did not go through *)
(* was not heard, as long as no send is ambiguous.                         *)
(***************************************************************************)
EXTENDS LineWebhook, TLAPS

Busy(d) == run[d].at \in Working \cup Sending

\* The count of acceptances is told by the table.
Counted == \A e \in Events : accepted[e] = IF e \in processed THEN 1 ELSE 0

\* A delivery at work has the row of its event, and is the only one of it.
OneRunner ==
  /\ \A d \in Deliveries : Busy(d) => EventOf(d) \in processed
  /\ \A c, d \in Deliveries : Busy(c) /\ Busy(d) /\ EventOf(c) = EventOf(d) => c = d

\* Nothing was heard of an event that is not accepted or still being worked on.
Unheard ==
  /\ \A e \in Events : heard[e] \in {0, 1}
  /\ \A e \in Events : e \notin processed => heard[e] = 0
  /\ \A d \in Deliveries : Busy(d) => heard[EventOf(d)] = 0

IInv == TypeOK /\ CacheSound /\ Counted /\ OneRunner

\* A delivery, and every copy of it, is of one of the events.
LEMMA DeliveryEvent ==
  \A d \in Deliveries : EventOf(d) \in Events
BY DEF Deliveries, EventOf

\* What insertion does to the cache.
LEMMA RememberKeeps ==
  ASSUME NEW ids \in Seq(Events), NEW e \in Events, Len(ids) <= CacheLimit
  PROVE  /\ Remember(ids, e) \in Seq(Events)
         /\ Len(Remember(ids, e)) <= CacheLimit
         /\ \A i \in DOMAIN Remember(ids, e) :
              Remember(ids, e)[i] = e \/ \E k \in DOMAIN ids : Remember(ids, e)[i] = ids[k]
<1> DEFINE longer == Append(ids, e)
<1>1. /\ longer \in Seq(Events) /\ Len(longer) = Len(ids) + 1
      /\ \A i \in 1..Len(ids) : longer[i] = ids[i]
      /\ longer[Len(ids) + 1] = e
  OBVIOUS
<1>2. CASE Len(longer) > CacheLimit
  <2>1. Remember(ids, e) = Tail(longer)
    BY <1>2 DEF Remember
  <2>2. /\ Tail(longer) \in Seq(Events) /\ Len(Tail(longer)) = Len(ids)
        /\ \A i \in 1..Len(ids) : Tail(longer)[i] = longer[i + 1]
    BY <1>1
  <2> QED BY <1>1, <2>1, <2>2, CacheAssumption
<1>3. CASE ~(Len(longer) > CacheLimit)
  <2>1. Remember(ids, e) = longer
    BY <1>3 DEF Remember
  <2> QED BY <1>1, <1>3, <2>1, CacheAssumption
<1> QED BY <1>2, <1>3

\* It repeats no id if the cache repeated none and e is new.
LEMMA RememberDistinct ==
  ASSUME NEW ids \in Seq(Events), NEW e \in Events, Len(ids) <= CacheLimit,
         \A k \in DOMAIN ids : ids[k] # e,
         \A i, j \in DOMAIN ids : ids[i] = ids[j] => i = j
  PROVE  \A i, j \in DOMAIN Remember(ids, e) :
           Remember(ids, e)[i] = Remember(ids, e)[j] => i = j
<1> DEFINE longer == Append(ids, e)
<1>1. /\ longer \in Seq(Events) /\ Len(longer) = Len(ids) + 1
      /\ \A i \in 1..Len(ids) : longer[i] = ids[i]
      /\ longer[Len(ids) + 1] = e
  OBVIOUS
<1>2. CASE Len(longer) > CacheLimit
  <2>1. Remember(ids, e) = Tail(longer)
    BY <1>2 DEF Remember
  <2>2. /\ Tail(longer) \in Seq(Events) /\ Len(Tail(longer)) = Len(ids)
        /\ \A i \in 1..Len(ids) : Tail(longer)[i] = longer[i + 1]
    BY <1>1
  <2> QED BY <1>1, <2>1, <2>2, CacheAssumption
<1>3. CASE ~(Len(longer) > CacheLimit)
  <2>1. Remember(ids, e) = longer
    BY <1>3 DEF Remember
  <2> QED BY <1>1, <1>3, <2>1, CacheAssumption
<1> QED BY <1>2, <1>3

\* Before anything is delivered the invariant holds and nobody has heard anything.
LEMMA InitIInv == Init => IInv /\ Unheard
<1> SUFFICES ASSUME Init PROVE IInv /\ Unheard OBVIOUS
<1>1. TypeOK
  BY CacheAssumption DEF Init, TypeOK, Stages, Routes
<1>2. CacheSound /\ Counted
  BY DEF Init, CacheSound, Counted, Cached
<1>3. OneRunner /\ Unheard
  BY DeliveryEvent DEF Init, OneRunner, Unheard, Busy, Working, Sending
<1> QED BY <1>1, <1>2, <1>3 DEF IInv

-----------------------------------------------------------------------------
(* The stages a delivery can be moved to *)

\* The stages that work and sends lead to are stages of a delivery.
LEMMA StagesKnown ==
  /\ \A r, stage : Fallback(r, stage) \in Stages
  /\ \A r : FirstStage(r) \in Working
  /\ \A r, stage : Fallback(r, stage) \in Sending \cup {"done"}
  /\ Working \cup Sending \cup Deciding \cup Over \cup {"unsent", "arrived", "hung"} = Stages
BY DEF Fallback, FirstStage, Stages, Working, Sending, Deciding, Over

\* Moving one delivery keeps the type of run.
LEMMA GoesType ==
  ASSUME TypeOK, NEW d \in Deliveries, NEW stage \in Stages, Goes(d, stage)
  PROVE  /\ run' \in [Deliveries -> [at : Stages, proc : Procs \cup {None}]]
         /\ run'[d].at = stage
         /\ \A c \in Deliveries : c # d => run'[c] = run[c]
BY DEF TypeOK, Goes

-----------------------------------------------------------------------------
(* A step that accepts nothing and tells nobody anything *)

\* Such a step keeps the invariant if it starts no work.
LEMMA QuietStep ==
  ASSUME IInv, TypeOK',
         UNCHANGED <<processed, accepted>>,
         \A p \in Procs : cache'[p] = cache[p] \/ cache'[p] = <<>>,
         \A d \in Deliveries : Busy(d)' => Busy(d)
  PROVE  IInv' /\ (heard' = heard /\ Unheard => Unheard')
<1>1. CacheSound'
  BY DEF IInv, CacheSound, Cached
<1>2. Counted' /\ OneRunner'
  BY DEF IInv, Counted, OneRunner
<1>3. heard' = heard /\ Unheard => Unheard'
  BY DEF Unheard
<1> QED BY <1>1, <1>2, <1>3 DEF IInv

\* LINE delivering or redelivering an event keeps the invariant.
LEMMA DeliverInv ==
  ASSUME IInv, NEW d \in Deliveries, NEW p \in Procs, Deliver(d, p)
  PROVE  IInv' /\ (Unheard => Unheard')
<1>1. TypeOK'
  BY DEF IInv, TypeOK, Deliver, Stages
<1>2. \A c \in Deliveries : Busy(c)' => Busy(c)
  BY DEF IInv, TypeOK, Deliver, Busy, Working, Sending
<1> QED BY <1>1, <1>2, QuietStep DEF Deliver

\* Taking the lock and looking an id up in the cache keeps the invariant.
LEMMA EnterInv ==
  ASSUME IInv, NEW d \in Deliveries, Enter(d)
  PROVE  IInv' /\ (Unheard => Unheard')
<1> USE DEF IInv
<1>1. PICK stage \in Stages \ (Working \cup Sending) : Goes(d, stage)
  BY DEF Enter, Stages, Working, Sending, Deciding, Over
<1>2. TypeOK'
  <2>1. mutex' \in [Procs -> Deliveries \cup {None}]
    BY DEF Enter, TypeOK
  <2> QED BY <1>1, <2>1, GoesType DEF Enter, TypeOK
<1>3. \A c \in Deliveries : Busy(c)' => Busy(c)
  BY <1>1, GoesType DEF Busy
<1> QED BY <1>2, <1>3, QuietStep DEF Enter

\* Looking an event up in processed_events keeps the invariant.
LEMMA CheckInv ==
  ASSUME IInv, NEW d \in Deliveries, Check(d)
  PROVE  IInv' /\ (Unheard => Unheard')
<1> USE DEF IInv
<1>1. PICK stage \in Stages \ (Working \cup Sending) : Goes(d, stage)
  BY DEF Check, Stages, Working, Sending, Deciding, Over
<1>2. TypeOK'
  <2>1. mutex' \in [Procs -> Deliveries \cup {None}]
    BY DEF Check, LeaveMutex, TypeOK
  <2> QED BY <1>1, <2>1, GoesType DEF Check, TypeOK
<1>3. \A c \in Deliveries : Busy(c)' => Busy(c)
  BY <1>1, GoesType DEF Busy
<1> QED BY <1>2, <1>3, QuietStep DEF Check

\* Taking the lock of the user keeps the invariant.
LEMMA TakeUserInv ==
  ASSUME IInv, NEW d \in Deliveries, TakeUser(d)
  PROVE  IInv' /\ (Unheard => Unheard')
<1> USE DEF IInv
<1>1. PICK stage \in Stages : Goes(d, stage)
  BY DEF TakeUser, Stages, Working, Sending
<1>2. TypeOK'
  <2>1. userLock' \in [Procs -> [Users -> Deliveries \cup {None}]]
    BY DEF TakeUser, TypeOK
  <2> QED BY <1>1, <2>1, GoesType DEF TakeUser, TypeOK
<1>3. \A c \in Deliveries : Busy(c)' => Busy(c)
  BY <1>1, GoesType DEF Busy, TakeUser, Working
<1> QED BY <1>2, <1>3, QuietStep DEF TakeUser

\* The end of the work, good or bad, keeps the invariant.
LEMMA WorkInv ==
  ASSUME IInv, NEW d \in Deliveries, Work(d)
  PROVE  IInv' /\ (Unheard => Unheard')
<1> USE DEF IInv
<1>1. PICK stage \in Stages : Goes(d, stage)
  BY DEF Work, Stages, Working, Sending
<1>2. TypeOK'
  BY <1>1, GoesType DEF Work, TypeOK
<1>3. \A c \in Deliveries : Busy(c)' => Busy(c)
  BY <1>1, GoesType DEF Busy, Work, Working
<1> QED BY <1>2, <1>3, QuietStep DEF Work

\* A call that never returns tells the user nothing, or what was to be told once.
LEMMA HangInv ==
  ASSUME IInv, NEW d \in Deliveries, Hang(d)
  PROVE  IInv' /\ (Unheard => Unheard')
<1> USE DEF IInv
<1> DEFINE e == EventOf(d)
<1>0. e \in Events
  BY DeliveryEvent
<1>1. "hung" \in Stages /\ Goes(d, "hung")
  BY DEF Hang, Stages
<1>2. /\ run' \in [Deliveries -> [at : Stages, proc : Procs \cup {None}]]
      /\ run'[d].at = "hung"
      /\ \A c \in Deliveries : c # d => run'[c] = run[c]
  BY <1>1, GoesType
<1>3. PICK out \in 0..1 :
        heard' = [heard EXCEPT ![e] = heard[e] + out] \/ heard' = heard
  BY DEF Hang
<1>4. TypeOK'
  <2>1. heard' \in [Events -> Nat]
    BY <1>0, <1>3 DEF TypeOK
  <2> QED BY <1>2, <2>1 DEF Hang, TypeOK
<1>5. Busy(d) /\ ~Busy(d)' /\ \A c \in Deliveries : Busy(c)' => Busy(c)
  BY <1>2 DEF Busy, Hang, Working, Sending
<1>6. IInv'
  BY <1>4, <1>5, QuietStep DEF Hang
<1>7. ASSUME Unheard PROVE Unheard'
  <2>1. heard[e] = 0 /\ e \in processed /\ processed' = processed
    BY <1>5, <1>7 DEF Unheard, OneRunner, Hang
  <2>2. \A c \in Deliveries : Busy(c)' => EventOf(c) # e
    BY <1>5 DEF OneRunner
  <2>3. heard'[e] \in {0, 1} /\ \A f \in Events : f # e => heard'[f] = heard[f]
    BY <1>0, <1>3, <2>1 DEF TypeOK
  <2> QED BY <1>0, <1>5, <1>7, <2>1, <2>2, <2>3, DeliveryEvent DEF Unheard
<1> QED BY <1>6, <1>7

\* A crash empties the cache of a process and keeps the invariant.
LEMMA CrashInv ==
  ASSUME IInv, NEW p \in Procs, Crash(p)
  PROVE  IInv' /\ (Unheard => Unheard')
<1> USE DEF IInv
<1>1. \A c \in Deliveries :
        run'[c] = run[c] \/ (run'[c].at = "dead" /\ run'[c].proc = run[c].proc)
  BY DEF Crash, TypeOK
<1>2. run' \in [Deliveries -> [at : Stages, proc : Procs \cup {None}]]
  BY DEF Crash, TypeOK, Stages, Over
<1>3. cache' \in [Procs -> Seq(Events)] /\ \A q \in Procs : cache'[q] = cache[q] \/ cache'[q] = <<>>
  BY DEF Crash, TypeOK
<1>4. TypeOK'
  <2>1. \A q \in Procs : Len(cache'[q]) <= CacheLimit
    BY <1>3, CacheAssumption DEF TypeOK
  <2>2. mutex' \in [Procs -> Deliveries \cup {None}]
    BY DEF Crash, TypeOK
  <2>3. userLock' \in [Procs -> [Users -> Deliveries \cup {None}]]
    BY DEF Crash, TypeOK
  <2> QED BY <1>2, <1>3, <2>1, <2>2, <2>3 DEF Crash, TypeOK
<1>5. \A c \in Deliveries : Busy(c)' => Busy(c)
  BY <1>1 DEF Busy, Working, Sending
<1> QED BY <1>3, <1>4, <1>5, QuietStep DEF Crash

-----------------------------------------------------------------------------
(* The two steps that matter *)

\* The INSERT that decides who works on an event keeps the invariant.
LEMMA CreateInv ==
  ASSUME IInv, NEW d \in Deliveries, Create(d)
  PROVE  IInv' /\ (Unheard => Unheard')
<1> USE DEF IInv
<1> DEFINE e == EventOf(d)
           p == run[d].proc
<1>0. e \in Events
  BY DeliveryEvent
<1>1. mutex' \in [Procs -> Deliveries \cup {None}]
  BY DEF Create, LeaveMutex, TypeOK
<1>2. CASE Accept(d)
  <2>1. Goes(d, FirstStage(route[e])) /\ FirstStage(route[e]) \in Working
    BY <1>2, StagesKnown DEF Accept
  <2>2. /\ run' \in [Deliveries -> [at : Stages, proc : Procs \cup {None}]]
        /\ run'[d].at \in Working
        /\ \A c \in Deliveries : c # d => run'[c] = run[c]
    BY <2>1, GoesType, StagesKnown
  <2>3. e \notin processed /\ processed' = processed \cup {e}
    BY <1>2 DEF Accept
  <2>4. cache' = [cache EXCEPT ![p] = Remember(cache[p], e)]
    BY <1>2 DEF Accept
  <2>5. /\ cache' \in [Procs -> Seq(Events)]
        /\ \A q \in Procs : Len(cache'[q]) <= CacheLimit
    <3> SUFFICES ASSUME NEW q \in Procs
                 PROVE  cache'[q] \in Seq(Events) /\ Len(cache'[q]) <= CacheLimit
      BY <2>4 DEF TypeOK
    <3>1. cache[q] \in Seq(Events) /\ Len(cache[q]) <= CacheLimit
      BY DEF TypeOK
    <3>2. cache'[q] = cache[q] \/ cache'[q] = Remember(cache[q], e)
      BY <2>4 DEF TypeOK
    <3> QED BY <1>0, <3>1, <3>2, RememberKeeps
  <2>6. accepted' = [accepted EXCEPT ![e] = accepted[e] + 1]
    BY <1>2 DEF Accept
  <2>7. TypeOK'
    BY <1>0, <1>1, <2>2, <2>3, <2>5, <2>6 DEF TypeOK, Create
  <2>8. Counted'
    BY <1>0, <2>3, <2>6 DEF Counted, TypeOK
  <2>9. CacheSound'
    <3> SUFFICES ASSUME NEW q \in Procs
                 PROVE  /\ Cached(q)' \subseteq processed'
                        /\ \A i, j \in DOMAIN cache'[q] :
                             cache'[q][i] = cache'[q][j] => i = j
      BY DEF CacheSound
    <3>1. CASE q # p
      BY <2>3, <2>4, <3>1 DEF CacheSound, Cached, TypeOK
    <3>2. CASE q = p
      <4>1. cache'[q] = Remember(cache[q], e) /\ cache[q] \in Seq(Events)
            /\ Len(cache[q]) <= CacheLimit
        BY <2>4, <3>2 DEF TypeOK
      <4>2. \A k \in DOMAIN cache[q] : cache[q][k] \in processed
        BY DEF CacheSound, Cached
      <4>3. \A k \in DOMAIN cache[q] : cache[q][k] # e
        BY <2>3, <4>2
      <4>4. \A i, j \in DOMAIN cache[q] : cache[q][i] = cache[q][j] => i = j
        BY DEF CacheSound
      <4>5. \A i, j \in DOMAIN cache'[q] : cache'[q][i] = cache'[q][j] => i = j
        BY <1>0, <4>1, <4>3, <4>4, RememberDistinct
      <4>6. \A i \in DOMAIN cache'[q] :
              cache'[q][i] = e \/ \E k \in DOMAIN cache[q] : cache'[q][i] = cache[q][k]
        BY <1>0, <4>1, RememberKeeps
      <4>7. Cached(q)' \subseteq processed'
        BY <2>3, <4>2, <4>6 DEF Cached
      <4> QED BY <4>5, <4>7
    <3> QED BY <3>1, <3>2
  <2>10. \A c \in Deliveries : Busy(c)' => c = d \/ Busy(c)
    BY <2>2 DEF Busy
  <2>11. OneRunner'
    BY <2>3, <2>10 DEF OneRunner
  <2>12. Unheard => Unheard'
    BY <1>0, <2>3, <2>10 DEF Unheard, Create
  <2> QED BY <2>7, <2>8, <2>9, <2>11, <2>12
<1>3. CASE ~Accept(d)
  <2>1. Goes(d, "ignored") /\ UNCHANGED <<processed, cache, accepted, route, userLock, heard>>
    BY <1>3 DEF Create
  <2>2. TypeOK'
    BY <1>1, <2>1, GoesType, StagesKnown DEF TypeOK, Over
  <2>3. \A c \in Deliveries : Busy(c)' => Busy(c)
    BY <2>1, GoesType, StagesKnown DEF Busy, Over, Working, Sending
  <2> QED BY <2>1, <2>2, <2>3, QuietStep
<1> QED BY <1>2, <1>3

\* A reply or a push, whatever becomes of it, keeps the invariant.
LEMMA SendInv ==
  ASSUME IInv, NEW d \in Deliveries, Send(d)
  PROVE  IInv' /\ ("ambiguous" \notin Faults /\ Unheard => Unheard')
<1> USE DEF IInv
<1> DEFINE e == EventOf(d)
<1>0. e \in Events
  BY DeliveryEvent
<1>1. PICK stage \in Sending \cup {"done"} : Proceeds(d, stage)
  BY StagesKnown DEF Send
<1>2. stage \in Stages /\ Goes(d, stage)
  BY <1>1, StagesKnown DEF Proceeds, Over
<1>3. /\ run' \in [Deliveries -> [at : Stages, proc : Procs \cup {None}]]
      /\ \A c \in Deliveries : c # d => run'[c] = run[c]
  BY <1>2, GoesType
<1>4. userLock' \in [Procs -> [Users -> Deliveries \cup {None}]]
  BY <1>1 DEF Proceeds, TypeOK
<1>5. heard' = heard \/ heard' = [heard EXCEPT ![e] = heard[e] + 1]
  BY DEF Send
<1>6. TypeOK'
  <2>1. heard' \in [Events -> Nat]
    BY <1>0, <1>5 DEF TypeOK
  <2> QED BY <1>3, <1>4, <2>1 DEF Send, TypeOK
<1>7. Busy(d) /\ \A c \in Deliveries : Busy(c)' => Busy(c)
  BY <1>3 DEF Busy, Send
<1>8. IInv'
  BY <1>6, <1>7, QuietStep DEF Send
<1>9. ASSUME "ambiguous" \notin Faults, Unheard
      PROVE  Unheard'
  <2>1. heard[e] = 0 /\ e \in processed /\ processed' = processed
    BY <1>7, <1>9 DEF Unheard, OneRunner, Send
  <2>2. CASE heard' = heard
    BY <1>7, <1>9, <2>1, <2>2 DEF Unheard
  <2>3. CASE heard' # heard
    <3>1. heard' = [heard EXCEPT ![e] = 1] /\ Goes(d, "done")
      BY <1>9, <2>1, <2>3 DEF Send, Proceeds
    <3>2. run'[d].at = "done"
      BY <3>1, GoesType, StagesKnown DEF Over
    <3>3. ~Busy(d)'
      BY <3>2 DEF Busy, Working, Sending
    <3>4. \A c \in Deliveries : Busy(c)' => EventOf(c) # e
      BY <1>7, <3>3 DEF OneRunner
    <3> QED BY <1>0, <1>7, <1>9, <2>1, <3>1, <3>4, DeliveryEvent DEF Unheard, TypeOK
  <2> QED BY <2>2, <2>3
<1> QED BY <1>8, <1>9

-----------------------------------------------------------------------------

\* Every step keeps the invariant.
LEMMA NextIInv == IInv /\ [Next]_vars => IInv'
<1> SUFFICES ASSUME IInv, [Next]_vars PROVE IInv' OBVIOUS
<1>1. CASE Next
  <2>1. CASE \E d \in Deliveries, p \in Procs : Deliver(d, p)
    BY <2>1, DeliverInv
  <2>2. CASE \E d \in Deliveries : Handle(d)
    BY <2>2, EnterInv, CheckInv, CreateInv DEF Handle
  <2>3. CASE \E d \in Deliveries : Answer(d)
    BY <2>3, TakeUserInv, WorkInv, SendInv DEF Answer
  <2>4. CASE \E d \in Deliveries : Hang(d)
    BY <2>4, HangInv
  <2>5. CASE \E p \in Procs : Crash(p)
    BY <2>5, CrashInv
  <2> QED BY <1>1, <2>1, <2>2, <2>3, <2>4, <2>5 DEF Next
<1>2. CASE UNCHANGED vars
  BY <1>2 DEF vars, IInv, TypeOK, CacheSound, Cached, Counted, OneRunner, Busy
<1> QED BY <1>1, <1>2

\* Where no send is ambiguous, every step also keeps the count of messages.
LEMMA NextUnheard ==
  "ambiguous" \notin Faults /\ IInv /\ Unheard /\ [Next]_vars => Unheard'
<1> SUFFICES ASSUME "ambiguous" \notin Faults, IInv, Unheard, [Next]_vars PROVE Unheard'
  OBVIOUS
<1>1. CASE Next
  <2>1. CASE \E d \in Deliveries, p \in Procs : Deliver(d, p)
    BY <2>1, DeliverInv
  <2>2. CASE \E d \in Deliveries : Handle(d)
    BY <2>2, EnterInv, CheckInv, CreateInv DEF Handle
  <2>3. CASE \E d \in Deliveries : Answer(d)
    BY <2>3, TakeUserInv, WorkInv, SendInv DEF Answer
  <2>4. CASE \E d \in Deliveries : Hang(d)
    BY <2>4, HangInv
  <2>5. CASE \E p \in Procs : Crash(p)
    BY <2>5, CrashInv
  <2> QED BY <1>1, <2>1, <2>2, <2>3, <2>4, <2>5 DEF Next
<1>2. CASE UNCHANGED vars
  BY <1>2 DEF vars, Unheard, Busy
<1> QED BY <1>1, <1>2

\* The invariant holds throughout, under every fault.
THEOREM Invariance == Spec => []IInv
BY InitIInv, NextIInv, PTL DEF Spec

\* Every variable keeps its type, and a cache its limit.
THEOREM TypeCorrect == Spec => []TypeOK
BY Invariance, PTL DEF IInv

\* The work of an event starts at most once, whatever is redelivered, evicted from
\* a cache, refused by the database or lost in a crash.
THEOREM WorkStartsOnce == Spec => []WorkAtMostOnce
<1>1. IInv => WorkAtMostOnce
  <2> SUFFICES ASSUME IInv, NEW e \in Events PROVE accepted[e] <= 1
    BY DEF WorkAtMostOnce
  <2>1. accepted[e] \in {0, 1}
    BY DEF IInv, Counted
  <2> QED BY <2>1
<1> QED BY <1>1, Invariance, PTL

\* A cache holds ids of stored rows only, each of them once.
THEOREM CachesAreSound == Spec => []CacheSound
BY Invariance, PTL DEF IInv

\* Unless a send is delivered and raises, the user hears at most once of an event.
THEOREM UserHearsOnce ==
  ASSUME "ambiguous" \notin Faults
  PROVE  Spec => []HeardAtMostOnce
<1>1. IInv /\ Unheard /\ [Next]_vars => Unheard'
  BY NextUnheard
<1>2. Spec => []Unheard
  BY <1>1, InitIInv, NextIInv, PTL DEF Spec
<1>3. Unheard => HeardAtMostOnce
  <2> SUFFICES ASSUME Unheard, NEW e \in Events PROVE heard[e] <= 1
    BY DEF HeardAtMostOnce
  <2>1. heard[e] \in {0, 1}
    BY DEF Unheard
  <2> QED BY <2>1
<1> QED BY <1>2, <1>3, PTL

-----------------------------------------------------------------------------
(* What a failed reply leads to *)

\* Only what was asked in a chat, by voice or of the dashboard is answered by reply.
Repliers ==
  \A d \in Deliveries :
    run[d].at = "replying" => route[EventOf(d)] \in {"chat", "audio", "dashboard"}

\* What one step does to one delivery: it stays, or it goes to another stage, and
\* only the last message of a thread ends it.
LEMMA StageStep ==
  ASSUME TypeOK, Repliers, Next, NEW d \in Deliveries
  PROVE  /\ run'[d].at = "replying" =>
              route[EventOf(d)] \in {"chat", "audio", "dashboard"}
         /\ run[d].at \notin Over /\ run'[d].at = "done" =>
              \/ heard'[EventOf(d)] > 0
              \/ run[d].at \in {"pushing", "apologising"}
              \/ route[EventOf(d)] = "dashboard"
<1> DEFINE e == EventOf(d)
<1>0. e \in Events /\ heard[e] \in Nat
  BY DeliveryEvent DEF TypeOK
<1>1. ASSUME NEW c \in Deliveries, NEW stage \in Stages \ {"replying", "done"},
             Goes(c, stage)
      PROVE  run'[d].at = run[d].at \/ run'[d].at = stage
  BY <1>1, GoesType
<1>2. CASE \/ \E c \in Deliveries, p \in Procs : Deliver(c, p)
           \/ \E c \in Deliveries : Hang(c)
           \/ \E p \in Procs : Crash(p)
  <2>1. run'[d].at = run[d].at \/ run'[d].at \in {"arrived", "hung", "dead"}
    <3>1. ASSUME NEW c \in Deliveries, NEW p \in Procs, Deliver(c, p)
          PROVE  run'[d].at = run[d].at \/ run'[d].at = "arrived"
      BY <3>1 DEF Deliver, TypeOK
    <3>2. ASSUME NEW p \in Procs, Crash(p)
          PROVE  run'[d].at = run[d].at \/ run'[d].at = "dead"
      BY <3>2 DEF Crash, TypeOK
    <3>3. ASSUME NEW c \in Deliveries, Hang(c)
          PROVE  run'[d].at = run[d].at \/ run'[d].at = "hung"
      <4>1. "hung" \in Stages \ {"replying", "done"} /\ Goes(c, "hung")
        BY <3>3 DEF Hang, Stages
      <4> QED BY <1>1, <4>1
    <3> QED BY <1>2, <3>1, <3>2, <3>3
  <2> QED BY <2>1 DEF Repliers, Over
<1>3. ASSUME NEW c \in Deliveries, Handle(c)
      PROVE  run'[d].at = run[d].at \/ run'[d].at \notin {"replying", "done"}
  <2>1. PICK stage \in Stages \ {"replying", "done"} : Goes(c, stage)
    BY <1>3, StagesKnown DEF Handle, Enter, Check, Create, Accept, Stages, Working, Sending,
                             Deciding, Over, FirstStage
  <2> QED BY <1>1, <2>1
<1>4. ASSUME NEW c \in Deliveries, c # d, Answer(c)
      PROVE  run'[d] = run[d]
  <2>1. PICK stage \in Stages : Goes(c, stage)
    BY <1>4, StagesKnown DEF Answer, TakeUser, Work, Send, Proceeds, Stages, Working,
                             Sending, Over
  <2> QED BY <1>4, <2>1, GoesType
<1>5. CASE TakeUser(d) \/ Work(d)
  <2>1. PICK stage \in Stages \ {"done"} :
          /\ Goes(d, stage)
          /\ stage = "replying" => route[e] \in {"chat", "audio", "dashboard"}
    BY <1>5 DEF TakeUser, Work, Stages, Working, Sending
  <2> QED BY <2>1, GoesType
<1>6. CASE Send(d)
  <2>1. PICK stage \in Sending \cup {"done"} :
          /\ Proceeds(d, stage)
          /\ \/ stage = "done" /\ heard' = [heard EXCEPT ![e] = @ + 1]
             \/ stage = Fallback(route[e], run[d].at)
    BY <1>6, StagesKnown DEF Send
  <2>2. run'[d].at = stage
    <3>1. stage \in Stages
      BY <2>1, StagesKnown DEF Over
    <3> QED BY <2>1, <3>1, GoesType DEF Proceeds
  <2>3. CASE heard' = [heard EXCEPT ![e] = @ + 1] /\ stage = "done"
    BY <1>0, <2>2, <2>3 DEF TypeOK
  <2>4. CASE stage = Fallback(route[e], run[d].at)
    BY <1>6, <2>2, <2>4 DEF Fallback, Repliers, Send, Sending
  <2> QED BY <2>1, <2>3, <2>4
<1>7. CASE run'[d] = run[d]
  BY <1>7 DEF Repliers, Over
<1>8. ASSUME NEW c \in Deliveries, Handle(c)
      PROVE  /\ run'[d].at = "replying" => run[d].at = "replying"
             /\ run'[d].at = "done" => run[d].at = "done"
  BY <1>3, <1>8
<1> QED
  BY <1>2, <1>4, <1>5, <1>6, <1>7, <1>8 DEF Next, Answer, Repliers, Over

\* A thread that gave up in silence had its push refused too, or was to show a
\* dashboard, however many deliveries, processes and faults there are.
THEOREM FallbacksAreTried == Spec => FallbacksCover
<1>1. Init => Repliers
  BY DEF Init, Repliers
<1>2. TypeOK /\ Repliers /\ [Next]_vars => Repliers'
  <2> SUFFICES ASSUME TypeOK, Repliers, [Next]_vars PROVE Repliers'
    OBVIOUS
  <2>1. route' = route
    BY DEF Next, Handle, Answer, Deliver, Enter, Check, Create, TakeUser, Work, Send, Hang, Crash, vars
  <2>2. CASE Next
    BY <2>1, <2>2, StageStep DEF Repliers
  <2>3. CASE UNCHANGED vars
    BY <2>3 DEF Repliers, vars
  <2> QED BY <2>2, <2>3
<1>3. TypeOK /\ Repliers /\ [Next]_vars =>
        [\A d \in Deliveries :
           LET e == EventOf(d)
           IN  run[d].at \notin Over /\ run'[d].at = "done" =>
                 heard'[e] > 0 \/ run[d].at \in {"pushing", "apologising"}
                   \/ route[e] = "dashboard"]_vars
  BY StageStep
<1> QED BY <1>1, <1>2, <1>3, TypeCorrect, PTL DEF Spec, FallbacksCover

=============================================================================
