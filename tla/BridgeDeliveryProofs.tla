------------------------ MODULE BridgeDeliveryProofs ------------------------
(***************************************************************************)
(* Proofs about BridgeDelivery, for any number of endpoints, messages and  *)
(* handlers, any topology and reply structure, any RetryLimit and any of   *)
(* the exploration bounds.                                                 *)
(*                                                                         *)
(* The inductive invariant IInv says what every handler may rely on at     *)
(* each of its steps although others write the same row between its       *)
(* awaits: once it passed persist its event IS the stored one (HandlerOK), *)
(* so whatever reaches the relay is the stored one (RowOK), threaded under *)
(* an event that is already visible (Threaded); and a hint is claimed by   *)
(* one handler only (HintsOK).  OwnInv adds what holds while handlers keep *)
(* to their jobs: which handler owns a job, what each of its steps still   *)
(* owes the row, and what takes a fault or an edit to be otherwise.        *)
(***************************************************************************)
EXTENDS BridgeDelivery, TLAPS

RowOK(m) ==
  /\ state[m] = "absent" =>
       signed[m] = NoProjection /\ mapped[m] = NoEvent /\ job[m] = "none"
  /\ signed[m].stamp = NoEvent => signed[m] = NoProjection
  /\ \A e \in relay[m] : e = signed[m] /\ e # NoProjection
  /\ mapped[m] # NoEvent => state[m] = "delivered_to_relay"
  /\ state[m] = "delivered_to_relay" =>
       signed[m] \in relay[m] /\ mapped[m] = signed[m].stamp

Stored == {"check", "publish", "lookup", "complete"}

HandlerOK(h) ==
  LET m == handler[h].m  pc == handler[h].pc  ev == handler[h].ev IN
  /\ pc # "idle" => m \in Message /\ Ingested(m)
  /\ pc = "persist" => ev.stamp # NoEvent
  /\ pc \in Stored => ev = signed[m] /\ ev # NoProjection
  /\ pc = "complete" => ev \in relay[m]
  /\ pc \in {"hint", "greet"} => state[m] = "delivered_to_relay"

(* A reply tag re of m that the readers of its destination can resolve. *)
Threaded(m, re) ==
  IsReply(m) =>
    /\ Parent[m] \in Message
    /\ LET p == Parent[m] IN
         \/ re = Original /\ Origin[p] = Target[m] /\ Ingested(p)
         \/ /\ Target[p] = Target[m]
            /\ re # NoEvent
            /\ \E f \in relay[p] : f.stamp = re

ThreadsOK ==
  /\ \A m \in Message : signed[m] # NoProjection => Threaded(m, signed[m].re)
  /\ \A h \in Handler : handler[h].pc \in {"mark", "persist"} =>
        Threaded(handler[h].m, handler[h].ev.re)

ShutOK ==
  \A h \in Handler :
    /\ handler[h].shut => handler[h].m \in Message /\ ~RouteActive(handler[h].m)
    /\ at(h, "publish") => ~handler[h].shut

HintsOK ==
  /\ \A p \in Endpoint \X Endpoint :
       /\ hintPosts[p] <= 1
       /\ hintPosts[p] > 0 => p \in hinted
       /\ p \in hinted =>
            \E m \in Message : Pair(m) = p /\ state[m] = "delivered_to_relay"
  /\ \A h \in Handler : at(h, "greet") =>
       /\ Pair(handler[h].m) \in hinted
       /\ hintPosts[Pair(handler[h].m)] = 0
       /\ \A g \in Handler :
            at(g, "greet") /\ Pair(handler[g].m) = Pair(handler[h].m) => g = h

RowsOK == \A m \in Message : RowOK(m)
HandlersOK == \A h \in Handler : HandlerOK(h)

IInv == TypeOK /\ RowsOK /\ HandlersOK /\ ThreadsOK /\ ShutOK /\ HintsOK
-----------------------------------------------------------------------------
(* The operators of the constants stay within their types. *)
LEMMA ConstantTypes ==
  /\ NoEvent \in LocalId /\ Original \in LocalId /\ Original # NoEvent
  /\ NoProjection \in Projection
  /\ Idle \in HandlerState
  /\ \A m \in Message : Pair(m) \in Endpoint \X Endpoint
BY DeliveryAssumption
   DEF LocalId, NoEvent, Original, NoProjection, Projection, Pair, Idle, HandlerState,
       Step

(* A reply tag looked up in the mappings is an event id or NoEvent. *)
LEMMA LocalParentType ==
  ASSUME TypeOK, NEW m \in Message
  PROVE  LocalParent(m) \in LocalId
BY DeliveryAssumption, ConstantTypes
   DEF TypeOK, LocalParent, LocalEvent

(* The events a reply can be typed under are ids of its source endpoint. *)
LEMMA RepliableType ==
  ASSUME TypeOK, NEW m \in Message
  PROVE  Repliable(m) \subseteq LocalId
BY DeliveryAssumption, ConstantTypes
   DEF TypeOK, Repliable, Projection

(* What a continuing handler keeps: its slot stays well typed. *)
LEMMA GoType ==
  ASSUME TypeOK, NEW h \in Handler, NEW s \in Step, go(h, s)
  PROVE  handler' \in [Handler -> HandlerState]
BY DEF TypeOK, go, HandlerState

(* Likewise for a handler that continues with another event in hand. *)
LEMMA GoWithType ==
  ASSUME TypeOK, NEW h \in Handler, NEW s \in Step, NEW e \in Projection,
         handler' = [handler EXCEPT ![h].pc = s, ![h].ev = e]
  PROVE  handler' \in [Handler -> HandlerState]
<1>1. [handler[h] EXCEPT !.pc = s, !.ev = e] \in HandlerState
  BY DEF TypeOK, HandlerState
<1>2. handler' = [handler EXCEPT ![h] = [handler[h] EXCEPT !.pc = s, !.ev = e]]
  OBVIOUS
<1> QED
  BY <1>1, <1>2 DEF TypeOK

(* Likewise for a handler that signs the event it has in hand. *)
LEMMA GoSignedType ==
  ASSUME TypeOK, NEW h \in Handler, NEW s \in Step, NEW i \in LocalId,
         NEW b \in BOOLEAN,
         handler' = [handler EXCEPT ![h].pc = s, ![h].ev.stamp = i, ![h].shut = b]
  PROVE  handler' \in [Handler -> HandlerState]
<1> DEFINE e == [handler[h].ev EXCEPT !.stamp = i]
<1>0. e \in Projection
  BY DEF TypeOK, HandlerState, Projection
<1>1. [handler[h] EXCEPT !.pc = s, !.ev = e, !.shut = b] \in HandlerState
  BY <1>0 DEF TypeOK, HandlerState
<1>2. handler' = [handler EXCEPT ![h] = [handler[h] EXCEPT !.pc = s, !.ev = e, !.shut = b]]
  BY DEF TypeOK, HandlerState
<1> QED
  BY <1>1, <1>2 DEF TypeOK

(* Every step of the system leads from well-typed states to well-typed ones. *)
LEMMA TypeStep == TypeOK /\ HandlersOK /\ [Next]_vars => TypeOK'
<1> SUFFICES ASSUME TypeOK, HandlersOK, [Next]_vars PROVE TypeOK'
  OBVIOUS
<1> USE DeliveryAssumption
<1>1. ASSUME NEW m \in Message, Ingest(m) PROVE TypeOK'
  BY <1>1, ConstantTypes, RepliableType
     DEF TypeOK, Ingest, hint, DeliveryState, JobState
<1>2. ASSUME NEW m \in Message, Expire(m) PROVE TypeOK'
  BY <1>2 DEF TypeOK, Expire, row, hint, Outcome, JobState, Spending
<1>3. ASSUME NEW e \in Endpoint, NEW s \in Choice, Edit(e, s) PROVE TypeOK'
  <2> DEFINE Closed(g) == handler[g].shut /\ ~RouteUnder(settings', handler[g].m)
  <2>1. \A g \in Handler : [handler[g] EXCEPT !.shut = Closed(g)] \in HandlerState
    <3> SUFFICES ASSUME NEW g \in Handler, NEW b \in BOOLEAN
                 PROVE  [handler[g] EXCEPT !.shut = b] \in HandlerState
      <4>1. \A g \in Handler : Closed(g) \in BOOLEAN
        OBVIOUS
      <4> QED
        BY <4>1
    <3> QED
      BY DEF TypeOK, HandlerState
  <2>2. handler' \in [Handler -> HandlerState]
    BY <1>3, <2>1 DEF TypeOK, Edit
  <2>3. settings' \in [Endpoint -> Settings]
    BY <1>3, DeliveryAssumption DEF TypeOK, Edit
  <2>4. spent' \in Spending
    BY <1>3 DEF TypeOK, Edit, Spending
  <2> HIDE DEF Closed
  <2> QED
    BY <1>3, <2>2, <2>3, <2>4 DEF TypeOK, Edit, row, hint
<1>4. ASSUME NEW h \in Handler, NEW m \in Message, Fetch(h, m) PROVE TypeOK'
  <2>1. tries' \in [Message -> Nat]
    BY <1>4 DEF TypeOK, Fetch
  <2>2. handler' \in [Handler -> HandlerState]
    BY <1>4, <2>1, ConstantTypes DEF TypeOK, Fetch, HandlerState, Idle, Step
  <2> QED
    BY <1>4, <2>1, <2>2 DEF TypeOK, Fetch, row, hint, JobState
<1>5. ASSUME NEW h \in Handler, Run(h) PROVE TypeOK'
  <2>0. handler[h].pc # "idle" => handler[h].m \in Message
    BY DEF HandlersOK, HandlerOK
  <2>1. CASE Read(h)
    <3>1. at(h, "read") /\ handler[h].m \in Message
      BY <2>0, <2>1 DEF Read, at
    <3>2. signed[handler[h].m] \in Projection
          /\ [stamp |-> NoEvent, re |-> LocalParent(handler[h].m)] \in Projection
      BY <3>1, LocalParentType, ConstantTypes DEF TypeOK, Projection
    <3>3. handler' \in [Handler -> HandlerState]
      <4>1. CASE \E s \in Step : go(h, s)
        BY <4>1, GoType
      <4>2. CASE ~\E s \in Step : go(h, s)
        <5>1. PICK e \in Projection :
                handler' = [handler EXCEPT ![h].pc = "mark", ![h].ev = e]
          BY <2>1, <3>2, <4>2 DEF Read, Step
        <5> QED
          BY <5>1, GoWithType DEF Step
      <4> QED
        BY <4>1, <4>2
    <3> QED
      BY <2>1, <3>3 DEF TypeOK, Read, row, hint
  <2>2. CASE Mark(h)
    <3>1. at(h, "mark") /\ handler[h].m \in Message
      BY <2>0, <2>2 DEF Mark, at
    <3>2. handler' \in [Handler -> HandlerState]
      <4>1. CASE go(h, "resolved") \/ go(h, "rejected")
        BY <4>1, GoType DEF Step
      <4>2. CASE ~(go(h, "resolved") \/ go(h, "rejected"))
        <5> DEFINE st == IF handler[h].ev.stamp = NoEvent
                         THEN attempts[handler[h].m] + 1 ELSE handler[h].ev.stamp
                   b  == ~RouteActive(handler[h].m)
        <5>1. st \in LocalId /\ b \in BOOLEAN
          BY <3>1 DEF TypeOK, HandlerState, Projection, LocalId
        <5>2. handler' = [handler EXCEPT ![h].pc = "persist", ![h].ev.stamp = st,
                                         ![h].shut = b]
          BY <2>2, <4>2 DEF Mark
        <5> HIDE DEF st, b
        <5> QED
          BY <5>1, <5>2, GoSignedType DEF Step
      <4> QED
        BY <4>1, <4>2
    <3> QED
      BY <2>2, <3>1, <3>2 DEF TypeOK, Mark, hint, DeliveryState
  <2>3. CASE Persist(h)
    <3>1. at(h, "persist") /\ handler[h].m \in Message
      BY <2>0, <2>3 DEF Persist, at
    <3>2. handler' \in [Handler -> HandlerState]
      <4>1. CASE \E s \in Step : go(h, s)
        BY <4>1, GoType
      <4>2. CASE ~\E s \in Step : go(h, s)
        <5>1. PICK e \in Projection :
                handler' = [handler EXCEPT ![h].pc = "check", ![h].ev = e]
          BY <2>3, <3>1, <4>2 DEF TypeOK, Persist, Step
        <5> QED
          BY <5>1, GoWithType DEF Step
      <4> QED
        BY <4>1, <4>2
    <3>3. handler[h].ev \in Projection
      BY DEF TypeOK, HandlerState
    <3> QED
      BY <2>3, <3>1, <3>2, <3>3 DEF TypeOK, Persist, hint
  <2>4. CASE Check(h)
    <3>1. handler' \in [Handler -> HandlerState]
      BY <2>4, GoType DEF Check, Step
    <3> QED
      BY <2>4, <3>1 DEF TypeOK, Check, row, hint
  <2>5. CASE Cancel(h)
    <3>1. handler' \in [Handler -> HandlerState]
      BY <2>5, GoType DEF Cancel, Step
    <3> QED
      BY <2>5, <3>1 DEF TypeOK, Cancel, hint, DeliveryState
  <2>6. CASE Publish(h)
    <3>1. handler' \in [Handler -> HandlerState]
      BY <2>6, GoType DEF Publish, Step
    <3>2. handler[h].ev \in Projection
      BY DEF TypeOK, HandlerState
    <3> QED
      BY <2>6, <3>1, <3>2 DEF TypeOK, Publish, row, hint
  <2>7. CASE Lookup(h)
    <3>1. handler' \in [Handler -> HandlerState]
      BY <2>7, GoType DEF Lookup, Step
    <3> QED
      BY <2>7, <3>1 DEF TypeOK, Lookup, row, hint
  <2>8. CASE Postpone(h)
    <3>1. handler' \in [Handler -> HandlerState]
      BY <2>8, GoType DEF Postpone, Step
    <3> QED
      BY <2>8, <3>1 DEF TypeOK, Postpone, hint, DeliveryState
  <2>9. CASE Complete(h)
    <3>1. handler' \in [Handler -> HandlerState]
      BY <2>9, GoType DEF Complete, Step
    <3>2. handler[h].ev.stamp \in LocalId
      BY DEF TypeOK, HandlerState, Projection
    <3>3. mapped' \in [Message -> LocalId] /\ state' \in [Message -> DeliveryState]
      BY <2>9, <3>2 DEF TypeOK, Complete, DeliveryState
    <3> QED
      BY <2>9, <3>1, <3>3 DEF TypeOK, Complete, hint
  <2>10. CASE ClaimHint(h)
    <3>1. at(h, "hint") /\ handler[h].m \in Message
      BY <2>0, <2>10 DEF ClaimHint, at
    <3>2. handler' \in [Handler -> HandlerState]
      BY <2>10, GoType DEF ClaimHint, Step
    <3> QED
      BY <2>10, <3>1, <3>2, ConstantTypes DEF TypeOK, ClaimHint, row
  <2>11. CASE Greet(h)
    <3>1. at(h, "greet") /\ handler[h].m \in Message
      BY <2>0, <2>11 DEF Greet, at
    <3>2. handler' \in [Handler -> HandlerState]
      BY <2>11, GoType DEF Greet, Step
    <3> QED
      BY <2>11, <3>1, <3>2, ConstantTypes DEF TypeOK, Greet, row
  <2>12. CASE Report(h)
    <3>1. handler' \in [Handler -> HandlerState]
      BY <2>12, ConstantTypes DEF TypeOK, Report
    <3> QED
      BY <2>12, <3>1 DEF TypeOK, Report, row, hint, Outcome, JobState
  <2> QED
    BY <1>5, <2>1, <2>2, <2>3, <2>4, <2>5, <2>6, <2>7, <2>8, <2>9, <2>10, <2>11,
       <2>12 DEF Run
<1>6. ASSUME NEW h \in Handler, QueryFails(h) PROVE TypeOK'
  <2>1. handler' \in [Handler -> HandlerState]
    BY <1>6, GoType DEF QueryFails, Step
  <2> QED
    BY <1>6, <2>1 DEF TypeOK, QueryFails, row, hint, Spending
<1>7. CASE Crash
  BY <1>7, ConstantTypes DEF TypeOK, Crash, row, hint, Spending
<1>8. CASE UNCHANGED vars
  BY <1>8 DEF TypeOK, vars
<1> QED
  BY <1>1, <1>2, <1>3, <1>4, <1>5, <1>6, <1>7, <1>8 DEF Next
-----------------------------------------------------------------------------
(* What no step of any actor takes back from message m. *)
Kept(m) ==
  /\ Ingested(m) => Ingested(m)'
  /\ signed[m] # NoProjection => signed'[m] = signed[m]
  /\ mapped[m] # NoEvent => mapped'[m] = mapped[m]
  /\ relay[m] \subseteq relay'[m]
  /\ state[m] \in {"delivered_to_relay", "cancelled"} => state'[m] = state[m]

(* No step takes back an outcome, a stored event, a mapping or a post. *)
LEMMA KeptStep ==
  ASSUME TypeOK, RowsOK, HandlersOK, [Next]_vars
  PROVE  \A m \in Message : Kept(m)
<1> USE DEF Kept, Ingested
<1>1. ASSUME NEW n \in Message, Ingest(n) PROVE \A m \in Message : Kept(m)
  BY <1>1 DEF TypeOK, RowsOK, RowOK, Ingest
<1>2. ASSUME NEW n \in Message, Expire(n) PROVE \A m \in Message : Kept(m)
  BY <1>2 DEF Expire, row
<1>3. ASSUME NEW e \in Endpoint, NEW s \in Choice, Edit(e, s)
      PROVE  \A m \in Message : Kept(m)
  BY <1>3 DEF Edit, row
<1>4. ASSUME NEW h \in Handler, NEW n \in Message, Fetch(h, n)
      PROVE  \A m \in Message : Kept(m)
  BY <1>4 DEF Fetch, row
<1>5. ASSUME NEW h \in Handler, Run(h) PROVE \A m \in Message : Kept(m)
  <2>1. CASE Read(h) \/ Check(h) \/ Lookup(h) \/ ClaimHint(h) \/ Greet(h) \/ Report(h)
    BY <2>1 DEF Read, Check, Lookup, ClaimHint, Greet, Report, row
  <2>2. CASE Mark(h)
    BY <2>2 DEF TypeOK, Mark
  <2>3. CASE Persist(h)
    BY <2>3 DEF TypeOK, Persist
  <2>4. CASE Cancel(h)
    BY <2>4 DEF TypeOK, Cancel
  <2>5. CASE Publish(h)
    BY <2>5 DEF TypeOK, Publish, row
  <2>6. CASE Postpone(h)
    BY <2>6 DEF TypeOK, Postpone
  <2>7. CASE Complete(h)
    BY <2>7 DEF TypeOK, Complete
  <2> QED
    BY <1>5, <2>1, <2>2, <2>3, <2>4, <2>5, <2>6, <2>7 DEF Run
<1>6. ASSUME NEW h \in Handler, QueryFails(h) PROVE \A m \in Message : Kept(m)
  BY <1>6 DEF QueryFails, row
<1>7. CASE Crash
  BY <1>7 DEF Crash, row
<1>8. CASE UNCHANGED vars
  BY <1>8 DEF vars
<1> QED
  BY <1>1, <1>2, <1>3, <1>4, <1>5, <1>6, <1>7, <1>8 DEF Next
-----------------------------------------------------------------------------
(* Each row stays consistent with its mapping, its job and the relay. *)
LEMMA RowsStep ==
  ASSUME TypeOK, RowsOK, HandlersOK, [Next]_vars
  PROVE  RowsOK'
<1> USE ConstantTypes DEF RowsOK, RowOK
<1>0. \A h \in Handler : handler[h].pc # "idle" =>
        handler[h].m \in Message /\ Ingested(handler[h].m)
  BY DEF HandlersOK, HandlerOK
<1>1. ASSUME NEW n \in Message, Ingest(n) PROVE RowsOK'
  BY <1>1 DEF TypeOK, Ingest, NoProjection
<1>2. ASSUME NEW n \in Message, Expire(n) PROVE RowsOK'
  BY <1>2 DEF TypeOK, Expire, row
<1>3. ASSUME NEW e \in Endpoint, NEW s \in Choice, Edit(e, s) PROVE RowsOK'
  BY <1>3 DEF Edit, row
<1>4. ASSUME NEW h \in Handler, NEW n \in Message, Fetch(h, n) PROVE RowsOK'
  BY <1>4 DEF TypeOK, Fetch, row
<1>5. ASSUME NEW h \in Handler, Run(h) PROVE RowsOK'
  <2>1. CASE Read(h) \/ Check(h) \/ Lookup(h) \/ ClaimHint(h) \/ Greet(h)
    BY <2>1 DEF Read, Check, Lookup, ClaimHint, Greet, row
  <2>2. CASE Mark(h)
    BY <2>2 DEF TypeOK, Mark
  <2>3. CASE Persist(h)
    <3>1. handler[h].ev.stamp # NoEvent
      BY <2>3 DEF HandlersOK, HandlerOK, Persist, at
    <3>2. Ingested(handler[h].m)
      BY <1>0, <2>3 DEF Persist, at
    <3> QED
      BY <2>3, <3>1, <3>2 DEF TypeOK, Persist, Ingested, NoProjection
  <2>4. CASE Cancel(h)
    BY <2>4 DEF TypeOK, Cancel
  <2>5. CASE Publish(h)
    <3>1. handler[h].ev = signed[handler[h].m] /\ handler[h].ev # NoProjection
      BY <2>5 DEF HandlersOK, HandlerOK, Publish, at, Stored
    <3>2. UNCHANGED <<state, signed, mapped, job>>
      BY <2>5 DEF Publish, row
    <3>3. \A m \in Message :
            /\ relay[m] \subseteq relay'[m]
            /\ \A e \in relay'[m] :
                 e \in relay[m] \/ (m = handler[h].m /\ e = handler[h].ev)
      BY <2>5 DEF TypeOK, Publish
    <3> QED
      BY <3>1, <3>2, <3>3
  <2>6. CASE Postpone(h)
    BY <2>6 DEF TypeOK, Postpone
  <2>7. CASE Complete(h)
    <3>1. /\ handler[h].ev = signed[handler[h].m]
          /\ handler[h].ev \in relay[handler[h].m]
      BY <2>7 DEF HandlersOK, HandlerOK, Complete, at, Stored
    <3> QED
      BY <2>7, <3>1 DEF TypeOK, Complete
  <2>8. CASE Report(h)
    BY <1>0, <2>8 DEF TypeOK, Report, row, at
  <2> QED
    BY <1>5, <2>1, <2>2, <2>3, <2>4, <2>5, <2>6, <2>7, <2>8 DEF Run
<1>6. ASSUME NEW h \in Handler, QueryFails(h) PROVE RowsOK'
  BY <1>6 DEF QueryFails, row
<1>7. CASE Crash
  BY <1>7 DEF Crash, row
<1>8. CASE UNCHANGED vars
  BY <1>8 DEF vars
<1> QED
  BY <1>1, <1>2, <1>3, <1>4, <1>5, <1>6, <1>7, <1>8 DEF Next
-----------------------------------------------------------------------------
(* A handler that did not move keeps what it relies on: others only add.   *)
LEMMA HandlerKept ==
  ASSUME TypeOK, RowsOK, HandlersOK, [Next]_vars,
         NEW g \in Handler, handler'[g].pc = handler[g].pc,
         handler'[g].m = handler[g].m, handler'[g].ev = handler[g].ev
  PROVE  HandlerOK(g)'
<1>1. \A m \in Message : Kept(m)
  BY KeptStep
<1>2. HandlerOK(g)
  BY DEF HandlersOK
<1> QED
  BY <1>1, <1>2 DEF Kept, HandlerOK, Ingested, Stored

(* A handler that moved on to another step with the same event.             *)
LEMMA HandlerMoved ==
  ASSUME TypeOK, NEW h \in Handler, NEW s \in Step, go(h, s)
  PROVE  /\ handler'[h].pc = s
         /\ handler'[h].m = handler[h].m /\ handler'[h].ev = handler[h].ev
         /\ handler'[h].run = handler[h].run /\ handler'[h].shut = handler[h].shut
         /\ \A g \in Handler \ {h} : handler'[g] = handler[g]
BY DEF TypeOK, go, HandlerState

(* Each handler can rely on its own step whatever the others do. *)
LEMMA HandlersStep ==
  ASSUME TypeOK, RowsOK, HandlersOK, [Next]_vars
  PROVE  HandlersOK'
<1> USE DEF HandlersOK
<1>0. \A m \in Message : Kept(m)
  BY KeptStep
<1>1. ASSUME NEW n \in Message, Ingest(n) PROVE HandlersOK'
  BY <1>1, HandlerKept DEF Ingest
<1>2. ASSUME NEW n \in Message, Expire(n) PROVE HandlersOK'
  BY <1>2, HandlerKept DEF Expire
<1>3. ASSUME NEW e \in Endpoint, NEW s \in Choice, Edit(e, s) PROVE HandlersOK'
  <2>1. \A g \in Handler : /\ handler'[g].pc = handler[g].pc
                           /\ handler'[g].m = handler[g].m
                           /\ handler'[g].ev = handler[g].ev
    BY <1>3 DEF TypeOK, Edit, HandlerState
  <2> QED
    BY <2>1, HandlerKept
<1>4. ASSUME NEW h \in Handler, NEW n \in Message, Fetch(h, n) PROVE HandlersOK'
  <2>1. /\ handler'[h].pc = "read" /\ handler'[h].m = n
        /\ \A g \in Handler \ {h} : handler'[g] = handler[g]
    BY <1>4 DEF TypeOK, Fetch, Idle
  <2>2. Ingested(n)
    BY <1>4 DEF Fetch, RowsOK, RowOK, Ingested
  <2>3. HandlerOK(h)'
    BY <1>0, <2>1, <2>2 DEF HandlerOK, Kept, Stored
  <2> QED
    BY <2>1, <2>3, HandlerKept
<1>5. ASSUME NEW h \in Handler, Run(h) PROVE HandlersOK'
  <2> DEFINE m == handler[h].m
  <2>0. handler[h].pc # "idle" => m \in Message /\ state[m] # "absent" /\ state'[m] # "absent"
    BY <1>0 DEF HandlerOK, Kept, Ingested
  <2> SUFFICES /\ HandlerOK(h)'
               /\ \A g \in Handler \ {h} : handler'[g] = handler[g]
    BY HandlerKept
  <2> USE <2>0 DEF HandlerOK, at, Stored, Ingested
  <2>1. CASE Read(h)
    <3>1. CASE \E s \in {"resolved", "cancel", "postpone"} : go(h, s)
      BY <2>1, <3>1, HandlerMoved DEF Read, Step
    <3>2. CASE ~\E s \in {"resolved", "cancel", "postpone"} : go(h, s)
      <4>1. /\ handler'[h].pc = "mark" /\ handler'[h].m = m
            /\ \A g \in Handler \ {h} : handler'[g] = handler[g]
        BY <2>1, <3>2 DEF TypeOK, Read, HandlerState
      <4> QED
        BY <2>1, <4>1 DEF Read
    <3> QED
      BY <3>1, <3>2
  <2>2. CASE Mark(h)
    <3>1. CASE go(h, "resolved") \/ go(h, "rejected")
      BY <2>2, <3>1, HandlerMoved DEF Mark, Step
    <3>2. CASE ~(go(h, "resolved") \/ go(h, "rejected"))
      <4> DEFINE st == IF handler[h].ev.stamp = NoEvent
                       THEN attempts[m] + 1 ELSE handler[h].ev.stamp
      <4>1. st # NoEvent
        BY <2>2 DEF TypeOK, Mark, NoEvent
      <4>2. /\ handler'[h].pc = "persist" /\ handler'[h].m = m
            /\ handler'[h].ev.stamp = st
            /\ \A g \in Handler \ {h} : handler'[g] = handler[g]
        BY <2>2, <3>2 DEF TypeOK, Mark, HandlerState, Projection
      <4> QED
        BY <2>2, <4>1, <4>2 DEF Mark
    <3> QED
      BY <3>1, <3>2
  <2>3. CASE Persist(h)
    BY <2>3, HandlerMoved DEF TypeOK, Persist, HandlerState, Step, NoProjection
  <2>4. CASE Check(h)
    BY <2>4, HandlerMoved DEF Check, row, Step
  <2>5. CASE Cancel(h)
    BY <2>5, HandlerMoved DEF Cancel, Step
  <2>6. CASE Publish(h)
    BY <2>6, HandlerMoved DEF TypeOK, Publish, row, Step
  <2>7. CASE Lookup(h)
    BY <2>7, HandlerMoved DEF Lookup, row, Step
  <2>8. CASE Postpone(h)
    BY <2>8, HandlerMoved DEF Postpone, Step
  <2>9. CASE Complete(h)
    BY <2>9, HandlerMoved DEF TypeOK, Complete, Step
  <2>10. CASE ClaimHint(h)
    BY <2>10, HandlerMoved DEF ClaimHint, row, Step
  <2>11. CASE Greet(h)
    BY <2>11, HandlerMoved DEF Greet, Step
  <2>12. CASE Report(h)
    BY <2>12 DEF TypeOK, Report, Idle
  <2> QED
    BY <1>5, <2>1, <2>2, <2>3, <2>4, <2>5, <2>6, <2>7, <2>8, <2>9, <2>10, <2>11,
       <2>12 DEF Run
<1>6. ASSUME NEW h \in Handler, QueryFails(h) PROVE HandlersOK'
  <2>1. /\ handler'[h].pc \in {"rejected", "resolved"} /\ handler'[h].m = handler[h].m
        /\ \A g \in Handler \ {h} : handler'[g] = handler[g]
    BY <1>6, HandlerMoved DEF QueryFails, Step
  <2>2. handler[h].pc # "idle"
    BY <1>6 DEF QueryFails, at
  <2>3. handler[h].m \in Message /\ Ingested(handler[h].m)
    BY <2>2 DEF HandlerOK
  <2>4. Ingested(handler[h].m)'
    BY <1>0, <2>1, <2>3 DEF Kept, Ingested
  <2>5. HandlerOK(h)'
    BY <2>1, <2>3, <2>4 DEF HandlerOK, Stored, Ingested
  <2> QED
    BY <2>1, <2>5, HandlerKept
<1>7. CASE Crash
  BY <1>7 DEF Crash, Idle, HandlerOK, Stored
<1>8. CASE UNCHANGED vars
  BY <1>8, HandlerKept DEF vars
<1> QED
  BY <1>1, <1>2, <1>3, <1>4, <1>5, <1>6, <1>7, <1>8 DEF Next
-----------------------------------------------------------------------------
(* A visible parent stays visible. *)
LEMMA ThreadedKept ==
  ASSUME TypeOK, NEW m \in Message, NEW re, Threaded(m, re),
         \A n \in Message : Kept(n)
  PROVE  Threaded(m, re)'
BY DEF Threaded, Kept, IsReply, Ingested

(* The local parent that getBridgeDeliveryContext finds is visible. *)
LEMMA LocalParentThreaded ==
  ASSUME TypeOK, RowsOK, NEW m \in Message,
         IsReply(m) => LocalParent(m) # NoEvent
  PROVE  Threaded(m, LocalParent(m))
<1> SUFFICES ASSUME IsReply(m) PROVE Threaded(m, LocalParent(m))
  BY DEF Threaded
<1>1. Parent[m] \in Message /\ LocalParent(m) = LocalEvent(Parent[m], Target[m])
  BY DEF LocalParent
<1>2. LocalEvent(Parent[m], Target[m]) # NoEvent
  BY <1>1
<1>3. CASE Origin[Parent[m]] = Target[m] /\ Ingested(Parent[m])
  BY <1>1, <1>3 DEF LocalEvent, Threaded
<1>4. CASE ~(Origin[Parent[m]] = Target[m] /\ Ingested(Parent[m]))
  <2>1. Target[Parent[m]] = Target[m] /\ LocalParent(m) = mapped[Parent[m]]
    BY <1>1, <1>2, <1>4 DEF LocalEvent
  <2>2. signed[Parent[m]] \in relay[Parent[m]]
        /\ mapped[Parent[m]] = signed[Parent[m]].stamp
    BY <1>1, <1>2, <2>1 DEF RowsOK, RowOK
  <2> QED
    BY <1>1, <1>2, <2>1, <2>2 DEF Threaded
<1> QED
  BY <1>3, <1>4

(* What a handler carries to its signature, besides what it carried before, *)
(* is threaded under a visible event if the step it takes guarantees that.  *)
LEMMA ThreadsIf ==
  ASSUME TypeOK, HandlersOK, ThreadsOK, \A m \in Message : Kept(m),
         \A m \in Message : signed'[m] \in {signed[m], NoProjection}
                             \/ Threaded(m, signed'[m].re),
         \A g \in Handler : handler'[g].pc \in {"mark", "persist"} =>
            /\ handler'[g].m \in Message
            /\ \/ /\ handler[g].pc \in {"mark", "persist"}
                  /\ handler'[g].m = handler[g].m
                  /\ handler'[g].ev.re = handler[g].ev.re
               \/ Threaded(handler'[g].m, handler'[g].ev.re)
  PROVE  ThreadsOK'
<1>1. ASSUME NEW m \in Message, NEW re, Threaded(m, re) PROVE Threaded(m, re)'
  BY <1>1, ThreadedKept
<1>2. ASSUME NEW m \in Message, signed'[m] # NoProjection
      PROVE  Threaded(m, signed'[m].re)
  BY <1>2 DEF ThreadsOK
<1>3. ASSUME NEW g \in Handler, handler'[g].pc \in {"mark", "persist"}
      PROVE  handler'[g].m \in Message /\ Threaded(handler'[g].m, handler'[g].ev.re)
  BY <1>3 DEF ThreadsOK
<1>4. ASSUME NEW m \in Message, signed'[m] # NoProjection
      PROVE  Threaded(m, signed[m].re)'
  BY <1>1, <1>2, <1>4 DEF Threaded
<1>5. ASSUME NEW g \in Handler, handler'[g].pc \in {"mark", "persist"}
      PROVE  Threaded(handler[g].m, handler[g].ev.re)'
  <2>1. ASSUME NEW m \in Message, NEW re, m = handler'[g].m, re = handler'[g].ev.re
        PROVE  Threaded(handler[g].m, handler[g].ev.re)'
    <3>1. Threaded(m, re)
      BY <1>3, <1>5, <2>1
    <3>2. Threaded(m, re)'
      BY <1>1, <3>1
    <3> QED
      BY <2>1, <3>2 DEF Threaded
  <2> QED
    BY <1>3, <1>5, <2>1
<1> QED
  BY <1>4, <1>5 DEF ThreadsOK

(* What is signed, or about to be, is threaded under a visible event. *)
LEMMA ThreadsStep ==
  ASSUME TypeOK, RowsOK, HandlersOK, ThreadsOK, [Next]_vars
  PROVE  ThreadsOK'
<1>0. \A m \in Message : Kept(m)
  BY KeptStep
<1>a. \A h \in Handler : handler[h].pc # "idle" => handler[h].m \in Message
  BY DEF HandlersOK, HandlerOK
<1> USE <1>0, <1>a
<1>1. ASSUME NEW n \in Message, Ingest(n) PROVE ThreadsOK'
  BY <1>1, ThreadsIf DEF TypeOK, Ingest
<1>2. ASSUME NEW n \in Message, Expire(n) PROVE ThreadsOK'
  BY <1>2, ThreadsIf DEF Expire, row
<1>3. ASSUME NEW e \in Endpoint, NEW s \in Choice, Edit(e, s) PROVE ThreadsOK'
  <2>1. \A g \in Handler : /\ handler'[g].pc = handler[g].pc
                           /\ handler'[g].m = handler[g].m
                           /\ handler'[g].ev = handler[g].ev
    BY <1>3 DEF TypeOK, Edit, HandlerState
  <2> QED
    BY <1>3, <2>1, ThreadsIf DEF Edit, row
<1>4. ASSUME NEW h \in Handler, NEW n \in Message, Fetch(h, n) PROVE ThreadsOK'
  <2>1. /\ handler'[h].pc = "read"
        /\ \A g \in Handler \ {h} : handler'[g] = handler[g]
    BY <1>4 DEF TypeOK, Fetch, Idle
  <2> QED
    BY <1>4, <2>1, ThreadsIf DEF Fetch, row
<1>5. ASSUME NEW h \in Handler, Run(h) PROVE ThreadsOK'
  <2> DEFINE m == handler[h].m
  <2> USE DEF at
  <2>1. CASE Read(h)
    <3>1. CASE \E s \in {"resolved", "cancel", "postpone"} : go(h, s)
      BY <2>1, <3>1, HandlerMoved, ThreadsIf DEF Read, row, Step
    <3>2. CASE ~\E s \in {"resolved", "cancel", "postpone"} : go(h, s)
      <4>1. m \in Message /\ (IsReply(m) => LocalParent(m) # NoEvent)
        BY <2>1, <3>2 DEF Read
      <4>2. /\ handler'[h].m = m
            /\ handler'[h].ev.re = IF signed[m] # NoProjection THEN signed[m].re
                                   ELSE LocalParent(m)
            /\ \A g \in Handler \ {h} : handler'[g] = handler[g]
        BY <2>1, <3>2 DEF TypeOK, Read, HandlerState
      <4>3. Threaded(m, handler'[h].ev.re)
        BY <4>1, <4>2, LocalParentThreaded DEF ThreadsOK
      <4> QED
        BY <2>1, <4>1, <4>2, <4>3, ThreadsIf DEF Read, row
    <3> QED
      BY <3>1, <3>2
  <2>2. CASE Mark(h)
    <3>1. CASE go(h, "resolved") \/ go(h, "rejected")
      BY <2>2, <3>1, HandlerMoved, ThreadsIf DEF Mark, Step
    <3>2. CASE ~(go(h, "resolved") \/ go(h, "rejected"))
      <4>1. /\ handler'[h].m = m /\ handler'[h].ev.re = handler[h].ev.re
            /\ \A g \in Handler \ {h} : handler'[g] = handler[g]
        BY <2>2, <3>2 DEF TypeOK, Mark, HandlerState, Projection
      <4> QED
        BY <2>2, <4>1, ThreadsIf DEF Mark
    <3> QED
      BY <3>1, <3>2
  <2>3. CASE Persist(h)
    <3>1. m \in Message /\ Threaded(m, handler[h].ev.re)
      BY <2>3 DEF Persist, ThreadsOK
    <3>2. \A n \in Message : signed'[n] = signed[n] \/ Threaded(n, signed'[n].re)
      BY <2>3, <3>1 DEF TypeOK, Persist
    <3>3. /\ handler'[h].pc \notin {"mark", "persist"}
          /\ \A g \in Handler \ {h} : handler'[g] = handler[g]
      BY <2>3, HandlerMoved DEF TypeOK, Persist, HandlerState, Step
    <3> QED
      BY <3>2, <3>3, ThreadsIf
  <2>4. CASE Check(h)
    BY <2>4, HandlerMoved, ThreadsIf DEF Check, row, Step
  <2>5. CASE Cancel(h)
    BY <2>5, HandlerMoved, ThreadsIf DEF Cancel, Step
  <2>6. CASE Publish(h)
    BY <2>6, HandlerMoved, ThreadsIf DEF Publish, row, Step
  <2>7. CASE Lookup(h)
    BY <2>7, HandlerMoved, ThreadsIf DEF Lookup, row, Step
  <2>8. CASE Postpone(h)
    BY <2>8, HandlerMoved, ThreadsIf DEF Postpone, Step
  <2>9. CASE Complete(h)
    BY <2>9, HandlerMoved, ThreadsIf DEF Complete, Step
  <2>10. CASE ClaimHint(h)
    BY <2>10, HandlerMoved, ThreadsIf DEF ClaimHint, row, Step
  <2>11. CASE Greet(h)
    BY <2>11, HandlerMoved, ThreadsIf DEF Greet, row, Step
  <2>12. CASE Report(h)
    <3>1. /\ handler'[h].pc = "idle"
          /\ \A g \in Handler \ {h} : handler'[g] = handler[g]
      BY <2>12 DEF TypeOK, Report, Idle
    <3> QED
      BY <2>12, <3>1, ThreadsIf DEF Report, row
  <2> QED
    BY <1>5, <2>1, <2>2, <2>3, <2>4, <2>5, <2>6, <2>7, <2>8, <2>9, <2>10, <2>11,
       <2>12 DEF Run
<1>6. ASSUME NEW h \in Handler, QueryFails(h) PROVE ThreadsOK'
  BY <1>6, HandlerMoved, ThreadsIf DEF QueryFails, row, Step
<1>7. CASE Crash
  BY <1>7, ThreadsIf DEF Crash, Idle, row
<1>8. CASE UNCHANGED vars
  BY <1>8, ThreadsIf DEF vars
<1> QED
  BY <1>1, <1>2, <1>3, <1>4, <1>5, <1>6, <1>7, <1>8 DEF Next
-----------------------------------------------------------------------------
(* Who can be about to greet, and about to publish, after a step. *)
LEMMA HandlerSteps ==
  ASSUME TypeOK, HandlersOK, [Next]_vars, NEW g \in Handler
  PROVE  \/ handler'[g].pc = handler[g].pc /\ handler'[g].m = handler[g].m
         \/ handler'[g].pc \notin {"publish", "greet"}
         \/ Check(g)
         \/ ClaimHint(g)
<1>1. ASSUME NEW e \in Endpoint, NEW s \in Choice, Edit(e, s)
      PROVE  handler'[g].pc = handler[g].pc /\ handler'[g].m = handler[g].m
  BY <1>1 DEF TypeOK, Edit, HandlerState
<1>2. ASSUME NEW h \in Handler, NEW m \in Message, Fetch(h, m)
      PROVE  IF g = h THEN handler'[g].pc = "read" ELSE handler'[g] = handler[g]
  BY <1>2 DEF TypeOK, Fetch, Idle
<1>3. ASSUME NEW h \in Handler, Run(h)
      PROVE  \/ g # h /\ handler'[g] = handler[g]
             \/ g = h /\ handler'[g].pc \notin {"publish", "greet"}
             \/ g = h /\ (Check(h) \/ ClaimHint(h))
  <2>1. CASE Read(h)
    BY <2>1 DEF TypeOK, Read, go, HandlerState
  <2>2. CASE Mark(h)
    BY <2>2 DEF TypeOK, Mark, go, HandlerState
  <2>3. CASE Persist(h)
    BY <2>3 DEF TypeOK, Persist, go, HandlerState
  <2>4. CASE Check(h) \/ ClaimHint(h)
    BY <2>4, HandlerMoved DEF Check, ClaimHint, Step
  <2>5. CASE Cancel(h) \/ Publish(h) \/ Lookup(h) \/ Postpone(h) \/ Complete(h) \/ Greet(h)
    BY <2>5, HandlerMoved DEF Cancel, Publish, Lookup, Postpone, Complete, Greet, Step
  <2>6. CASE Report(h)
    BY <2>6 DEF TypeOK, Report, Idle
  <2> QED
    BY <1>3, <2>1, <2>2, <2>3, <2>4, <2>5, <2>6 DEF Run
<1>4. ASSUME NEW h \in Handler, QueryFails(h)
      PROVE  IF g = h THEN handler'[g].pc \in {"rejected", "resolved"}
             ELSE handler'[g] = handler[g]
  BY <1>4, HandlerMoved DEF QueryFails, Step
<1>5. CASE Crash
  BY <1>5 DEF Crash, Idle
<1>6. ASSUME NEW m \in Message, Ingest(m) \/ Expire(m) PROVE handler'[g] = handler[g]
  BY <1>6 DEF Ingest, Expire
<1>7. CASE UNCHANGED vars
  BY <1>7 DEF vars
<1> QED
  BY <1>1, <1>2, <1>3, <1>4, <1>5, <1>6, <1>7 DEF Next

(* Hints: claimed once, posted at most once, and only after a delivery. *)
LEMMA HintsStep ==
  ASSUME TypeOK, RowsOK, HandlersOK, HintsOK, [Next]_vars
  PROVE  HintsOK'
<1>0. \A m \in Message : Kept(m)
  BY KeptStep
<1> DEFINE Given(p) == \E m \in Message : Pair(m) = p /\ state[m] = "delivered_to_relay"
<1>1. \A p : Given(p) => Given(p)'
  BY <1>0 DEF Kept, Pair
<1>2. CASE \E h \in Handler : ClaimHint(h)
  <2>1. PICK h \in Handler : ClaimHint(h)
    BY <1>2
  <2>2. handler[h].m \in Message /\ state[handler[h].m] = "delivered_to_relay"
    BY <2>1 DEF ClaimHint, at, HandlersOK, HandlerOK
  <2>3. \A g \in Handler \ {h} : handler'[g] = handler[g]
    BY <2>1, HandlerMoved DEF ClaimHint, Step
  <2>4. UNCHANGED hintPosts
    BY <2>1 DEF ClaimHint
  <2>5. CASE UNCHANGED hinted /\ handler'[h].pc # "greet"
    BY <1>1, <2>3, <2>4, <2>5 DEF HintsOK, at, Pair
  <2>6. CASE /\ hinted' = hinted \cup {Pair(handler[h].m)}
             /\ Pair(handler[h].m) \notin hinted
             /\ handler'[h].m = handler[h].m
    <3>1. Given(Pair(handler[h].m))
      BY <2>2
    <3>2. Pair(handler[h].m) \in Endpoint \X Endpoint
      BY <2>2, ConstantTypes
    <3>3. hintPosts[Pair(handler[h].m)] = 0
      BY <2>6, <3>2 DEF HintsOK, TypeOK
    <3>4. \A g \in Handler : at(g, "greet") => Pair(handler[g].m) # Pair(handler[h].m)
      BY <2>6 DEF HintsOK
    <3>5. \A p \in Endpoint \X Endpoint : (p \in hinted)' => Given(p)'
      BY <1>1, <2>6, <3>1 DEF HintsOK
    <3> QED
      BY <2>3, <2>4, <2>6, <3>3, <3>4, <3>5 DEF HintsOK, at, Pair
  <2> QED
    BY <2>1, <2>5, <2>6, HandlerMoved DEF ClaimHint, Step
<1>3. CASE \E h \in Handler : Greet(h)
  <2>1. PICK h \in Handler : Greet(h)
    BY <1>3
  <2>2. handler'[h].pc # "greet" /\ \A g \in Handler \ {h} : handler'[g] = handler[g]
    BY <2>1, HandlerMoved DEF Greet, Step
  <2>3. at(h, "greet") /\ UNCHANGED hinted
    BY <2>1 DEF Greet
  <2>4. \A g \in Handler \ {h} :
          at(g, "greet") => Pair(handler[g].m) # Pair(handler[h].m)
    BY <2>3 DEF HintsOK
  <2>5. Pair(handler[h].m) \in hinted /\ hintPosts[Pair(handler[h].m)] = 0
    BY <2>3 DEF HintsOK
  <2>6. \A p \in Endpoint \X Endpoint :
          \/ hintPosts'[p] = hintPosts[p]
          \/ p = Pair(handler[h].m) /\ hintPosts'[p] = 1
    BY <2>1, <2>5 DEF Greet, TypeOK
  <2>7. \A g \in Handler \ {h} : at(g, "greet") =>
          Pair(handler[g].m) \in Endpoint \X Endpoint
    BY ConstantTypes DEF HandlersOK, HandlerOK, at
  <2> QED
    BY <1>1, <2>2, <2>3, <2>4, <2>5, <2>6, <2>7 DEF HintsOK, at, Pair
<1>4. CASE ~\E h \in Handler : ClaimHint(h) \/ Greet(h)
  <2>1. UNCHANGED <<hinted, hintPosts>>
    BY <1>4 DEF Next, vars, hint, Run, Ingest, Expire, Edit, Fetch, QueryFails, Crash,
                Read, Mark, Persist, Check, Cancel, Publish, Lookup, Postpone, Complete,
                Report
  <2>2. \A h \in Handler : (at(h, "greet"))' =>
          at(h, "greet") /\ handler'[h].m = handler[h].m
    <3> TAKE h \in Handler
    <3>1. CASE Check(h)
      BY <3>1, HandlerMoved DEF Check, at, Step
    <3> QED
      BY <1>4, <3>1, HandlerSteps DEF at
  <2> QED
    BY <1>1, <2>1, <2>2 DEF HintsOK, Pair
<1> QED
  BY <1>2, <1>3, <1>4

(* Besides Mark, no step of a handler sets its shut. *)
LEMMA ShutKept ==
  ASSUME TypeOK, [Next]_vars, NEW g \in Handler, ~Mark(g), handler'[g].shut,
         ~\E e \in Endpoint, s \in Choice : Edit(e, s)
  PROVE  handler[g].shut /\ handler'[g].m = handler[g].m
<1>1. ASSUME NEW h \in Handler, NEW m \in Message, Fetch(h, m)
      PROVE  handler'[g] = handler[g] \/ ~handler'[g].shut
  BY <1>1 DEF TypeOK, Fetch, Idle
<1>2. ASSUME NEW h \in Handler, Run(h)
      PROVE  \/ handler'[g] = handler[g] \/ ~handler'[g].shut
             \/ handler'[g].shut = handler[g].shut /\ handler'[g].m = handler[g].m
  <2>1. CASE Read(h)
    <3>1. CASE \E s \in Step : go(h, s)
      BY <3>1, HandlerMoved
    <3>2. CASE ~\E s \in Step : go(h, s)
      <4>1. PICK e : handler' = [handler EXCEPT ![h].pc = "mark", ![h].ev = e]
        BY <2>1, <3>2 DEF Read, Step
      <4> QED
        BY <4>1 DEF TypeOK, HandlerState
    <3> QED
      BY <3>1, <3>2
  <2>2. CASE Mark(h)
    BY <2>2 DEF TypeOK, Mark, go, HandlerState
  <2>3. CASE Persist(h)
    <3>1. CASE \E s \in Step : go(h, s)
      BY <3>1, HandlerMoved
    <3>2. CASE ~\E s \in Step : go(h, s)
      <4>1. PICK e : handler' = [handler EXCEPT ![h].pc = "check", ![h].ev = e]
        BY <2>3, <3>2 DEF Persist, Step
      <4> QED
        BY <4>1 DEF TypeOK, HandlerState
    <3> QED
      BY <3>1, <3>2
  <2>4. CASE \E s \in Step : go(h, s)
    BY <2>4, HandlerMoved
  <2>5. CASE Report(h)
    BY <2>5 DEF TypeOK, Report, Idle
  <2>6. Check(h) \/ Cancel(h) \/ Publish(h) \/ Lookup(h) \/ Postpone(h) \/ Complete(h)
        \/ ClaimHint(h) \/ Greet(h) => \E s \in Step : go(h, s)
    BY DEF Check, Cancel, Publish, Lookup, Postpone, Complete, ClaimHint, Greet, Step
  <2> QED
    BY <1>2, <2>1, <2>2, <2>3, <2>4, <2>5, <2>6 DEF Run
<1>3. ASSUME NEW h \in Handler, QueryFails(h)
      PROVE  handler'[g].shut = handler[g].shut /\ handler'[g].m = handler[g].m
  BY <1>3, HandlerMoved DEF QueryFails, Step
<1>4. CASE Crash
  BY <1>4 DEF Crash, Idle
<1>5. ASSUME NEW m \in Message, Ingest(m) \/ Expire(m) PROVE handler'[g] = handler[g]
  BY <1>5 DEF Ingest, Expire
<1>6. CASE UNCHANGED vars
  BY <1>6 DEF vars
<1> QED
  BY <1>1, <1>2, <1>3, <1>4, <1>5, <1>6 DEF Next

(* shut says that a route has stayed closed, and bars the way to publish. *)
LEMMA ShutStep ==
  ASSUME TypeOK, HandlersOK, ShutOK, [Next]_vars
  PROVE  ShutOK'
<1>1. \A g \in Handler :
        handler'[g].shut => handler'[g].m \in Message /\ ~RouteActive(handler[g].m)'
  <2> SUFFICES ASSUME NEW g \in Handler, handler'[g].shut
               PROVE  handler'[g].m \in Message /\ ~RouteActive(handler[g].m)'
    OBVIOUS
  <2>1. CASE \E e \in Endpoint, s \in Choice : Edit(e, s)
    <3>1. handler'[g] = IF handler[g].m \in Message
             THEN [handler[g] EXCEPT !.shut =
                     @ /\ ~RouteUnder(settings', handler[g].m)]
             ELSE handler[g]
      BY <2>1 DEF Edit
    <3>2. handler[g].m \in Message
      BY <3>1 DEF ShutOK
    <3>3. /\ handler'[g].m = handler[g].m
          /\ handler'[g].shut = (handler[g].shut /\ ~RouteUnder(settings', handler[g].m))
      BY <3>1, <3>2 DEF TypeOK, HandlerState
    <3> QED
      BY <3>2, <3>3 DEF RouteActive
  <2>2. CASE ~\E e \in Endpoint, s \in Choice : Edit(e, s)
    <3>1. UNCHANGED settings
      BY <2>2 DEF Next, vars, Run, Ingest, Expire, Fetch, QueryFails, Crash, Read, Mark,
                  Persist, Check, Cancel, Publish, Lookup, Postpone, Complete, ClaimHint,
                  Greet, Report
    <3>2. CASE Mark(g)
      <4>1. handler[g].m \in Message
        BY <3>2 DEF HandlersOK, HandlerOK, Mark, at
      <4>2. /\ handler'[g].m = handler[g].m
            /\ \/ handler[g].shut
               \/ ~RouteActive(handler[g].m)
        BY <3>2 DEF TypeOK, HandlerState, Mark, go
      <4>3. ~RouteActive(handler[g].m)
        BY <4>2 DEF ShutOK
      <4> QED
        BY <3>1, <4>1, <4>2, <4>3 DEF RouteActive
    <3>3. CASE ~Mark(g)
      <4>1. handler[g].shut /\ handler'[g].m = handler[g].m
        BY <2>2, <3>3, ShutKept
      <4> QED
        BY <3>1, <4>1 DEF ShutOK, RouteActive
    <3> QED
      BY <3>2, <3>3
  <2> QED
    BY <2>1, <2>2
<1>2. ASSUME NEW g \in Handler, handler'[g].pc = "publish" PROVE ~handler'[g].shut
  <2>1. CASE Check(g)
    <3>1. RouteActive(handler[g].m) /\ handler'[g].shut = handler[g].shut
      BY <1>2, <2>1, HandlerMoved DEF Check, Step
    <3> QED
      BY <3>1 DEF ShutOK
  <2>2. CASE ~Check(g)
    <3>1. handler[g].pc = "publish" /\ handler'[g].m = handler[g].m
      <4>1. CASE ClaimHint(g)
        BY <1>2, <4>1, HandlerMoved DEF ClaimHint, Step
      <4> QED
        BY <1>2, <2>2, <4>1, HandlerSteps
    <3>2. ~handler[g].shut /\ ~Mark(g)
      BY <3>1 DEF ShutOK, at, Mark
    <3>3. CASE \E e \in Endpoint, s \in Choice : Edit(e, s)
      BY <3>2, <3>3 DEF TypeOK, Edit, HandlerState
    <3> QED
      BY <3>2, <3>3, ShutKept
  <2> QED
    BY <2>1, <2>2
<1> QED
  BY <1>1, <1>2 DEF ShutOK, at, RouteActive
-----------------------------------------------------------------------------
(* Every reachable state satisfies the inductive invariant. *)
THEOREM Invariance == Spec => []IInv
<1>1. Init => IInv
  <2> SUFFICES ASSUME Init PROVE IInv
    OBVIOUS
  <2>1. TypeOK
    <3>1. \A e \in Endpoint :
            [sends |-> TRUE, receives |-> TRUE, peers |-> Endpoint] \in Settings
      BY DEF Settings
    <3> QED
      BY <3>1, ConstantTypes
         DEF Init, TypeOK, DeliveryState, JobState, Spending
  <2>2. RowsOK /\ HandlersOK /\ ThreadsOK
    BY DEF Init, RowsOK, RowOK, HandlersOK, HandlerOK, ThreadsOK, Idle, Stored,
           NoProjection
  <2>3. ShutOK /\ HintsOK
    BY DEF Init, ShutOK, HintsOK, at, Idle
  <2> QED
    BY <2>1, <2>2, <2>3 DEF IInv
<1>2. IInv /\ [Next]_vars => IInv'
  BY TypeStep, RowsStep, HandlersStep, ThreadsStep, ShutStep, HintsStep DEF IInv
<1> QED
  BY <1>1, <1>2, PTL DEF Spec

(* Types: every field stays within what its column or record can hold. *)
THEOREM TypeCorrect == Spec => []TypeOK
<1>1. IInv => TypeOK
  BY DEF IInv
<1> QED
  BY <1>1, Invariance, PTL

(* At most one post: whatever the retries, crashes, lost acknowledgements   *)
(* and overlapping handlers, a relay holds one event of a message.          *)
THEOREM OneProjection == Spec => []AtMostOneProjection
<1>1. IInv => AtMostOneProjection
  BY DEF IInv, RowsOK, RowOK, AtMostOneProjection
<1> QED
  BY <1>1, Invariance, PTL

(* A row reads delivered_to_relay only when its relay holds the event that  *)
(* row and mapping name.                                                    *)
THEOREM DeliveredTruthful == Spec => []DeliveredIsOnRelay
<1>1. IInv => DeliveredIsOnRelay
  BY DEF IInv, RowsOK, RowOK, DeliveredIsOnRelay
<1> QED
  BY <1>1, Invariance, PTL

(* Replies are posted under events that are visible at their destination.   *)
THEOREM RepliesThreaded == Spec => []ThreadIntegrity
<1>1. IInv => ThreadIntegrity
  <2> SUFFICES ASSUME IInv, NEW m \in Message, IsReply(m), NEW e \in relay[m]
               PROVE  Threaded(m, e.re)
    BY DEF ThreadIntegrity, Threaded
  <2>1. e = signed[m] /\ e # NoProjection
    BY DEF IInv, RowsOK, RowOK
  <2> QED
    BY <2>1 DEF IInv, ThreadsOK
<1> QED
  BY <1>1, Invariance, PTL

(* A route that closed before the delivery was marked, and stayed closed,   *)
(* is not published on.                                                     *)
THEOREM ClosedRouteSilent == Spec => []ClosedRouteRefused
<1>1. IInv => ClosedRouteRefused
  BY DEF IInv, ShutOK, ClosedRouteRefused
<1> QED
  BY <1>1, Invariance, PTL

(* One hint notice for each source and inbox, and only after a delivery.    *)
THEOREM OneHint == Spec => []HintAtMostOnce
<1>1. IInv => HintAtMostOnce
  BY DEF IInv, HintsOK, HintAtMostOnce
<1> QED
  BY <1>1, Invariance, PTL

(* Delivered and cancelled are final, and a stored event or a mapping is    *)
(* never replaced, whichever late handler writes.                           *)
THEOREM FinalOutcome == Spec => OutcomeIsFinal
<1>1. IInv /\ [Next]_vars =>
        [\A m \in Message :
           /\ state[m] \in {"delivered_to_relay", "cancelled"} => state'[m] = state[m]
           /\ signed[m] # NoProjection => signed'[m] = signed[m]
           /\ mapped[m] # NoEvent => mapped'[m] = mapped[m]]_vars
  BY KeptStep DEF IInv, Kept
<1> QED
  BY <1>1, Invariance, PTL DEF Spec, OutcomeIsFinal
-----------------------------------------------------------------------------
(***************************************************************************)
(* While no handler outlives its job.  Then a running handler is the only  *)
(* one that works on its message, and on the run its job counts (JobOwned);*)
(* between mark and complete the row is its own (StepsOK).                 *)
(***************************************************************************)
Busy(h) == ~at(h, "idle")
Marked == {"persist", "check", "publish", "lookup", "complete"}
Done == {"hint", "greet", "resolved"}
Terminal == {"delivered_to_relay", "failed", "cancelled"}

JobOwned ==
  /\ \A h \in Handler : Busy(h) =>
       job[handler[h].m] = "active" /\ handler[h].run = tries[handler[h].m]
  /\ \A g, h \in Handler :
       Busy(g) /\ Busy(h) /\ handler[g].m = handler[h].m => g = h

StepsOK ==
  \A h \in Handler :
    /\ handler[h].pc \in Marked => state[handler[h].m] = "delivering"
    /\ handler[h].pc \in Done => Settled(handler[h].m)

(* A job is not tried more often than its limit. *)
RetriesOK ==
  \A m \in Message : tries[m] <= RetryLimit /\ (job[m] = "retry" => tries[m] < RetryLimit)

(* A delivery that was marked but has no event yet: nothing was published.  *)
Unsigned(m) == state[m] = "delivering" /\ signed[m] = NoProjection /\ relay[m] = {}

(* A job out of retries leaves its delivery settled, or still unsigned.     *)
ExhaustedIsHarmless ==
  \A m \in Message : job[m] = "failed" => Settled(m) \/ Unsigned(m)

(* A handler signs only what has no event, and one that rejects has runs    *)
(* left or could not sign.                                                  *)
RunsLeft(h) ==
  /\ at(h, "mark") /\ handler[h].ev.stamp = NoEvent => signed[handler[h].m] = NoProjection
  /\ at(h, "rejected") => handler[h].run < RetryLimit \/ Unsigned(handler[h].m)

(* While no query fails and the worker does not die either, every active    *)
(* job has its handler, which is as RunsLeft says.                          *)
FaultlessOK ==
  /\ \A m \in Message : job[m] = "active" =>
       \E h \in Handler : Busy(h) /\ handler[h].m = m
  /\ \A h \in Handler : RunsLeft(h)
  /\ ExhaustedIsHarmless

(* While no owner edits, every route is active and nobody cancels. *)
UneditedOK ==
  /\ \A m \in Message : RouteActive(m) /\ state[m] # "cancelled"
  /\ \A h \in Handler : ~at(h, "cancel")

OwnershipOK == spent.overruns = 0 => JobOwned /\ StepsOK /\ CompletedIsSettled
CalmOK == spent.overruns = 0 /\ spent.faults = 0 => FaultlessOK
QuietOK == spent.overruns = 0 /\ spent.edits = 0 => UneditedOK

OwnInv == RetriesOK /\ OwnershipOK /\ CalmOK /\ QuietOK

(* What is spent stays spent. *)
LEMMA SpentStep ==
  ASSUME TypeOK, [Next]_vars
  PROVE  /\ spent'.overruns = 0 => spent.overruns = 0
         /\ spent'.faults = 0 => spent.faults = 0
         /\ spent'.edits = 0 => spent.edits = 0
<1>1. spent \in Spending
  BY DEF TypeOK
<1>2. \/ spent' = spent
      \/ spent' = [spent EXCEPT !.edits = @ + 1]
      \/ spent' = [spent EXCEPT !.faults = @ + 1]
      \/ spent' = [spent EXCEPT !.overruns = @ + 1]
  BY DEF Next, Ingest, Expire, Edit, Fetch, Run, Read, Mark, Persist, Check, Cancel,
         Publish, Lookup, Postpone, Complete, ClaimHint, Greet, Report, QueryFails,
         Crash, vars
<1> QED
  BY <1>1, <1>2 DEF Spending

SameRow(n) == state'[n] = state[n] /\ signed'[n] = signed[n] /\ relay'[n] = relay[n]

(* What a step of handler h before its report does to handlers and jobs. *)
Advances(h) ==
  /\ UNCHANGED <<job, tries>>
  /\ handler' \in [Handler -> HandlerState]
  /\ handler'[h].m = handler[h].m /\ handler'[h].run = handler[h].run
  /\ handler'[h].pc # "idle"
  /\ \A g \in Handler \ {h} : handler'[g] = handler[g]
  /\ \A n \in Message \ {handler[h].m} : SameRow(n)

(* Every step of a running handler but its report only advances it. *)
LEMMA AdvanceStep ==
  ASSUME IInv, IInv', NEW h \in Handler, Run(h) \/ QueryFails(h), ~Report(h)
  PROVE  Busy(h) /\ Advances(h)
<1>1. handler \in [Handler -> HandlerState] /\ handler' \in [Handler -> HandlerState]
  BY DEF IInv, TypeOK
<1>2. /\ state \in [Message -> DeliveryState] /\ signed \in [Message -> Projection]
      /\ relay \in [Message -> SUBSET Projection]
  BY DEF IInv, TypeOK
<1>3. Busy(h)
  BY DEF Run, Read, Mark, Persist, Check, Cancel, Publish, Lookup, Postpone, Complete,
         ClaimHint, Greet, QueryFails, Busy, at
<1>4. UNCHANGED <<job, tries>>
  BY DEF Run, Read, Mark, Persist, Check, Cancel, Publish, Lookup, Postpone, Complete,
         ClaimHint, Greet, QueryFails
<1>5. \A n \in Message \ {handler[h].m} : SameRow(n)
  BY <1>2 DEF Run, Read, Mark, Persist, Check, Cancel, Publish, Lookup, Postpone,
              Complete, ClaimHint, Greet, QueryFails, row, SameRow
<1>6. /\ handler'[h].m = handler[h].m /\ handler'[h].run = handler[h].run
      /\ handler'[h].pc # "idle"
      /\ \A g \in Handler \ {h} : handler'[g] = handler[g]
  <2>1. CASE \E s \in Step \ {"idle"} : go(h, s)
    BY <1>1, <2>1 DEF go, HandlerState
  <2>2. CASE ~\E s \in Step \ {"idle"} : go(h, s)
    <3>1. Read(h) \/ Mark(h) \/ Persist(h)
      BY <2>2 DEF Run, Check, Cancel, Publish, Lookup, Postpone, Complete,
                  ClaimHint, Greet, QueryFails, Step
    <3>2. CASE Read(h)
      BY <1>1, <2>2, <3>2 DEF Read, Step, HandlerState
    <3>3. CASE Mark(h)
      BY <1>1, <2>2, <3>3 DEF Mark, Step, HandlerState
    <3>4. CASE Persist(h)
      BY <1>1, <2>2, <3>4 DEF Persist, Step, HandlerState
    <3> QED
      BY <3>1, <3>2, <3>3, <3>4
  <2> QED
    BY <2>1, <2>2
<1> QED
  BY <1>1, <1>3, <1>4, <1>5, <1>6 DEF Advances

(* A job is retried only while it has retries left. *)
LEMMA RetriesStep ==
  ASSUME IInv, RetriesOK, [Next]_vars
  PROVE  RetriesOK'
<1> USE DeliveryAssumption DEF RetriesOK
<1>0. tries \in [Message -> Nat] /\ job \in [Message -> JobState]
  BY DEF IInv, TypeOK
<1>1. ASSUME NEW m \in Message, Ingest(m) PROVE RetriesOK'
  BY <1>0, <1>1 DEF Ingest
<1>2. ASSUME NEW m \in Message, Expire(m) PROVE RetriesOK'
  BY <1>0, <1>2 DEF Expire, Outcome
<1>3. ASSUME NEW h \in Handler, NEW m \in Message, Fetch(h, m) PROVE RetriesOK'
  BY <1>0, <1>3 DEF Fetch
<1>4. ASSUME NEW h \in Handler, Report(h) PROVE RetriesOK'
  BY <1>0, <1>4 DEF Report, Outcome
<1>5. CASE UNCHANGED <<job, tries>>
  BY <1>5
<1> QED
  BY <1>1, <1>2, <1>3, <1>4, <1>5
     DEF Next, Edit, Run, Read, Mark, Persist, Check, Cancel, Publish, Lookup, Postpone,
         Complete, ClaimHint, Greet, QueryFails, Crash, vars

(* What a handler that advances may rely on is its own. *)
LEMMA OwnedAdvance ==
  ASSUME IInv, IInv', JobOwned, StepsOK, CompletedIsSettled, NEW h \in Handler,
         Busy(h), Advances(h),
         handler'[h].pc \in Marked => state'[handler[h].m] = "delivering",
         handler'[h].pc \in Done => state'[handler[h].m] \in Terminal
  PROVE  JobOwned' /\ StepsOK' /\ CompletedIsSettled'
<1> DEFINE m == handler[h].m
<1>1. \A g \in Handler : Busy(g)' <=> Busy(g)
  BY DEF Busy, at, Advances
<1>2. \A g \in Handler : handler'[g].m = handler[g].m /\ handler'[g].run = handler[g].run
  BY DEF Advances
<1>3. JobOwned'
  BY <1>1, <1>2 DEF JobOwned, Advances
<1>4. \A g \in Handler : Busy(g) => handler[g].m \in Message
  BY DEF IInv, HandlersOK, HandlerOK, Busy, at
<1>5. ASSUME NEW g \in Handler, g # h
      PROVE  /\ handler'[g].pc \in Marked => state'[handler'[g].m] = "delivering"
             /\ handler'[g].pc \in Done => state'[handler'[g].m] \in Terminal
  <2>1. handler'[g] = handler[g]
    BY <1>5 DEF Advances
  <2>2. CASE Busy(g)
    <3>1. handler[g].m # m /\ handler[g].m \in Message
      BY <1>4, <1>5, <2>2 DEF JobOwned
    <3>2. state'[handler[g].m] = state[handler[g].m]
      BY <3>1 DEF Advances, SameRow
    <3>3. /\ handler[g].pc \in Marked => state[handler[g].m] = "delivering"
          /\ handler[g].pc \in Done => state[handler[g].m] \in Terminal
      BY DEF StepsOK, Settled, Terminal
    <3> QED
      BY <2>1, <3>2, <3>3
  <2>3. CASE ~Busy(g)
    BY <2>1, <2>3 DEF Busy, at, Marked, Done
  <2> QED
    BY <2>2, <2>3
<1>6. StepsOK'
  BY <1>2, <1>5 DEF StepsOK, Settled, Terminal
<1>7. CompletedIsSettled'
  <2> SUFFICES ASSUME NEW n \in Message, job[n] = "completed" PROVE Settled(n)'
    BY DEF CompletedIsSettled, Advances
  <2>1. n # m
    BY DEF JobOwned
  <2>2. state'[n] = state[n]
    BY <2>1 DEF Advances, SameRow
  <2> QED
    BY <2>2 DEF CompletedIsSettled, Settled
<1> QED
  BY <1>3, <1>6, <1>7

(* Each step of a handler that owns its row finds, and leaves, the row as   *)
(* StepsOK says.                                                            *)
LEMMA OwnedRow ==
  ASSUME IInv, StepsOK, NEW h \in Handler, Run(h) \/ QueryFails(h), ~Report(h)
  PROVE  /\ handler'[h].pc \in Marked => state'[handler[h].m] = "delivering"
         /\ handler'[h].pc \in Done => state'[handler[h].m] \in Terminal
<1> DEFINE m == handler[h].m
<1>0. /\ handler \in [Handler -> HandlerState] /\ state \in [Message -> DeliveryState]
      /\ handler[h].pc \in Marked => state[m] = "delivering"
      /\ handler[h].pc \in Done => Settled(m)
      /\ Busy(h) => m \in Message /\ state[m] # "absent"
  BY DEF IInv, TypeOK, StepsOK, HandlersOK, HandlerOK, Busy, at, Ingested
<1>g. \A s \in Step : go(h, s) => handler'[h].pc = s
  BY <1>0 DEF go, HandlerState
<1> DEFINE p == handler'[h].pc
<1> USE DEF Terminal
<1>1. CASE Read(h)
  <2>1. p \in {"cancel", "postpone", "mark"} \/ (p = "resolved" /\ Settled(m))
    <3>1. CASE \E s \in Step : go(h, s)
      BY <1>1, <1>0, <3>1 DEF Read, Step, go, HandlerState
    <3>2. CASE ~\E s \in Step : go(h, s)
      BY <1>0, <1>1, <3>2 DEF Read, Step, HandlerState
    <3> QED
      BY <3>1, <3>2
  <2>2. state' = state
    BY <1>1 DEF Read, row
  <2> QED
    BY <2>1, <2>2 DEF Settled, Marked, Done
<1>2. CASE Mark(h)
  <2>1. m \in Message /\ state[m] # "absent"
    BY <1>0, <1>2 DEF Mark, Busy, at
  <2>2. CASE state[m] \in {"queued", "retry", "delivering"}
    <3>1. p \in {"persist", "rejected"}
      <4>1. CASE go(h, "rejected")
        BY <1>g, <4>1 DEF Step
      <4>2. CASE ~go(h, "rejected")
        BY <1>0, <1>2, <2>2, <4>2 DEF Mark, HandlerState
      <4> QED
        BY <4>1, <4>2
    <3>2. state'[m] = "delivering"
      BY <1>0, <1>2, <2>1, <2>2 DEF Mark
    <3> QED
      BY <3>1, <3>2 DEF Done
  <2>3. CASE state[m] \notin {"queued", "retry", "delivering"}
    BY <1>0, <1>2, <1>g, <2>1, <2>3 DEF Mark, Step, Marked, DeliveryState
  <2> QED
    BY <2>2, <2>3
<1>3. CASE Persist(h)
  <2>1. p \in {"rejected", "check"}
    <3>1. CASE \E s \in Step : go(h, s)
      BY <1>0, <1>3, <3>1 DEF Persist, Step, go, HandlerState
    <3>2. CASE ~\E s \in Step : go(h, s)
      BY <1>0, <1>3, <3>2 DEF Persist, Step, HandlerState
    <3> QED
      BY <3>1, <3>2
  <2>2. state' = state /\ state[m] = "delivering"
    BY <1>0, <1>3 DEF Persist, at, Marked
  <2> QED
    BY <2>1, <2>2 DEF Done
<1>4. CASE Check(h)
  BY <1>0, <1>4, <1>g DEF Check, row, at, Marked, Done, Step
<1>5. CASE Cancel(h)
  <2>1. p = "resolved" /\ m \in Message
    BY <1>0, <1>5, <1>g DEF Cancel, Step, Busy, at
  <2> QED
    BY <1>0, <1>5, <2>1 DEF Cancel, Marked
<1>6. CASE Publish(h) \/ Lookup(h)
  <2>1. p \in {"complete", "lookup", "postpone"}
    BY <1>6, <1>g DEF Publish, Lookup, Step
  <2>2. state' = state /\ state[m] = "delivering"
    BY <1>0, <1>6 DEF Publish, Lookup, row, at, Marked
  <2> QED
    BY <2>1, <2>2 DEF Done
<1>7. CASE Postpone(h)
  <2>1. m \in Message /\ p = (IF LastRun(h) THEN "resolved" ELSE "rejected")
    BY <1>0, <1>7, <1>g DEF Postpone, Step, Busy, at
  <2> QED
    BY <1>0, <1>7, <2>1 DEF Postpone, Marked, Done
<1>8. CASE Complete(h)
  <2>1. m \in Message /\ p \in {"hint", "rejected"}
    BY <1>0, <1>8, <1>g DEF Complete, Step, Busy, at
  <2>2. p = "hint" => state'[m] = "delivered_to_relay"
    BY <1>0, <1>8, <1>g, <2>1 DEF Complete, Step
  <2> QED
    BY <2>1, <2>2 DEF Marked, Done
<1>9. CASE ClaimHint(h) \/ Greet(h)
  <2>1. p \in {"greet", "resolved"}
    BY <1>9, <1>g DEF ClaimHint, Greet, Step
  <2>2. state' = state /\ handler[h].pc \in Done
    BY <1>9 DEF ClaimHint, Greet, row, at, Done
  <2> QED
    BY <1>0, <2>1, <2>2 DEF Marked, Settled
<1>10. CASE QueryFails(h)
  <2>1. p = "rejected" \/ (p = "resolved" /\ handler[h].pc = "hint")
    BY <1>10, <1>g DEF QueryFails, Step, at
  <2>2. state' = state
    BY <1>10 DEF QueryFails, row
  <2> QED
    BY <1>0, <2>1, <2>2 DEF Marked, Done, Settled
<1> QED
  BY <1>1, <1>2, <1>3, <1>4, <1>5, <1>6, <1>7, <1>8, <1>9, <1>10 DEF Run

(* Ownership is kept as long as no handler outlives its job. *)
LEMMA OwnershipStep ==
  ASSUME IInv, IInv', OwnershipOK, [Next]_vars
  PROVE  OwnershipOK'
<1> SUFFICES ASSUME spent'.overruns = 0
             PROVE  JobOwned' /\ StepsOK' /\ CompletedIsSettled'
  BY DEF OwnershipOK
<1>0. spent.overruns = 0 /\ JobOwned /\ StepsOK /\ CompletedIsSettled
  BY SpentStep DEF IInv, OwnershipOK
<1>a. /\ handler \in [Handler -> HandlerState] /\ state \in [Message -> DeliveryState]
      /\ job \in [Message -> JobState] /\ tries \in [Message -> Nat]
      /\ spent \in Spending
  BY DEF IInv, TypeOK
<1>b. \A h \in Handler : Busy(h) => handler[h].m \in Message /\ Ingested(handler[h].m)
  BY DEF IInv, HandlersOK, HandlerOK, Busy, at
<1>1. ASSUME NEW m \in Message, Ingest(m)
      PROVE  JobOwned' /\ StepsOK' /\ CompletedIsSettled'
  <2>1. \A h \in Handler : Busy(h) => handler[h].m # m
    BY <1>1, <1>b DEF Ingest, Ingested
  <2>2. JobOwned'
    BY <1>0, <1>1, <1>a, <2>1 DEF Ingest, JobOwned, Busy, at
  <2>3. StepsOK'
    BY <1>0, <1>1, <1>a, <2>1 DEF Ingest, StepsOK, Busy, at, Marked, Done, Settled
  <2>4. CompletedIsSettled'
    BY <1>0, <1>1, <1>a DEF Ingest, CompletedIsSettled, Settled
  <2> QED
    BY <2>2, <2>3, <2>4
<1>2. ASSUME NEW m \in Message, Expire(m)
      PROVE  JobOwned' /\ StepsOK' /\ CompletedIsSettled'
  <2>1. Abandoned(m)
    BY <1>0, <1>2, <1>a DEF Expire, Spending
  <2>2. \A h \in Handler : Busy(h) => handler[h].m # m
    BY <1>0, <2>1 DEF Abandoned, JobOwned
  <2>3. JobOwned'
    BY <1>0, <1>2, <1>a, <1>b, <2>2 DEF Expire, JobOwned, Busy, at
  <2>4. StepsOK' /\ CompletedIsSettled'
    BY <1>0, <1>2, <1>a DEF Expire, StepsOK, CompletedIsSettled, Settled, row, Outcome
  <2> QED
    BY <2>3, <2>4
<1>3. ASSUME NEW e \in Endpoint, NEW s \in Choice, Edit(e, s)
      PROVE  JobOwned' /\ StepsOK' /\ CompletedIsSettled'
  <2>1. \A h \in Handler : /\ handler'[h].pc = handler[h].pc
                           /\ handler'[h].m = handler[h].m
                           /\ handler'[h].run = handler[h].run
    BY <1>3, <1>a DEF Edit, HandlerState
  <2>2. UNCHANGED <<state, job, tries>>
    BY <1>3 DEF Edit, row
  <2> QED
    BY <1>0, <2>1, <2>2 DEF JobOwned, StepsOK, CompletedIsSettled, Busy, at, Settled
<1>4. ASSUME NEW h \in Handler, NEW m \in Message, Fetch(h, m)
      PROVE  JobOwned' /\ StepsOK' /\ CompletedIsSettled'
  <2>1. \A g \in Handler : Busy(g) => handler[g].m # m
    BY <1>0, <1>4 DEF Fetch, JobOwned
  <2>2. /\ handler'[h].pc = "read" /\ handler'[h].m = m /\ handler'[h].run = tries'[m]
        /\ \A g \in Handler \ {h} : handler'[g] = handler[g]
    BY <1>4, <1>a DEF Fetch, Idle
  <2>3. JobOwned'
    BY <1>0, <1>4, <1>a, <1>b, <2>1, <2>2 DEF Fetch, JobOwned, Busy, at
  <2>4. StepsOK'
    BY <1>0, <1>4, <2>2 DEF Fetch, StepsOK, Marked, Done, Settled, row
  <2>5. CompletedIsSettled'
    BY <1>0, <1>4, <1>a DEF Fetch, CompletedIsSettled, Settled, row
  <2> QED
    BY <2>3, <2>4, <2>5
<1>5. ASSUME NEW h \in Handler, Run(h) \/ QueryFails(h), ~Report(h)
      PROVE  JobOwned' /\ StepsOK' /\ CompletedIsSettled'
  BY <1>0, <1>5, AdvanceStep, OwnedRow, OwnedAdvance
<1>6. ASSUME NEW h \in Handler, Report(h)
      PROVE  JobOwned' /\ StepsOK' /\ CompletedIsSettled'
  <2>1. Busy(h) /\ ~Busy(h)' /\ \A g \in Handler \ {h} : handler'[g] = handler[g]
    BY <1>6, <1>a DEF Report, Busy, at, Idle
  <2>2. \A g \in Handler \ {h} : Busy(g) => handler[g].m # handler[h].m
    BY <1>0, <2>1 DEF JobOwned
  <2>3. JobOwned'
    BY <1>0, <1>6, <1>a, <1>b, <2>1, <2>2 DEF Report, JobOwned, Busy, at
  <2>4. StepsOK'
    BY <1>0, <1>6, <2>1 DEF Report, StepsOK, Busy, at, Marked, Done, Settled, row
  <2>5. at(h, "resolved") => Settled(handler[h].m)
    BY <1>0 DEF StepsOK, Done, at
  <2>6. CompletedIsSettled'
    BY <1>0, <1>6, <1>a, <2>5 DEF Report, CompletedIsSettled, Settled, row, Outcome
  <2> QED
    BY <2>3, <2>4, <2>6
<1>7. CASE Crash
  <2>1. \A h \in Handler : ~Busy(h)'
    BY <1>7 DEF Crash, Busy, at, Idle
  <2>2. JobOwned' /\ StepsOK'
    BY <2>1 DEF JobOwned, StepsOK, Busy, at, Marked, Done
  <2> QED
    BY <1>0, <1>7, <2>2 DEF Crash, CompletedIsSettled, Settled, row
<1>8. CASE UNCHANGED vars
  BY <1>0, <1>8 DEF vars, JobOwned, StepsOK, CompletedIsSettled, Busy, at, Settled
<1> QED
  BY <1>1, <1>2, <1>3, <1>4, <1>5, <1>6, <1>7, <1>8 DEF Next, Run
(* Without crashes and failing queries either, every active job has its    *)
(* handler and no job fails over a delivery that is still open.             *)
LEMMA CalmStep ==
  ASSUME IInv, IInv', RetriesOK, OwnershipOK, CalmOK, [Next]_vars
  PROVE  CalmOK'
<1> SUFFICES ASSUME spent'.overruns = 0, spent'.faults = 0 PROVE FaultlessOK'
  BY DEF CalmOK
<1>0. /\ spent.overruns = 0 /\ spent.faults = 0
      /\ JobOwned /\ StepsOK /\ FaultlessOK
  BY SpentStep DEF IInv, OwnershipOK, CalmOK
<1>a. /\ handler \in [Handler -> HandlerState] /\ state \in [Message -> DeliveryState]
      /\ job \in [Message -> JobState] /\ tries \in [Message -> Nat]
      /\ spent \in Spending
  BY DEF IInv, TypeOK
<1>b. /\ \A h \in Handler : Busy(h) => handler[h].m \in Message /\ Ingested(handler[h].m)
      /\ \A m \in Message : job[m] = "failed" => Ingested(m)
  BY DEF IInv, HandlersOK, HandlerOK, RowsOK, RowOK, Busy, at, Ingested
<1>1. ASSUME NEW m \in Message, Ingest(m) PROVE FaultlessOK'
  <2>1. \A h \in Handler : Busy(h) => handler[h].m # m
    BY <1>1, <1>b DEF Ingest, Ingested
  <2>2. /\ handler' = handler /\ job'[m] = "created"
        /\ \A n \in Message \ {m} : job'[n] = job[n] /\ SameRow(n)
    BY <1>1, <1>a DEF Ingest, SameRow
  <2> QED
    BY <1>0, <2>1, <2>2, <1>b
       DEF FaultlessOK, RunsLeft, ExhaustedIsHarmless, SameRow, Unsigned, Busy, at, Settled
<1>2. ASSUME NEW m \in Message, Expire(m) PROVE FALSE
  <2>1. Abandoned(m) /\ job[m] = "active"
    BY <1>0, <1>2, <1>a DEF Expire, Spending
  <2>2. PICK h \in Handler : Busy(h) /\ handler[h].m = m
    BY <1>0, <2>1 DEF FaultlessOK
  <2> QED
    BY <1>0, <2>1, <2>2 DEF Abandoned, JobOwned
<1>3. ASSUME NEW e \in Endpoint, NEW s \in Choice, Edit(e, s) PROVE FaultlessOK'
  <2>1. \A h \in Handler : /\ handler'[h].pc = handler[h].pc
                           /\ handler'[h].m = handler[h].m
                           /\ handler'[h].run = handler[h].run
    BY <1>3, <1>a DEF Edit, HandlerState
  <2>2. UNCHANGED <<state, signed, relay, job>>
    BY <1>3 DEF Edit, row
  <2>3. \A h \in Handler : handler'[h].ev = handler[h].ev
    BY <1>3, <1>a DEF Edit, HandlerState
  <2> QED
    BY <1>0, <2>1, <2>2, <2>3
       DEF FaultlessOK, RunsLeft, ExhaustedIsHarmless, Unsigned, Busy, at, Settled
<1>4. ASSUME NEW h \in Handler, NEW m \in Message, Fetch(h, m) PROVE FaultlessOK'
  <2>1. /\ handler'[h].pc = "read" /\ handler'[h].m = m /\ ~Busy(h)
        /\ \A g \in Handler \ {h} : handler'[g] = handler[g]
    BY <1>4, <1>a DEF Fetch, Idle, Busy
  <2>2. job' = [job EXCEPT ![m] = "active"] /\ UNCHANGED <<state, signed, relay>>
    BY <1>4 DEF Fetch, row
  <2>3. \A n \in Message : job'[n] = "active" => \E g \in Handler : Busy(g)' /\ handler'[g].m = n
    <3> SUFFICES ASSUME NEW n \in Message, job'[n] = "active"
                 PROVE  \E g \in Handler : Busy(g)' /\ handler'[g].m = n
      OBVIOUS
    <3>1. CASE n = m
      BY <2>1, <3>1 DEF Busy, at
    <3>2. CASE n # m
      <4>1. PICK g \in Handler : Busy(g) /\ handler[g].m = n
        BY <1>0, <1>a, <2>2, <3>2 DEF FaultlessOK
      <4> QED
        BY <2>1, <4>1 DEF Busy, at
    <3> QED
      BY <3>1, <3>2
  <2>4. \A g \in Handler : RunsLeft(g)'
    BY <1>0, <2>1, <2>2 DEF FaultlessOK, RunsLeft, Unsigned, at
  <2>5. ExhaustedIsHarmless'
    BY <1>0, <1>a, <2>2 DEF FaultlessOK, ExhaustedIsHarmless, Unsigned, Settled
  <2> QED
    BY <2>3, <2>4, <2>5 DEF FaultlessOK
<1>5. ASSUME NEW h \in Handler, Run(h), ~Report(h) PROVE FaultlessOK'
  <2> DEFINE m == handler[h].m
  <2>0. Busy(h) /\ Advances(h)
    BY <1>5, AdvanceStep
  <2>1. \A n \in Message : job'[n] = "active" => \E g \in Handler : Busy(g)' /\ handler'[g].m = n
    BY <1>0, <2>0 DEF FaultlessOK, Advances, Busy, at
  <2>2. ExhaustedIsHarmless'
    <3> SUFFICES ASSUME NEW n \in Message, job[n] = "failed" PROVE Settled(n)' \/ Unsigned(n)'
      BY <2>0 DEF ExhaustedIsHarmless, Advances
    <3>1. n # m
      BY <1>0, <2>0 DEF JobOwned
    <3>2. SameRow(n)
      BY <2>0, <3>1 DEF Advances
    <3> QED
      BY <1>0, <3>2 DEF FaultlessOK, ExhaustedIsHarmless, SameRow, Unsigned, Settled
  <2>3. handler'[h].pc = "rejected" => handler[h].run < RetryLimit \/ Unsigned(m)'
    <3>0. m \in Message
      BY <1>b, <2>0
    <3>1. CASE Read(h)
      <4>1. CASE \E s \in Step \ {"rejected"} : go(h, s)
        BY <1>a, <4>1 DEF go, HandlerState
      <4>2. CASE ~\E s \in Step \ {"rejected"} : go(h, s)
        BY <1>a, <3>1, <4>2 DEF Read, Step, HandlerState
      <4> QED
        BY <4>1, <4>2
    <3>6. CASE Mark(h)
      <4>1. CASE go(h, "resolved")
        BY <1>a, <4>1 DEF go, HandlerState
      <4>2. CASE ~go(h, "resolved") /\ handler[h].ev.stamp # NoEvent
        BY <1>a, <3>6, <4>2 DEF Mark, HandlerState
      <4>3. CASE ~go(h, "resolved") /\ handler[h].ev.stamp = NoEvent
        <5>1. signed[m] = NoProjection
          BY <1>0, <3>6, <4>3 DEF Mark, FaultlessOK, RunsLeft
        <5>3. relay[m] = {}
          <6>1. \A e \in relay[m] : e = signed[m] /\ e # NoProjection
            BY <3>0 DEF IInv, RowsOK, RowOK
          <6> QED
            BY <5>1, <6>1
        <5>4. state[m] \in {"queued", "retry", "delivering"}
          BY <3>6, <4>3 DEF Mark
        <5>2. state'[m] = "delivering" /\ signed' = signed /\ relay' = relay
          BY <1>a, <3>0, <3>6, <5>4 DEF Mark
        <5> QED
          BY <2>0, <5>1, <5>2, <5>3 DEF Unsigned, Advances
      <4> QED
        BY <4>1, <4>2, <4>3
    <3>2. CASE Persist(h)
      <4>1. state[m] = "delivering"
        BY <1>0, <3>2 DEF Persist, StepsOK, Marked, at
      <4>2. CASE go(h, "check")
        BY <1>a, <4>2 DEF go, HandlerState
      <4>3. CASE ~go(h, "check")
        BY <1>a, <3>2, <4>1, <4>3 DEF Persist, HandlerState
      <4> QED
        BY <4>2, <4>3
    <3>3. CASE Complete(h)
      <4>1. state[m] = "delivering" /\ signed[m] = handler[h].ev
        BY <1>0, <3>3 DEF Complete, StepsOK, Marked, at, IInv, HandlersOK, HandlerOK, Stored
      <4>2. go(h, "hint")
        BY <3>3, <4>1 DEF Complete
      <4> QED
        BY <1>a, <4>2 DEF go, HandlerState
    <3>4. CASE Postpone(h)
      <4>1. handler[h].run = tries[m] /\ tries[m] \in Nat /\ tries[m] <= RetryLimit
        BY <1>0, <1>a, <2>0, <3>0 DEF JobOwned, RetriesOK
      <4>2. CASE LastRun(h)
        BY <1>a, <3>4, <4>2 DEF Postpone, go, HandlerState
      <4>3. CASE ~LastRun(h)
        BY <4>1, <4>3, DeliveryAssumption DEF LastRun
      <4> QED
        BY <4>2, <4>3
    <3>5. CASE Check(h) \/ Cancel(h) \/ Publish(h) \/ Lookup(h) \/ ClaimHint(h) \/ Greet(h)
      <4>1. \E s \in Step \ {"rejected"} : go(h, s)
        BY <3>5 DEF Check, Cancel, Publish, Lookup, ClaimHint, Greet, Step
      <4> QED
        BY <1>a, <4>1 DEF go, HandlerState
    <3> QED
      BY <1>5, <3>1, <3>2, <3>3, <3>4, <3>5, <3>6 DEF Run
  <2>5. at(h, "mark")' /\ handler'[h].ev.stamp = NoEvent => signed'[m] = NoProjection
    <3>0. m \in Message /\ handler' \in [Handler -> HandlerState]
      BY <1>b, <2>0 DEF Advances
    <3>1. CASE Read(h)
      <4>1. CASE \E s \in Step \ {"mark"} : go(h, s)
        BY <1>a, <4>1 DEF go, HandlerState, at
      <4>2. CASE ~\E s \in Step \ {"mark"} : go(h, s)
        <5>1. /\ handler' = [handler EXCEPT ![h].pc = "mark",
                   ![h].ev = IF signed[m] # NoProjection THEN signed[m]
                             ELSE [stamp |-> NoEvent, re |-> LocalParent(m)]]
              /\ signed' = signed
          BY <3>1, <4>2 DEF Read, Step, row
        <5>2. signed[m] # NoProjection => handler'[h].ev = signed[m]
          BY <1>a, <5>1 DEF HandlerState
        <5>3. signed[m].stamp = NoEvent => signed[m] = NoProjection
          BY <3>0 DEF IInv, RowsOK, RowOK
        <5> QED
          BY <5>1, <5>2, <5>3
      <4> QED
        BY <4>1, <4>2
    <3>2. CASE ~Read(h)
      <4>1. CASE \E s \in Step \ {"mark"} : go(h, s)
        BY <1>a, <4>1 DEF go, HandlerState, at
      <4>2. CASE ~\E s \in Step \ {"mark"} : go(h, s)
        <5>1. Mark(h) \/ Persist(h)
          BY <1>5, <3>2, <4>2 DEF Run, Check, Cancel, Publish, Lookup, Postpone, Complete,
                                  ClaimHint, Greet, Step
        <5>2. CASE Mark(h)
          BY <1>a, <4>2, <5>2 DEF Mark, Step, HandlerState, at
        <5>3. CASE Persist(h)
          BY <1>a, <4>2, <5>3 DEF Persist, Step, HandlerState, at
        <5> QED
          BY <5>1, <5>2, <5>3
      <4> QED
        BY <4>1, <4>2
    <3> QED
      BY <3>1, <3>2
  <2>6. ASSUME NEW g \in Handler, g # h PROVE RunsLeft(g)'
    <3>1. handler'[g] = handler[g]
      BY <2>0, <2>6 DEF Advances
    <3>2. CASE Busy(g)
      <4>1. handler[g].m \in Message \ {m}
        BY <1>0, <1>b, <2>0, <2>6, <3>2 DEF JobOwned
      <4>2. SameRow(handler[g].m)
        BY <2>0, <4>1 DEF Advances
      <4> QED
        BY <1>0, <3>1, <4>2 DEF FaultlessOK, RunsLeft, SameRow, Unsigned, at
    <3>3. CASE ~Busy(g)
      BY <3>1, <3>3 DEF Busy, RunsLeft, at
    <3> QED
      BY <3>2, <3>3
  <2>4. \A g \in Handler : RunsLeft(g)'
    BY <2>0, <2>3, <2>5, <2>6 DEF RunsLeft, Advances, at
  <2> QED
    BY <2>1, <2>2, <2>4 DEF FaultlessOK
<1>6. ASSUME NEW h \in Handler, Report(h) PROVE FaultlessOK'
  <2> DEFINE m == handler[h].m
  <2>1. /\ Busy(h) /\ ~Busy(h)' /\ ~at(h, "rejected")'
        /\ \A g \in Handler \ {h} : handler'[g] = handler[g]
    BY <1>6, <1>a DEF Report, Busy, at, Idle
  <2>2. /\ m \in Message /\ job[m] = "active" /\ tries[m] = handler[h].run
        /\ at(h, "rejected") => handler[h].run < RetryLimit \/ Unsigned(m)
    BY <1>0, <1>b, <2>1 DEF JobOwned, FaultlessOK, RunsLeft
  <2>3. /\ job'[m] \in {"completed", "retry"} \/ (job'[m] = "failed" /\ Unsigned(m))
        /\ UNCHANGED <<state, signed, relay>>
        /\ \A n \in Message \ {m} : job'[n] = job[n]
    BY <1>6, <1>a, <2>2 DEF Report, Outcome, row
  <2>4. \A n \in Message : job'[n] = "active" => \E g \in Handler : Busy(g)' /\ handler'[g].m = n
    <3> SUFFICES ASSUME NEW n \in Message, job'[n] = "active"
                 PROVE  \E g \in Handler : Busy(g)' /\ handler'[g].m = n
      OBVIOUS
    <3>1. n # m /\ job[n] = "active"
      BY <2>3
    <3>2. PICK g \in Handler : Busy(g) /\ handler[g].m = n
      BY <1>0, <3>1 DEF FaultlessOK
    <3> QED
      BY <2>1, <3>1, <3>2 DEF Busy, at
  <2>5. \A g \in Handler : RunsLeft(g)'
    BY <1>0, <2>1, <2>3 DEF FaultlessOK, RunsLeft, Unsigned, Busy, at
  <2>6. ExhaustedIsHarmless'
    BY <1>0, <2>3 DEF FaultlessOK, ExhaustedIsHarmless, Unsigned, Settled
  <2> QED
    BY <2>4, <2>5, <2>6 DEF FaultlessOK
<1>7. ASSUME NEW h \in Handler, QueryFails(h) PROVE FALSE
  BY <1>0, <1>7, <1>a DEF QueryFails, Spending
<1>8. CASE Crash
  BY <1>0, <1>8, <1>a DEF Crash, Spending
<1>9. CASE UNCHANGED vars
  BY <1>0, <1>9
     DEF vars, row, FaultlessOK, RunsLeft, ExhaustedIsHarmless, Unsigned, Busy, at, Settled
<1> QED
  BY <1>1, <1>2, <1>3, <1>4, <1>5, <1>6, <1>7, <1>8, <1>9 DEF Next

(* Without edits nobody finds a reason to cancel. *)
LEMMA QuietStep ==
  ASSUME IInv, IInv', OwnershipOK, QuietOK, [Next]_vars
  PROVE  QuietOK'
<1> SUFFICES ASSUME spent'.overruns = 0, spent'.edits = 0 PROVE UneditedOK'
  BY DEF QuietOK
<1>0. /\ spent.overruns = 0 /\ spent.edits = 0 /\ StepsOK /\ UneditedOK
  BY SpentStep DEF IInv, OwnershipOK, QuietOK
<1>a. /\ handler \in [Handler -> HandlerState] /\ state \in [Message -> DeliveryState]
      /\ spent \in Spending
  BY DEF IInv, TypeOK
<1>b. \A h \in Handler : Busy(h) => handler[h].m \in Message
  BY DEF IInv, HandlersOK, HandlerOK, Busy, at
<1>1. settings' = settings
  <2>1. ASSUME NEW e \in Endpoint, NEW s \in Choice, Edit(e, s) PROVE FALSE
    BY <1>0, <1>a, <2>1 DEF Edit, Spending
  <2> QED
    BY <2>1 DEF Next, Ingest, Expire, Fetch, Run, Read, Mark, Persist, Check, Cancel,
       Publish, Lookup, Postpone, Complete, ClaimHint, Greet, Report, QueryFails,
       Crash, vars
<1>2. \A m \in Message : RouteActive(m)'
  BY <1>0, <1>1 DEF UneditedOK, RouteActive, RouteUnder
<1>3. \A h \in Handler : ~at(h, "cancel")'
  <2> SUFFICES ASSUME NEW h \in Handler PROVE handler'[h].pc # "cancel"
    BY DEF at
  <2>0. handler[h].pc # "cancel"
    BY <1>0 DEF UneditedOK, at
  <2>1. CASE handler'[h] = handler[h]
    BY <2>0, <2>1
  <2>2. ASSUME Run(h) \/ QueryFails(h), ~Report(h) PROVE handler'[h].pc # "cancel"
    <3> DEFINE m == handler[h].m
    <3>0. m \in Message /\ RouteActive(m)
      BY <1>0, <1>b, <2>2, AdvanceStep DEF UneditedOK
    <3>1. CASE \E s \in Step \ {"cancel"} : go(h, s)
      BY <1>a, <3>1 DEF go, HandlerState
    <3>2. CASE ~\E s \in Step \ {"cancel"} : go(h, s)
      <4>1. CASE Read(h)
        BY <1>a, <3>0, <3>2, <4>1 DEF Read, Step, HandlerState
      <4>2. CASE Mark(h)
        BY <1>a, <3>2, <4>2 DEF Mark, Step, HandlerState
      <4>3. CASE Persist(h)
        BY <1>a, <3>2, <4>3 DEF Persist, Step, HandlerState
      <4>4. CASE Check(h)
        <5>1. state[m] = "delivering"
          BY <1>0, <4>4 DEF Check, StepsOK, Marked, at
        <5> QED
          BY <3>0, <3>2, <4>4, <5>1 DEF Check, Step
      <4> QED
        BY <2>2, <3>2, <4>1, <4>2, <4>3, <4>4
           DEF Run, Cancel, Publish, Lookup, Postpone, Complete, ClaimHint, Greet,
               QueryFails, Step
    <3> QED
      BY <3>1, <3>2
  <2>3. ASSUME NEW g \in Handler, g # h, Run(g) \/ QueryFails(g), ~Report(g)
        PROVE  handler'[h] = handler[h]
    BY <2>3, AdvanceStep DEF Advances
  <2>4. ASSUME NEW g \in Handler, Report(g) PROVE handler'[h].pc # "cancel"
    BY <1>a, <2>0, <2>4 DEF Report, Idle
  <2>5. ASSUME NEW g \in Handler, NEW m \in Message, Fetch(g, m)
        PROVE  handler'[h].pc # "cancel"
    BY <1>a, <2>0, <2>5 DEF Fetch, Idle
  <2>6. ASSUME NEW e \in Endpoint, NEW s \in Choice, Edit(e, s) PROVE handler'[h].pc # "cancel"
    BY <1>a, <2>0, <2>6 DEF Edit, HandlerState
  <2>7. CASE Crash
    BY <2>7 DEF Crash, Idle
  <2>8. ASSUME NEW m \in Message, Ingest(m) \/ Expire(m) PROVE handler'[h] = handler[h]
    BY <2>8 DEF Ingest, Expire
  <2> QED
    BY <2>1, <2>2, <2>3, <2>4, <2>5, <2>6, <2>7, <2>8 DEF Next, Run, vars
<1>4. \A m \in Message : state'[m] # "cancelled"
  <2> SUFFICES ASSUME NEW m \in Message PROVE state'[m] # "cancelled"
    OBVIOUS
  <2>0. state[m] # "cancelled"
    BY <1>0 DEF UneditedOK
  <2>1. CASE state'[m] = state[m]
    BY <2>0, <2>1
  <2>2. ASSUME NEW n \in Message, Ingest(n) PROVE state'[m] # "cancelled"
    BY <1>a, <2>0, <2>2 DEF Ingest
  <2>3. ASSUME NEW h \in Handler, Mark(h) \/ Postpone(h) \/ Complete(h)
        PROVE  state'[m] # "cancelled"
    BY <1>a, <2>0, <2>3 DEF Mark, Postpone, Complete
  <2>4. ASSUME NEW h \in Handler, Cancel(h) PROVE FALSE
    BY <1>0, <2>4 DEF Cancel, UneditedOK
  <2> QED
    BY <2>1, <2>2, <2>3, <2>4
       DEF Next, Expire, Edit, Fetch, Run, Read, Persist, Check, Publish, Lookup,
           ClaimHint, Greet, Report, QueryFails, Crash, row, vars
<1> QED
  BY <1>2, <1>3, <1>4 DEF UneditedOK

(* The invariant of behaviours whose handlers keep to their jobs. *)
THEOREM OwnershipInvariance == Spec => []OwnInv
<1>1. Init => OwnInv
  <2> SUFFICES ASSUME Init PROVE OwnInv
    OBVIOUS
  <2>1. RetriesOK
    BY DeliveryAssumption DEF Init, RetriesOK
  <2>2. \A h \in Handler : ~Busy(h) /\ ~at(h, "cancel") /\ ~at(h, "rejected")
    BY DEF Init, Busy, at, Idle
  <2>3. JobOwned /\ StepsOK /\ CompletedIsSettled
    BY <2>2 DEF Init, JobOwned, StepsOK, CompletedIsSettled, Busy, at, Marked, Done
  <2>4. FaultlessOK
    BY <2>2 DEF Init, FaultlessOK, RunsLeft, ExhaustedIsHarmless, Idle, at
  <2>5. UneditedOK
    BY <2>2, DeliveryAssumption DEF Init, UneditedOK, RouteActive, RouteUnder
  <2> QED
    BY <2>1, <2>3, <2>4, <2>5 DEF OwnInv, OwnershipOK, CalmOK, QuietOK
<1>2. IInv /\ IInv' /\ OwnInv /\ [Next]_vars => OwnInv'
  BY RetriesStep, OwnershipStep, CalmStep, QuietStep DEF OwnInv
<1> QED
  BY <1>1, <1>2, Invariance, PTL DEF Spec

(* As long as no handler outlives the 60 seconds of its job, a job that     *)
(* pg-boss counts as done has settled its delivery (deliver returns only    *)
(* when the row is terminal), whatever crashes, fails or is edited.         *)
THEOREM CompletedSettled == Spec => [](spent.overruns = 0 => CompletedIsSettled)
<1>1. OwnInv => (spent.overruns = 0 => CompletedIsSettled)
  BY DEF OwnInv, OwnershipOK
<1> QED
  BY <1>1, OwnershipInvariance, PTL

(* Where no worker dies and no query fails either, a job that is out of     *)
(* retries has left its delivery settled (the last run of                   *)
(* markBridgeDeliveryRetry) or, when signing threw on that run because the  *)
(* session was closed under it (createDestinationProjection), without an    *)
(* event: what is given up unsettled was never published.  The run          *)
(* "exhausted" shows that it may be left unsettled.                         *)
THEOREM ExhaustedUnsent ==
  Spec => [](spent.overruns = 0 /\ spent.faults = 0 => ExhaustedIsHarmless)
<1>1. OwnInv => (spent.overruns = 0 /\ spent.faults = 0 => ExhaustedIsHarmless)
  BY DEF OwnInv, CalmOK, FaultlessOK
<1> QED
  BY <1>1, OwnershipInvariance, PTL

(* Without overruns a delivery is cancelled only after an owner edited a    *)
(* route (cancelBridgeDelivery, isBridgeDeliveryRouteActive): the finding   *)
(* of the run "overlap" needs a handler that outlives its job.              *)
THEOREM CancelledForItsRoute == Spec => [](spent.overruns = 0 => CancelledOnlyWhenInactive)
<1>1. OwnInv => (spent.overruns = 0 => CancelledOnlyWhenInactive)
  BY DEF OwnInv, QuietOK, UneditedOK, CancelledOnlyWhenInactive
<1> QED
  BY <1>1, OwnershipInvariance, PTL
-----------------------------------------------------------------------------
(* A handler step that leaves row states and relays alone is a stutter.     *)
LEMMA StatusSame ==
  ASSUME \A m \in Message : \/ state'[m] = state[m]
                            \/ {state[m], state'[m]} \subseteq
                                 {"queued", "delivering", "retry", "failed"}
  PROVE  UNCHANGED Status
BY DEF Status

(* Refinement: the initial state is one of BridgePromise, and every step of *)
(* the delivery path is a step of BridgePromise or changes nothing there.   *)
THEOREM DeliveryImplementsPromise == Spec => ImplementsPromise
<1>1. Init => Promise!Init
  <2> SUFFICES ASSUME Init PROVE Promise!Init
    OBVIOUS
  <2>1. \A m \in Message : Status[m] = "absent" /\ Wall[m] = "nothing"
    BY DEF Init, Status, Wall
  <2> QED
    BY <2>1 DEF Promise!Init, Status, Wall
<1>2. IInv /\ [Next]_vars /\ IInv' => [Promise!Next]_(Promise!promise)
  <2> SUFFICES ASSUME IInv, IInv', [Next]_vars
               PROVE  Promise!Next \/ UNCHANGED <<Status, Wall>>
    BY DEF Promise!promise
  <2> DEFINE Shows(m) == IF relay[m] = {} THEN "nothing" ELSE "one post"
  <2>a. Wall = [m \in Message |-> Shows(m)]
    <3>1. \A m \in Message : relay[m] = {} \/ relay[m] = {signed[m]}
      BY DEF IInv, RowsOK, RowOK
    <3> QED
      BY <3>1 DEF Wall
  <2>b. Wall' = [m \in Message |-> Shows(m)']
    <3>1. \A m \in Message : relay'[m] = {} \/ relay'[m] = {signed'[m]}
      BY DEF IInv, RowsOK, RowOK
    <3> QED
      BY <3>1 DEF Wall
  <2>c. \A h \in Handler : handler[h].pc # "idle" =>
          handler[h].m \in Message /\ state[handler[h].m] # "absent"
    BY DEF IInv, HandlersOK, HandlerOK, Ingested
  <2>d. state \in [Message -> DeliveryState] /\ relay \in [Message -> SUBSET Projection]
    BY DEF IInv, TypeOK
  <2>e. UNCHANGED relay => UNCHANGED Wall
    BY DEF Wall
  <2> HIDE DEF Shows
  <2>1. ASSUME NEW m \in Message, Ingest(m) PROVE Promise!Accept(m)
    <3>1. Status[m] = "absent" /\ Status' = [Status EXCEPT ![m] = "pending"]
      BY <2>1, <2>d DEF Ingest, Status
    <3> QED
      BY <2>1, <2>e, <3>1 DEF Ingest, Promise!Accept
  <2>2. ASSUME NEW m \in Message, Expire(m) PROVE UNCHANGED <<Status, Wall>>
    BY <2>2, <2>e, StatusSame DEF Expire, row
  <2>3. ASSUME NEW e \in Endpoint, NEW s \in Choice, Edit(e, s)
        PROVE  UNCHANGED <<Status, Wall>>
    BY <2>3, <2>e, StatusSame DEF Edit, row
  <2>4. ASSUME NEW h \in Handler, NEW m \in Message, Fetch(h, m)
        PROVE  UNCHANGED <<Status, Wall>>
    BY <2>4, <2>e, StatusSame DEF Fetch, row
  <2>5. ASSUME NEW h \in Handler, Run(h)
        PROVE  Promise!Next \/ UNCHANGED <<Status, Wall>>
    <3> DEFINE m == handler[h].m
    <3>1. CASE Read(h) \/ Persist(h) \/ Check(h) \/ Lookup(h) \/ ClaimHint(h)
               \/ Greet(h) \/ Report(h)
      BY <2>e, <3>1, StatusSame
         DEF Read, Persist, Check, Lookup, ClaimHint, Greet, Report, row
    <3>2. CASE Mark(h)
      BY <2>d, <2>e, <3>2, StatusSame DEF Mark
    <3>3. CASE Postpone(h)
      <4>1. at(h, "postpone") /\ state[m] # "absent"
        BY <2>c, <3>3 DEF Postpone, at
      <4>2. \A n \in Message : \/ state'[n] = state[n]
                               \/ {state[n], state'[n]} \subseteq
                                    {"queued", "delivering", "retry", "failed"}
        BY <2>d, <3>3, <4>1 DEF Postpone, DeliveryState
      <4> QED
        BY <2>e, <3>3, <4>2, StatusSame DEF Postpone
    <3>4. CASE Cancel(h)
      <4>1. m \in Message /\ state[m] # "absent" /\ UNCHANGED Wall
        BY <2>c, <2>e, <3>4 DEF Cancel, at
      <4>2. CASE state[m] \in {"delivered_to_relay", "cancelled"}
        BY <2>d, <3>4, <4>1, <4>2, StatusSame DEF Cancel
      <4>3. CASE state[m] \notin {"delivered_to_relay", "cancelled"}
        <5>1. Status[m] = "pending" /\ Status' = [Status EXCEPT ![m] = "dropped"]
          BY <2>d, <3>4, <4>1, <4>3 DEF Cancel, Status
        <5> QED
          BY <4>1, <5>1 DEF Promise!Next, Promise!Drop
      <4> QED
        BY <4>2, <4>3
    <3>5. CASE Complete(h)
      <4>1. /\ m \in Message /\ state[m] # "absent" /\ UNCHANGED Wall
            /\ relay[m] # {}
        BY <2>c, <2>e, <3>5 DEF Complete, at, IInv, HandlersOK, HandlerOK
      <4>2. CASE state' = state
        BY <4>1, <4>2, StatusSame
      <4>3. CASE state' # state
        <5>1. /\ state' = [state EXCEPT ![m] = "delivered_to_relay"]
              /\ state[m] \notin {"cancelled", "delivered_to_relay"}
          BY <2>d, <3>5, <4>1, <4>3 DEF Complete
        <5>2. /\ Status[m] = "pending"
              /\ Status' = [Status EXCEPT ![m] = "delivered"]
          BY <2>d, <4>1, <5>1 DEF Status
        <5>3. Wall[m] = "one post"
          BY <2>a, <4>1 DEF Shows
        <5> QED
          BY <4>1, <5>2, <5>3 DEF Promise!Next, Promise!Confirm
      <4> QED
        BY <4>2, <4>3
    <3>6. CASE Publish(h)
      <4>1. /\ m \in Message /\ state[m] # "absent"
            /\ handler[h].ev = signed[m] /\ signed[m] # NoProjection
            /\ UNCHANGED Status
        BY <2>c, <3>6, StatusSame
           DEF Publish, at, row, IInv, HandlersOK, HandlerOK, Stored
      <4>2. CASE relay' = relay
        BY <2>e, <4>1, <4>2
      <4>3. CASE relay' = [relay EXCEPT ![m] = @ \cup {signed[m]}] /\ relay[m] # {}
        <5>1. \A n \in Message : Shows(n)' = Shows(n)
          BY <2>d, <4>1, <4>3 DEF Shows
        <5> QED
          BY <2>a, <2>b, <4>1, <5>1
      <4>4. CASE relay' = [relay EXCEPT ![m] = @ \cup {signed[m]}] /\ relay[m] = {}
        <5>1. Wall[m] = "nothing" /\ Wall' = [Wall EXCEPT ![m] = "one post"]
          BY <2>a, <2>b, <2>d, <4>1, <4>4 DEF Shows
        <5>2. Status[m] # "absent"
          BY <2>d, <4>1 DEF Status, DeliveryState
        <5>3. ASSUME NEW p \in ParentPost[m] PROVE Wall[p] = "one post"
          <6>1. p \in Message /\ p = Parent[m] /\ Target[p] = Target[m]
            BY <4>1, <5>3 DEF ParentPost
          <6>2. Threaded(m, signed[m].re) /\ Parent[m] # NoMessage
            BY <4>1, <6>1, DeliveryAssumption DEF IInv, ThreadsOK
          <6>3. relay[p] # {}
            BY <6>1, <6>2, DeliveryAssumption DEF Threaded, IsReply
          <6> QED
            BY <2>a, <6>1, <6>3 DEF Shows
        <5> QED
          BY <4>1, <5>1, <5>2, <5>3 DEF Promise!Next, Promise!Show
      <4> QED
        BY <3>6, <4>1, <4>2, <4>3, <4>4 DEF Publish
    <3> QED
      BY <2>5, <3>1, <3>2, <3>3, <3>4, <3>5, <3>6 DEF Run
  <2>6. ASSUME NEW h \in Handler, QueryFails(h) PROVE UNCHANGED <<Status, Wall>>
    BY <2>6, <2>e, StatusSame DEF QueryFails, row
  <2>7. CASE Crash
    BY <2>7, <2>e, StatusSame DEF Crash, row
  <2>8. CASE UNCHANGED vars
    BY <2>8, <2>e, StatusSame DEF vars
  <2> QED
    BY <2>1, <2>2, <2>3, <2>4, <2>5, <2>6, <2>7, <2>8 DEF Next, Promise!Next
<1> QED
  BY <1>1, <1>2, Invariance, PTL DEF Spec, ImplementsPromise, Promise!Spec
=============================================================================
