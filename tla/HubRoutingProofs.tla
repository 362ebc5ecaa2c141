-------------------------- MODULE HubRoutingProofs --------------------------
(***************************************************************************)
(* Proofs about HubRouting, for any set of communities, any events with    *)
(* any reply structure, any number of handlers, any settings and any of    *)
(* the exploration bounds.                                                 *)
(*                                                                         *)
(* The inductive invariant IInv adds to the properties what their steps    *)
(* rely on: a direct channel never filters (OpenDirect), a bound direct    *)
(* channel is nobody's inbox (BoundElsewhere), and a handler on its way to *)
(* ingest a message from an inbox still has the community that the message *)
(* names, one at work on a command a verb that leads there (ToNamed).      *)
(* OnceInv, further down, counts the answers and the rows of an event      *)
(* against the endpoints that claimed it.                                  *)
(***************************************************************************)
EXTENDS HubRouting, FiniteSetTheorems, TLAPS

OpenDirect == \A s \in Slot : Direct(s) => endpoint[s].set.peers = Community

BoundElsewhere ==
  \A s \in Slot : Direct(s) /\ endpoint[s].bound => inboxAt[s[1]] # s

OwnInbox == \A c \in Community : inboxAt[c][1] = c

ToNamed ==
  \A h \in Reader :
    /\ reader[h].pc # "idle" => reader[h].ev \in Event
    /\ reader[h].pc = "claim" => Verb[reader[h].ev] # "message"
    /\ reader[h].pc = "peer" => Verb[reader[h].ev] \in {"open", "close"}
    /\ reader[h].pc \in {"make", "attach", "reopen"} =>
         Verb[reader[h].ev] = "open" /\ reader[h].to # reader[h].src[1]
    /\ reader[h].pc \in {"resolve", "ingest"} /\ ~Direct(reader[h].src) =>
         reader[h].to = To[reader[h].ev]

PassOK ==
  /\ Home \notin provisioner.todo
  /\ provisioner.pc = "attach" => provisioner.peer # Home

IInv == /\ TypeOK /\ PassOK
        /\ OpenDirect /\ BoundElsewhere /\ OwnInbox
        /\ ToNamed /\ DirectStaysPrivate
-----------------------------------------------------------------------------
(* The parts of an endpoint's name, and the names that are endpoints. *)
LEMMA SlotParts ==
  /\ \A s \in Slot : /\ s = <<s[1], s[2]>> /\ s[1] \in Community
                     /\ s[2] \in Community \cup {Inbox}
  /\ \A c \in Community : InboxOf(c) \in Slot /\ ~Direct(InboxOf(c)) /\ InboxOf(c)[1] = c
  /\ \A s \in Slot : ~Direct(s) => s = InboxOf(s[1])
<1>1. ASSUME NEW s \in Slot
      PROVE  /\ s = <<s[1], s[2]>> /\ s[1] \in Community
             /\ s[2] \in Community \cup {Inbox}
  BY DEF Slot
<1>2. ASSUME NEW c \in Community
      PROVE  InboxOf(c) \in Slot /\ ~Direct(InboxOf(c)) /\ InboxOf(c)[1] = c
  BY RoutingAssumption DEF Slot, InboxOf, Direct
<1>3. ASSUME NEW s \in Slot, ~Direct(s) PROVE s = InboxOf(s[1])
  BY <1>1, <1>3 DEF InboxOf, Direct
<1> QED
  BY <1>1, <1>2, <1>3

(* The constant records have their types. *)
LEMMA ConstantTypes ==
  /\ Absent \in Endpoint /\ Opened \in Endpoint
  /\ Absent.set.peers = Community /\ Opened.set.peers = Community
  /\ Resting \in ReaderState /\ Resting.pc = "idle" /\ Waiting \in ProvisionerState
<1>1. OpenToAll \in Settings /\ OpenToAll.peers = Community
  BY DEF OpenToAll, Settings
<1>2. Absent \in Endpoint /\ Opened \in Endpoint
  BY <1>1 DEF Absent, Opened, Endpoint
<1>3. Resting \in ReaderState /\ Waiting \in ProvisionerState
  BY SlotParts, RoutingAssumption DEF Resting, Waiting, ReaderState, ProvisionerState, Pc
<1> QED
  BY <1>1, <1>2, <1>3 DEF Absent, Opened, Resting

(* A handler that continues, or rests, stays well typed. *)
LEMMA MoveType ==
  ASSUME TypeOK, NEW h \in Reader, NEW s \in Pc, move(h, s) \/ rest(h)
  PROVE  reader' \in [Reader -> ReaderState]
<1>1. [reader[h] EXCEPT !.pc = s] \in ReaderState
  BY DEF TypeOK, ReaderState
<1>2. CASE move(h, s)
  <2>1. reader' = [reader EXCEPT ![h] = [reader[h] EXCEPT !.pc = s]]
    BY <1>2 DEF move
  <2> QED
    BY <1>1, <2>1 DEF TypeOK
<1>3. CASE rest(h)
  BY <1>3, ConstantTypes DEF rest, TypeOK
<1> QED
  BY <1>2, <1>3

(* Switching an endpoint changes its two switches and nothing else.        *)
LEMMA SwitchType ==
  ASSUME TypeOK, NEW s, NEW b \in BOOLEAN, Switch(s, b)
  PROVE  /\ endpoint' \in [Slot -> Endpoint]
         /\ \A t \in Slot : /\ endpoint'[t].bound = endpoint[t].bound
                            /\ endpoint'[t].set.peers = endpoint[t].set.peers
                            /\ t # s => endpoint'[t] = endpoint[t]
<1> DEFINE new(t) == [endpoint[t] EXCEPT !.set = [@ EXCEPT !.sends = b, !.receives = b]]
<1>1. ASSUME NEW t \in Slot
      PROVE  /\ new(t) \in Endpoint /\ new(t).bound = endpoint[t].bound
             /\ new(t).set.peers = endpoint[t].set.peers
  <2>1. endpoint[t] \in Endpoint
    BY DEF TypeOK
  <2> QED
    BY <2>1 DEF Endpoint, Settings
<1>2. \A t \in Slot : endpoint[t] \in Endpoint
  BY DEF TypeOK
<1>3. endpoint' = [t \in Slot |-> IF t = s /\ endpoint[t].bound THEN new(t) ELSE endpoint[t]]
  BY DEF Switch
<1> HIDE DEF new
<1> QED
  BY <1>1, <1>2, <1>3

(* Binding an endpoint that had none.                                      *)
LEMMA BindType ==
  ASSUME TypeOK, NEW s, endpoint' = [endpoint EXCEPT ![s] = Opened]
  PROVE  endpoint' \in [Slot -> Endpoint]
BY ConstantTypes DEF TypeOK

(* What the destination query returns, by its clauses.                     *)
LEMMA DestinationFacts ==
  ASSUME NEW s \in Slot, NEW c \in Community, NEW t \in Destinations(s, c)
  PROVE  /\ t \in Slot /\ t[1] = c
         /\ ServesPeer(t, s[1]) /\ ServesPeer(s, t[1])
BY DEF Destinations

(* The rows of one ingest.                                                 *)
LEMMA IngestedRows ==
  ASSUME NEW h \in Reader, Ingest(h), NEW q \in rows'
  PROVE  \/ q \in rows
         \/ \E t \in Destinations(reader[h].src, reader[h].to) :
              q = [ev |-> reader[h].ev, src |-> reader[h].src, dst |-> t,
                   status |-> "routed"]
<1> DEFINE D == Destinations(reader[h].src, reader[h].to)
           new(t) == [ev |-> reader[h].ev, src |-> reader[h].src, dst |-> t,
                      status |-> "routed"]
<1>1. rows' = rows \/ rows' = rows \cup {new(t) : t \in D}
  BY DEF Ingest
<1> HIDE DEF D, new
<1>2. q \in rows \/ \E t \in D : q = new(t)
  BY <1>1
<1> QED
  BY <1>2 DEF D, new

(* One more fault stays within its bound.                                  *)
LEMMA FaultSpent ==
  ASSUME spent \in Spending, spent.faults < MaxFaults,
         spent' = [spent EXCEPT !.faults = @ + 1]
  PROVE  spent' \in Spending
<1>1. spent.faults \in 0..MaxFaults
  BY DEF Spending
<1>2. spent.faults + 1 \in 0..MaxFaults
  <2>1. MaxFaults \in Nat
    BY RoutingAssumption
  <2> QED
    BY <1>1, <2>1
<1> QED
  BY <1>2 DEF Spending
-----------------------------------------------------------------------------
(* Every step of the system leads from well-typed states to well-typed ones. *)
LEMMA TypeStep == TypeOK /\ ToNamed /\ PassOK /\ [Next]_vars => TypeOK'
<1> SUFFICES ASSUME TypeOK, ToNamed, PassOK, [Next]_vars PROVE TypeOK'
  OBVIOUS
<1>1. ASSUME NEW c \in Community, Join(c) PROVE TypeOK'
  BY <1>1, ConstantTypes DEF TypeOK, Join, queue
<1>2. ASSUME NEW c \in Community, Reconcile(c) PROVE TypeOK'
  <2>1. Routes(c) \subseteq Slot \X Channel
    <3>1. ASSUME NEW s \in Slot PROVE ChannelOf(s) \in Channel
      BY SlotParts DEF ChannelOf, TypeOK, Channel
    <3> QED
      <4>1. ASSUME NEW r \in Routes(c) PROVE r \in Slot \X Channel
        <5>1. PICK s \in Slot : r = <<s, ChannelOf(s)>>
          BY <4>1 DEF Routes
        <5> QED
          BY <3>1, <5>1
      <4> QED
        BY <4>1
  <2> QED
    BY <1>2, <2>1 DEF TypeOK, Reconcile, hub, queue
<1>3. ASSUME NEW c \in Community, NEW set \in Choice, NEW ch \in Channel, Edit(c, set, ch)
      PROVE TypeOK'
  <2>1. endpoint' \in [Slot -> Endpoint]
    <3>1. endpoint[InboxOf(c)] \in Endpoint /\ set \in Settings
      BY SlotParts, RoutingAssumption DEF TypeOK
    <3>2. [endpoint[InboxOf(c)] EXCEPT !.set = set] \in Endpoint
      BY <3>1 DEF Endpoint
    <3>3. endpoint' = [endpoint EXCEPT ![InboxOf(c)] = [endpoint[InboxOf(c)] EXCEPT !.set = set]]
      BY <1>3 DEF Edit
    <3> QED
      BY <3>2, <3>3 DEF TypeOK
  <2>2. spent' \in Spending
    <3>1. spent \in Spending /\ spent.edits < MaxEdits
      BY <1>3 DEF Edit, TypeOK
    <3>2. spent.edits \in Nat /\ spent.edits + 1 \in 0..MaxEdits
      <4>1. spent.edits \in 0..MaxEdits
        BY <3>1 DEF Spending
      <4> QED
        <5>1. MaxEdits \in Nat
          BY RoutingAssumption
        <5> QED
          BY <3>1, <4>1, <5>1
    <3>3. spent' = [spent EXCEPT !.edits = spent.edits + 1]
      BY <1>3 DEF Edit
    <3> QED
      BY <3>1, <3>2, <3>3 DEF Spending
  <2> QED
    BY <1>3, <2>1, <2>2 DEF TypeOK, Edit, queue
<1>4. ASSUME NEW e \in Event, NEW ch \in Channel, Type(e, ch) PROVE TypeOK'
  BY <1>4 DEF TypeOK, Type, hub, queue
<1>5. ASSUME NEW h \in Reader, NEW e \in Event, See(h, e) PROVE TypeOK'
  <2>1. PICK route \in session[From[e]] :
          reader' = [reader EXCEPT ![h] =
            [pc |-> CASE Verb[e] # "message" -> "claim"
                      [] Direct(route[1])    -> "ingest"
                      [] OTHER               -> "resolve",
             ev |-> e, src |-> route[1],
             to |-> IF Direct(route[1]) /\ Verb[e] \in {"message", "close here"}
                    THEN route[1][2] ELSE To[e]]]
    BY <1>5 DEF See
  <2>2. route[1] \in Slot
    <3>1. From[e] \in Community /\ session[From[e]] \subseteq Slot \X Channel
      BY RoutingAssumption DEF TypeOK
    <3>2. route \in Slot \X Channel
      BY <3>1
    <3> QED
      BY <3>2
  <2>3. Direct(route[1]) => route[1][2] \in Community
    BY <2>2, SlotParts DEF Direct
  <2>4. reader' \in [Reader -> ReaderState]
    BY <2>1, <2>2, <2>3, RoutingAssumption DEF TypeOK, ReaderState, Pc
  <2> QED
    BY <1>5, <2>4 DEF TypeOK, See, hub, queue
<1>6. ASSUME NEW h \in Reader, Read(h) PROVE TypeOK'
  <2>0. reader[h] \in ReaderState /\ \A s \in Pc : move(h, s) \/ rest(h) => reader' \in [Reader -> ReaderState]
    BY MoveType DEF TypeOK
  <2>a. reader[h].src \in Slot /\ reader[h].to \in Community
    BY <2>0 DEF ReaderState
  <2>b. \A s \in {"ingest", "bounce", "notify", "peer", "unbind", "make", "attach", "reopen", "idle"} : s \in Pc
    BY DEF Pc
  <2>1. CASE Resolve(h)
    BY <2>0, <2>b, <2>1 DEF TypeOK, Resolve, hub, queue
  <2>2. CASE Ingest(h)
    <3>1. reader' \in [Reader -> ReaderState]
      BY <2>0, <2>b, <2>2 DEF Ingest
    <3>2. reader[h].ev \in Event
      BY <2>2 DEF Ingest, doing, ToNamed
    <3>3. \A t \in Destinations(reader[h].src, reader[h].to) :
            [ev |-> reader[h].ev, src |-> reader[h].src, dst |-> t,
             status |-> "routed"] \in Row
      BY <2>a, <3>2, DestinationFacts DEF Row, RowStatus
    <3>4. rows' \subseteq Row
      <4>1. rows \subseteq Row
        BY DEF TypeOK
      <4>2. ASSUME NEW q \in rows' PROVE q \in Row
        BY <3>3, <4>1, <4>2, <2>2, IngestedRows
      <4> QED
        BY <4>2
    <3> QED
      BY <2>2, <3>1, <3>4 DEF TypeOK, Ingest, hub
  <2>3. CASE Bounce(h)
    <3>1. reader[h].ev \in Event
      BY <2>3 DEF Bounce, doing, ToNamed
    <3>2. reader' \in [Reader -> ReaderState]
      BY <2>0, <2>b, <2>3 DEF Bounce
    <3>3. receipts' \subseteq Slot \X Event
      <4>1. receipts \subseteq Slot \X Event /\ <<reader[h].src, reader[h].ev>> \in Slot \X Event
        BY <2>a, <3>1 DEF TypeOK
      <4> QED
        BY <2>3, <4>1 DEF Bounce
    <3> QED
      BY <2>3, <3>2, <3>3 DEF TypeOK, Bounce, hub, queue
  <2>4. CASE Notify(h)
    <3>1. reader' \in [Reader -> ReaderState]
      BY <2>0, <2>b, <2>4 DEF Notify
    <3>2. notices' \in [Event -> Nat]
      <4>1. reader[h].ev \in Event /\ notices \in [Event -> Nat]
        BY <2>4 DEF Notify, doing, ToNamed, TypeOK
      <4>2. notices[reader[h].ev] + 1 \in Nat
        BY <4>1
      <4> QED
        BY <2>4, <4>1, <4>2 DEF Notify
    <3> QED
      BY <2>4, <3>1, <3>2 DEF TypeOK, Notify, hub
  <2>5. CASE Claim(h)
    <3>1. reader[h].ev \in Event
      BY <2>5 DEF Claim, doing, ToNamed
    <3>2. reader' \in [Reader -> ReaderState]
      BY <2>0, <2>b, <2>5 DEF Claim
    <3>3. receipts' \subseteq Slot \X Event
      <4>1. receipts \subseteq Slot \X Event /\ <<reader[h].src, reader[h].ev>> \in Slot \X Event
        BY <2>a, <3>1 DEF TypeOK
      <4> QED
        BY <2>5, <4>1 DEF Claim
    <3> QED
      BY <2>5, <3>2, <3>3 DEF TypeOK, Claim, hub, queue
  <2>6. CASE FindPeer(h)
    BY <2>0, <2>b, <2>6 DEF TypeOK, FindPeer, hub, queue
  <2>7. CASE Make(h)
    <3>1. reader' \in [Reader -> ReaderState] /\ doing(h, "make")
      BY <2>0, <2>b, <2>7 DEF Make
    <3>2. Mine(h) \in Slot
      BY <2>a, <3>1, SlotParts DEF Mine, doing, Slot, ToNamed
    <3>3. made' \subseteq Slot
      BY <2>7, <3>2 DEF Make, TypeOK
    <3>4. spent' \in Spending
      BY <2>7, FaultSpent DEF Make, TypeOK
    <3> QED
      BY <2>7, <3>1, <3>3, <3>4 DEF TypeOK, Make, hub, queue
  <2>8. CASE Attach(h)
    <3>1. reader' \in [Reader -> ReaderState] /\ endpoint' \in [Slot -> Endpoint]
      BY <2>0, <2>b, <2>8, BindType DEF Attach, TypeOK
    <3> QED
      BY <2>8, <3>1 DEF TypeOK, Attach, queue
  <2>9. CASE Reopen(h)
    <3>1. reader' \in [Reader -> ReaderState] /\ endpoint' \in [Slot -> Endpoint]
      BY <2>0, <2>b, <2>9, SwitchType DEF Reopen
    <3> QED
      BY <2>9, <3>1 DEF TypeOK, Reopen, queue
  <2>10. CASE Unbind(h)
    <3>1. reader' \in [Reader -> ReaderState] /\ endpoint' \in [Slot -> Endpoint]
      BY <2>0, <2>b, <2>10, SwitchType DEF Unbind
    <3> QED
      BY <2>10, <3>1 DEF TypeOK, Unbind, queue
  <2> QED
    BY <1>6, <2>1, <2>2, <2>3, <2>4, <2>5, <2>6, <2>7, <2>8, <2>9, <2>10 DEF Read
<1>7. ASSUME NEW q \in rows, Deliver(q) PROVE TypeOK'
  <2>1. PICK s \in RowStatus : rows' = (rows \ {q}) \cup {[q EXCEPT !.status = s]}
    BY <1>7 DEF Deliver
  <2>2. q \in Row /\ [q EXCEPT !.status = s] \in Row
    BY DEF TypeOK, Row
  <2> QED
    BY <1>7, <2>1, <2>2 DEF TypeOK, Deliver, hub
<1>8. CASE StartPass
  <2>1. [provisioner EXCEPT !.pc = "make", !.todo = Missing] \in ProvisionerState
    BY DEF TypeOK, ProvisionerState, Missing
  <2> QED
    BY <1>8, <2>1 DEF TypeOK, StartPass, hub, queue
<1>9. CASE ProvisionMake
  <2>1. PICK p \in provisioner.todo :
          /\ made' \subseteq made \cup {<<Home, p>>}
          /\ \/ provisioner' = [provisioner EXCEPT !.pc = "attach", !.peer = p]
             \/ provisioner' = Waiting
             \/ provisioner' = [provisioner EXCEPT !.todo = @ \ {p}]
          /\ \/ UNCHANGED spent
             \/ spent.faults < MaxFaults /\ spent' = [spent EXCEPT !.faults = @ + 1]
    BY <1>9 DEF ProvisionMake
  <2>2. p \in Community /\ p # Home
    BY DEF PassOK, TypeOK, ProvisionerState
  <2>3. <<Home, p>> \in Slot
    BY <2>2, RoutingAssumption DEF Slot
  <2>4. provisioner' \in ProvisionerState
    <3>1. provisioner \in ProvisionerState
      BY DEF TypeOK
    <3>2. /\ [provisioner EXCEPT !.pc = "attach", !.peer = p] \in ProvisionerState
          /\ [provisioner EXCEPT !.todo = @ \ {p}] \in ProvisionerState
      BY <2>2, <3>1 DEF ProvisionerState
    <3> QED
      BY <2>1, <3>2, ConstantTypes
  <2>5. spent' \in Spending
    BY <2>1, FaultSpent DEF TypeOK
  <2> QED
    BY <1>9, <2>1, <2>3, <2>4, <2>5 DEF TypeOK, ProvisionMake, hub, queue
<1>10. CASE ProvisionAttach
  <2>1. endpoint' \in [Slot -> Endpoint]
    BY <1>10, ConstantTypes DEF ProvisionAttach, TypeOK
  <2>2. provisioner' \in ProvisionerState
    BY <1>10, ConstantTypes DEF ProvisionAttach, TypeOK, ProvisionerState
  <2> QED
    BY <1>10, <2>1, <2>2 DEF TypeOK, ProvisionAttach, queue
<1>11. CASE Crash
  <2>1. spent' \in Spending
    BY <1>11, FaultSpent DEF Crash, TypeOK
  <2> QED
    BY <1>11, <2>1, ConstantTypes DEF TypeOK, Crash, hub, queue
<1>12. CASE UNCHANGED vars
  BY <1>12 DEF TypeOK, vars
<1>13. ASSUME NEW h \in Reader, QueryFails(h) PROVE TypeOK'
  <2>1. reader' \in [Reader -> ReaderState]
    BY <1>13, MoveType DEF QueryFails, Pc
  <2>2. spent' \in Spending
    BY <1>13, FaultSpent DEF QueryFails, TypeOK
  <2>3. receipts' \subseteq Slot \X Event
    <3>1. reader[h].pc # "idle"
      BY <1>13 DEF QueryFails
    <3>2. reader[h].src \in Slot /\ reader[h].ev \in Event
      BY <3>1 DEF TypeOK, ReaderState, ToNamed
    <3>3. receipts \subseteq Slot \X Event /\ <<reader[h].src, reader[h].ev>> \in Slot \X Event
      BY <3>2 DEF TypeOK
    <3> QED
      BY <1>13, <3>3 DEF QueryFails
  <2> QED
    BY <1>13, <2>1, <2>2, <2>3 DEF TypeOK, QueryFails, hub, queue
<1> QED
  BY <1>1, <1>2, <1>3, <1>4, <1>5, <1>6, <1>7, <1>8, <1>9, <1>10, <1>11, <1>12, <1>13
     DEF Next, Provision
-----------------------------------------------------------------------------
(* Commands work on direct channels.                                       *)
LEMMA MineDirect ==
  ASSUME TypeOK, NEW h \in Reader
  PROVE  Direct(Mine(h))
<1>1. reader[h].to \in Community
  BY DEF TypeOK, ReaderState
<1> QED
  BY <1>1, RoutingAssumption DEF Direct, Mine

(* What a step does to an endpoint: most leave it, the others bind it when *)
(* it is free, or set what the filter or the switches of a row say.        *)
LEMMA EndpointStep ==
  ASSUME TypeOK, ToNamed, PassOK, [Next]_vars, NEW s \in Slot
  PROVE  \/ endpoint'[s] = endpoint[s]
         \/ Direct(s) /\ Free(s) /\ endpoint'[s] = Opened /\ inboxAt' = inboxAt
         \/ ~Direct(s) /\ endpoint'[s].bound
         \/ /\ Direct(s) /\ endpoint[s].bound /\ endpoint'[s].bound
            /\ endpoint'[s].set.peers = endpoint[s].set.peers
            /\ inboxAt' = inboxAt
            /\ \E h \in Reader : \/ doing(h, "reopen") /\ Mine(h) = s
                                 \/ ~endpoint'[s].set.receives
<1>1. ASSUME NEW c \in Community, Join(c) PROVE endpoint'[s] = endpoint[s] \/ (~Direct(s) /\ endpoint'[s].bound)
  BY <1>1, SlotParts, RoutingAssumption DEF Join, Opened
<1>2. ASSUME NEW c \in Community, NEW set \in Choice, NEW ch \in Channel, Edit(c, set, ch)
      PROVE  endpoint'[s] = endpoint[s] \/ (~Direct(s) /\ endpoint'[s].bound)
  <2>1. CASE s = InboxOf(c)
    <3>1. endpoint[s].bound /\ ~Direct(s) /\ endpoint[s] \in Endpoint
      BY <1>2, <2>1, SlotParts DEF Edit, Member, TypeOK
    <3>2. endpoint'[s] = [endpoint[s] EXCEPT !.set = set]
      BY <1>2, <2>1 DEF Edit, TypeOK
    <3> QED
      BY <3>1, <3>2 DEF Endpoint
  <2>2. CASE s # InboxOf(c)
    BY <1>2, <2>2 DEF Edit, TypeOK
  <2> QED
    BY <2>1, <2>2
<1>3. ASSUME NEW h \in Reader, Attach(h)
      PROVE  \/ endpoint'[s] = endpoint[s]
             \/ Direct(s) /\ Free(s) /\ endpoint'[s] = Opened /\ inboxAt' = inboxAt
  <2>1. Direct(Mine(h))
    BY MineDirect
  <2> QED
    BY <1>3, <2>1 DEF Attach, TypeOK
<1>4. ASSUME NEW h \in Reader, NEW b \in BOOLEAN, Switch(Mine(h), b), inboxAt' = inboxAt,
             doing(h, "reopen") \/ b = FALSE
      PROVE  \/ endpoint'[s] = endpoint[s]
             \/ /\ Direct(s) /\ endpoint[s].bound /\ endpoint'[s].bound
                /\ endpoint'[s].set.peers = endpoint[s].set.peers
                /\ inboxAt' = inboxAt
                /\ \E g \in Reader : \/ doing(g, "reopen") /\ Mine(g) = s
                                     \/ ~endpoint'[s].set.receives
  <2>1. CASE s # Mine(h) \/ ~endpoint[s].bound
    BY <1>4, <2>1 DEF Switch
  <2>2. CASE s = Mine(h) /\ endpoint[s].bound
    <3>1. Direct(s)
      BY <2>2, MineDirect
    <3>2. /\ endpoint'[s].bound = endpoint[s].bound
          /\ endpoint'[s].set.peers = endpoint[s].set.peers
      BY <1>4, SwitchType
    <3>3. endpoint'[s] = [endpoint[s] EXCEPT !.set = [@ EXCEPT !.sends = b, !.receives = b]]
      BY <1>4, <2>2 DEF Switch
    <3>4. endpoint[s] \in Endpoint
      BY DEF TypeOK
    <3>5. endpoint'[s].set.receives = b
      BY <3>3, <3>4 DEF Endpoint, Settings
    <3> QED
      BY <1>4, <2>2, <3>1, <3>2, <3>5
  <2> QED
    BY <2>1, <2>2
<1>5. CASE ProvisionAttach
  <2>1. Direct(<<Home, provisioner.peer>>)
    BY <1>5, RoutingAssumption DEF Direct, TypeOK, ProvisionerState
  <2> QED
    BY <1>5, <2>1 DEF ProvisionAttach, TypeOK
<1>6. ASSUME UNCHANGED endpoint PROVE endpoint'[s] = endpoint[s]
  BY <1>6
<1>7. ASSUME NEW h \in Reader, Read(h)
      PROVE  \/ UNCHANGED endpoint
             \/ Attach(h)
             \/ /\ inboxAt' = inboxAt
                /\ \/ Switch(Mine(h), TRUE) /\ doing(h, "reopen")
                   \/ Switch(Mine(h), FALSE)
  BY <1>7 DEF Read, Resolve, Ingest, Bounce, Notify, Claim, FindPeer, Make, Reopen, Unbind, hub
<1>8. ASSUME NEW h \in Reader, Read(h)
      PROVE  \/ endpoint'[s] = endpoint[s]
             \/ Direct(s) /\ Free(s) /\ endpoint'[s] = Opened /\ inboxAt' = inboxAt
             \/ /\ Direct(s) /\ endpoint[s].bound /\ endpoint'[s].bound
                /\ endpoint'[s].set.peers = endpoint[s].set.peers
                /\ inboxAt' = inboxAt
                /\ \E g \in Reader : \/ doing(g, "reopen") /\ Mine(g) = s
                                     \/ ~endpoint'[s].set.receives
  BY <1>3, <1>4, <1>6, <1>7, <1>8
<1>9. CASE \/ \E c \in Community : Reconcile(c)
           \/ \E e \in Event, ch \in Channel : Type(e, ch)
           \/ \E h \in Reader, e \in Event : See(h, e)
           \/ \E q \in rows : Deliver(q)
           \/ \E h \in Reader : QueryFails(h)
           \/ StartPass \/ ProvisionMake \/ Crash \/ UNCHANGED vars
  BY <1>9 DEF Reconcile, Type, See, Deliver, QueryFails, StartPass, ProvisionMake, Crash,
       hub, vars
<1> QED
  BY <1>1, <1>2, <1>5, <1>8, <1>9 DEF Next, Provision
(* The only step that moves an inbox leaves it on a channel that no other  *)
(* endpoint of the community holds.                                        *)
LEMMA InboxStep ==
  ASSUME TypeOK, OwnInbox, [Next]_vars, NEW c \in Community, inboxAt'[c] # inboxAt[c]
  PROVE  /\ inboxAt'[c][1] = c
         /\ ~Direct(inboxAt'[c]) \/ ~endpoint[inboxAt'[c]].bound
         /\ \A s \in Slot : Direct(s) => endpoint'[s] = endpoint[s]
<1>1. PICK d \in Community, set \in Choice, ch \in Channel : Edit(d, set, ch)
  <2>1. inboxAt' # inboxAt
    OBVIOUS
  <2> QED
    BY <2>1 DEF Next, Provision, Read, Join, Reconcile, Type, See, Deliver, StartPass,
         ProvisionMake, ProvisionAttach, Crash, QueryFails, Resolve, Ingest, Bounce, Notify,
         Claim, FindPeer, Make, Attach, Reopen, Unbind, hub, vars
<1>2. d = c /\ inboxAt'[c] = ch /\ ch # inboxAt[c]
  BY <1>1 DEF Edit, TypeOK
<1>3. ch[1] = c /\ (~Direct(ch) \/ ~endpoint[ch].bound)
  BY <1>1, <1>2, SlotParts DEF Edit
<1>4. \A s \in Slot : Direct(s) => endpoint'[s] = endpoint[s]
  BY <1>1, SlotParts DEF Edit, TypeOK
<1> QED
  BY <1>2, <1>3, <1>4

(* The endpoints and the channels they hold. *)
LEMMA EndpointsStep ==
  TypeOK /\ ToNamed /\ PassOK /\ OpenDirect /\ BoundElsewhere /\ OwnInbox /\ [Next]_vars
    => OpenDirect' /\ BoundElsewhere' /\ OwnInbox'
<1> SUFFICES ASSUME TypeOK, ToNamed, PassOK, OpenDirect, BoundElsewhere, OwnInbox,
                    [Next]_vars
             PROVE  OpenDirect' /\ BoundElsewhere' /\ OwnInbox'
  OBVIOUS
<1>1. OpenDirect'
  BY EndpointStep, ConstantTypes DEF OpenDirect, Direct
<1>2. OwnInbox'
  BY InboxStep DEF OwnInbox
<1>3. ASSUME NEW s \in Slot, Direct(s), endpoint'[s].bound PROVE inboxAt'[s[1]] # s
  <2>1. s[1] \in Community
    BY SlotParts
  <2>2. CASE inboxAt'[s[1]] # inboxAt[s[1]]
    BY <1>3, <2>1, <2>2, InboxStep
  <2>3. CASE inboxAt'[s[1]] = inboxAt[s[1]]
    <3>1. endpoint[s].bound \/ Free(s)
      BY <1>3, EndpointStep
    <3> QED
      BY <1>3, <2>3, <3>1 DEF BoundElsewhere, Free
  <2> QED
    BY <2>2, <2>3
<1>4. BoundElsewhere'
  BY <1>3 DEF BoundElsewhere, Direct
<1> QED
  BY <1>1, <1>2, <1>4

(* A handler keeps the event and the address it started with. *)
LEMMA ReaderSteps ==
  TypeOK /\ ToNamed /\ PassOK /\ [Next]_vars => ToNamed' /\ PassOK'
<1> SUFFICES ASSUME TypeOK, ToNamed, PassOK, [Next]_vars PROVE ToNamed' /\ PassOK'
  OBVIOUS
<1>a. ASSUME NEW h \in Reader, UNCHANGED provisioner,
             \/ rest(h)
             \/ \E pc \in Pc \ {"claim"} :
                  /\ move(h, pc)
                  /\ ~doing(h, "idle")
                  /\ pc = "peer" => Verb[reader[h].ev] \in {"open", "close"}
                  /\ pc \in {"make", "attach", "reopen"} =>
                       Verb[reader[h].ev] = "open" /\ reader[h].to # reader[h].src[1]
                  /\ pc \in {"resolve", "ingest"} => doing(h, "resolve")
      PROVE  ToNamed' /\ PassOK'
  <2>1. CASE rest(h)
    BY <1>a, <2>1, ConstantTypes DEF rest, ToNamed, PassOK, TypeOK
  <2>2. ASSUME NEW pc \in Pc \ {"claim"}, move(h, pc), ~doing(h, "idle"),
               pc = "peer" => Verb[reader[h].ev] \in {"open", "close"},
               pc \in {"make", "attach", "reopen"} =>
                 Verb[reader[h].ev] = "open" /\ reader[h].to # reader[h].src[1],
               pc \in {"resolve", "ingest"} => doing(h, "resolve")
        PROVE  ToNamed' /\ PassOK'
    <3>1. \A g \in Reader : /\ reader'[g].ev = reader[g].ev /\ reader'[g].to = reader[g].to
                            /\ reader'[g].src = reader[g].src
                            /\ g # h => reader'[g].pc = reader[g].pc
                            /\ g = h => reader'[g].pc = pc
      BY <2>2 DEF move, TypeOK, ReaderState
    <3> QED
      BY <1>a, <2>2, <3>1 DEF ToNamed, PassOK, doing, Direct
  <2> QED
    BY <1>a, <2>1, <2>2
<1>1. ASSUME NEW h \in Reader, NEW e \in Event, See(h, e) PROVE ToNamed' /\ PassOK'
  <2>1. PICK route \in session[From[e]] :
          reader' = [reader EXCEPT ![h] =
            [pc |-> CASE Verb[e] # "message" -> "claim"
                      [] Direct(route[1])    -> "ingest"
                      [] OTHER               -> "resolve",
             ev |-> e, src |-> route[1],
             to |-> IF Direct(route[1]) /\ Verb[e] \in {"message", "close here"}
                    THEN route[1][2] ELSE To[e]]]
    BY <1>1 DEF See
  <2>2. /\ \A g \in Reader : g # h => reader'[g] = reader[g]
        /\ reader'[h].ev = e /\ reader'[h].src = route[1]
        /\ reader'[h].pc \in {"claim", "ingest", "resolve"}
        /\ reader'[h].pc = "claim" => Verb[e] # "message"
        /\ ~Direct(route[1]) => reader'[h].to = To[e]
    BY <2>1 DEF TypeOK
  <2>3. ToNamed'
    BY <2>2 DEF ToNamed, Direct
  <2> QED
    BY <1>1, <2>3 DEF See, PassOK
<1>2. ASSUME NEW h \in Reader, Read(h) PROVE ToNamed' /\ PassOK'
  <2>0. /\ UNCHANGED provisioner
        /\ \A s \in {"ingest", "bounce", "notify", "peer", "unbind", "make", "attach",
                     "reopen"} : s \in Pc
    BY <1>2 DEF Read, Resolve, Ingest, Bounce, Notify, Claim, FindPeer, Make, Attach,
         Reopen, Unbind, Pc
  <2>1. CASE Resolve(h) \/ Ingest(h) \/ Bounce(h) \/ Notify(h)
    BY <1>a, <2>0, <2>1 DEF Resolve, Ingest, Bounce, Notify, doing
  <2>2. CASE Claim(h)
    <3>1. Verb[reader[h].ev] \in {"open", "close", "close here"}
      BY <2>2, RoutingAssumption DEF Claim, doing, ToNamed
    <3> DEFINE next == CASE Verb[reader[h].ev] # "close here" -> "peer"
                         [] Direct(reader[h].src)             -> "unbind"
                         [] OTHER                             -> "notify"
    <3>2. /\ next \in {"peer", "unbind", "notify"}
          /\ next = "peer" => Verb[reader[h].ev] # "close here"
      OBVIOUS
    <3>3. rest(h) \/ move(h, next)
      BY <2>2 DEF Claim
    <3>4. \/ rest(h) \/ move(h, "unbind") \/ move(h, "notify")
          \/ move(h, "peer") /\ Verb[reader[h].ev] # "close here"
      <4> HIDE DEF next
      <4> QED
        BY <3>2, <3>3
    <3>5. ~doing(h, "idle")
      BY <2>2 DEF Claim, doing
    <3>6. CASE rest(h)
      BY <1>a, <2>0, <3>6
    <3>7. CASE move(h, "unbind") \/ move(h, "notify")
      BY <1>a, <2>0, <3>5, <3>7
    <3>8. CASE move(h, "peer") /\ Verb[reader[h].ev] # "close here"
      <4>1. Verb[reader[h].ev] \in {"open", "close"}
        BY <3>1, <3>8
      <4>2. \E pc \in Pc \ {"claim"} :
              /\ move(h, pc) /\ ~doing(h, "idle")
              /\ pc = "peer" => Verb[reader[h].ev] \in {"open", "close"}
              /\ pc \in {"make", "attach", "reopen"} =>
                   Verb[reader[h].ev] = "open" /\ reader[h].to # reader[h].src[1]
              /\ pc \in {"resolve", "ingest"} => doing(h, "resolve")
        <5>1. "peer" \in Pc \ {"claim"}
          BY DEF Pc
        <5>2. ~("peer" \in {"make", "attach", "reopen", "resolve", "ingest"})
          OBVIOUS
        <5> QED
          BY <3>5, <3>8, <4>1, <5>1, <5>2
      <4> QED
        BY <1>a, <2>0, <4>2
    <3> QED
      BY <3>4, <3>6, <3>7, <3>8
  <2>3. CASE FindPeer(h)
    <3>1. Verb[reader[h].ev] \in {"open", "close"}
      BY <2>3 DEF FindPeer, doing, ToNamed
    <3> QED
      BY <1>a, <2>0, <2>3, <3>1 DEF FindPeer, doing
  <2>4. CASE Make(h) \/ Attach(h) \/ Reopen(h) \/ Unbind(h)
    <3>1. ~doing(h, "idle")
      BY <2>4 DEF Make, Attach, Reopen, Unbind, doing
    <3>2. \/ move(h, "notify")
          \/ /\ move(h, "attach") \/ move(h, "reopen")
             /\ Verb[reader[h].ev] = "open" /\ reader[h].to # reader[h].src[1]
      BY <2>4 DEF Make, Attach, Reopen, Unbind, doing, ToNamed
    <3> QED
      BY <1>a, <2>0, <3>1, <3>2
  <2> QED
    BY <1>2, <2>1, <2>2, <2>3, <2>4 DEF Read
<1>7. ASSUME NEW h \in Reader, QueryFails(h) PROVE ToNamed' /\ PassOK'
  BY <1>a, <1>7 DEF QueryFails, doing, Pc
<1>3. CASE StartPass \/ ProvisionMake \/ ProvisionAttach
  <2>1. ToNamed'
    BY <1>3 DEF StartPass, ProvisionMake, ProvisionAttach, ToNamed, Direct
  <2>2. provisioner \in ProvisionerState
    BY DEF TypeOK
  <2>3. CASE StartPass
    BY <2>1, <2>2, <2>3 DEF StartPass, PassOK, Missing, ProvisionerState
  <2>4. CASE ProvisionMake
    <3>1. PICK p \in provisioner.todo :
            \/ provisioner' = [provisioner EXCEPT !.pc = "attach", !.peer = p]
            \/ provisioner' = Waiting
            \/ provisioner' = [provisioner EXCEPT !.todo = @ \ {p}]
      BY <2>4 DEF ProvisionMake
    <3>2. p # Home /\ provisioner.pc = "make" /\ Home \notin provisioner.todo
      BY <2>4 DEF ProvisionMake, PassOK
    <3>3. \/ provisioner'.todo = provisioner.todo /\ provisioner'.peer = p
          \/ provisioner' = Waiting
          \/ /\ provisioner'.todo = provisioner.todo \ {p}
             /\ provisioner'.pc = "make"
      BY <2>2, <3>1, <3>2 DEF ProvisionerState
    <3> QED
      BY <2>1, <3>2, <3>3 DEF PassOK, Waiting
  <2>5. CASE ProvisionAttach
    BY <2>1, <2>2, <2>5 DEF ProvisionAttach, PassOK, Waiting, ProvisionerState
  <2> QED
    BY <1>3, <2>1, <2>3, <2>4, <2>5
<1>4. CASE Crash
  BY <1>4, ConstantTypes DEF Crash, ToNamed, PassOK, Waiting
<1>5. ASSUME UNCHANGED <<reader, provisioner>> PROVE ToNamed' /\ PassOK'
  BY <1>5 DEF ToNamed, PassOK, Direct
<1>6. CASE \/ \E c \in Community : Join(c) \/ Reconcile(c)
           \/ \E c \in Community, set \in Choice, ch \in Channel : Edit(c, set, ch)
           \/ \E e \in Event, ch \in Channel : Type(e, ch)
           \/ \E q \in rows : Deliver(q)
           \/ UNCHANGED vars
  BY <1>5, <1>6 DEF Join, Reconcile, Edit, Type, Deliver, vars
<1> QED
  BY <1>1, <1>2, <1>3, <1>4, <1>6, <1>7 DEF Next, Provision
(* Every row keeps the endpoints that the ingest found for it. *)
LEMMA RowsStep ==
  TypeOK /\ ToNamed /\ DirectStaysPrivate /\ [Next]_vars => DirectStaysPrivate'
<1> SUFFICES ASSUME TypeOK, ToNamed, DirectStaysPrivate, [Next]_vars
             PROVE  DirectStaysPrivate'
  OBVIOUS
<1> DEFINE Private(q) == /\ ServesPeer(q.dst, q.src[1])
                         /\ ServesPeer(q.src, q.dst[1])
                         /\ ~Direct(q.src) => q.dst[1] = To[q.ev]
<1>0. \A q \in rows : Private(q)
  BY DEF DirectStaysPrivate
<1>1. ASSUME UNCHANGED rows PROVE \A q \in rows' : Private(q)
  BY <1>0, <1>1
<1>2. ASSUME NEW h \in Reader, Ingest(h) PROVE \A q \in rows' : Private(q)
  <2> SUFFICES ASSUME NEW q \in rows' PROVE Private(q)
    OBVIOUS
  <2>1. CASE q \in rows
    BY <1>0, <2>1
  <2>2. ASSUME NEW t \in Destinations(reader[h].src, reader[h].to),
               q = [ev |-> reader[h].ev, src |-> reader[h].src, dst |-> t,
                    status |-> "routed"]
        PROVE  Private(q)
    <3>1. reader[h].src \in Slot /\ reader[h].to \in Community
      BY DEF TypeOK, ReaderState
    <3>2. ~Direct(reader[h].src) => reader[h].to = To[reader[h].ev]
      BY <1>2 DEF Ingest, doing, ToNamed
    <3> QED
      BY <2>2, <3>1, <3>2, DestinationFacts
  <2> QED
    BY <1>2, <2>1, <2>2, IngestedRows
<1>3. ASSUME NEW r \in rows, Deliver(r) PROVE \A q \in rows' : Private(q)
  <2>1. PICK st \in RowStatus : rows' = (rows \ {r}) \cup {[r EXCEPT !.status = st]}
    BY <1>3 DEF Deliver
  <2>2. r \in Row
    BY DEF TypeOK
  <2>3. /\ [r EXCEPT !.status = st].src = r.src /\ [r EXCEPT !.status = st].dst = r.dst
        /\ [r EXCEPT !.status = st].ev = r.ev
    BY <2>2 DEF Row
  <2> QED
    BY <1>0, <2>1, <2>3
<1>4. ASSUME NEW h \in Reader, Read(h) PROVE \A q \in rows' : Private(q)
  BY <1>1, <1>2, <1>4
     DEF Read, Resolve, Bounce, Notify, Claim, FindPeer, Make, Attach, Reopen, Unbind, queue
<1>5. \A q \in rows' : Private(q)
  BY <1>1, <1>3, <1>4
     DEF Next, Provision, Join, Reconcile, Edit, Type, See, StartPass, ProvisionMake,
         ProvisionAttach, Crash, QueryFails, queue, vars
<1> QED
  BY <1>5 DEF DirectStaysPrivate, ServesPeer, Direct
-----------------------------------------------------------------------------
(* The inductive invariant holds throughout. *)
THEOREM Invariance == Spec => []IInv
<1>1. Init => IInv
  <2> SUFFICES ASSUME Init PROVE IInv
    OBVIOUS
  <2>1. TypeOK
    <3>1. 0 \in 0..MaxEdits /\ 0 \in 0..MaxFaults
      <4>1. MaxEdits \in Nat /\ MaxFaults \in Nat
        BY RoutingAssumption
      <4> QED
        BY <4>1
    <3>2. spent \in Spending
      BY <3>1 DEF Init, Spending
    <3> QED
      BY <3>2, ConstantTypes, SlotParts DEF Init, TypeOK, Channel
  <2>2. PassOK /\ ToNamed /\ OpenDirect /\ BoundElsewhere /\ OwnInbox /\ DirectStaysPrivate
    BY ConstantTypes, SlotParts
       DEF Init, PassOK, ToNamed, OpenDirect, BoundElsewhere, OwnInbox,
           DirectStaysPrivate, Waiting, Absent
  <2> QED
    BY <2>1, <2>2 DEF IInv
<1>2. IInv /\ [Next]_vars => IInv'
  BY TypeStep, ReaderSteps, EndpointsStep, RowsStep DEF IInv
<1> QED
  BY <1>1, <1>2, PTL DEF Spec

(* All state stays within its types: in particular every command acts on a *)
(* pair of two different communities.                                      *)
THEOREM TypeCorrect == Spec => []TypeOK
<1>1. IInv => TypeOK
  BY DEF IInv
<1> QED
  BY <1>1, Invariance, PTL

(* The clauses of the query on dedicated_to_community_id leave one endpoint. *)
LEMMA QueryPicksOne == OneDestination
<1> SUFFICES ASSUME NEW s \in Slot, NEW c \in Community,
                    NEW t \in Destinations(s, c), NEW u \in Destinations(s, c)
             PROVE  t = u
  BY DEF OneDestination
<1>1. \A v \in Destinations(s, c) :
        \/ v = <<c, s[1]>> /\ Receives(v) /\ v \in Slot
        \/ v = InboxOf(c) /\ ~\E d \in Slot : d = <<c, s[1]>> /\ Receives(d)
  <2> SUFFICES ASSUME NEW v \in Destinations(s, c)
               PROVE  \/ v = <<c, s[1]>> /\ Receives(v) /\ v \in Slot
                      \/ /\ v = InboxOf(c)
                         /\ ~\E d \in Slot : d = <<c, s[1]>> /\ Receives(d)
    OBVIOUS
  <2>1. /\ v \in Slot /\ v[1] = c /\ Receives(v) /\ ServesPeer(v, s[1])
        /\ Direct(v) \/ ~\E d \in Slot : d = <<c, s[1]>> /\ Receives(d)
    BY DEF Destinations
  <2>2. v = <<v[1], v[2]>>
    BY <2>1, SlotParts
  <2>3. CASE Direct(v)
    BY <2>1, <2>2, <2>3 DEF ServesPeer
  <2>4. CASE ~Direct(v)
    BY <2>1, <2>4, SlotParts
  <2> QED
    BY <2>3, <2>4
<1> QED
  BY <1>1

(* The destination query never picks two endpoints for one message. *)
THEOREM SingleDestination == Spec => []OneDestination
BY QueryPicksOne, PTL

(* A direct channel carries the conversation with its peer and no other. *)
THEOREM Privacy == Spec => []DirectStaysPrivate
<1>1. IInv => DirectStaysPrivate
  BY DEF IInv
<1> QED
  BY <1>1, Invariance, PTL

(* Direct channels never cut anybody off from a community. *)
THEOREM Reachability == Spec => []NeverStranded
<1>1. IInv => NeverStranded
  <2> SUFFICES ASSUME IInv, NEW s \in Slot, NEW c \in Community, s[1] # c,
                      ServesPeer(s, c), RouteActive(s, InboxOf(c))
               PROVE  \E t \in Destinations(s, c) : RouteActive(s, t)
    BY DEF NeverStranded
  <2>0. /\ InboxOf(c) \in Slot /\ ~Direct(InboxOf(c)) /\ InboxOf(c)[1] = c
        /\ s[1] \in Community /\ Sends(s) /\ Hears(s, InboxOf(c)) /\ Receives(InboxOf(c))
    BY SlotParts DEF RouteActive
  <2>1. CASE ~\E d \in Slot : d = <<c, s[1]>> /\ Receives(d)
    BY <2>0, <2>1 DEF Destinations, ServesPeer, RouteActive
  <2>2. CASE \E d \in Slot : d = <<c, s[1]>> /\ Receives(d)
    <3>1. PICK d \in Slot : d = <<c, s[1]>> /\ Receives(d)
      BY <2>2
    <3>2. Direct(d) /\ d[1] = c /\ d[2] = s[1]
      BY <2>0, <3>1, RoutingAssumption DEF Direct
    <3>3. Hears(s, d)
      BY <2>0, <3>1, <3>2 DEF Hears, IInv, OpenDirect
    <3>4. d \in Destinations(s, c)
      BY <2>0, <3>1, <3>2, <3>3 DEF Destinations, ServesPeer
    <3> QED
      BY <2>0, <3>1, <3>3, <3>4 DEF RouteActive
  <2> QED
    BY <2>1, <2>2
<1> QED
  BY <1>1, Invariance, PTL

(* No channel ever serves two endpoints. *)
THEOREM UnambiguousRoutes == Spec => []OneRoutePerChannel
<1>1. IInv => OneRoutePerChannel
  <2> SUFFICES ASSUME IInv, NEW s \in Slot, NEW t \in Slot, endpoint[s].bound,
                      endpoint[t].bound, ChannelOf(s) = ChannelOf(t)
               PROVE  s = t
    BY DEF OneRoutePerChannel
  <2>0. /\ s[1] \in Community /\ t[1] \in Community
        /\ ~Direct(s) => s = InboxOf(s[1])
        /\ ~Direct(t) => t = InboxOf(t[1])
    BY SlotParts
  <2>1. CASE Direct(s) /\ Direct(t)
    BY <2>1 DEF ChannelOf, Direct
  <2>2. CASE ~Direct(s) /\ ~Direct(t)
    BY <2>0, <2>2 DEF ChannelOf, Direct, IInv, OwnInbox
  <2>3. CASE Direct(s) /\ ~Direct(t)
    BY <2>0, <2>3 DEF ChannelOf, Direct, IInv, OwnInbox, BoundElsewhere
  <2>4. CASE ~Direct(s) /\ Direct(t)
    BY <2>0, <2>4 DEF ChannelOf, Direct, IInv, OwnInbox, BoundElsewhere
  <2> QED
    BY <2>1, <2>2, <2>3, <2>4
<1> QED
  BY <1>1, Invariance, PTL

-----------------------------------------------------------------------------
(***************************************************************************)
(* Replays are answered once.  A receipt is claimed for an event and the   *)
(* endpoint its handler found for it, so the answers of an event are       *)
(* counted against the endpoints that hold a receipt for it: those whose   *)
(* handler still owes its answer (InHand) and those that may have given it.*)
(***************************************************************************)
Receipts(e) == {s \in Slot : <<s, e>> \in receipts}

Answering == {"notify", "peer", "make", "attach", "reopen", "unbind"}
Owes(h) == reader[h].pc \in Answering
InHand(e) == {s \in Slot : \E h \in Reader : Owes(h) /\ reader[h].ev = e /\ reader[h].src = s}

AnswersOK ==
  /\ \A e \in Event :
       /\ IsFiniteSet(Receipts(e)) /\ InHand(e) \subseteq Receipts(e)
       /\ notices[e] <= Cardinality(Receipts(e) \ InHand(e))
  /\ \A g, h \in Reader :
       Owes(g) /\ Owes(h) /\ reader[g].ev = reader[h].ev /\ reader[g].src = reader[h].src => g = h

(* An event is carried over once for each endpoint it was read at. *)
RowsOK == \A q, r \in rows : q.ev = r.ev /\ q.src = r.src => q = r

(* What endpoint an event is answered for, while at most one edit was made. *)
Holds(s, ch) ==
  /\ ch \in Channel
  /\ \/ s = ch /\ endpoint[s].bound
     \/ s = InboxOf(ch[1]) /\ inboxAt[ch[1]] = ch

HeldOK ==
  spent.edits <= 1 =>
    /\ spent.edits = 0 => \A c \in Community : inboxAt[c] = InboxOf(c)
    /\ \A c \in Community : \A route \in session[c] : Holds(route[1], route[2])
    /\ \A h \in Reader : reader[h].pc # "idle" => Holds(reader[h].src, at[reader[h].ev])
    /\ \A k \in receipts : Holds(k[1], at[k[2]])
    /\ \A q \in rows : Holds(q.src, at[q.ev])

OnceInv == AnswersOK /\ RowsOK /\ HeldOK

(* Whoever owes an answer owes it for an endpoint and an event. *)
LEMMA OwesTypes ==
  ASSUME TypeOK, ToNamed, NEW h \in Reader, Owes(h)
  PROVE  reader[h].ev \in Event /\ reader[h].src \in Slot
BY DEF TypeOK, ToNamed, Owes, Answering, ReaderState

(* Nobody begins or ends to owe an answer. *)
LEMMA AnswersKept ==
  ASSUME AnswersOK, UNCHANGED <<receipts, notices>>,
         \A h \in Reader : /\ Owes(h)' <=> Owes(h)
                           /\ Owes(h) => /\ reader'[h].ev = reader[h].ev
                                         /\ reader'[h].src = reader[h].src
  PROVE  AnswersOK'
<1>1. \A e : Receipts(e)' = Receipts(e)
  BY DEF Receipts
<1>2. \A e : InHand(e)' = InHand(e)
  BY DEF InHand
<1> QED
  BY <1>1, <1>2 DEF AnswersOK

(* A handler that claims a receipt owes its answer. *)
LEMMA AnswersClaimed ==
  ASSUME AnswersOK, NEW h \in Reader, NEW e \in Event, NEW s \in Slot,
         ~Owes(h), reader[h].ev = e, reader[h].src = s, <<s, e>> \notin receipts,
         receipts' = receipts \cup {<<s, e>>}, UNCHANGED notices,
         Owes(h)', reader'[h].ev = e, reader'[h].src = s,
         \A g \in Reader \ {h} : reader'[g] = reader[g]
  PROVE  AnswersOK'
<1>0. \A g \in Reader \ {h} : Owes(g)' <=> Owes(g)
  BY DEF Owes
<1>1. ASSUME NEW f \in Event
      PROVE  /\ IsFiniteSet(Receipts(f)') /\ InHand(f)' \subseteq Receipts(f)'
             /\ notices'[f] <= Cardinality(Receipts(f)' \ InHand(f)')
  <2>0. /\ IsFiniteSet(Receipts(f)) /\ InHand(f) \subseteq Receipts(f)
        /\ notices[f] <= Cardinality(Receipts(f) \ InHand(f))
    BY DEF AnswersOK
  <2>1. CASE f # e
    <3>1. Receipts(f)' = Receipts(f)
      BY <2>1 DEF Receipts
    <3>2. InHand(f)' = InHand(f)
      BY <1>0, <2>1 DEF InHand
    <3> QED
      BY <2>0, <3>1, <3>2
  <2>2. CASE f = e
    <3>1. Receipts(e)' = Receipts(e) \cup {s} /\ s \notin Receipts(e)
      BY DEF Receipts
    <3>2. InHand(e)' = InHand(e) \cup {s}
      BY <1>0 DEF InHand
    <3>3. Receipts(e)' \ InHand(e)' = Receipts(e) \ InHand(e)
      BY <2>0, <2>2, <3>1, <3>2
    <3>4. IsFiniteSet(Receipts(e) \cup {s})
      BY <2>0, <2>2, FS_AddElement
    <3>5. InHand(e)' \subseteq Receipts(e)'
      BY <2>0, <2>2, <3>1, <3>2
    <3> QED
      BY <2>0, <2>2, <3>1, <3>3, <3>4, <3>5
  <2> QED
    BY <2>1, <2>2
<1>2. ASSUME NEW g \in Reader \ {h}, Owes(g) PROVE ~(reader[g].ev = e /\ reader[g].src = s)
  BY <1>2 DEF AnswersOK, InHand, Receipts
<1>3. \A f, g \in Reader :
        Owes(f)' /\ Owes(g)' /\ reader'[f].ev = reader'[g].ev /\ reader'[f].src = reader'[g].src
          => f = g
  BY <1>0, <1>2 DEF AnswersOK
<1> QED
  BY <1>1, <1>3 DEF AnswersOK

(* A handler that answers owes nothing any more. *)
LEMMA AnswersGiven ==
  ASSUME AnswersOK, TypeOK, NEW h \in Reader, NEW e \in Event, NEW s \in Slot,
         Owes(h), reader[h].ev = e, reader[h].src = s, UNCHANGED receipts,
         notices' = [notices EXCEPT ![e] = @ + 1],
         ~Owes(h)', \A g \in Reader \ {h} : reader'[g] = reader[g]
  PROVE  AnswersOK'
<1>0. \A g \in Reader \ {h} : Owes(g)' <=> Owes(g)
  BY DEF Owes
<1>1. \A f : Receipts(f)' = Receipts(f)
  BY DEF Receipts
<1>2. \A g \in Reader \ {h} : Owes(g) => ~(reader[g].ev = e /\ reader[g].src = s)
  BY DEF AnswersOK
<1>3. ASSUME NEW f \in Event
      PROVE  /\ IsFiniteSet(Receipts(f)') /\ InHand(f)' \subseteq Receipts(f)'
             /\ notices'[f] <= Cardinality(Receipts(f)' \ InHand(f)')
  <2>0. /\ IsFiniteSet(Receipts(f)) /\ InHand(f) \subseteq Receipts(f)
        /\ notices[f] <= Cardinality(Receipts(f) \ InHand(f)) /\ notices[f] \in Nat
    BY DEF AnswersOK, TypeOK
  <2>1. CASE f # e
    <3>1. InHand(f)' = InHand(f) /\ notices'[f] = notices[f]
      BY <1>0, <2>1 DEF InHand, TypeOK
    <3> QED
      BY <1>1, <2>0, <3>1
  <2>2. CASE f = e
    <3> DEFINE given == Receipts(e) \ InHand(e)
    <3>1. InHand(e)' = InHand(e) \ {s} /\ s \in InHand(e)
      BY <1>0, <1>2 DEF InHand
    <3>2. Receipts(e)' \ InHand(e)' = given \cup {s} /\ s \notin given
      BY <1>1, <2>0, <2>2, <3>1
    <3>3. IsFiniteSet(given)
      BY <2>0, <2>2, FS_Subset
    <3>4. Cardinality(given \cup {s}) = Cardinality(given) + 1 /\ Cardinality(given) \in Nat
      BY <3>2, <3>3, FS_AddElement, FS_CardinalityType
    <3>5. notices'[e] = notices[e] + 1
      BY DEF TypeOK
    <3>6. notices[e] \in Nat /\ notices[e] <= Cardinality(given)
      BY <2>0, <2>2
    <3>7. notices'[e] <= Cardinality(given \cup {s})
      <4> HIDE DEF given
      <4> QED
        BY <3>4, <3>5, <3>6
    <3> QED
      BY <1>1, <2>0, <2>2, <3>1, <3>2, <3>7
  <2> QED
    BY <2>1, <2>2
<1>4. \A f, g \in Reader :
        Owes(f)' /\ Owes(g)' /\ reader'[f].ev = reader'[g].ev /\ reader'[f].src = reader'[g].src
          => f = g
  BY <1>0 DEF AnswersOK
<1> QED
  BY <1>3, <1>4 DEF AnswersOK

(* A receipt whose handler ends without an answer.  *)
LEMMA ReceiptLost ==
  ASSUME AnswersOK, TypeOK, NEW e \in Event, NEW s \in Slot,
         receipts' = receipts \cup {<<s, e>>}, UNCHANGED notices,
         \A h \in Reader : /\ Owes(h)' <=> Owes(h)
                           /\ Owes(h) => /\ reader'[h].ev = reader[h].ev
                                         /\ reader'[h].src = reader[h].src
  PROVE  AnswersOK'
<1>1. \A f : InHand(f)' = InHand(f)
  BY DEF InHand
<1>2. ASSUME NEW f \in Event
      PROVE  /\ IsFiniteSet(Receipts(f)') /\ InHand(f)' \subseteq Receipts(f)'
             /\ notices'[f] <= Cardinality(Receipts(f)' \ InHand(f)')
  <2> DEFINE given == Receipts(f) \ InHand(f)
             given2 == Receipts(f)' \ InHand(f)'
  <2>0. /\ IsFiniteSet(Receipts(f)) /\ InHand(f) \subseteq Receipts(f)
        /\ notices[f] <= Cardinality(given) /\ notices[f] \in Nat
    BY DEF AnswersOK, TypeOK
  <2>1. Receipts(f)' = Receipts(f) \/ Receipts(f)' = Receipts(f) \cup {s}
    BY DEF Receipts
  <2>2. IsFiniteSet(Receipts(f)') /\ Receipts(f) \subseteq Receipts(f)'
    BY <2>0, <2>1, FS_AddElement
  <2>3. given \subseteq given2 /\ IsFiniteSet(given2)
    BY <1>1, <2>2, FS_Subset
  <2>4. Cardinality(given) <= Cardinality(given2) /\ Cardinality(given) \in Nat
        /\ Cardinality(given2) \in Nat
    BY <2>3, FS_Subset, FS_CardinalityType
  <2>5. notices'[f] <= Cardinality(given2)
    <3> HIDE DEF given, given2
    <3> QED
      BY <2>0, <2>4
  <2> QED
    BY <1>1, <2>0, <2>2, <2>5
<1> QED
  BY <1>2 DEF AnswersOK

(* A crash forgets what is owed. *)
LEMMA AnswersLost ==
  ASSUME AnswersOK, TypeOK, UNCHANGED <<receipts, notices>>, \A h \in Reader : ~Owes(h)'
  PROVE  AnswersOK'
<1>1. \A f : Receipts(f)' = Receipts(f)
  BY DEF Receipts
<1>2. ASSUME NEW f \in Event
      PROVE  /\ IsFiniteSet(Receipts(f)') /\ InHand(f)' \subseteq Receipts(f)'
             /\ notices'[f] <= Cardinality(Receipts(f)' \ InHand(f)')
  <2>0. /\ IsFiniteSet(Receipts(f)) /\ notices[f] \in Nat
        /\ notices[f] <= Cardinality(Receipts(f) \ InHand(f))
    BY DEF AnswersOK, TypeOK
  <2>1. InHand(f)' = {}
    BY DEF InHand
  <2>2. /\ Cardinality(Receipts(f) \ InHand(f)) <= Cardinality(Receipts(f))
        /\ Cardinality(Receipts(f) \ InHand(f)) \in Nat
        /\ Cardinality(Receipts(f)) \in Nat
    BY <2>0, FS_Subset, FS_CardinalityType
  <2>3. Receipts(f)' \ InHand(f)' = Receipts(f)
    BY <1>1, <2>1
  <2>4. notices'[f] <= Cardinality(Receipts(f))
    BY <2>0, <2>2
  <2> QED
    BY <1>1, <2>0, <2>1, <2>3, <2>4
<1> QED
  BY <1>2 DEF AnswersOK

(* Receipts and answers stay balanced, whoever reads an event again. *)
LEMMA AnswersStep ==
  ASSUME TypeOK, TypeOK', ToNamed, AnswersOK, [Next]_vars
  PROVE  AnswersOK'
<1>a. reader \in [Reader -> ReaderState]
  BY DEF TypeOK
<1>b. ASSUME NEW h \in Reader, UNCHANGED <<receipts, notices>>,
             \/ ~Owes(h) /\ rest(h)
             \/ ~Owes(h) /\ \E pc \in Pc \ Answering : move(h, pc)
             \/ Owes(h) /\ \E pc \in Answering : move(h, pc)
      PROVE  AnswersOK'
  <2>1. /\ Owes(h)' <=> Owes(h)
        /\ Owes(h) => reader'[h].ev = reader[h].ev /\ reader'[h].src = reader[h].src
        /\ \A g \in Reader \ {h} : reader'[g] = reader[g]
    BY <1>a, <1>b DEF Owes, rest, move, Resting, Answering, ReaderState
  <2> QED
    BY <1>b, <2>1, AnswersKept DEF Owes
<1>c. ASSUME NEW h \in Reader, ~Owes(h), reader[h].ev \in Event,
             <<reader[h].src, reader[h].ev>> \notin receipts,
             receipts' = receipts \cup {<<reader[h].src, reader[h].ev>>},
             UNCHANGED notices, NEW pc \in Answering, move(h, pc)
      PROVE  AnswersOK'
  <2>1. /\ reader'[h].pc = pc /\ reader'[h].ev = reader[h].ev
        /\ reader'[h].src = reader[h].src /\ reader[h].src \in Slot
        /\ \A g \in Reader \ {h} : reader'[g] = reader[g]
    BY <1>a, <1>c DEF move, ReaderState
  <2>2. Owes(h)'
    BY <2>1 DEF Owes
  <2> QED
    BY <1>c, <2>1, <2>2, AnswersClaimed
<1>1. ASSUME NEW h \in Reader, NEW e \in Event, See(h, e) PROVE AnswersOK'
  <2>1. ~Owes(h) /\ UNCHANGED <<receipts, notices>>
    BY <1>1 DEF See, doing, Owes, Answering, queue
  <2>2. PICK route \in session[From[e]] :
          reader' = [reader EXCEPT ![h] =
            [pc |-> CASE Verb[e] # "message" -> "claim"
                      [] Direct(route[1])    -> "ingest"
                      [] OTHER               -> "resolve",
             ev |-> e, src |-> route[1],
             to |-> IF Direct(route[1]) /\ Verb[e] \in {"message", "close here"}
                    THEN route[1][2] ELSE To[e]]]
    BY <1>1 DEF See
  <2>3. /\ reader'[h].pc \in {"claim", "ingest", "resolve"}
        /\ \A g \in Reader \ {h} : reader'[g] = reader[g]
    BY <1>a, <2>2
  <2>4. ~Owes(h)'
    BY <2>3 DEF Owes, Answering
  <2> QED
    BY <2>1, <2>3, <2>4, AnswersKept DEF Owes
<1>2. ASSUME NEW h \in Reader, Resolve(h) PROVE AnswersOK'
  BY <1>2, <1>b DEF Resolve, Owes, Answering, doing, Pc, queue
<1>3. ASSUME NEW h \in Reader, Ingest(h) PROVE AnswersOK'
  BY <1>3, <1>b DEF Ingest, Owes, Answering, doing
<1>4. ASSUME NEW h \in Reader, Bounce(h) \/ Claim(h) PROVE AnswersOK'
  <2> DEFINE key == <<reader[h].src, reader[h].ev>>
  <2>1. ~Owes(h) /\ UNCHANGED notices /\ reader[h].ev \in Event
    BY <1>4 DEF Bounce, Claim, Owes, Answering, doing, queue, ToNamed
  <2>2. CASE key \in receipts
    <3>1. rest(h) /\ receipts' = receipts
      BY <1>4, <2>2 DEF Bounce, Claim
    <3> QED
      BY <1>b, <2>1, <3>1
  <2>3. CASE key \notin receipts
    <3>1. receipts' = receipts \cup {key}
      BY <1>4 DEF Bounce, Claim
    <3>2. \E pc \in Answering : move(h, pc)
      <4>1. CASE Bounce(h)
        BY <2>3, <4>1 DEF Bounce, Answering
      <4>2. CASE Claim(h)
        <5> DEFINE pc == CASE Verb[reader[h].ev] # "close here" -> "peer"
                           [] Direct(reader[h].src)             -> "unbind"
                           [] OTHER                             -> "notify"
        <5>1. pc \in Answering
          BY DEF Answering
        <5>2. move(h, pc)
          BY <2>3, <4>2 DEF Claim
        <5> HIDE DEF pc
        <5> QED
          BY <5>1, <5>2
      <4> QED
        BY <1>4, <4>1, <4>2
    <3> QED
      BY <1>c, <2>1, <2>3, <3>1, <3>2
  <2> QED
    BY <2>2, <2>3
<1>5. ASSUME NEW h \in Reader, Notify(h) PROVE AnswersOK'
  <2>1. /\ Owes(h) /\ UNCHANGED receipts
        /\ notices' = [notices EXCEPT ![reader[h].ev] = @ + 1]
    BY <1>5 DEF Notify, Owes, Answering, doing
  <2>2. ~Owes(h)' /\ \A g \in Reader \ {h} : reader'[g] = reader[g]
    BY <1>5, <1>a DEF Notify, rest, Owes, Answering, Resting
  <2> QED
    BY <2>1, <2>2, OwesTypes, AnswersGiven
<1>6. ASSUME NEW h \in Reader,
             FindPeer(h) \/ Make(h) \/ Attach(h) \/ Reopen(h) \/ Unbind(h)
      PROVE  AnswersOK'
  <2>1. Owes(h) /\ UNCHANGED <<receipts, notices>>
    BY <1>6 DEF FindPeer, Make, Attach, Reopen, Unbind, Owes, Answering, doing, queue
  <2>2. \E pc \in Answering : move(h, pc)
    <3>1. CASE FindPeer(h)
      <4> DEFINE r == reader[h]
                 pc == IF ~Member(r.src[1]) \/ ~Routable(r.to) THEN "notify"
                       ELSE IF Verb[r.ev] = "close" THEN "unbind"
                       ELSE IF r.to = r.src[1] THEN "notify" ELSE "make"
      <4>1. pc \in Answering
        BY DEF Answering
      <4>2. move(h, pc)
        BY <3>1 DEF FindPeer
      <4> HIDE DEF pc
      <4> QED
        BY <4>1, <4>2
    <3>2. CASE Make(h) \/ Attach(h) \/ Reopen(h) \/ Unbind(h)
      BY <3>2 DEF Make, Attach, Reopen, Unbind, Answering
    <3> QED
      BY <1>6, <3>1, <3>2
  <2> QED
    BY <1>b, <2>1, <2>2
<1>7. CASE Crash
  <2>1. UNCHANGED <<receipts, notices>> /\ \A h \in Reader : ~Owes(h)'
    BY <1>7 DEF Crash, queue, Owes, Answering, Resting
  <2> QED
    BY <2>1, AnswersLost
<1>8. CASE UNCHANGED <<receipts, notices, reader>>
  BY <1>8, AnswersKept DEF Owes
<1>9. ASSUME NEW h \in Reader, QueryFails(h) PROVE AnswersOK'
  <2>1. CASE /\ reader[h].pc \in {"peer", "attach", "reopen", "unbind"}
             /\ move(h, "notify") /\ UNCHANGED receipts
    BY <1>9, <1>b, <2>1 DEF QueryFails, Owes, Answering, queue
  <2>2. CASE /\ reader[h].pc \in {"resolve", "ingest", "bounce", "claim"}
             /\ rest(h) /\ UNCHANGED receipts
    BY <1>9, <1>b, <2>2 DEF QueryFails, Owes, Answering, queue
  <2>3. CASE /\ reader[h].pc \in {"bounce", "claim"} /\ rest(h)
             /\ receipts' = receipts \cup {<<reader[h].src, reader[h].ev>>}
    <3>1. reader[h].ev \in Event /\ reader[h].src \in Slot
      BY <2>3 DEF TypeOK, ToNamed, ReaderState
    <3>2. ~Owes(h) /\ ~Owes(h)' /\ \A g \in Reader \ {h} : reader'[g] = reader[g]
      BY <1>a, <2>3 DEF rest, Resting, Owes, Answering
    <3>3. UNCHANGED notices
      BY <1>9 DEF QueryFails, queue
    <3> QED
      BY <2>3, <3>1, <3>2, <3>3, ReceiptLost DEF Owes
  <2> QED
    BY <1>9, <2>1, <2>2, <2>3 DEF QueryFails
<1> QED
  BY <1>1, <1>2, <1>3, <1>4, <1>5, <1>6, <1>7, <1>8, <1>9
     DEF Next, Read, Join, Reconcile, Edit, Type, Provision, StartPass, ProvisionMake,
         ProvisionAttach, Deliver, queue, vars

(* Rows are keyed by event and endpoint. *)
LEMMA KeysStep ==
  ASSUME TypeOK, RowsOK, [Next]_vars
  PROVE  RowsOK'
<1>1. CASE UNCHANGED rows
  BY <1>1 DEF RowsOK
<1>2. ASSUME NEW h \in Reader, Ingest(h) PROVE RowsOK'
  <2> DEFINE r == reader[h]
  <2>0. r.src \in Slot /\ r.to \in Community
    BY DEF TypeOK, ReaderState
  <2>1. CASE UNCHANGED rows
    BY <1>1, <2>1
  <2>2. CASE \A q \in rows : ~(q.ev = r.ev /\ q.src = r.src)
    <3>1. ASSUME NEW q \in rows', q \notin rows
          PROVE  /\ q.ev = r.ev /\ q.src = r.src
                 /\ \E t \in Destinations(r.src, r.to) :
                      q = [ev |-> r.ev, src |-> r.src, dst |-> t, status |-> "routed"]
      BY <1>2, <3>1, IngestedRows
    <3>2. \A t, u \in Destinations(r.src, r.to) : t = u
      BY <2>0, QueryPicksOne DEF OneDestination
    <3>3. \A q, p \in rows' : q \notin rows /\ p \notin rows => q = p
      BY <3>1, <3>2
    <3> QED
      BY <2>2, <3>1, <3>3 DEF RowsOK
  <2> QED
    BY <1>2, <2>1, <2>2 DEF Ingest
<1>3. ASSUME NEW p \in rows, Deliver(p) PROVE RowsOK'
  <2>1. PICK st \in RowStatus : rows' = (rows \ {p}) \cup {[p EXCEPT !.status = st]}
    BY <1>3 DEF Deliver
  <2>2. p \in Row
    BY DEF TypeOK
  <2>3. [p EXCEPT !.status = st].src = p.src /\ [p EXCEPT !.status = st].ev = p.ev
    BY <2>2 DEF Row
  <2> DEFINE new == [p EXCEPT !.status = st]
  <2>4. ASSUME NEW q \in rows', NEW r \in rows', q.ev = r.ev, q.src = r.src PROVE q = r
    <3> HIDE DEF new
    <3>1. \A u \in rows' : u = new \/ (u \in rows /\ u # p)
      BY <2>1 DEF new
    <3>2. \A u \in rows : u.ev = new.ev /\ u.src = new.src => u = p
      BY <2>3 DEF RowsOK, new
    <3> QED
      BY <2>4, <3>1, <3>2 DEF RowsOK
  <2> QED
    BY <2>4 DEF RowsOK
<1> QED
  BY <1>1, <1>2, <1>3
     DEF Next, Read, Resolve, Bounce, Notify, Claim, FindPeer, Make, Attach, Reopen,
         Unbind, Provision, Join, Reconcile, Edit, Type, See, StartPass, ProvisionMake,
         ProvisionAttach, Crash, QueryFails, queue, vars

(* While at most one edit was made, nobody loses the channel it held. *)
LEMMA HoldsKept ==
  ASSUME IInv, HeldOK, [Next]_vars, spent'.edits <= 1, NEW s \in Slot, NEW ch, Holds(s, ch)
  PROVE  Holds(s, ch)'
<1>0. TypeOK /\ ToNamed /\ PassOK /\ OwnInbox
  BY DEF IInv
<1>1. ASSUME endpoint[s].bound PROVE endpoint'[s].bound
  BY <1>0, <1>1, EndpointStep DEF Opened
<1>2. CASE s = ch /\ endpoint[s].bound
  BY <1>1, <1>2 DEF Holds
<1>3. CASE s = InboxOf(ch[1]) /\ inboxAt[ch[1]] = ch
  <2>0. ch \in Slot /\ ch[1] \in Community
    BY SlotParts DEF Holds, Channel
  <2>1. CASE inboxAt'[ch[1]] = inboxAt[ch[1]]
    BY <1>3, <2>1 DEF Holds
  <2>2. CASE inboxAt'[ch[1]] # inboxAt[ch[1]]
    <3>1. PICK d \in Community, set \in Choice, c \in Channel : Edit(d, set, c)
      <4>1. inboxAt' # inboxAt
        BY <2>2
      <4> QED
        BY <4>1 DEF Next, Provision, Read, Join, Reconcile, Type, See, Deliver, StartPass,
           ProvisionMake, ProvisionAttach, Crash, QueryFails, Resolve, Ingest, Bounce, Notify,
           Claim, FindPeer, Make, Attach, Reopen, Unbind, hub, vars
    <3>2. spent \in Spending /\ spent' = [spent EXCEPT !.edits = @ + 1]
      BY <1>0, <3>1 DEF Edit, TypeOK
    <3>3. spent.edits = 0
      <4>1. spent.edits \in 0..MaxEdits /\ spent'.edits = spent.edits + 1
        BY <3>2 DEF Spending
      <4>2. MaxEdits \in Nat
        BY RoutingAssumption
      <4> QED
        BY <4>1, <4>2
    <3>4. inboxAt[ch[1]] = InboxOf(ch[1])
      BY <2>0, <3>3 DEF HeldOK
    <3>5. d = ch[1]
      BY <1>0, <2>0, <2>2, <3>1 DEF Edit, TypeOK
    <3>6. s = ch /\ endpoint[s].bound
      BY <1>3, <3>1, <3>4, <3>5 DEF Edit, Member
    <3> QED
      BY <1>1, <3>6 DEF Holds
  <2> QED
    BY <2>1, <2>2
<1> QED
  BY <1>2, <1>3 DEF Holds

(* A handler keeps the event and the endpoint it started with. *)
LEMMA ReaderKeeps ==
  ASSUME TypeOK, ToNamed, [Next]_vars, NEW h \in Reader, reader'[h].pc # "idle"
  PROVE  \/ /\ reader[h].pc # "idle"
            /\ reader'[h].ev = reader[h].ev /\ reader'[h].src = reader[h].src
         \/ \E e \in Event : See(h, e)
<1>a. reader \in [Reader -> ReaderState]
  BY DEF TypeOK
<1>1. CASE reader'[h] = reader[h]
  BY <1>1
<1>2. ASSUME NEW g \in Reader, NEW e \in Event, See(g, e), g # h PROVE reader'[h] = reader[h]
  BY <1>a, <1>2 DEF See
<1>3. ASSUME NEW g \in Reader, Read(g)
      PROVE  \/ reader'[h] = reader[h]
             \/ /\ reader[h].pc # "idle"
                /\ reader'[h].ev = reader[h].ev /\ reader'[h].src = reader[h].src
  <2>1. rest(g) \/ \E pc \in Pc : move(g, pc)
    BY <1>3 DEF Read, Resolve, Ingest, Bounce, Notify, Claim, FindPeer, Make, Attach,
         Reopen, Unbind, Pc
  <2>2. reader[g].pc # "idle"
    BY <1>3 DEF Read, Resolve, Ingest, Bounce, Notify, Claim, FindPeer, Make, Attach,
         Reopen, Unbind, doing
  <2>3. CASE rest(g)
    BY <1>a, <2>3 DEF rest, Resting
  <2>4. CASE \E pc \in Pc : move(g, pc)
    BY <1>a, <2>2, <2>4 DEF move, ReaderState
  <2> QED
    BY <2>1, <2>3, <2>4
<1>4. CASE Crash
  BY <1>4 DEF Crash, Resting
<1>5. ASSUME NEW g \in Reader, QueryFails(g)
      PROVE  \/ reader'[h] = reader[h]
             \/ /\ reader[h].pc # "idle"
                /\ reader'[h].ev = reader[h].ev /\ reader'[h].src = reader[h].src
  <2>1. reader[g].pc # "idle" /\ (rest(g) \/ move(g, "notify"))
    BY <1>5 DEF QueryFails
  <2>2. CASE rest(g)
    BY <1>a, <2>2 DEF rest, Resting
  <2>3. CASE move(g, "notify")
    BY <1>a, <2>1, <2>3 DEF move, ReaderState
  <2> QED
    BY <2>1, <2>2, <2>3
<1> QED
  BY <1>1, <1>2, <1>3, <1>4, <1>5
     DEF Next, Join, Reconcile, Edit, Type, Provision, StartPass, ProvisionMake,
         ProvisionAttach, Deliver, vars

(* While at most one edit was made, an event is read, claimed and carried   *)
(* over for the endpoint that holds its channel.                            *)
LEMMA HeldStep ==
  ASSUME IInv, IInv', HeldOK, [Next]_vars
  PROVE  HeldOK'
<1> SUFFICES ASSUME spent'.edits <= 1
             PROVE  /\ spent'.edits = 0 => \A c \in Community : inboxAt'[c] = InboxOf(c)
                    /\ \A c \in Community : \A route \in session'[c] : Holds(route[1], route[2])'
                    /\ \A h \in Reader : reader'[h].pc # "idle" =>
                         Holds(reader[h].src, at[reader[h].ev])'
                    /\ \A k \in receipts' : Holds(k[1], at[k[2]])'
                    /\ \A q \in rows' : Holds(q.src, at[q.ev])'
  BY DEF HeldOK
<1>a. TypeOK /\ TypeOK' /\ ToNamed /\ ToNamed' /\ OwnInbox /\ OwnInbox'
  BY DEF IInv
<1>b. /\ spent.edits \in Nat /\ spent'.edits \in Nat
      /\ \/ spent'.edits = spent.edits /\ inboxAt' = inboxAt
         \/ spent'.edits = spent.edits + 1
  <2>1. spent \in Spending /\ spent' \in Spending
    BY <1>a DEF TypeOK
  <2>2. MaxEdits \in Nat
    BY RoutingAssumption
  <2>3. \/ spent' = spent /\ inboxAt' = inboxAt
        \/ spent' = [spent EXCEPT !.faults = @ + 1] /\ inboxAt' = inboxAt
        \/ spent' = [spent EXCEPT !.edits = @ + 1]
    BY DEF Next, Provision, Read, Join, Reconcile, Edit, Type, See, Deliver, StartPass,
         ProvisionMake, ProvisionAttach, Crash, QueryFails, Resolve, Ingest, Bounce, Notify,
         Claim, FindPeer, Make, Attach, Reopen, Unbind, hub, vars
  <2>4. [spent EXCEPT !.faults = @ + 1].edits = spent.edits
    BY <2>1 DEF Spending
  <2>5. [spent EXCEPT !.edits = @ + 1].edits = spent.edits + 1
    BY <2>1 DEF Spending
  <2>6. spent.edits \in Nat /\ spent'.edits \in Nat
    BY <2>1, <2>2 DEF Spending
  <2> QED
    BY <2>3, <2>4, <2>5, <2>6
<1>0. /\ spent.edits = 0 => \A c \in Community : inboxAt[c] = InboxOf(c)
      /\ \A c \in Community : \A route \in session[c] : Holds(route[1], route[2])
      /\ \A h \in Reader : reader[h].pc # "idle" => Holds(reader[h].src, at[reader[h].ev])
      /\ \A k \in receipts : Holds(k[1], at[k[2]])
      /\ \A q \in rows : Holds(q.src, at[q.ev])
  BY <1>b DEF HeldOK
<1>k. \A s \in Slot : \A ch : Holds(s, ch) => Holds(s, ch)'
  BY HoldsKept
<1>t. \A e \in Event : at'[e] = at[e] \/ at[e] = Nowhere
  BY <1>a DEF TypeOK, Next, Provision, Read, Join, Reconcile, Edit, Type, See, Deliver,
       StartPass, ProvisionMake, ProvisionAttach, Crash, QueryFails, Resolve, Ingest, Bounce, Notify,
       Claim, FindPeer, Make, Attach, Reopen, Unbind, vars
<1>e. ASSUME NEW s \in Slot, NEW e \in Event, Holds(s, at[e]) PROVE Holds(s, at[e])'
  <2>1. at[e] \in Channel /\ at'[e] = at[e]
    BY <1>e, <1>t, RoutingAssumption DEF Holds
  <2>2. \A ch : ch = at[e] => Holds(s, ch)'
    BY <1>e, <1>k
  <2> QED
    BY <2>1, <2>2 DEF Holds
<1>1. spent'.edits = 0 => \A c \in Community : inboxAt'[c] = InboxOf(c)
  BY <1>0, <1>b
<1>2. ASSUME NEW c \in Community, NEW route \in session'[c]
      PROVE  Holds(route[1], route[2])'
  <2>0. route \in Slot \X Channel
    BY <1>2, <1>a DEF TypeOK
  <2>1. CASE route \in session[c]
    BY <1>0, <1>k, <2>0, <2>1
  <2>2. CASE Reconcile(c) /\ route \in Routes(c)
    <3>1. PICK s \in Slot : s[1] = c /\ Sends(s) /\ route = <<s, ChannelOf(s)>>
      BY <2>2 DEF Routes
    <3>2. route[1] = s /\ route[2] = ChannelOf(s) /\ route[2] \in Channel /\ endpoint[s].bound
      BY <2>0, <3>1 DEF Sends
    <3>3. Holds(s, ChannelOf(s))
      <4>1. CASE Direct(s)
        BY <3>2, <4>1 DEF ChannelOf, Direct, Holds
      <4>2. CASE ~Direct(s)
        <5>1. s = InboxOf(c) /\ ChannelOf(s) = inboxAt[c]
          BY <3>1, <4>2, SlotParts DEF ChannelOf, Direct
        <5>2. inboxAt[c][1] = c
          BY <1>a DEF OwnInbox
        <5> QED
          BY <3>2, <5>1, <5>2 DEF Holds
      <4> QED
        BY <4>1, <4>2
    <3> QED
      BY <1>k, <3>2, <3>3
  <2>3. route \in session[c] \/ (Reconcile(c) /\ route \in Routes(c))
    BY <1>2, <1>a DEF TypeOK, Next, Provision, Read, Join, Reconcile, Edit, Type, See,
         Deliver, StartPass, ProvisionMake, ProvisionAttach, Crash, QueryFails, Resolve, Ingest, Bounce,
         Notify, Claim, FindPeer, Make, Attach, Reopen, Unbind, vars
  <2> QED
    BY <2>1, <2>2, <2>3
<1>3. ASSUME NEW h \in Reader, reader'[h].pc # "idle"
      PROVE  Holds(reader[h].src, at[reader[h].ev])'
  <2>0. reader'[h].src \in Slot /\ reader'[h].ev \in Event
    BY <1>3, <1>a DEF TypeOK, ToNamed, ReaderState
  <2>1. CASE reader[h].pc # "idle" /\ reader'[h].ev = reader[h].ev
             /\ reader'[h].src = reader[h].src
    <3>1. PICK s \in Slot, e \in Event :
            s = reader[h].src /\ e = reader[h].ev /\ s = reader'[h].src /\ e = reader'[h].ev
      BY <2>0, <2>1
    <3>2. Holds(s, at[e])'
      BY <1>0, <1>e, <2>1, <3>1
    <3> QED
      BY <3>1, <3>2
  <2>2. ASSUME NEW e \in Event, See(h, e) PROVE Holds(reader[h].src, at[reader[h].ev])'
    <3>0. PICK route \in session[From[e]] :
            /\ route[2] = at[e]
            /\ reader' = [reader EXCEPT ![h] =
                 [pc |-> CASE Verb[e] # "message" -> "claim"
                           [] Direct(route[1])    -> "ingest"
                           [] OTHER               -> "resolve",
                  ev |-> e, src |-> route[1],
                  to |-> IF Direct(route[1]) /\ Verb[e] \in {"message", "close here"}
                         THEN route[1][2] ELSE To[e]]]
      BY <2>2 DEF See
    <3>1. reader'[h].ev = e /\ reader'[h].src = route[1]
      <4> DEFINE pc == CASE Verb[e] # "message" -> "claim"
                         [] Direct(route[1])    -> "ingest"
                         [] OTHER               -> "resolve"
                 to == IF Direct(route[1]) /\ Verb[e] \in {"message", "close here"}
                       THEN route[1][2] ELSE To[e]
      <4>1. reader' = [reader EXCEPT ![h] =
                         [pc |-> pc, ev |-> e, src |-> route[1], to |-> to]]
        BY <3>0
      <4>2. reader \in [Reader -> ReaderState]
        BY <1>a DEF TypeOK
      <4> HIDE DEF pc, to
      <4> QED
        BY <4>1, <4>2
    <3>2. From[e] \in Community
      BY RoutingAssumption
    <3>3. Holds(route[1], at[e])
      BY <1>0, <3>0, <3>2
    <3>4. Holds(route[1], at[e])'
      BY <1>e, <2>0, <3>1, <3>3
    <3> QED
      BY <3>1, <3>4
  <2> QED
    BY <1>3, <1>a, <2>1, <2>2, ReaderKeeps
<1>4. ASSUME NEW k \in receipts' PROVE Holds(k[1], at[k[2]])'
  <2>0. k \in Slot \X Event
    BY <1>4, <1>a DEF TypeOK
  <2>1. \/ k \in receipts
        \/ \E h \in Reader : k = <<reader[h].src, reader[h].ev>> /\ reader[h].pc # "idle"
    BY <1>4 DEF Next, Provision, Read, Join, Reconcile, Edit, Type, See,
         Deliver, StartPass, ProvisionMake, ProvisionAttach, Crash, QueryFails, Resolve, Ingest, Bounce,
         Notify, Claim, FindPeer, Make, Attach, Reopen, Unbind, doing, vars
  <2>2. Holds(k[1], at[k[2]])
    BY <1>0, <2>1
  <2> QED
    BY <1>e, <2>0, <2>2
<1>5. ASSUME NEW q \in rows' PROVE Holds(q.src, at[q.ev])'
  <2>0. q.src \in Slot /\ q.ev \in Event
    BY <1>5, <1>a DEF TypeOK, Row
  <2>1. Holds(q.src, at[q.ev])
    <3>1. CASE q \in rows
      BY <1>0, <3>1
    <3>2. ASSUME NEW h \in Reader, Ingest(h), q \notin rows PROVE Holds(q.src, at[q.ev])
      <4>1. q.ev = reader[h].ev /\ q.src = reader[h].src
        BY <1>5, <3>2, IngestedRows
      <4> QED
        BY <1>0, <3>2, <4>1 DEF Ingest, doing
    <3>3. ASSUME NEW p \in rows, Deliver(p) PROVE Holds(q.src, at[q.ev])
      <4>1. PICK st \in RowStatus : rows' = (rows \ {p}) \cup {[p EXCEPT !.status = st]}
        BY <3>3 DEF Deliver
      <4>2. p \in Row
        BY <1>a DEF TypeOK
      <4>3. [p EXCEPT !.status = st].src = p.src /\ [p EXCEPT !.status = st].ev = p.ev
        BY <4>2 DEF Row
      <4> QED
        BY <1>0, <1>5, <4>1, <4>3
    <3> QED
      BY <1>5, <3>1, <3>2, <3>3
         DEF Next, Read, Resolve, Bounce, Notify, Claim, FindPeer, Make, Attach, Reopen,
             Unbind, Provision, Join, Reconcile, Edit, Type, See, StartPass, ProvisionMake,
             ProvisionAttach, Crash, QueryFails, queue, vars
  <2> QED
    BY <1>e, <2>0, <2>1
<1> QED
  BY <1>1, <1>2, <1>3, <1>4, <1>5

THEOREM OnceInvariance == Spec => []OnceInv
<1>1. Init => OnceInv
  <2> SUFFICES ASSUME Init PROVE OnceInv
    OBVIOUS
  <2>1. ASSUME NEW e \in Event
        PROVE  /\ IsFiniteSet(Receipts(e)) /\ InHand(e) \subseteq Receipts(e)
               /\ notices[e] <= Cardinality(Receipts(e) \ InHand(e))
    <3>1. Receipts(e) = {} /\ InHand(e) = {} /\ notices[e] = 0
      BY DEF Init, Receipts, InHand, Owes, Answering, Resting
    <3>2. Receipts(e) \ InHand(e) = {}
      BY <3>1
    <3> QED
      BY <3>1, <3>2, FS_EmptySet
  <2>2. AnswersOK
    BY <2>1 DEF Init, AnswersOK, Owes, Answering, Resting
  <2>3. RowsOK
    BY DEF Init, RowsOK
  <2>4. HeldOK
    BY DEF Init, HeldOK, Resting
  <2> QED
    BY <2>2, <2>3, <2>4 DEF OnceInv
<1>2. IInv /\ IInv' /\ OnceInv /\ [Next]_vars => OnceInv'
  BY AnswersStep, KeysStep, HeldStep DEF OnceInv, IInv
<1> QED
  BY <1>1, <1>2, Invariance, PTL DEF Spec

(* Only an /open of its own community undoes the close of a channel, and   *)
(* only while it owes the answer for a receipt it claimed.                 *)
THEOREM ClosesHold == Spec => ClosedStaysClosed
<1> DEFINE Answerable(h) ==
      /\ Verb[reader[h].ev] = "open"
      /\ notices[reader[h].ev] <
           Cardinality({t \in Slot : <<t, reader[h].ev>> \in receipts})
<1>1. ASSUME IInv, OnceInv, NEW h \in Reader, doing(h, "reopen") PROVE Answerable(h)
  <2> DEFINE e == reader[h].ev
             s == reader[h].src
             given == Receipts(e) \ InHand(e)
  <2>0. TypeOK /\ ToNamed /\ AnswersOK /\ Owes(h)
    BY <1>1 DEF IInv, OnceInv, doing, Owes, Answering
  <2>1. e \in Event /\ s \in Slot /\ Verb[e] = "open"
    BY <1>1, <2>0, OwesTypes DEF ToNamed, doing
  <2>2. /\ IsFiniteSet(Receipts(e)) /\ InHand(e) \subseteq Receipts(e)
        /\ notices[e] <= Cardinality(given) /\ notices[e] \in Nat
    BY <2>0, <2>1 DEF AnswersOK, TypeOK
  <2>3. s \in InHand(e)
    BY <2>0, <2>1 DEF InHand
  <2>4. given \cup {s} \subseteq Receipts(e) /\ s \notin given /\ IsFiniteSet(given)
    BY <2>2, <2>3, FS_Subset
  <2>5. /\ Cardinality(given \cup {s}) = Cardinality(given) + 1
        /\ Cardinality(given \cup {s}) <= Cardinality(Receipts(e))
        /\ Cardinality(given) \in Nat /\ Cardinality(Receipts(e)) \in Nat
    <3> HIDE DEF given, s, e
    <3>1. Cardinality(given \cup {s}) = Cardinality(given) + 1
      BY <2>4, FS_AddElement
    <3>2. Cardinality(given \cup {s}) <= Cardinality(Receipts(e))
      BY <2>2, <2>4, FS_Subset
    <3> QED
      BY <2>2, <2>4, <3>1, <3>2, FS_CardinalityType
  <2>6. notices[e] < Cardinality(Receipts(e))
    <3> HIDE DEF given, s, e
    <3> QED
      BY <2>2, <2>5
  <2> QED
    BY <2>1, <2>6 DEF Receipts
<1>2. IInv /\ OnceInv /\ [Next]_vars =>
        [\A s \in Slot :
           Direct(s) /\ endpoint[s].bound /\ ~Receives(s) /\ Receives(s)' =>
             \E h \in Reader : doing(h, "reopen") /\ Mine(h) = s /\ Answerable(h)]_vars
  <2> SUFFICES ASSUME IInv, OnceInv, [Next]_vars, NEW s \in Slot, Direct(s),
                      endpoint[s].bound, ~Receives(s), Receives(s)'
               PROVE  \E h \in Reader : doing(h, "reopen") /\ Mine(h) = s /\ Answerable(h)
    OBVIOUS
  <2>1. endpoint'[s] # endpoint[s] /\ endpoint'[s].set.receives
    BY DEF Receives
  <2>2. ~Free(s)
    BY DEF Free
  <2>3. \E h \in Reader : doing(h, "reopen") /\ Mine(h) = s
    BY <2>1, <2>2, EndpointStep DEF IInv
  <2> HIDE DEF Answerable
  <2> QED
    BY <1>1, <2>3
<1>3. IInv /\ OnceInv /\ [Next]_vars =>
        [\A s \in Slot :
           Direct(s) /\ endpoint[s].bound /\ ~Receives(s) /\ Receives(s)' =>
             \E h \in Reader :
               /\ doing(h, "reopen") /\ Mine(h) = s /\ Verb[reader[h].ev] = "open"
               /\ notices[reader[h].ev] <
                    Cardinality({t \in Slot : <<t, reader[h].ev>> \in receipts})]_vars
  BY <1>2
<1> QED
  BY <1>3, Invariance, OnceInvariance, PTL DEF Spec, ClosedStaysClosed

(* Whatever owners edit, however often an event is read again and wherever *)
(* the worker dies, an event is answered at most once per endpoint that    *)
(* claimed its receipt, and carried over at most once per endpoint         *)
(* (claimCommandReceipt, claimUndeliverableNotice and the unique key of    *)
(* bridge_messages).                                                       *)
THEOREM AnswersPerEndpoint ==
  Spec => [](/\ \A e \in Event : notices[e] <= Cardinality(Receipts(e))
             /\ \A q, r \in rows : q.ev = r.ev /\ q.src = r.src => q = r)
<1>1. ASSUME OnceInv, TypeOK, NEW e \in Event PROVE notices[e] <= Cardinality(Receipts(e))
  <2>1. IsFiniteSet(Receipts(e)) /\ notices[e] <= Cardinality(Receipts(e) \ InHand(e))
    BY <1>1 DEF OnceInv, AnswersOK
  <2>2. /\ Cardinality(Receipts(e) \ InHand(e)) <= Cardinality(Receipts(e))
        /\ Cardinality(Receipts(e) \ InHand(e)) \in Nat
        /\ Cardinality(Receipts(e)) \in Nat
    BY <2>1, FS_Subset, FS_CardinalityType
  <2>3. notices[e] \in Nat
    BY <1>1 DEF TypeOK
  <2> QED
    BY <2>1, <2>2, <2>3
<1>2. OnceInv /\ TypeOK =>
        /\ \A e \in Event : notices[e] <= Cardinality(Receipts(e))
        /\ \A q, r \in rows : q.ev = r.ev /\ q.src = r.src => q = r
  BY <1>1 DEF OnceInv, RowsOK
<1> QED
  BY <1>2, OnceInvariance, TypeCorrect, PTL

(* No two endpoints hold one channel. *)
LEMMA OneHolder ==
  ASSUME IInv, NEW s \in Slot, NEW t \in Slot, NEW ch, Holds(s, ch), Holds(t, ch)
  PROVE  s = t
<1>0. TypeOK /\ OwnInbox /\ BoundElsewhere
  BY DEF IInv
<1>1. ch \in Slot /\ ch[1] \in Community
  BY SlotParts DEF Holds, Channel
<1>2. \A u \in Slot : Holds(u, ch) =>
         \/ u = ch /\ endpoint[u].bound
         \/ u = InboxOf(ch[1]) /\ inboxAt[ch[1]] = ch
  BY DEF Holds
<1>3. ASSUME ch # InboxOf(ch[1]), endpoint[ch].bound PROVE inboxAt[ch[1]] # ch
  BY <1>0, <1>1, <1>3, SlotParts DEF BoundElsewhere, Direct, InboxOf
<1> QED
  BY <1>1, <1>2, <1>3

(* While at most one settings edit was made (two of them can hand a        *)
(* channel from the inbox to a direct channel, and its events to another   *)
(* key), an event is answered once and carried over once, however often    *)
(* and by however many handlers it is read.                                *)
THEOREM AnsweredUnlessMoved == Spec => [](spent.edits <= 1 => AnsweredOnce)
<1>1. ASSUME IInv, OnceInv, spent.edits <= 1, NEW e \in Event
      PROVE  /\ notices[e] <= 1
             /\ \A q, r \in rows : q.ev = e /\ r.ev = e => q = r
  <2>0. TypeOK /\ AnswersOK /\ RowsOK /\ HeldOK
    BY <1>1 DEF IInv, OnceInv
  <2>1. \A s, t \in Receipts(e) : s = t
    <3>1. \A s \in Receipts(e) : s \in Slot /\ Holds(s, at[e])
      BY <1>1, <2>0 DEF Receipts, HeldOK, TypeOK
    <3> QED
      BY <1>1, <3>1, OneHolder
  <2>2. \E s : Receipts(e) \subseteq {s}
    BY <2>1
  <2>3. PICK s : Receipts(e) \subseteq {s}
    BY <2>2
  <2>4. /\ IsFiniteSet(Receipts(e))
        /\ notices[e] <= Cardinality(Receipts(e) \ InHand(e)) /\ notices[e] \in Nat
    BY <2>0 DEF AnswersOK, TypeOK
  <2>5. /\ Cardinality(Receipts(e) \ InHand(e)) <= 1
        /\ Cardinality(Receipts(e) \ InHand(e)) \in Nat
    <3>1. IsFiniteSet({s}) /\ Cardinality({s}) = 1
      BY FS_Singleton
    <3>2. Receipts(e) \ InHand(e) \subseteq {s}
      BY <2>3
    <3> QED
      BY <3>1, <3>2, FS_Subset, FS_CardinalityType
  <2>6. notices[e] <= 1
    BY <2>4, <2>5
  <2>7. ASSUME NEW q \in rows, NEW r \in rows, q.ev = e, r.ev = e PROVE q = r
    <3>1. q.src \in Slot /\ r.src \in Slot
      BY <2>0 DEF TypeOK, Row
    <3>2. Holds(q.src, at[e]) /\ Holds(r.src, at[e])
      BY <1>1, <2>0, <2>7 DEF HeldOK
    <3>3. q.src = r.src
      BY <1>1, <3>1, <3>2, OneHolder
    <3> QED
      BY <2>0, <2>7, <3>3 DEF RowsOK
  <2> QED
    BY <2>6, <2>7
<1>2. IInv /\ OnceInv => (spent.edits <= 1 => AnsweredOnce)
  BY <1>1 DEF AnsweredOnce
<1> QED
  BY <1>2, OnceInvariance, Invariance, PTL
=============================================================================
