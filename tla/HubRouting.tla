----------------------------- MODULE HubRouting -----------------------------
(***************************************************************************)
(* Who hears whom on the hub: the endpoints of a community (one inbox, and *)
(* one direct channel per peer), the commands that open and close direct   *)
(* channels, the provisioner that gives the home community one per peer,   *)
(* and the way of a message from the channel it is typed in to the single  *)
(* endpoint that ingestBridgeMessage picks for it.                         *)
(*                                                                         *)
(* The relay replays events to every rebuilt session, so an event may be   *)
(* read any number of times, and by handlers that run side by side.  Each  *)
(* await of handleSourceEvent, of the commands and of the provisioner is   *)
(* an action.  Jobs, attempts and crashes of the delivery itself are in    *)
(* BridgeDelivery; here a delivery is one step with its possible outcomes. *)
(***************************************************************************)
EXTENDS Integers, FiniteSets

CONSTANTS
  Community,
  Home,        \* the community of BuzzRouter's own relay
  Inbox,       \* in place of a peer: dedicated_to_community_id IS NULL
  Event,       \* source events people type
  NoEvent,
  Verb,        \* [Event -> "message", "open", "close" or "close here"]
  From,        \* [Event -> Community] whose member types it
  To,          \* [Event -> Community] the community it names
  Parent,      \* [Event -> Event or NoEvent] what it replies to
  Mention,     \* the events whose address names a user as well
  Nowhere,     \* the channel of an event nobody has typed yet
  Choice,      \* the settings an owner may save
  Reader,      \* handlers of source events running at one time
  MaxEdits, MaxFaults   \* bounds of the exploration

(* An endpoint <<c, p>> belongs to c and is dedicated to p, or is c's      *)
(* inbox.  Channels have the same names: <<c, Inbox>> is the channel that  *)
(* c joined with, <<c, p>> the one that the handoff keyed hub-dedicated:p  *)
(* creates in c.                                                           *)
Slot    == {s \in Community \X (Community \cup {Inbox}) : s[1] # s[2]}
Channel == Slot
InboxOf(c) == <<c, Inbox>>

Settings == [sends : BOOLEAN, receives : BOOLEAN, peers : SUBSET Community]
Endpoint == [bound : BOOLEAN, set : Settings]

OpenToAll == [sends |-> TRUE, receives |-> TRUE, peers |-> Community]
Absent    == [bound |-> FALSE, set |-> OpenToAll]
Opened    == [bound |-> TRUE, set |-> OpenToAll]

ASSUME RoutingAssumption ==
  /\ Home \in Community /\ Inbox \notin Community
  /\ NoEvent \notin Event
  /\ Nowhere \notin Channel
  /\ Verb \in [Event -> {"message", "open", "close", "close here"}]
  /\ From \in [Event -> Community] /\ To \in [Event -> Community]
  /\ Parent \in [Event -> Event \cup {NoEvent}]
  /\ Choice \subseteq Settings
  /\ MaxEdits \in Nat /\ MaxFaults \in Nat

VARIABLES
  endpoint,    \* [Slot -> Endpoint] shared_channel_endpoints
  inboxAt,     \* [Community -> Channel] local_channel_id of the inbox
  made,        \* dedicated channels that exist on their relays
  session,     \* [Community -> routes (slot, channel) its session subscribed]
  at,          \* [Event -> Channel it was typed in, or Nowhere]
  receipts,    \* (slot, event) claimed: bridge_command_receipts for commands,
               \* bridge_undeliverable_notices for messages
  rows,        \* bridge_messages with their delivery
  notices,     \* [Event -> answers the bridge set out to publish]
  reader,      \* [Reader -> what each handler is doing]
  provisioner, \* the pass of provisionPeerChannels
  spent        \* how much of each exploration bound is used up

vars == <<endpoint, inboxAt, made, session, at, receipts, rows, notices,
          reader, provisioner, spent>>

RowStatus == {"routed", "posted", "failed", "cancelled"}
Row == [ev : Event, src : Slot, dst : Slot, status : RowStatus]

Pc == {"idle", "resolve", "ingest", "bounce", "notify",
       "claim", "peer", "make", "attach", "reopen", "unbind"}
ReaderState == [pc : Pc, ev : Event \cup {NoEvent}, src : Slot, to : Community]
Resting == [pc |-> "idle", ev |-> NoEvent, src |-> InboxOf(Home), to |-> Home]

ProvisionerState ==
  [pc : {"idle", "make", "attach"}, todo : SUBSET Community, peer : Community]
Waiting == [pc |-> "idle", todo |-> {}, peer |-> Home]

ChannelOf(s) == IF s[2] = Inbox THEN inboxAt[s[1]] ELSE s
Direct(s)    == s[2] # Inbox
Member(c)    == endpoint[InboxOf(c)].bound

(* Two endpoints may exchange at all: switches, filters and dedications.   *)
Sends(s)     == endpoint[s].bound /\ endpoint[s].set.sends
Receives(s)  == endpoint[s].bound /\ endpoint[s].set.receives
Hears(s, t)  == s[1] \in endpoint[t].set.peers /\ t[1] \in endpoint[s].set.peers
ServesPeer(s, c) == ~Direct(s) \/ s[2] = c

RouteActive(s, t) == Sends(s) /\ Receives(t) /\ Hears(s, t)

(***************************************************************************)
(* Faulty variants.  No behaviour of Spec uses them: each is a definition  *)
(* below with one plausible bug in it, kept to show which property would   *)
(* notice that bug.                                                        *)
(***************************************************************************)

(* The inbox does not yield to the direct channel of the sender. *)
InboxNeverYields(s, c) ==
  {t \in Slot :
     /\ t[1] = c /\ t # s
     /\ Receives(t) /\ Hears(s, t)
     /\ ServesPeer(t, s[1]) /\ ServesPeer(s, c)}

(* The query forgets that a destination may be dedicated to another peer.  *)
AnyDirectChannel(s, c) ==
  {t \in Slot :
     /\ t[1] = c /\ t # s
     /\ Receives(t) /\ Hears(s, t)
     /\ ServesPeer(s, c)
     /\ Direct(t) \/ ~\E d \in Slot : d = <<c, s[1]>> /\ Receives(d)}

(* The inbox yields to a direct channel that has been closed. *)
YieldsToClosed(s, c) ==
  {t \in Slot :
     /\ t[1] = c /\ t # s
     /\ Receives(t) /\ Hears(s, t)
     /\ ServesPeer(t, s[1]) /\ ServesPeer(s, c)
     /\ Direct(t) \/ ~\E d \in Slot : d = <<c, s[1]>> /\ endpoint[d].bound}

(* The destination query of ingestBridgeMessage for a message of endpoint  *)
(* s addressed to community c.                                             *)
Destinations(s, c) ==
  {t \in Slot :
     /\ t[1] = c /\ t # s
     /\ Receives(t) /\ Hears(s, t)
     /\ ServesPeer(t, s[1]) /\ ServesPeer(s, c)
     /\ Direct(t) \/ ~\E d \in Slot : d = <<c, s[1]>> /\ Receives(d)}

(* findRoutableCommunityBySlug *)
Routable(c) == \E t \in Slot : t[1] = c /\ Receives(t)

(* The routes of listActiveConnectorConfigs. *)
Routes(c) == {<<s, ChannelOf(s)>> : s \in {t \in Slot : t[1] = c /\ Sends(t)}}

(* Where the message of row q has a bridge_event_mappings entry. *)
MappedAt(q, s) == q.src = s \/ (q.dst = s /\ q.status = "posted")

(* A reply is deliverable when its parent is mapped on both sides. *)
ParentKnown(r) ==
  \/ Parent[r.ev] = NoEvent
  \/ \E q \in rows : q.ev = Parent[r.ev] /\ MappedAt(q, r.src) /\ MappedAt(q, r.dst)

(* What can be read in channel ch: typed there, or posted there by the hub. *)
Visible(e, ch) ==
  \/ at[e] = ch
  \/ \E q \in rows : q.ev = e /\ q.status = "posted" /\ ChannelOf(q.dst) = ch

doing(h, pc) == reader[h].pc = pc
move(h, pc)  == reader' = [reader EXCEPT ![h].pc = pc]
rest(h)      == reader' = [reader EXCEPT ![h] = Resting]
Mine(h)      == <<reader[h].src[1], reader[h].to>>   \* its side of the pair

hub   == <<endpoint, inboxAt>>
queue == <<rows, notices>>
-----------------------------------------------------------------------------
(* Faulty variants, as above. *)

(* A route without a binding is taken for one that has it. *)
SeeAlwaysBound(h, e) ==
  /\ doing(h, "idle")
  /\ \E route \in session[From[e]] :
       /\ route[2] = at[e]
       /\ reader' = [reader EXCEPT ![h] =
            [pc |-> IF Verb[e] # "message" THEN "claim" ELSE "ingest",
             ev |-> e, src |-> route[1], to |-> route[1][2]]]
  /\ UNCHANGED <<hub, made, session, at, receipts, queue, provisioner, spent>>

(* A command runs although its receipt was claimed before. *)
ClaimIgnoresReceipt(h) ==
  /\ doing(h, "claim")
  /\ move(h, CASE Verb[reader[h].ev] # "close here" -> "peer"
               [] Direct(reader[h].src)             -> "unbind"
               [] OTHER                             -> "notify")
  /\ receipts' = receipts \cup {<<reader[h].src, reader[h].ev>>}
  /\ UNCHANGED <<hub, made, session, at, queue, provisioner, spent>>

(* Only the pair is checked before an endpoint is inserted. *)
FreePair(s) == ~endpoint[s].bound

(* A peer whose channel exists is no longer missing, bound or not. *)
MissingChannel ==
  {p \in Community : p # Home /\ Member(p) /\ <<Home, p>> \notin made}

Init ==
  /\ endpoint = [s \in Slot |-> Absent]
  /\ inboxAt = [c \in Community |-> InboxOf(c)]
  /\ made = {}
  /\ session = [c \in Community |-> {}]
  /\ at = [e \in Event |-> Nowhere]
  /\ receipts = {}
  /\ rows = {}
  /\ notices = [e \in Event |-> 0]
  /\ reader = [h \in Reader |-> Resting]
  /\ provisioner = Waiting
  /\ spent = [edits |-> 0, faults |-> 0]

(* joinOpenHub: the first join creates the hub and the inbox of Home too.  *)
Join(c) ==
  /\ ~Member(c)
  /\ endpoint' = [s \in Slot |->
       IF s = InboxOf(c) \/ (s = InboxOf(Home) /\ ~Member(Home))
       THEN Opened ELSE endpoint[s]]
  /\ UNCHANGED <<inboxAt, made, session, at, receipts, queue, reader,
                 provisioner, spent>>

(* The filter may only list other communities that are on the hub. *)
Listable(c, peers) ==
  LET others == {d \in Community : d # c /\ Member(d)} IN
  peers \subseteq others \/ Community \ peers \subseteq others

(* updateOpenHubSettings: switches, filter and channel of the inbox, and   *)
(* of the inbox only.  assertChannelNotRouted refuses a channel that one   *)
(* of the community's other endpoints holds.                               *)
Edit(c, set, ch) ==
  /\ spent.edits < MaxEdits
  /\ Member(c)
  /\ Listable(c, set.peers)
  /\ ch = InboxOf(c) \/ (ch \in made /\ ch[1] = c)
  /\ ch = inboxAt[c] \/ ~endpoint[ch].bound \/ ch = InboxOf(c)
  /\ <<set, ch>> # <<endpoint[InboxOf(c)].set, inboxAt[c]>>
  /\ endpoint' = [endpoint EXCEPT ![InboxOf(c)].set = set]
  /\ inboxAt' = [inboxAt EXCEPT ![c] = ch]
  /\ spent' = [spent EXCEPT !.edits = @ + 1]
  /\ UNCHANGED <<made, session, at, receipts, queue, reader, provisioner>>

(* reconcile finds that the routes of a connection changed and replaces    *)
(* its session.                                                            *)
Reconcile(c) ==
  /\ session[c] # Routes(c)
  /\ session' = [session EXCEPT ![c] = Routes(c)]
  /\ UNCHANGED <<hub, made, at, receipts, queue, reader, provisioner, spent>>

(* Somebody types e in channel ch; a reply is typed under an event that    *)
(* can be seen there.                                                      *)
Type(e, ch) ==
  /\ at[e] = Nowhere
  /\ ch[1] = From[e]
  /\ ch = InboxOf(From[e]) \/ ch \in made
  /\ Parent[e] \in Event => Visible(Parent[e], ch)
  /\ at' = [at EXCEPT ![e] = ch]
  /\ UNCHANGED <<hub, made, session, receipts, queue, reader, provisioner,
                 spent>>
-----------------------------------------------------------------------------
(* handleSourceEvent: the relay delivers e to a session, for the first     *)
(* time or again, and the handler finds the route of its channel.  What is *)
(* typed in a direct channel names its destination by binding.             *)
See(h, e) ==
  /\ doing(h, "idle")
  /\ \E route \in session[From[e]] :
       /\ route[2] = at[e]
       /\ reader' = [reader EXCEPT ![h] =
            [pc |-> CASE Verb[e] # "message" -> "claim"
                      [] Direct(route[1])    -> "ingest"
                      [] OTHER               -> "resolve",
             ev |-> e, src |-> route[1],
             to |-> IF Direct(route[1]) /\ Verb[e] \in {"message", "close here"}
                    THEN route[1][2] ELSE To[e]]]
  /\ UNCHANGED <<hub, made, session, at, receipts, queue, provisioner, spent>>

(* findRoutableCommunityBySlug, and destinationHasMember for a mention.    *)
Resolve(h) ==
  /\ doing(h, "resolve")
  /\ \/ Routable(reader[h].to) /\ move(h, "ingest")
     \/ /\ ~Routable(reader[h].to) \/ reader[h].ev \in Mention
        /\ move(h, "bounce")
  /\ UNCHANGED <<hub, made, session, at, receipts, queue, provisioner, spent>>

(* ingestBridgeMessage: one transaction per (endpoint, event); a route     *)
(* that is not active throws route_inactive, which the caller swallows.    *)
Ingest(h) ==
  LET r == reader[h] IN
  /\ doing(h, "ingest")
  /\ \/ /\ Sends(r.src)
        /\ \A q \in rows : ~(q.ev = r.ev /\ q.src = r.src)
        /\ Destinations(r.src, r.to) # {}
        /\ rows' = rows \cup {[ev |-> r.ev, src |-> r.src, dst |-> t,
                               status |-> "routed"] : t \in Destinations(r.src, r.to)}
     \/ /\ \/ ~Sends(r.src)
           \/ Destinations(r.src, r.to) = {}
           \/ \E q \in rows : q.ev = r.ev /\ q.src = r.src
        /\ UNCHANGED rows
  /\ rest(h)
  /\ UNCHANGED <<hub, made, session, at, receipts, notices, provisioner, spent>>

(* claimUndeliverableNotice *)
Bounce(h) ==
  LET key == <<reader[h].src, reader[h].ev>> IN
  /\ doing(h, "bounce")
  /\ IF key \in receipts THEN rest(h) ELSE move(h, "notify")
  /\ receipts' = receipts \cup {key}
  /\ UNCHANGED <<hub, made, session, at, queue, provisioner, spent>>

(* The notice of a bounce, or the reply to a command.  A publication that  *)
(* fails is swallowed and never tried again, so each attempt counts.       *)
Notify(h) ==
  /\ doing(h, "notify")
  /\ notices' = [notices EXCEPT ![reader[h].ev] = @ + 1]
  /\ rest(h)
  /\ UNCHANGED <<hub, made, session, at, receipts, rows, provisioner, spent>>
-----------------------------------------------------------------------------
(* claimCommandReceipt: claimed before the command runs. *)
Claim(h) ==
  LET key == <<reader[h].src, reader[h].ev>> IN
  /\ doing(h, "claim")
  /\ IF key \in receipts THEN rest(h)
     ELSE move(h, CASE Verb[reader[h].ev] # "close here" -> "peer"
                    [] Direct(reader[h].src)             -> "unbind"
                    [] OTHER                             -> "notify")
  /\ receipts' = receipts \cup {key}
  /\ UNCHANGED <<hub, made, session, at, queue, provisioner, spent>>

(* getCommunityInboxEndpoint and findRoutableCommunityBySlug.  An inbox is *)
(* never removed, so two reads of it are as good as one.                   *)
FindPeer(h) ==
  LET r == reader[h] IN
  /\ doing(h, "peer")
  /\ move(h, IF ~Member(r.src[1]) \/ ~Routable(r.to) THEN "notify"
             ELSE IF Verb[r.ev] = "close" THEN "unbind"
             ELSE IF r.to = r.src[1] THEN "notify" ELSE "make")
  /\ UNCHANGED <<hub, made, session, at, receipts, queue, provisioner, spent>>

(* createDedicatedChannel: the handoff reuses the channel of its key; when *)
(* it fails part way, the channel may exist all the same.                  *)
Make(h) ==
  /\ doing(h, "make")
  /\ \/ made' = made \cup {Mine(h)} /\ move(h, "attach") /\ UNCHANGED spent
     \/ /\ spent.faults < MaxFaults
        /\ spent' = [spent EXCEPT !.faults = @ + 1]
        /\ made' \in {made, made \cup {Mine(h)}}
        /\ move(h, "notify")
  /\ UNCHANGED <<hub, session, at, receipts, queue, provisioner>>

(* attachDedicatedPeerChannel inserts unless the pair has an endpoint or   *)
(* the channel is taken: ON CONFLICT DO NOTHING.                           *)
Free(s) == ~endpoint[s].bound /\ inboxAt[s[1]] # s

Attach(h) ==
  /\ doing(h, "attach")
  /\ \/ /\ Free(Mine(h))
        /\ endpoint' = [endpoint EXCEPT ![Mine(h)] = Opened]
        /\ move(h, "notify")
     \/ /\ ~Free(Mine(h))
        /\ move(h, "reopen")
        /\ UNCHANGED endpoint
  /\ UNCHANGED <<inboxAt, made, session, at, receipts, queue, provisioner, spent>>

(* Both switches of an endpoint, if there is a row to update. *)
Switch(s, on) ==
  endpoint' = [t \in Slot |->
    IF t = s /\ endpoint[t].bound
    THEN [endpoint[t] EXCEPT !.set = [@ EXCEPT !.sends = on, !.receives = on]]
    ELSE endpoint[t]]

(* reopenDedicatedPeerChannel *)
Reopen(h) ==
  /\ doing(h, "reopen")
  /\ Switch(Mine(h), TRUE)
  /\ move(h, "notify")
  /\ UNCHANGED <<inboxAt, made, session, at, receipts, queue, provisioner, spent>>

(* unbindDedicatedPeerChannel; naming one's own community finds no row. *)
Unbind(h) ==
  /\ doing(h, "unbind")
  /\ Switch(Mine(h), FALSE)
  /\ move(h, "notify")
  /\ UNCHANGED <<inboxAt, made, session, at, receipts, queue, provisioner, spent>>
(* A query of a handler fails.  A command is answered that it could not be *)
(* completed; any other handler ends, and it may have claimed its receipt  *)
(* all the same.  Where only the answer is lost of a query that did its    *)
(* work, the handler goes on as after a success.                           *)
QueryFails(h) ==
  /\ spent.faults < MaxFaults
  /\ spent' = [spent EXCEPT !.faults = @ + 1]
  /\ \/ /\ reader[h].pc \in {"peer", "attach", "reopen", "unbind"}
        /\ move(h, "notify")
        /\ UNCHANGED receipts
     \/ /\ reader[h].pc \in {"resolve", "ingest", "bounce", "claim"}
        /\ rest(h)
        /\ UNCHANGED receipts
     \/ /\ reader[h].pc \in {"bounce", "claim"}
        /\ rest(h)
        /\ receipts' = receipts \cup {<<reader[h].src, reader[h].ev>>}
  /\ UNCHANGED <<hub, made, session, at, queue, provisioner>>
-----------------------------------------------------------------------------
(* listHubPeersMissingDedicatedChannel: a closed endpoint is not missing.  *)
Missing == {p \in Community : p # Home /\ Member(p) /\ ~endpoint[<<Home, p>>].bound}

StartPass ==
  /\ provisioner.pc = "idle"
  /\ Member(Home) /\ Missing # {}
  /\ provisioner' = [provisioner EXCEPT !.pc = "make", !.todo = Missing]
  /\ UNCHANGED <<hub, made, session, at, receipts, queue, reader, spent>>

(* One peer of the pass; an error is logged and the pass goes on. *)
ProvisionMake ==
  /\ provisioner.pc = "make"
  /\ \E p \in provisioner.todo :
       \/ /\ made' = made \cup {<<Home, p>>}
          /\ provisioner' = [provisioner EXCEPT !.pc = "attach", !.peer = p]
          /\ UNCHANGED spent
       \/ /\ spent.faults < MaxFaults
          /\ spent' = [spent EXCEPT !.faults = @ + 1]
          /\ made' \in {made, made \cup {<<Home, p>>}}
          /\ provisioner' =
               IF provisioner.todo = {p} THEN Waiting
               ELSE [provisioner EXCEPT !.todo = @ \ {p}]
  /\ UNCHANGED <<hub, session, at, receipts, queue, reader>>

ProvisionAttach ==
  LET s == <<Home, provisioner.peer>> IN
  /\ provisioner.pc = "attach"
  /\ endpoint' = [endpoint EXCEPT ![s] = IF Free(s) THEN Opened ELSE @]
  /\ provisioner' =
       IF provisioner.todo = {provisioner.peer} THEN Waiting
       ELSE [provisioner EXCEPT !.pc = "make", !.todo = @ \ {provisioner.peer}]
  /\ UNCHANGED <<inboxAt, made, session, at, receipts, queue, reader, spent>>

Provision == StartPass \/ ProvisionMake \/ ProvisionAttach

(* The delivery of a routed row comes to an end (BridgeDelivery): posted,  *)
(* given up after the last retry, or cancelled.  What it read of the route *)
(* may be out of date by then, or wrong after an overrun, so the route as  *)
(* it is now excludes none of the three; a mapping is never removed.       *)
Deliver(q) ==
  /\ q.status = "routed"
  /\ \E s \in RowStatus \ {"routed"} :
       /\ s = "posted" => ParentKnown(q)
       /\ rows' = (rows \ {q}) \cup {[q EXCEPT !.status = s]}
  /\ UNCHANGED <<hub, made, session, at, receipts, notices, reader,
                 provisioner, spent>>

(* The worker process dies: handlers, sessions and the pass are gone. *)
Crash ==
  /\ spent.faults < MaxFaults
  /\ spent' = [spent EXCEPT !.faults = @ + 1]
  /\ reader' = [h \in Reader |-> Resting]
  /\ session' = [c \in Community |-> {}]
  /\ provisioner' = Waiting
  /\ UNCHANGED <<hub, made, at, receipts, queue>>

Read(h) ==
  \/ Resolve(h) \/ Ingest(h) \/ Bounce(h) \/ Notify(h)
  \/ Claim(h) \/ FindPeer(h) \/ Make(h) \/ Attach(h) \/ Reopen(h) \/ Unbind(h)

Next ==
  \/ \E c \in Community : Join(c) \/ Reconcile(c)
  \/ \E c \in Community, set \in Choice, ch \in Channel : Edit(c, set, ch)
  \/ \E e \in Event, ch \in Channel : Type(e, ch)
  \/ \E h \in Reader, e \in Event : See(h, e)
  \/ \E h \in Reader : Read(h) \/ QueryFails(h)
  \/ \E q \in rows : Deliver(q)
  \/ Provision
  \/ Crash

Spec == Init /\ [][Next]_vars

(* The worker keeps reconciling and running passes, and promises settle. *)
Fairness ==
  /\ \A c \in Community : WF_vars(Reconcile(c))
  /\ \A h \in Reader : WF_vars(Read(h))
  /\ WF_vars(Provision)

FairSpec == Spec /\ Fairness
-----------------------------------------------------------------------------
Spending == [edits : 0..MaxEdits, faults : 0..MaxFaults]

TypeOK ==
  /\ endpoint \in [Slot -> Endpoint]
  /\ inboxAt \in [Community -> Channel]
  /\ made \subseteq Slot
  /\ session \in [Community -> SUBSET (Slot \X Channel)]
  /\ at \in [Event -> Channel \cup {Nowhere}]
  /\ receipts \subseteq Slot \X Event
  /\ rows \subseteq Row
  /\ notices \in [Event -> Nat]
  /\ reader \in [Reader -> ReaderState]
  /\ provisioner \in ProvisionerState
  /\ spent \in Spending

(* An addressed message is one message: whatever endpoints the two sides   *)
(* hold, open, closed and filtered in whatever way, the destination query  *)
(* never picks two of them (its clauses on dedicated_to_community_id).     *)
OneDestination ==
  \A s \in Slot, c \in Community : \A t, u \in Destinations(s, c) : t = u

(* What goes into a direct channel comes from the peer it is dedicated to, *)
(* what comes out of it goes to that peer, and a message from an inbox     *)
(* goes to the community it names, however the endpoints changed between   *)
(* typing, resolving, ingesting and replay.                                *)
DirectStaysPrivate ==
  \A q \in rows :
    /\ ServesPeer(q.dst, q.src[1])
    /\ ServesPeer(q.src, q.dst[1])
    /\ ~Direct(q.src) => q.dst[1] = To[q.ev]

(* Opening, closing or provisioning direct channels never cuts anybody     *)
(* off: a message the inbox of a community would take has a destination    *)
(* there, the inbox itself or the direct channel it yields to.             *)
NeverStranded ==
  \A s \in Slot, c \in Community :
    s[1] # c /\ ServesPeer(s, c) /\ RouteActive(s, InboxOf(c)) =>
      \E t \in Destinations(s, c) : RouteActive(s, t)

(* The handler finds the endpoint of an event by its channel alone, so no  *)
(* channel may serve two endpoints of a community, not even when an owner  *)
(* moves the inbox to a channel that /open is about to bind.               *)
OneRoutePerChannel ==
  \A s, t \in Slot :
    endpoint[s].bound /\ endpoint[t].bound /\ ChannelOf(s) = ChannelOf(t) => s = t

(* An event that is replayed, or read by two handlers at a time, is        *)
(* answered once: one bounce notice, or one execution of a command and its *)
(* reply; and it is carried over once.  Receipts and rows are keyed by the *)
(* endpoint, so this holds while the inbox moved at most once: after two   *)
(* moves the channel of an event may belong to another endpoint, and a     *)
(* replay claims a second receipt for it.                                  *)
AnsweredOnce ==
  \A e \in Event :
    /\ notices[e] <= 1
    /\ \A q, r \in rows : q.ev = e /\ r.ev = e => q = r

(* A direct channel that was closed is opened again only by an /open of    *)
(* its own community that still owes the answer for a receipt it claimed:  *)
(* neither a provisioning pass that was under way, nor a settings edit,    *)
(* nor the replay of an /open that was answered undoes a close.  There is  *)
(* one receipt for each endpoint the /open was read at, and one in all     *)
(* while the inbox moved at most once (claimCommandReceipt,                *)
(* attachDedicatedPeerChannel).                                            *)
ClosedStaysClosed ==
  [][\A s \in Slot :
       Direct(s) /\ endpoint[s].bound /\ ~Receives(s) /\ Receives(s)' =>
         \E h \in Reader :
           /\ doing(h, "reopen") /\ Mine(h) = s /\ Verb[reader[h].ev] = "open"
           /\ notices[reader[h].ev] <
                Cardinality({t \in Slot : <<t, reader[h].ev>> \in receipts})]_vars

(* Every community that joined gets its direct channel with Home.          *)
EventuallyProvisioned ==
  \A p \in Community \ {Home} :
    Member(p) ~> (endpoint[<<Home, p>>].bound \/ inboxAt[Home] = <<Home, p>>)

(* "a slug that ... has switched receiving off, is NOT a valid destination *)
(* and must read as unknown rather than silently dropping the message"     *)
(* (store.ts): what is resolved has an endpoint that serves the sender.    *)
SwitchedOffReadsAsUnknown ==
  [][\A h \in Reader :
       doing(h, "resolve") /\ reader'[h].pc = "ingest" =>
         \E t \in Slot : /\ t[1] = reader[h].to
                         /\ Receives(t)
                         /\ ServesPeer(t, reader[h].src[1])]_vars
=============================================================================
