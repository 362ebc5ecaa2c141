--------------------------- MODULE BridgeDelivery ---------------------------
(***************************************************************************)
(* The delivery path of the shared-channel hub: from the transaction that  *)
(* ingests a source event (store.ts, ingestBridgeMessage), over the        *)
(* pg-boss job that carries it, to the handler that publishes one          *)
(* projection of it on the destination relay (connector.ts, deliver) and   *)
(* records the outcome.                                                    *)
(*                                                                         *)
(* A handler is a sequence of awaits.  Each await is one action here, so   *)
(* handlers interleave with each other, with settings edits and with       *)
(* pg-boss exactly where the JavaScript can be suspended.  Two handlers    *)
(* work on the same delivery when the first outlives the 60 s expiry of    *)
(* its job, or when an expired job is fetched again after a crash.         *)
(*                                                                         *)
(* A message is identified with its source event.  It has ONE destination  *)
(* endpoint: the connector always addresses one community, and the query   *)
(* of ingestBridgeMessage picks one endpoint of it (see HubRouting).       *)
(***************************************************************************)
EXTENDS Integers

CONSTANTS
  Endpoint,     \* shared_channel_endpoints of the hub, one community each
  Inbox,        \* the endpoints that are not dedicated to one peer
  Message,      \* source events, one bridge_messages row each once ingested
  Origin,       \* [Message -> Endpoint] the endpoint it was posted in
  Target,       \* [Message -> Endpoint] the endpoint it is addressed to
  Parent,       \* [Message -> Message, or NoMessage, or Unbridged]
  NoMessage,    \* Parent of a message that is not a reply
  Unbridged,    \* Parent of a reply to a local event the bridge never carried
  CreatedAt,    \* [Message -> Nat] created_at of the source event
  Choice,       \* the settings an owner may save, a subset of Settings
  Handler,      \* handler slots of the worker (localConcurrency)
  RetryLimit,   \* retryLimit of the delivery queue
  MaxEdits, MaxFaults, MaxOverruns   \* bounds of the exploration

(* What updateOpenHubSettings can store: the two switches, and the set of  *)
(* endpoints that filter_mode and filter_list let through.                 *)
Settings == [sends : BOOLEAN, receives : BOOLEAN, peers : SUBSET Endpoint]

ASSUME DeliveryAssumption ==
  /\ Origin \in [Message -> Endpoint]
  /\ Target \in [Message -> Endpoint]
  /\ Parent \in [Message -> Message \cup {NoMessage, Unbridged}]
  /\ CreatedAt \in [Message -> Nat]
  /\ NoMessage \notin Message
  /\ Unbridged \notin Message
  /\ NoMessage # Unbridged
  /\ Inbox \subseteq Endpoint
  /\ Choice \subseteq Settings
  /\ RetryLimit \in Nat
  /\ MaxEdits \in Nat /\ MaxFaults \in Nat /\ MaxOverruns \in Nat
  /\ \A m \in Message : Origin[m] # Target[m]
  \* A reply is typed under an event its author can see in that channel.
  /\ \A m \in Message : Parent[m] \in Message =>
        Origin[m] \in {Origin[Parent[m]], Target[Parent[m]]}

VARIABLES
  settings,   \* [Endpoint -> Settings]
  cursor,     \* [Endpoint -> Nat] last_event_created_at
  state,      \* [Message -> state of its bridge_deliveries row]
  attempts,   \* [Message -> attempts of that row]
  signed,     \* [Message -> destination_signed_event of that row]
  replyTo,    \* [Message -> source_parent_event_id of its bridge_messages row]
  mapped,     \* [Message -> its bridge_event_mappings row at Target]
  job,        \* [Message -> state of its pg-boss job]
  tries,      \* [Message -> retry count of that job]
  handler,    \* [Handler -> what each handler slot is doing]
  relay,      \* [Message -> projections of it the Target relay accepted]
  hinted,     \* (source, inbox) pairs in bridge_direct_channel_hints
  hintPosts,  \* [pair -> hint notices the relay accepted]
  spent       \* how much of each exploration bound is used up

vars == <<settings, cursor, state, attempts, signed, replyTo, mapped, job,
          tries, handler, relay, hinted, hintPosts, spent>>

row  == <<state, attempts, signed, replyTo, mapped>>
hint == <<hinted, hintPosts>>

(***************************************************************************)
(* Event ids local to an endpoint.  A projection is identified by the      *)
(* attempt that signed it, so two signings are two different events.       *)
(***************************************************************************)
NoEvent  == -1
Original == 0                 \* the source event itself
LocalId  == {NoEvent} \cup Nat

Projection   == [stamp : LocalId, re : LocalId]   \* id, and its "e" reply tag
NoProjection == [stamp |-> NoEvent, re |-> NoEvent]

DeliveryState == {"absent", "queued", "delivering", "retry",
                  "delivered_to_relay", "failed", "cancelled"}
Settled(m)  == state[m] \in {"delivered_to_relay", "failed", "cancelled"}
Ingested(m) == state[m] # "absent"

Spending == [edits : Nat, faults : Nat, overruns : Nat]

JobState == {"none", "created", "retry", "active", "completed", "failed"}

Step == {"idle", "read", "mark", "persist", "check", "cancel", "publish",
         "lookup", "postpone", "complete", "hint", "greet",
         "resolved", "rejected"}
HandlerState == [pc : Step, m : Message \cup {NoMessage}, run : Nat,
                 ev : Projection, shut : BOOLEAN]
Idle == [pc |-> "idle", m |-> NoMessage, run |-> 0, ev |-> NoProjection,
         shut |-> FALSE]

Pair(m)    == <<Origin[m], Target[m]>>
IsReply(m) == Parent[m] # NoMessage
LastRun(h) == handler[h].run = RetryLimit     \* terminalAttempt

(* routeActive: endpoints send and receive, and both filters allow. *)
RouteUnder(cfg, m) ==
  /\ cfg[Origin[m]].sends
  /\ cfg[Target[m]].receives
  /\ Origin[m] \in cfg[Target[m]].peers
  /\ Target[m] \in cfg[Origin[m]].peers

RouteActive(m) == RouteUnder(settings, m)

(* The event that bridge_event_mappings gives message p at endpoint e. *)
LocalEvent(p, e) ==
  IF Origin[p] = e /\ Ingested(p) THEN Original
  ELSE IF Target[p] = e THEN mapped[p] ELSE NoEvent

(* localParentEventId: the parent is looked up by the id the reply carries *)
(* at its source, then by message at its destination.                      *)
LocalParent(m) ==
  IF /\ Parent[m] \in Message
     /\ replyTo[m] # NoEvent
     /\ LocalEvent(Parent[m], Origin[m]) = replyTo[m]
  THEN LocalEvent(Parent[m], Target[m])
  ELSE NoEvent

(* The events of its parent that the author of m can see and reply to. *)
Repliable(m) ==
  IF Parent[m] \notin Message THEN {NoEvent}
  ELSE (IF Origin[Parent[m]] = Origin[m] THEN {Original} ELSE {})
       \cup (IF Target[Parent[m]] = Origin[m]
             THEN {e.stamp : e \in relay[Parent[m]]} ELSE {})
(* at(h, s): handler h is about to take step s; go(h, s): it continues there. *)
at(h, s) == handler[h].pc = s

go(h, s) == handler' = [handler EXCEPT ![h].pc = s]
-----------------------------------------------------------------------------
(***************************************************************************)
(* Faulty variants.  No behaviour of Spec uses them: each is a definition  *)
(* below with one plausible bug in it, kept to show which property would   *)
(* notice that bug.                                                        *)
(***************************************************************************)

(* The retry count of a new job is off by one. *)
IngestRetryOffByOne(m) ==
  /\ state[m] = "absent"
  /\ RouteActive(m)
  /\ \E r \in Repliable(m) : replyTo' = [replyTo EXCEPT ![m] = r]
  /\ cursor' = [cursor EXCEPT ![Origin[m]] =
                  IF CreatedAt[m] > @ THEN CreatedAt[m] ELSE @]
  /\ state' = [state EXCEPT ![m] = "queued"]
  /\ attempts' = [attempts EXCEPT ![m] = 0]
  /\ signed' = [signed EXCEPT ![m] = NoProjection]
  /\ job' = [job EXCEPT ![m] = "created"]
  /\ tries' = [tries EXCEPT ![m] = -1]
  /\ UNCHANGED <<settings, mapped, handler, relay, hint, spent>>

(* A reply whose parent has no mapping yet is published without its tag. *)
ReadIgnoresParent(h) ==
  LET m == handler[h].m IN
  /\ at(h, "read")
  /\ \/ Settled(m) /\ go(h, "resolved")
     \/ ~Settled(m) /\ ~RouteActive(m) /\ go(h, "cancel")
     \/ /\ ~Settled(m) /\ RouteActive(m)
        /\ handler' = [handler EXCEPT ![h].pc = "mark",
             ![h].ev = IF signed[m] # NoProjection THEN signed[m]
                       ELSE [stamp |-> NoEvent, re |-> LocalParent(m)]]
  /\ UNCHANGED <<settings, cursor, row, job, tries, relay, hint, spent>>

(* Every attempt stores and publishes the event it has just signed. *)
PersistOverwrites(h) ==
  LET m == handler[h].m IN
  /\ at(h, "persist")
  /\ \/ state[m] \in {"cancelled", "failed"} /\ go(h, "rejected") /\ UNCHANGED signed
     \/ /\ state[m] \notin {"cancelled", "failed"}
        /\ signed' = [signed EXCEPT ![m] = handler[h].ev]
        /\ go(h, "check")
  /\ UNCHANGED <<settings, cursor, state, attempts, replyTo, mapped, job,
                 tries, relay, hint, spent>>

(* The route is not checked again before publishing. *)
CheckOnlyState(h) ==
  /\ at(h, "check")
  /\ go(h, IF state[handler[h].m] = "delivering" THEN "publish" ELSE "cancel")
  /\ UNCHANGED <<settings, cursor, row, job, tries, relay, hint, spent>>

(* A delivered row can still be cancelled. *)
CancelAnyState(h) ==
  /\ at(h, "cancel")
  /\ state' = [state EXCEPT ![handler[h].m] = "cancelled"]
  /\ go(h, "resolved")
  /\ UNCHANGED <<settings, cursor, attempts, signed, replyTo, mapped, job,
                 tries, relay, hint, spent>>

(* An ambiguous publish counts as delivered. *)
LookupTrustsRelay(h) ==
  /\ at(h, "lookup")
  /\ go(h, "complete")
  /\ UNCHANGED <<settings, cursor, row, job, tries, relay, hint, spent>>

(* The handler returns instead of throwing after it recorded a retry. *)
PostponeSwallows(h) ==
  LET m == handler[h].m IN
  /\ at(h, "postpone")
  /\ state' = [state EXCEPT ![m] =
                 IF @ \in {"delivered_to_relay", "cancelled"} THEN @
                 ELSE IF LastRun(h) THEN "failed" ELSE "retry"]
  /\ go(h, "resolved")
  /\ UNCHANGED <<settings, cursor, attempts, signed, replyTo, mapped, job,
                 tries, relay, hint, spent>>

(* A delivery that was cancelled meanwhile is completed all the same. *)
CompleteCancelled(h) ==
  LET m == handler[h].m IN
  /\ at(h, "complete")
  /\ state' = [state EXCEPT ![m] = "delivered_to_relay"]
  /\ mapped' = [mapped EXCEPT ![m] =
                  IF @ = NoEvent THEN handler[h].ev.stamp ELSE @]
  /\ go(h, "hint")
  /\ UNCHANGED <<settings, cursor, attempts, signed, replyTo, job, tries,
                 relay, hint, spent>>

(* The hint is published without looking at earlier claims. *)
ClaimHintAgain(h) ==
  LET m == handler[h].m IN
  /\ at(h, "hint")
  /\ hinted' = hinted \cup {Pair(m)}
  /\ go(h, IF Target[m] \in Inbox THEN "greet" ELSE "resolved")
  /\ UNCHANGED <<settings, cursor, row, job, tries, relay, hintPosts, spent>>
-----------------------------------------------------------------------------
Init ==
  /\ settings = [e \in Endpoint |->
                   [sends |-> TRUE, receives |-> TRUE, peers |-> Endpoint]]
  /\ cursor = [e \in Endpoint |-> 0]
  /\ state = [m \in Message |-> "absent"]
  /\ attempts = [m \in Message |-> 0]
  /\ signed = [m \in Message |-> NoProjection]
  /\ replyTo = [m \in Message |-> NoEvent]
  /\ mapped = [m \in Message |-> NoEvent]
  /\ job = [m \in Message |-> "none"]
  /\ tries = [m \in Message |-> 0]
  /\ handler = [h \in Handler |-> Idle]
  /\ relay = [m \in Message |-> {}]
  /\ hinted = {}
  /\ hintPosts = [p \in Endpoint \X Endpoint |-> 0]
  /\ spent = [edits |-> 0, faults |-> 0, overruns |-> 0]

(* One transaction: message, source mapping (Ingested), cursor, delivery   *)
(* and job.  ON CONFLICT DO NOTHING makes a second ingest of the same      *)
(* event a no-op; an inactive route throws and leaves nothing behind.      *)
Ingest(m) ==
  /\ state[m] = "absent"
  /\ RouteActive(m)
  /\ \E r \in Repliable(m) : replyTo' = [replyTo EXCEPT ![m] = r]
  /\ cursor' = [cursor EXCEPT ![Origin[m]] =
                  IF CreatedAt[m] > @ THEN CreatedAt[m] ELSE @]
  /\ state' = [state EXCEPT ![m] = "queued"]
  /\ attempts' = [attempts EXCEPT ![m] = 0]
  /\ signed' = [signed EXCEPT ![m] = NoProjection]
  /\ job' = [job EXCEPT ![m] = "created"]
  /\ tries' = [tries EXCEPT ![m] = 0]
  /\ UNCHANGED <<settings, mapped, handler, relay, hint, spent>>

(* An owner saves the settings of an endpoint.  shut follows, for every    *)
(* running handler, whether its route has stayed closed since it began.    *)
Edit(e, s) ==
  /\ spent.edits < MaxEdits
  /\ settings[e] # s
  /\ settings' = [settings EXCEPT ![e] = s]
  /\ handler' = [h \in Handler |->
       IF handler[h].m \in Message
       THEN [handler[h] EXCEPT !.shut = @ /\ ~RouteUnder(settings', handler[h].m)]
       ELSE handler[h]]
  /\ spent' = [spent EXCEPT !.edits = @ + 1]
  /\ UNCHANGED <<cursor, row, job, tries, relay, hint>>
-----------------------------------------------------------------------------
(* The worker. *)
Fetch(h, m) ==
  /\ at(h, "idle")
  /\ job[m] \in {"created", "retry"}
  /\ job' = [job EXCEPT ![m] = "active"]
  /\ tries' = [tries EXCEPT ![m] = IF job[m] = "retry" THEN @ + 1 ELSE @]
  /\ handler' = [handler EXCEPT ![h] =
       [Idle EXCEPT !.pc = "read", !.m = m, !.run = tries'[m]]]
  /\ UNCHANGED <<settings, cursor, row, relay, hint, spent>>

(* getBridgeDeliveryContext and the branches on it, up to the next await.  *)
(* Whether the supervisor holds a session for the destination connection   *)
(* right now is left open: sessions come and go on their own.              *)
Read(h) ==
  LET m == handler[h].m IN
  /\ at(h, "read")
  /\ \/ Settled(m) /\ go(h, "resolved")
     \/ ~Settled(m) /\ ~RouteActive(m) /\ go(h, "cancel")
     \/ ~Settled(m) /\ RouteActive(m) /\ go(h, "postpone")
          \* parent_mapping_missing, or connector_unavailable
     \/ /\ ~Settled(m)
        /\ RouteActive(m)
        /\ IsReply(m) => LocalParent(m) # NoEvent
        /\ handler' = [handler EXCEPT ![h].pc = "mark",
             ![h].ev = IF signed[m] # NoProjection THEN signed[m]
                       ELSE [stamp |-> NoEvent, re |-> LocalParent(m)]]
  /\ UNCHANGED <<settings, cursor, row, job, tries, relay, hint, spent>>

(* markBridgeDeliveryDelivering, then createDestinationProjection, which   *)
(* signs unless the context held an event already.  The session it found   *)
(* before this await may be closed by now and its key wiped (closeSession):*)
(* then signing throws, and no try block is around it.                     *)
Mark(h) ==
  LET m == handler[h].m IN
  /\ at(h, "mark")
  /\ \/ /\ state[m] \in {"queued", "retry", "delivering"}
        /\ state' = [state EXCEPT ![m] = "delivering"]
        /\ attempts' = [attempts EXCEPT ![m] = @ + 1]
        /\ \/ handler' = [handler EXCEPT ![h].pc = "persist",
                ![h].ev.stamp = IF @ = NoEvent THEN attempts[m] + 1 ELSE @,
                ![h].shut = ~RouteActive(m)]
           \/ handler[h].ev.stamp = NoEvent /\ go(h, "rejected")
     \/ /\ state[m] \notin {"queued", "retry", "delivering"}
        /\ go(h, "resolved")
        /\ UNCHANGED <<state, attempts>>
  /\ UNCHANGED <<settings, cursor, signed, replyTo, mapped, job, tries, relay,
                 hint, spent>>

(* persistDestinationEvent: the first signed event of the row wins. *)
Persist(h) ==
  LET m == handler[h].m IN
  /\ at(h, "persist")
  /\ \/ /\ state[m] \in {"cancelled", "failed"}
        /\ go(h, "rejected")
        /\ UNCHANGED signed
     \/ /\ state[m] \notin {"cancelled", "failed"}
        /\ signed[m] # NoProjection
        /\ handler' = [handler EXCEPT ![h].pc = "check", ![h].ev = signed[m]]
        /\ UNCHANGED signed
     \/ /\ state[m] \notin {"cancelled", "failed"}
        /\ signed[m] = NoProjection
        /\ signed' = [signed EXCEPT ![m] = handler[h].ev]
        /\ go(h, "check")
  /\ UNCHANGED <<settings, cursor, state, attempts, replyTo, mapped, job,
                 tries, relay, hint, spent>>

(* isBridgeDeliveryRouteActive: also false when the row is not delivering. *)
Check(h) ==
  LET m == handler[h].m IN
  /\ at(h, "check")
  /\ go(h, IF state[m] = "delivering" /\ RouteActive(m)
           THEN "publish" ELSE "cancel")
  /\ UNCHANGED <<settings, cursor, row, job, tries, relay, hint, spent>>

(* cancelBridgeDelivery *)
Cancel(h) ==
  LET m == handler[h].m IN
  /\ at(h, "cancel")
  /\ state' = [state EXCEPT ![m] =
                 IF @ = "delivered_to_relay" THEN @ ELSE "cancelled"]
  /\ go(h, "resolved")
  /\ UNCHANGED <<settings, cursor, attempts, signed, replyTo, mapped, job,
                 tries, relay, hint, spent>>

(* session.relay.publish: accepted and acknowledged, accepted with the OK  *)
(* lost, or not accepted.                                                  *)
Publish(h) ==
  LET m == handler[h].m IN
  /\ at(h, "publish")
  /\ \/ /\ relay' = [relay EXCEPT ![m] = @ \cup {handler[h].ev}]
        /\ \/ go(h, "complete")
           \/ go(h, "lookup")
     \/ go(h, "lookup") /\ UNCHANGED relay
  /\ UNCHANGED <<settings, cursor, row, job, tries, hint, spent>>

(* relay.hasEvent after a failed publish; the lookup itself may fail. *)
Lookup(h) ==
  LET m == handler[h].m IN
  /\ at(h, "lookup")
  /\ \/ handler[h].ev \in relay[m] /\ go(h, "complete")
     \/ go(h, "postpone")
  /\ UNCHANGED <<settings, cursor, row, job, tries, relay, hint, spent>>

(* markBridgeDeliveryRetry, then return on the last run or throw. *)
Postpone(h) ==
  LET m == handler[h].m IN
  /\ at(h, "postpone")
  /\ state' = [state EXCEPT ![m] =
                 IF @ \in {"delivered_to_relay", "cancelled"} THEN @
                 ELSE IF LastRun(h) THEN "failed" ELSE "retry"]
  /\ go(h, IF LastRun(h) THEN "resolved" ELSE "rejected")
  /\ UNCHANGED <<settings, cursor, attempts, signed, replyTo, mapped, job,
                 tries, relay, hint, spent>>

(* completeBridgeDelivery: the row and its mapping in one transaction. *)
Complete(h) ==
  LET m == handler[h].m IN
  /\ at(h, "complete")
  /\ \/ /\ state[m] # "cancelled"
        /\ signed[m].stamp = handler[h].ev.stamp
        /\ state' = [state EXCEPT ![m] = "delivered_to_relay"]
        /\ mapped' = [mapped EXCEPT ![m] =
                        IF @ = NoEvent THEN handler[h].ev.stamp ELSE @]
        /\ go(h, "hint")
     \/ /\ state[m] = "cancelled" \/ signed[m].stamp # handler[h].ev.stamp
        /\ go(h, "rejected")
        /\ UNCHANGED <<state, mapped>>
  /\ UNCHANGED <<settings, cursor, attempts, signed, replyTo, job, tries,
                 relay, hint, spent>>

(* claimDirectChannelHint: claimed before the notice is published. *)
ClaimHint(h) ==
  LET m == handler[h].m IN
  /\ at(h, "hint")
  /\ \/ /\ Target[m] \in Inbox
        /\ Pair(m) \notin hinted
        /\ hinted' = hinted \cup {Pair(m)}
        /\ go(h, "greet")
     \/ /\ Target[m] \notin Inbox \/ Pair(m) \in hinted
        /\ go(h, "resolved")
        /\ UNCHANGED hinted
  /\ UNCHANGED <<settings, cursor, row, job, tries, relay, hintPosts, spent>>

(* The hint notice: best effort, its failure is swallowed. *)
Greet(h) ==
  LET m == handler[h].m IN
  /\ at(h, "greet")
  /\ \/ hintPosts' = [hintPosts EXCEPT ![Pair(m)] = @ + 1]
     \/ UNCHANGED hintPosts
  /\ go(h, "resolved")
  /\ UNCHANGED <<settings, cursor, row, job, tries, relay, hinted, spent>>
-----------------------------------------------------------------------------
(* pg-boss: the outcome of a handler reaches its job only while the job is *)
(* still active on that run.                                               *)
Outcome(run) == IF run < RetryLimit THEN "retry" ELSE "failed"

Report(h) ==
  LET m == handler[h].m IN
  /\ \/ at(h, "resolved")
     \/ at(h, "rejected")
  /\ job' = [job EXCEPT ![m] =
       IF @ # "active" \/ tries[m] # handler[h].run THEN @
       ELSE IF at(h, "resolved") THEN "completed" ELSE Outcome(tries[m])]
  /\ handler' = [handler EXCEPT ![h] = Idle]
  /\ UNCHANGED <<settings, cursor, row, tries, relay, hint, spent>>

Abandoned(m) ==
  \A h \in Handler : handler[h].m = m => handler[h].run # tries[m]

(* expireInSeconds passes for an active job: its handler died with the     *)
(* process, or it is still running and has overrun.                        *)
Expire(m) ==
  /\ job[m] = "active"
  /\ \/ Abandoned(m) /\ UNCHANGED spent
     \/ /\ ~Abandoned(m)
        /\ spent.overruns < MaxOverruns
        /\ spent' = [spent EXCEPT !.overruns = @ + 1]
  /\ job' = [job EXCEPT ![m] = Outcome(tries[m])]
  /\ UNCHANGED <<settings, cursor, row, tries, handler, relay, hint>>

(* A query of the handler fails and deliver rejects.  The query may have   *)
(* had its effect, only its answer is lost: then the handler is where its  *)
(* next step would be, after completeBridgeDelivery at "hint", after       *)
(* cancelBridgeDelivery or the last markBridgeDeliveryRetry at "resolved". *)
(* The failure of claimDirectChannelHint is swallowed.                     *)
QueryFails(h) ==
  /\ spent.faults < MaxFaults
  /\ \/ /\ \/ handler[h].pc \in {"read", "mark", "persist", "check", "cancel",
                                "postpone", "complete", "hint"}
           \/ at(h, "resolved") /\ state[handler[h].m] \in {"cancelled", "failed"}
        /\ go(h, "rejected")
     \/ at(h, "hint") /\ go(h, "resolved")
  /\ spent' = [spent EXCEPT !.faults = @ + 1]
  /\ UNCHANGED <<settings, cursor, row, job, tries, relay, hint>>

(* The worker process dies and restarts: every handler is gone. *)
Crash ==
  /\ spent.faults < MaxFaults
  /\ \E h \in Handler : ~at(h, "idle")
  /\ spent' = [spent EXCEPT !.faults = @ + 1]
  /\ handler' = [h \in Handler |-> Idle]
  /\ UNCHANGED <<settings, cursor, row, job, tries, relay, hint>>

Run(h) ==
  \/ Read(h) \/ Mark(h) \/ Persist(h) \/ Check(h) \/ Cancel(h) \/ Publish(h)
  \/ Lookup(h) \/ Postpone(h) \/ Complete(h) \/ ClaimHint(h) \/ Greet(h)
  \/ Report(h)

Next ==
  \/ \E m \in Message : Ingest(m) \/ Expire(m)
  \/ \E e \in Endpoint, s \in Choice : Edit(e, s)
  \/ \E h \in Handler, m \in Message : Fetch(h, m)
  \/ \E h \in Handler : Run(h) \/ QueryFails(h)
  \/ Crash

Spec == Init /\ [][Next]_vars

(* pg-boss polls and expires jobs forever, and an awaited promise settles. *)
Fairness ==
  /\ \A m \in Message :
       WF_vars(\E h \in Handler : Fetch(h, m)) /\ WF_vars(Expire(m))
  /\ \A h \in Handler : WF_vars(Run(h))

FairSpec == Spec /\ Fairness
-----------------------------------------------------------------------------
TypeOK ==
  /\ settings \in [Endpoint -> Settings]
  /\ cursor \in [Endpoint -> Nat]
  /\ state \in [Message -> DeliveryState]
  /\ attempts \in [Message -> Nat]
  /\ signed \in [Message -> Projection]
  /\ replyTo \in [Message -> LocalId]
  /\ mapped \in [Message -> LocalId]
  /\ job \in [Message -> JobState]
  /\ tries \in [Message -> Nat]
  /\ handler \in [Handler -> HandlerState]
  /\ relay \in [Message -> SUBSET Projection]
  /\ hinted \subseteq Endpoint \X Endpoint
  /\ hintPosts \in [Endpoint \X Endpoint -> Nat]
  /\ spent \in Spending

(* A retry, a redelivered job or an overlapping handler never puts a       *)
(* second post of one message on the destination relay: whatever is there  *)
(* is the event persisted before the first publish (persistDestinationEvent*)
(* is called before publish and hands back the stored event).              *)
AtMostOneProjection ==
  \A m \in Message : \A e, f \in relay[m] : e = f /\ e = signed[m]

(* delivered_to_relay means what it says: the destination relay accepted   *)
(* the persisted event, and the mapping later replies are threaded by      *)
(* names exactly that event.                                               *)
DeliveredIsOnRelay ==
  \A m \in Message :
    /\ state[m] = "delivered_to_relay" =>
         signed[m] \in relay[m] /\ mapped[m] = signed[m].stamp
    /\ mapped[m] # NoEvent => state[m] = "delivered_to_relay"

(* A reply is posted only under the local copy of its own parent: the "e"  *)
(* tag names an event that is visible in the destination channel, the      *)
(* original if the parent came from there, else the parent's projection.   *)
(* A reply to something the bridge never carried is never posted.          *)
ThreadIntegrity ==
  \A m \in Message : IsReply(m) => \A e \in relay[m] :
    /\ Parent[m] \in Message
    /\ LET p == Parent[m] IN
         \/ e.re = Original /\ Origin[p] = Target[m] /\ Ingested(p)
         \/ /\ Target[p] = Target[m]
            /\ e.re # NoEvent
            /\ \E f \in relay[p] : f.stamp = e.re

(* No publish on a closed route: a route that was closed when its handler  *)
(* marked the delivery, and has stayed closed since, is not published on   *)
(* (the second check, isBridgeDeliveryRouteActive, right before publish).  *)
ClosedRouteRefused ==
  \A h \in Handler : at(h, "publish") => ~handler[h].shut

(* One direct-channel hint per (source, inbox), over all messages of that  *)
(* source, retries, crashes and overlapping handlers; and only after a     *)
(* message of that source was delivered there.                             *)
HintAtMostOnce ==
  \A p \in Endpoint \X Endpoint :
    /\ hintPosts[p] <= 1
    /\ hintPosts[p] > 0 =>
         \E m \in Message : Pair(m) = p /\ state[m] = "delivered_to_relay"

(* The persisted event of a delivery is never replaced, and delivered and  *)
(* cancelled are final whichever late handler writes after them.           *)
OutcomeIsFinal ==
  [][\A m \in Message :
       /\ state[m] \in {"delivered_to_relay", "cancelled"} =>
            state'[m] = state[m]
       /\ signed[m] # NoProjection => signed'[m] = signed[m]
       /\ mapped[m] # NoEvent => mapped'[m] = mapped[m]]_vars

(* A job that pg-boss counts as done has settled its delivery: as long as  *)
(* no handler outlives its job, nothing is acknowledged and left behind.   *)
CompletedIsSettled ==
  \A m \in Message : job[m] = "completed" => Settled(m)

(* A job that ran out of retries leaves its delivery in a terminal state.  *)
ExhaustedIsDeadLettered ==
  \A m \in Message : job[m] = "failed" => Settled(m)

(* Only an inactive route cancels a delivery (cancelBridgeDelivery records *)
(* route_inactive): while no owner has edited anything, nothing is.        *)
CancelledOnlyWhenInactive ==
  spent.edits = 0 => \A m \in Message : state[m] # "cancelled"

(* Refinement: a delivery row is the status of its message, and the events *)
(* its relay accepted are its posts.  A failed row still counts as pending:*)
(* a handler that is slower than the one that gave up may complete it.     *)
Status == [m \in Message |->
  CASE state[m] = "absent" -> "absent"
    [] state[m] = "delivered_to_relay" -> "delivered"
    [] state[m] = "cancelled" -> "dropped"
    [] OTHER -> "pending"]

(* A follow-up under one's own message needs that message's projection.    *)
ParentPost == [m \in Message |->
  {p \in Message : p = Parent[m] /\ Target[p] = Target[m]}]

Wall == [m \in Message |->
  CASE relay[m] = {} -> "nothing"
    [] \E e \in relay[m] : relay[m] = {e} -> "one post"
    [] OTHER -> "several posts"]

Promise == INSTANCE BridgePromise
  WITH NeedsPost <- ParentPost, status <- Status, wall <- Wall

(* The delivery path implements BridgePromise. *)
ImplementsPromise == Promise!Spec

(* Every ingested message reaches a terminal state, or its job is given up *)
(* by pg-boss; it never waits forever, not even for a parent that is never *)
(* delivered or for a destination that never has a session.                *)
EventuallySettled ==
  \A m \in Message : Ingested(m) ~> (Settled(m) \/ job[m] = "failed")
=============================================================================
