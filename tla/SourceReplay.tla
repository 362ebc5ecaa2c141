--------------------------- MODULE SourceReplay ---------------------------
(***************************************************************************)
(* What a connector session reads from its relay                           *)
(* (src/src/shared-channels/connector.ts): one subscription to all the     *)
(* channels of a connection, from the smallest of their cursors on.  A     *)
(* cursor (last_event_created_at) moves with the newest event ingested     *)
(* from its channel, while the relay replays stored events newest first    *)
(* and their handlers overlap.                                             *)
(*                                                                         *)
(* An event here is one that routes.  One that does not, and a command,    *)
(* leave the cursors alone: HubRouting has those.                          *)
(***************************************************************************)
EXTENDS Naturals, FiniteSetsExt

CONSTANTS
    Routes,         \* the endpoints of one connection, each with its channel
    Posts,          \* kind 9 events people post in those channels
    MaxTime,        \* bound: the clock, in seconds
    MaxLosses       \* bound: failing ingests and crashes of the worker

\* A connection without a route subscribes to no messages.
ASSUME ReplayAssumption == Routes # {} /\ MaxTime \in Nat \ {0} /\ MaxLosses \in Nat

VARIABLES
    clock,
    posted,         \* what the relay stores
    cursor,         \* last_event_created_at of each endpoint
    subscription,   \* [at, since]; since is read with the routes, before the connect
    feed,           \* events the relay has for the subscription and not delivered yet
    handling,       \* events a handler works on: it outlives its session
    ingested,       \* events with a row in bridge_messages
    losses

replayVars == <<clock, posted, cursor, subscription, feed, handling, ingested, losses>>

NotPosted == [at |-> 0]
Closed == [at |-> "closed", since |-> 0]

Posted(e) == posted[e] # NotPosted

\* joinOpenHub starts a cursor at the time of the join.
ReplayInit ==
    /\ clock = 1
    /\ posted = [e \in Posts |-> NotPosted]
    /\ cursor = [r \in Routes |-> 1]
    /\ subscription = Closed
    /\ feed = {}
    /\ handling = {}
    /\ ingested = {}
    /\ losses = 0

Second ==
    /\ clock < MaxTime
    /\ clock' = clock + 1
    /\ UNCHANGED <<posted, cursor, subscription, feed, handling, ingested, losses>>

\* created_at is the author's: it may lie in the past.
Post(e) ==
    /\ ~Posted(e)
    /\ \E r \in Routes, t \in 1..clock :
          /\ posted' = [posted EXCEPT ![e] = [route |-> r, at |-> t]]
          /\ feed' = IF subscription.at = "open" /\ t >= subscription.since
                     THEN feed \cup {e} ELSE feed
    /\ UNCHANGED <<clock, cursor, subscription, handling, ingested, losses>>

\* Faulty variant: the newest cursor.
SinceNewest == Max({cursor[r] : r \in Routes})

\* The smallest cursor of the routes: the filter has one since for all channels.
Since == Min({cursor[r] : r \in Routes})

ListRoutes ==
    /\ subscription = Closed
    /\ subscription' = [at |-> "connecting", since |-> Since]
    /\ UNCHANGED <<clock, posted, cursor, feed, handling, ingested, losses>>

Subscribe ==
    /\ subscription.at = "connecting"
    /\ subscription' = [subscription EXCEPT !.at = "open"]
    /\ feed' = {e \in Posts : Posted(e) /\ posted[e].at >= subscription.since}
    /\ UNCHANGED <<clock, posted, cursor, handling, ingested, losses>>

\* The connect fails, the relay closes the subscription, or a minute of silence has
\* it rebuilt.
Close ==
    /\ subscription # Closed
    /\ subscription' = Closed
    /\ feed' = {}
    /\ UNCHANGED <<clock, posted, cursor, handling, ingested, losses>>

Receive(e) ==
    /\ e \in feed
    /\ feed' = feed \ {e}
    /\ handling' = handling \cup {e}
    /\ UNCHANGED <<clock, posted, cursor, subscription, ingested, losses>>

\* ingestBridgeMessage: the cursor moves when the message is new, and only upwards.
Ingest(e) ==
    LET r == posted[e].route
    IN  /\ e \in handling
        /\ handling' = handling \ {e}
        /\ ingested' = ingested \cup {e}
        /\ cursor' = IF e \in ingested THEN cursor
                     ELSE [cursor EXCEPT ![r] = Max({@, posted[e].at})]
        /\ UNCHANGED <<clock, posted, subscription, feed, losses>>

Lose == losses < MaxLosses /\ losses' = losses + 1

\* The transaction fails: the health is degraded and the event is forgotten.
IngestFails(e) ==
    /\ e \in handling /\ Lose
    /\ handling' = handling \ {e}
    /\ UNCHANGED <<clock, posted, cursor, subscription, feed, ingested>>

ConnectorDies ==
    /\ Lose
    /\ subscription' = Closed
    /\ feed' = {}
    /\ handling' = {}
    /\ UNCHANGED <<clock, posted, cursor, ingested>>

ReplayNext ==
    \/ Second \/ ListRoutes \/ Subscribe \/ Close \/ ConnectorDies
    \/ \E e \in Posts : Post(e) \/ Receive(e) \/ Ingest(e) \/ IngestFails(e)

ReplaySpec == ReplayInit /\ [][ReplayNext]_replayVars

\* reconcile is on a timer, and closes a session that has been silent: sooner or
\* later every session is, because posts are finitely many.  A relay that is tried
\* again and again accepts a connection some time and delivers a stored event some
\* time, and an awaited transaction ends.
ReplayFairness ==
    /\ WF_replayVars(ListRoutes) /\ SF_replayVars(Subscribe) /\ WF_replayVars(Close)
    /\ \A e \in Posts :
          /\ SF_replayVars(Receive(e))
          /\ WF_replayVars(Ingest(e) \/ IngestFails(e))

-----------------------------------------------------------------------------

ReplayTypeOK ==
    /\ clock \in 1..MaxTime
    /\ posted \in [Posts -> [route: Routes, at: 1..MaxTime] \cup {NotPosted}]
    /\ cursor \in [Routes -> 1..MaxTime]
    /\ subscription \in [at: {"closed", "connecting", "open"}, since: 0..MaxTime]
    /\ feed \cup handling \cup ingested \subseteq {e \in Posts : Posted(e)}
    /\ losses \in 0..MaxLosses

Overtaken(e) == Posted(e) /\ cursor[posted[e].route] > posted[e].at

(* An event is lost only to its own channel: it is ingested some time, or  *)
(* a later event of the same channel was.  Traffic in another channel, a   *)
(* lost subscription, an idle rebuild, a crash or a failed ingest does not *)
(* hide it, whatever order events arrive and are handled in.               *)
EventuallyIngestedOrOvertaken ==
    \A e \in Posts : Posted(e) ~> (e \in ingested \/ Overtaken(e))

=============================================================================
