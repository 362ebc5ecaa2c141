------------------------- MODULE ConnectorSessions -------------------------
(***************************************************************************)
(* The sessions of the connector (src/src/shared-channels/connector.ts):   *)
(* ConnectorSupervisor.reconcile runs every 30 seconds, reads the active   *)
(* connections and leaves one relay session per connection in the map      *)
(* `sessions'.  A reconcile awaits every connect and every health write,   *)
(* and the timer does not wait for it: calls overlap.  Between two awaits  *)
(* the event loop belongs to one call (Free).                              *)
(*                                                                         *)
(* `health' is written and never read by the program: its writes appear    *)
(* here only as awaits that may fail.                                      *)
(***************************************************************************)
EXTENDS Naturals

CONSTANTS
    Connections,    \* rows of community_connections, ordered by id
    Reconciles,     \* calls of reconcile that may be under way together
    MaxConfigs,     \* bound, per connection: versions of its configuration
    MaxFaults       \* bound: failed queries, connects and lost sockets

ASSUME ConnectionsAssumption == Connections \subseteq Nat /\ MaxFaults \in Nat

VARIABLES
    connection,     \* [active, config]: the row; config stands for connectionFingerprint
    session,        \* the map `sessions': at most one session per connection
    leaked,         \* relays that are open and that no map entry leads to
    backoff,        \* connections whose next attempt is in the future
    call,           \* the calls of reconcile
    overlapped,     \* history: some call began while another was under way
    stopped,        \* stop() was called
    faults

sessionVars == <<connection, session, leaked, backoff, call, overlapped, stopped, faults>>

Config == Nat \ {0}
NoCall == "nobody"
NoSession == [config |-> 0, by |-> NoCall, idle |-> FALSE, deaf |-> FALSE]

\* by: the call that opened the relay and still holds it in a variable.
Session == [config: Config, by: Reconciles \cup {NoCall}, idle: BOOLEAN, deaf: BOOLEAN]
Leak == [of: Connections, by: Reconciles \cup {NoCall}]
Call == [pc: {"done", "listing", "loop", "connecting", "reporting", "blaming"},
         todo: SUBSET Connections, configs: [Connections -> Config]]

Finished == [pc |-> "done", todo |-> {}, configs |-> [c \in Connections |-> 1]]

Busy(r) == call[r].pc # "done"
Free == \A r \in Reconciles : call[r].pc # "loop"

\* The configuration a call is working on: it takes them by id.
Current(r) == CHOOSE c \in call[r].todo : \A d \in call[r].todo : c <= d

\* What becomes of the relay of c when its map entry is dropped but not closed.
Abandoned(c) ==
    IF session[c] = NoSession THEN {} ELSE {[of |-> c, by |-> session[c].by]}

Fault == faults < MaxFaults /\ faults' = faults + 1

SessionsInit ==
    /\ connection = [c \in Connections |-> [active |-> TRUE, config |-> 1]]
    /\ session = [c \in Connections |-> NoSession]
    /\ leaked = {}
    /\ backoff = [c \in Connections |-> FALSE]
    /\ call = [r \in Reconciles |-> Finished]
    /\ overlapped = FALSE
    /\ stopped = FALSE
    /\ faults = 0

-----------------------------------------------------------------------------
(* The database: routes are edited, keys re-paired, connections revoked.   *)

Reconfigure(c) ==
    /\ connection[c].config < MaxConfigs[c]
    /\ \E a \in BOOLEAN :
          connection' = [connection EXCEPT ![c] = [active |-> a, config |-> @.config + 1]]
    /\ UNCHANGED <<session, leaked, backoff, call, overlapped, stopped, faults>>

-----------------------------------------------------------------------------
(* reconcile                                                               *)

Begin(r) ==
    /\ Free /\ ~Busy(r) /\ ~stopped
    /\ call' = [call EXCEPT ![r].pc = "listing"]
    /\ overlapped' = (overlapped \/ \E q \in Reconciles : Busy(q))
    /\ UNCHANGED <<connection, session, leaked, backoff, stopped, faults>>

\* The answer of listActiveConnectorConfigs, and the sweep that follows it.
List(r) ==
    LET active == {c \in Connections : connection[c].active}
    IN  /\ Free /\ call[r].pc = "listing"
        /\ call' = [call EXCEPT ![r] =
              [pc |-> "loop", todo |-> active,
               configs |-> [c \in Connections |-> connection[c].config]]]
        /\ session' = [c \in Connections |-> IF c \in active THEN session[c] ELSE NoSession]
        /\ backoff' = [c \in Connections |->
              backoff[c] /\ (c \in active \/ session[c] = NoSession)]
        /\ UNCHANGED <<connection, leaked, overlapped, stopped, faults>>

ListFails(r) ==
    /\ Free /\ call[r].pc = "listing" /\ Fault
    /\ call' = [call EXCEPT ![r] = Finished]
    /\ UNCHANGED <<connection, session, leaked, backoff, overlapped, stopped>>

Return(r) ==
    /\ call[r].pc = "loop" /\ call[r].todo = {}
    /\ call' = [call EXCEPT ![r] = Finished]
    /\ UNCHANGED <<connection, session, leaked, backoff, overlapped, stopped, faults>>

\* Faulty variant: a session that hears nothing is left alone.
UpToDateThoughIdle(r, c) ==
    session[c] # NoSession /\ session[c].config = call[r].configs[c]

\* isStale: nothing arrived for RELAY_IDLE_RECYCLE_AFTER_MS.
UpToDate(r, c) ==
    session[c] # NoSession /\ session[c].config = call[r].configs[c] /\ ~session[c].idle

Keep(r) ==
    LET c == Current(r)
    IN  /\ call[r].pc = "loop" /\ call[r].todo # {}
        /\ UpToDate(r, c)
        /\ call' = [call EXCEPT ![r].todo = @ \ {c}]
        /\ UNCHANGED <<connection, session, leaked, backoff, overlapped, stopped, faults>>

\* Faulty variant: the configuration is taken off the list before its session is made.
RebuildTaken(r) ==
    LET c == Current(r)
    IN  /\ call[r].pc = "loop" /\ call[r].todo # {}
        /\ ~UpToDate(r, c)
        /\ session' = [session EXCEPT ![c] = NoSession]
        /\ call' = [call EXCEPT ![r].todo = @ \ {c},
                               ![r].pc = IF backoff[c] THEN @ ELSE "connecting"]
        /\ UNCHANGED <<connection, leaked, backoff, overlapped, stopped, faults>>

\* An idle or outdated session is closed, also when the backoff forbids a new one.
Rebuild(r) ==
    LET c == Current(r)
    IN  /\ call[r].pc = "loop" /\ call[r].todo # {}
        /\ ~UpToDate(r, c)
        /\ session' = [session EXCEPT ![c] = NoSession]
        /\ call' = IF backoff[c] THEN [call EXCEPT ![r].todo = @ \ {c}]
                                 ELSE [call EXCEPT ![r].pc = "connecting"]
        /\ UNCHANGED <<connection, leaked, backoff, overlapped, stopped, faults>>

-----------------------------------------------------------------------------
(* startConnection, await by await                                         *)

\* sessions.set overwrites what another call has put there meanwhile.
Connect(r) ==
    LET c == Current(r)
    IN  /\ Free /\ call[r].pc = "connecting"
        /\ leaked' = leaked \cup Abandoned(c)
        /\ session' = [session EXCEPT ![c] =
              [config |-> call[r].configs[c], by |-> r, idle |-> FALSE, deaf |-> FALSE]]
        /\ backoff' = [backoff EXCEPT ![c] = FALSE]
        /\ call' = [call EXCEPT ![r].pc = "reporting"]
        /\ UNCHANGED <<connection, overlapped, stopped, faults>>

\* Faulty variant: the session leaves the map and its relay stays open.
CatchUnclosed(r, c) ==
    /\ session' = [session EXCEPT ![c] = NoSession]
    /\ leaked' = leaked \cup Abandoned(c)
    /\ backoff' = [backoff EXCEPT ![c] = TRUE]
    /\ call' = [call EXCEPT ![r].pc = "blaming"]

\* The catch clause drops whatever session the map holds and closes the call's
\* own relay, if it has one.
Catch(r, c) ==
    /\ session' = [session EXCEPT ![c] = NoSession]
    /\ leaked' = {k \in leaked \cup Abandoned(c) : k.of # c \/ k.by # r}
    /\ backoff' = [backoff EXCEPT ![c] = TRUE]
    /\ call' = [call EXCEPT ![r].pc = "blaming"]

ConnectFails(r) ==
    /\ Free /\ call[r].pc = "connecting" /\ Fault
    /\ Catch(r, Current(r))
    /\ UNCHANGED <<connection, overlapped, stopped>>

ReportFails(r) ==
    /\ Free /\ call[r].pc = "reporting" /\ Fault
    /\ Catch(r, Current(r))
    /\ UNCHANGED <<connection, overlapped, stopped>>

\* The health is written: the call goes on with the next configuration.
Reported(r) ==
    LET c == Current(r)
        letGo(s) == IF s.by = r THEN [s EXCEPT !.by = NoCall] ELSE s
    IN  /\ Free /\ call[r].pc \in {"reporting", "blaming"}
        /\ session' = [session EXCEPT ![c] = letGo(@)]
        /\ leaked' = {letGo(k) : k \in leaked}
        /\ call' = [call EXCEPT ![r].pc = "loop", ![r].todo = @ \ {c}]
        /\ UNCHANGED <<connection, backoff, overlapped, stopped, faults>>

\* The write in the catch clause fails: the rest of the round is lost.
BlameFails(r) ==
    /\ Free /\ call[r].pc = "blaming" /\ Fault
    /\ call' = [call EXCEPT ![r] = Finished]
    /\ UNCHANGED <<connection, session, leaked, backoff, overlapped, stopped>>

-----------------------------------------------------------------------------
(* Relays, clocks and the end of the process                               *)

\* The subscription's onclose, for a session that is still in the map.
Drop(c) ==
    /\ Free /\ session[c] # NoSession /\ Fault
    /\ session' = [session EXCEPT ![c] = NoSession]
    /\ UNCHANGED <<connection, leaked, backoff, call, overlapped, stopped>>

DropLeaked(k) ==
    /\ k \in leaked
    /\ leaked' = leaked \ {k}
    /\ UNCHANGED <<connection, session, backoff, call, overlapped, stopped, faults>>

\* The relay stops delivering and the socket stays open.
GoDeaf(c) ==
    /\ session[c] # NoSession /\ ~session[c].deaf /\ Fault
    /\ session' = [session EXCEPT ![c].deaf = TRUE]
    /\ UNCHANGED <<connection, leaked, backoff, call, overlapped, stopped>>

GoIdle(c) ==
    /\ session[c] # NoSession /\ ~session[c].idle
    /\ session' = [session EXCEPT ![c].idle = TRUE]
    /\ UNCHANGED <<connection, leaked, backoff, call, overlapped, stopped, faults>>

Hear(c) ==
    /\ Free /\ session[c].idle /\ ~session[c].deaf
    /\ session' = [session EXCEPT ![c].idle = FALSE]
    /\ UNCHANGED <<connection, leaked, backoff, call, overlapped, stopped, faults>>

BackoffEnds(c) ==
    /\ backoff[c]
    /\ backoff' = [backoff EXCEPT ![c] = FALSE]
    /\ UNCHANGED <<connection, session, leaked, call, overlapped, stopped, faults>>

Stop ==
    /\ Free /\ ~stopped
    /\ stopped' = TRUE
    /\ session' = [c \in Connections |-> NoSession]
    /\ UNCHANGED <<connection, leaked, backoff, call, overlapped, faults>>

-----------------------------------------------------------------------------

CallStep(r) ==
    \/ Begin(r) \/ List(r) \/ ListFails(r) \/ Return(r) \/ Keep(r) \/ Rebuild(r)
    \/ Connect(r) \/ ConnectFails(r) \/ ReportFails(r) \/ Reported(r) \/ BlameFails(r)

SessionsNext ==
    \/ \E r \in Reconciles : CallStep(r)
    \/ \E c \in Connections :
          Reconfigure(c) \/ Drop(c) \/ GoDeaf(c) \/ GoIdle(c) \/ Hear(c) \/ BackoffEnds(c)
    \/ \E k \in leaked : DropLeaked(k)
    \/ Stop

\* A query or a connect ends some time; the timer goes on firing; a backoff ends
\* by the clock; and a session that no longer hears anything becomes idle by it.
DeafGoesIdle(c) == session[c].deaf /\ GoIdle(c)

SessionsSpec == SessionsInit /\ [][SessionsNext]_sessionVars

SessionsFairness ==
    /\ \A r \in Reconciles : WF_sessionVars(CallStep(r))
    /\ \A c \in Connections :
          WF_sessionVars(BackoffEnds(c)) /\ WF_sessionVars(DeafGoesIdle(c))

-----------------------------------------------------------------------------

SessionsTypeOK ==
    /\ connection \in [Connections -> [active: BOOLEAN, config: Config]]
    /\ session \in [Connections -> Session \cup {NoSession}]
    /\ leaked \subseteq Leak
    /\ backoff \in [Connections -> BOOLEAN]
    /\ call \in [Reconciles -> Call]
    /\ \A r \in Reconciles :
          call[r].pc \in {"connecting", "reporting", "blaming"} => call[r].todo # {}
    /\ overlapped \in BOOLEAN
    /\ stopped \in BOOLEAN
    /\ faults \in 0..MaxFaults

(* As long as no two calls of reconcile overlap, every relay the connector *)
(* opened is either closed or in the map: whatever fails, and whenever a   *)
(* socket drops, nothing stays subscribed that reconcile cannot reach.     *)
SerialNeverLeaks == ~overlapped => leaked = {}

(* Every connection has, again and again, the session its row asks for:    *)
(* none when it is not active, and otherwise one with the row's channels   *)
(* and keys that still hears its relay, through overlapping and failing    *)
(* calls, backoff, lost and deaf sockets.                                  *)
Matches(c) ==
    IF connection[c].active
    THEN session[c].config = connection[c].config /\ ~session[c].deaf
    ELSE session[c] = NoSession

EventuallyMatches == \A c \in Connections : []<>(stopped \/ Matches(c))

=============================================================================
