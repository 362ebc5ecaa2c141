--------------------------- MODULE RequestReplay ---------------------------
(***************************************************************************)
(* Requests signed with a Nostr event (src/src/http/nostr-auth.ts): the    *)
(* event's own timestamp must be close to the clock of the web process,    *)
(* and its id is remembered for a while by the clock of the database, so   *)
(* that nobody can use one twice.  Two clocks, two windows, and a wait for *)
(* a database connection in between.                                       *)
(***************************************************************************)
EXTENDS Naturals

CONSTANTS
    Events,         \* signed events (kind 27235)
    Requests,       \* requests that may be under way together
    Window,         \* AUTH_WINDOW_SECONDS
    Retention,      \* seconds a used id is kept
    MaxSkew,        \* how far the two clocks may be apart
    MaxDelay,       \* how long a verified request may wait for the database
    MaxClock         \* bound: both clocks

\* Window is 60 and Retention 900 in the code.
ASSUME WindowsAssumption ==
    /\ {Window, Retention, MaxSkew, MaxDelay, MaxClock} \subseteq Nat
    /\ 2 * Window + 2 * MaxSkew + MaxDelay <= Retention
    /\ MaxSkew <= MaxClock

VARIABLES
    web,            \* the clock of the web process
    db,             \* the clock of the database: now() of a statement
    createdAt,      \* created_at of each event, chosen by its author
    request,        \* [at, event, since]
    used,           \* nostr_auth_events: used_at of the ids it holds, or Unused
    accepted        \* history: how often each event has authenticated a request

replayedVars == <<web, db, createdAt, request, used, accepted>>

Unused == MaxClock + 1
NoRequest == [at |-> "idle"]

AuthInit ==
    /\ web = 0
    /\ db \in 0..MaxSkew
    /\ createdAt \in [Events -> 0..MaxClock]
    /\ request = [r \in Requests |-> NoRequest]
    /\ used = [e \in Events |-> Unused]
    /\ accepted = [e \in Events |-> 0]

WebSecond ==
    /\ web < MaxClock /\ web + 1 <= db + MaxSkew
    /\ \A r \in Requests : request[r] # NoRequest => web - request[r].since < MaxDelay
    /\ web' = web + 1
    /\ UNCHANGED <<db, createdAt, request, used, accepted>>

DatabaseSecond ==
    /\ db < MaxClock /\ db + 1 <= web + MaxSkew
    /\ db' = db + 1
    /\ UNCHANGED <<web, createdAt, request, used, accepted>>

\* Faulty variant: only the past is looked at.
NotOld(e) == web <= createdAt[e] + Window

\* Math.abs(nowSeconds - event.created_at) <= AUTH_WINDOW_SECONDS
Timely(e) == web <= createdAt[e] + Window /\ createdAt[e] <= web + Window

\* verifyNip98Authorization.  Its signature, URL, method and payload are in order.
Verify(r, e) ==
    /\ request[r] = NoRequest
    /\ Timely(e)
    /\ request' = [request EXCEPT ![r] = [at |-> "verified", event |-> e, since |-> web]]
    /\ UNCHANGED <<web, db, createdAt, used, accepted>>

Expired == {e \in Events : used[e] # Unused /\ used[e] + Retention < db}

\* consumeNip98Event: one statement forgets the old ids and inserts this one.  When it
\* is an old one itself, the order of the two is not defined.
Consume(r) ==
    LET e == request[r].event
        kept == [f \in Events |-> IF f \in Expired THEN Unused ELSE used[f]]
    IN  /\ request[r] # NoRequest
        /\ \/ /\ used[e] = Unused \/ e \in Expired
              /\ used' = [kept EXCEPT ![e] = db]
              /\ accepted' = [accepted EXCEPT ![e] = @ + 1]
           \/ /\ used[e] # Unused
              /\ used' = kept
              /\ UNCHANGED accepted
        /\ request' = [request EXCEPT ![r] = NoRequest]
        /\ UNCHANGED <<web, db, createdAt>>

\* The connection breaks off or the web process dies.
Abandon(r) ==
    /\ request[r] # NoRequest
    /\ request' = [request EXCEPT ![r] = NoRequest]
    /\ UNCHANGED <<web, db, createdAt, used, accepted>>

AuthNext ==
    \/ WebSecond \/ DatabaseSecond
    \/ \E r \in Requests : Consume(r) \/ Abandon(r) \/ \E e \in Events : Verify(r, e)

AuthSpec == AuthInit /\ [][AuthNext]_replayedVars

-----------------------------------------------------------------------------

AuthTypeOK ==
    /\ web \in 0..MaxClock
    /\ db \in 0..MaxClock
    /\ createdAt \in [Events -> 0..MaxClock]
    /\ request \in [Requests ->
          {NoRequest} \cup [at: {"verified"}, event: Events, since: 0..MaxClock]]
    /\ used \in [Events -> 0..MaxClock + 1]
    /\ accepted \in [Events -> Nat]

(* A signed event authenticates at most one request, however often, from   *)
(* however many places and however much later it is sent again, and        *)
(* although ids are forgotten.                                             *)
UsedOnce == \A e \in Events : accepted[e] <= 1

=============================================================================
