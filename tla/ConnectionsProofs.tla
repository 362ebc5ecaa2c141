------------------------- MODULE ConnectionsProofs -------------------------
(***************************************************************************)
(* Proofs about the life of a connection: relays and the map of sessions   *)
(* (ConnectorSessions), what a subscription reads (SourceReplay), and the  *)
(* parts of ConnectionsMC together.  Those about the install are in        *)
(* ConnectionInstallProofs.                                                *)
(***************************************************************************)
EXTENDS ConnectionsMC, ConnectionInstallProofs, WellFoundedInduction, TLAPS

-----------------------------------------------------------------------------
(* ConnectorSessions                                                       *)

\* As long as calls have not overlapped: one is busy at most, every open relay is in
\* the map, and the entry of the connection a call is working on is the call's own.
OneCall == \A r, q \in Reconciles : Busy(r) /\ Busy(q) => r = q

OwnEntry ==
    \A r \in Reconciles :
        /\ call[r].pc = "connecting" => session[Current(r)] = NoSession
        /\ call[r].pc = "reporting" =>
              session[Current(r)] = NoSession \/ session[Current(r)].by = r

Serial == leaked = {} /\ OneCall /\ OwnEntry

SessionsInv == SessionsTypeOK /\ (~overlapped => Serial)

-----------------------------------------------------------------------------

(* A set of natural numbers that is not empty has a smallest element.      *)
LEMMA SmallestOf ==
    ASSUME NEW T \in SUBSET Nat, T # {}
    PROVE  \E x \in T : \A y \in T : x <= y
<1>. DEFINE R == {ss \in Nat \X Nat : ss[1] < ss[2]}
<1>1. IsWellFoundedOn(R, Nat)
  BY NatLessThanWellFounded DEF OpToRel
<1>. HIDE DEF R
<1>2. \E x \in T : \A y \in T : ~ (<<y, x>> \in R)
  BY <1>1, WFMin
<1>3. PICK x \in T : \A y \in T : ~ (<<y, x>> \in R)
  BY <1>2
<1>4. ASSUME NEW y \in T PROVE x <= y
  <2>1. ~(<<y, x>> \in R) /\ x \in Nat /\ y \in Nat
    BY <1>3
  <2>2. ~(y < x)
    BY <2>1 DEF R
  <2>. QED  BY <2>1, <2>2
<1>. QED  BY <1>4

(* A call with something left to do works on one of the connections.       *)
LEMMA CurrentIsListed ==
    ASSUME SessionsTypeOK, NEW r \in Reconciles, call[r].todo # {}
    PROVE  Current(r) \in Connections
<1>1. call[r].todo \subseteq Connections
  BY DEF SessionsTypeOK, Call
<1>2. \E c \in call[r].todo : \A d \in call[r].todo : c <= d
  BY <1>1, SmallestOf, ConnectionsAssumption
<1>. QED  BY <1>1, <1>2 DEF Current

(* The entries that sessions, calls and leaks are made of.                 *)
LEMMA Shapes ==
    /\ NoSession \notin Session
    /\ \A s \in Session : s # NoSession
    /\ \A s \in Session, b \in BOOLEAN :
          /\ [s EXCEPT !.deaf = b] \in Session /\ [s EXCEPT !.idle = b] \in Session
          /\ [s EXCEPT !.deaf = b].by = s.by /\ [s EXCEPT !.idle = b].by = s.by
    /\ \A s \in Session : [s EXCEPT !.by = NoCall] \in Session
    /\ [NoSession EXCEPT !.by = NoCall] = NoSession
    /\ \A k \in Leak : [k EXCEPT !.by = NoCall] \in Leak
    /\ Finished \in Call /\ Finished.pc = "done"
BY DEF Session, NoSession, Config, Leak, NoCall, Call, Finished

(* What is abandoned has the shape of a leak.                              *)
LEMMA AbandonedType ==
    ASSUME SessionsTypeOK, NEW c \in Connections PROVE Abandoned(c) \subseteq Leak
<1>1. session[c] \in Session \cup {NoSession}
  BY DEF SessionsTypeOK
<1>. QED  BY <1>1 DEF Abandoned, Session, Leak

-----------------------------------------------------------------------------

LEMMA SessionsInitially == SessionsInit => SessionsInv
<1>. SUFFICES ASSUME SessionsInit PROVE SessionsInv
  OBVIOUS
<1>1. \A r \in Reconciles : call[r] = Finished
  BY DEF SessionsInit
<1>2. connection \in [Connections -> [active: BOOLEAN, config: Config]]
  BY DEF SessionsInit, Config
<1>3. SessionsTypeOK
  <2>1. call \in [Reconciles -> Call]
    BY <1>1, Shapes DEF SessionsInit
  <2>2. \A r \in Reconciles : call[r].pc = "done"
    BY <1>1, Shapes
  <2>3. faults \in 0..MaxFaults
    BY ConnectionsAssumption DEF SessionsInit
  <2>. QED  BY <1>2, <2>1, <2>2, <2>3 DEF SessionsInit, SessionsTypeOK
<1>4. Serial
  BY <1>1, Shapes DEF SessionsInit, Serial, OneCall, OwnEntry, Busy
<1>. QED  BY <1>3, <1>4 DEF SessionsInv

\* The steps of one call.  `other' calls and what they are working on stay the same.
LEMMA BeginStep ==
    ASSUME SessionsInv, NEW r \in Reconciles, Begin(r) PROVE SessionsInv'
<1>. USE DEF Begin, SessionsInv
<1>1. SessionsTypeOK'
  BY DEF SessionsTypeOK, Call
<1>2. ASSUME ~overlapped' PROVE Serial'
  <2>1. \A q \in Reconciles : ~Busy(q)
    BY <1>2
  <2>2. \A q \in Reconciles : q # r => ~Busy(q)'
    BY <2>1 DEF Busy, SessionsTypeOK
  <2>3. \A q \in Reconciles : call'[q].pc \in {"done", "listing"}
    BY <2>1 DEF Busy, SessionsTypeOK, Call
  <2>. QED  BY <1>2, <2>2, <2>3 DEF Serial, OneCall, OwnEntry
<1>. QED  BY <1>1, <1>2

LEMMA ListStep ==
    ASSUME SessionsInv, NEW r \in Reconciles, List(r) PROVE SessionsInv'
<1>. DEFINE active == {c \in Connections : connection[c].active}
<1>. USE DEF List, SessionsInv
<1>1. SessionsTypeOK'
  <2>1. call' \in [Reconciles -> Call]
    BY DEF SessionsTypeOK, Call
  <2>2. session' \in [Connections -> Session \cup {NoSession}] /\ backoff' \in [Connections -> BOOLEAN]
    BY DEF SessionsTypeOK
  <2>. QED  BY <2>1, <2>2 DEF SessionsTypeOK
<1>2. ASSUME ~overlapped' PROVE Serial'
  <2>1. Busy(r) /\ Serial
    BY <1>2 DEF Busy
  <2>2. \A q \in Reconciles : q # r => call'[q] = call[q] /\ ~Busy(q)
    BY <2>1 DEF Serial, OneCall, SessionsTypeOK
  <2>3. call'[r].pc = "loop"
    BY DEF SessionsTypeOK
  <2>. QED  BY <1>2, <2>1, <2>2, <2>3 DEF Serial, OneCall, OwnEntry, Busy
<1>. QED  BY <1>1, <1>2

(* A call that ends, goes on to the next connection, or keeps a session,   *)
(* touches nothing else.                                                   *)
LEMMA MovesOn ==
    ASSUME SessionsInv, NEW r \in Reconciles, Busy(r), NEW k \in Call,
           call' = [call EXCEPT ![r] = k], k.pc \in {"done", "loop"},
           faults' \in 0..MaxFaults,
           UNCHANGED <<connection, session, leaked, backoff, overlapped, stopped>>
    PROVE  SessionsInv'
<1>1. SessionsTypeOK'
  BY DEF SessionsInv, SessionsTypeOK
<1>2. ASSUME ~overlapped' PROVE Serial'
  <2>1. \A q \in Reconciles : q # r => call'[q] = call[q] /\ ~Busy(q)
    BY <1>2 DEF SessionsInv, Serial, OneCall, SessionsTypeOK
  <2>2. call'[r] = k
    BY DEF SessionsInv, SessionsTypeOK
  <2>. QED  BY <1>2, <2>1, <2>2 DEF SessionsInv, Serial, OneCall, OwnEntry, Busy
<1>. QED  BY <1>1, <1>2 DEF SessionsInv

LEMMA FaultType == ASSUME SessionsTypeOK, Fault PROVE faults' \in 0..MaxFaults
BY ConnectionsAssumption DEF SessionsTypeOK, Fault

LEMMA QuietSteps ==
    ASSUME SessionsInv, NEW r \in Reconciles,
           ListFails(r) \/ Return(r) \/ Keep(r) \/ BlameFails(r)
    PROVE  SessionsInv'
<1>1. CASE ListFails(r) \/ BlameFails(r)
  BY <1>1, MovesOn, FaultType, Shapes DEF ListFails, BlameFails, SessionsInv, Busy
<1>2. CASE Return(r)
  BY <1>2, MovesOn, Shapes DEF Return, SessionsInv, SessionsTypeOK, Busy
<1>3. CASE Keep(r)
  <2>. DEFINE k == [call[r] EXCEPT !.todo = @ \ {Current(r)}]
  <2>1. k \in Call /\ k.pc = "loop" /\ call' = [call EXCEPT ![r] = k]
    BY <1>3 DEF Keep, SessionsInv, SessionsTypeOK, Call
  <2>. QED  BY <1>3, <2>1, MovesOn DEF Keep, SessionsInv, SessionsTypeOK, Busy
<1>. QED  BY <1>1, <1>2, <1>3

LEMMA RebuildStep ==
    ASSUME SessionsInv, NEW r \in Reconciles, Rebuild(r) PROVE SessionsInv'
<1>. DEFINE c == Current(r)
            k == IF backoff[c] THEN [call[r] EXCEPT !.todo = @ \ {c}]
                 ELSE [call[r] EXCEPT !.pc = "connecting"]
<1>0. c \in Connections
  BY CurrentIsListed DEF Rebuild, SessionsInv
<1>1. k \in Call /\ call' = [call EXCEPT ![r] = k] /\ (k.pc = "connecting" => k.todo = call[r].todo)
      /\ k.pc \in {"loop", "connecting"}
  BY <1>0 DEF Rebuild, SessionsInv, SessionsTypeOK, Call
<1>2. SessionsTypeOK'
  BY <1>0, <1>1 DEF Rebuild, SessionsInv, SessionsTypeOK
<1>3. ASSUME ~overlapped' PROVE Serial'
  <2>1. Busy(r) /\ Serial
    BY <1>3 DEF Rebuild, SessionsInv, Busy
  <2>2. \A q \in Reconciles : q # r => call'[q] = call[q] /\ ~Busy(q)
    BY <1>1, <2>1 DEF SessionsInv, Serial, OneCall, SessionsTypeOK
  <2>3. call'[r] = k /\ session'[c] = NoSession
    BY <1>0, <1>1 DEF Rebuild, SessionsInv, SessionsTypeOK
  <2>4. k.pc = "connecting" => Current(r)' = c
    BY <1>1, <2>3 DEF Current
  <2>. QED  BY <1>1, <1>3, <2>1, <2>2, <2>3, <2>4 DEF Rebuild, Serial, OneCall, OwnEntry, Busy
<1>. QED  BY <1>2, <1>3 DEF SessionsInv

LEMMA ConnectStep ==
    ASSUME SessionsInv, NEW r \in Reconciles, Connect(r) PROVE SessionsInv'
<1>. DEFINE c == Current(r)
            s == [config |-> call[r].configs[c], by |-> r, idle |-> FALSE, deaf |-> FALSE]
<1>0. c \in Connections
  BY CurrentIsListed DEF Connect, SessionsInv, SessionsTypeOK
<1>1. s \in Session
  BY <1>0 DEF Session, SessionsInv, SessionsTypeOK, Call
<1>2. /\ call' = [call EXCEPT ![r].pc = "reporting"] /\ call[r].pc = "connecting"
      /\ session' = [session EXCEPT ![c] = s]
      /\ leaked' = leaked \cup Abandoned(c)
      /\ backoff' = [backoff EXCEPT ![c] = FALSE]
      /\ UNCHANGED <<connection, overlapped, stopped, faults>>
  BY DEF Connect
<1>3. SessionsTypeOK'
  <2>1. call' \in [Reconciles -> Call]
    BY <1>2 DEF SessionsInv, SessionsTypeOK, Call
  <2>2. \A q \in Reconciles : call'[q].pc \in {"connecting", "reporting", "blaming"} => call'[q].todo # {}
    BY <1>2 DEF SessionsInv, SessionsTypeOK, Call
  <2>3. leaked' \subseteq Leak
    BY <1>0, <1>2, AbandonedType DEF SessionsInv, SessionsTypeOK
  <2>. QED  BY <1>1, <1>2, <2>1, <2>2, <2>3 DEF SessionsInv, SessionsTypeOK
<1>4. ASSUME ~overlapped' PROVE Serial'
  <2>1. Busy(r) /\ Serial
    BY <1>2, <1>4 DEF SessionsInv, Busy
  <2>2. \A q \in Reconciles : q # r => call'[q] = call[q] /\ ~Busy(q)
    BY <1>2, <2>1 DEF SessionsInv, Serial, OneCall, SessionsTypeOK
  <2>3. session'[c].by = r /\ call'[r].pc = "reporting" /\ call'[r].todo = call[r].todo
    BY <1>0, <1>2 DEF SessionsInv, SessionsTypeOK, Call
  <2>4. Current(r)' = c
    BY <2>3 DEF Current
  <2>5. Abandoned(c) = {}
    BY <1>2, <2>1 DEF Serial, OwnEntry, Abandoned
  <2>. QED  BY <1>2, <2>1, <2>2, <2>3, <2>4, <2>5 DEF Serial, OneCall, OwnEntry, Busy
<1>. QED  BY <1>3, <1>4 DEF SessionsInv

LEMMA CatchStep ==
    ASSUME SessionsInv, NEW r \in Reconciles, call[r].pc \in {"connecting", "reporting"},
           Catch(r, Current(r)), Fault, UNCHANGED <<connection, overlapped, stopped>>
    PROVE  SessionsInv'
<1>. DEFINE c == Current(r)
<1>0. c \in Connections
  BY CurrentIsListed DEF SessionsInv, SessionsTypeOK
<1>1. /\ call' = [call EXCEPT ![r].pc = "blaming"]
      /\ session' = [session EXCEPT ![c] = NoSession]
      /\ leaked' = {k \in leaked \cup Abandoned(c) : k.of # c \/ k.by # r}
      /\ backoff' = [backoff EXCEPT ![c] = TRUE]
  BY DEF Catch
<1>2. SessionsTypeOK'
  <2>1. call' \in [Reconciles -> Call]
    BY <1>1 DEF SessionsInv, SessionsTypeOK, Call
  <2>2. \A q \in Reconciles : call'[q].pc \in {"connecting", "reporting", "blaming"} => call'[q].todo # {}
    BY <1>1 DEF SessionsInv, SessionsTypeOK, Call
  <2>3. leaked' \subseteq Leak
    BY <1>0, <1>1, AbandonedType DEF SessionsInv, SessionsTypeOK
  <2>. QED  BY <1>1, <2>1, <2>2, <2>3, FaultType DEF SessionsInv, SessionsTypeOK
<1>3. ASSUME ~overlapped' PROVE Serial'
  <2>1. Busy(r) /\ Serial
    BY <1>3 DEF SessionsInv, Busy
  <2>2. \A q \in Reconciles : q # r => call'[q] = call[q] /\ ~Busy(q)
    BY <1>1, <2>1 DEF SessionsInv, Serial, OneCall, SessionsTypeOK
  <2>3. call'[r].pc = "blaming"
    BY <1>1 DEF SessionsInv, SessionsTypeOK, Call
  <2>4. \A k \in Abandoned(c) : k.of = c /\ k.by = r
    BY <2>1 DEF Serial, OwnEntry, Abandoned
  <2>5. leaked' = {}
    BY <1>1, <2>1, <2>4 DEF Serial
  <2>. QED  BY <2>1, <2>2, <2>3, <2>5 DEF Serial, OneCall, OwnEntry, Busy
<1>. QED  BY <1>2, <1>3 DEF SessionsInv

LEMMA ReportedStep ==
    ASSUME SessionsInv, NEW r \in Reconciles, Reported(r) PROVE SessionsInv'
<1>. DEFINE c == Current(r)
            letGo(s) == IF s.by = r THEN [s EXCEPT !.by = NoCall] ELSE s
<1>0. c \in Connections
  BY CurrentIsListed DEF Reported, SessionsInv, SessionsTypeOK
<1>1. /\ call' = [call EXCEPT ![r].pc = "loop", ![r].todo = @ \ {c}]
      /\ session' = [session EXCEPT ![c] = letGo(@)]
      /\ leaked' = {letGo(k) : k \in leaked}
      /\ UNCHANGED <<connection, backoff, overlapped, stopped, faults>>
  BY DEF Reported
<1>2. SessionsTypeOK'
  <2>. DEFINE k == [call[r] EXCEPT !.pc = "loop", !.todo = @ \ {c}]
  <2>0. k \in Call /\ k.pc = "loop"
    BY DEF SessionsInv, SessionsTypeOK, Call
  <2>k. call' = [call EXCEPT ![r] = k]
    BY <1>1
  <2>1. call' \in [Reconciles -> Call]
    BY <2>0, <2>k DEF SessionsInv, SessionsTypeOK
  <2>2. \A q \in Reconciles : call'[q].pc \in {"connecting", "reporting", "blaming"} => call'[q].todo # {}
    BY <2>0, <2>k DEF SessionsInv, SessionsTypeOK
  <2>3. leaked' \subseteq Leak
    BY <1>1, Shapes DEF SessionsInv, SessionsTypeOK
  <2>4. letGo(session[c]) \in Session \cup {NoSession}
    BY <1>0, Shapes DEF SessionsInv, SessionsTypeOK
  <2>. QED  BY <1>1, <2>1, <2>2, <2>3, <2>4 DEF SessionsInv, SessionsTypeOK
<1>3. ASSUME ~overlapped' PROVE Serial'
  <2>1. Busy(r) /\ Serial
    BY <1>1, <1>3 DEF Reported, SessionsInv, Busy
  <2>2. \A q \in Reconciles : q # r => call'[q] = call[q] /\ ~Busy(q)
    BY <1>1, <2>1 DEF SessionsInv, Serial, OneCall, SessionsTypeOK
  <2>3. call'[r].pc = "loop"
    BY <1>1 DEF SessionsInv, SessionsTypeOK, Call
  <2>. QED  BY <1>1, <2>1, <2>2, <2>3 DEF Serial, OneCall, OwnEntry, Busy
<1>. QED  BY <1>2, <1>3 DEF SessionsInv

-----------------------------------------------------------------------------

(* Whatever closes sessions or changes what they hear, and no call.        *)
LEMMA Around ==
    ASSUME SessionsInv,
           session' \in [Connections -> Session \cup {NoSession}],
           \A c \in Connections :
              session'[c] = NoSession \/ (session[c] # NoSession /\ session'[c].by = session[c].by),
           leaked' \subseteq leaked, faults' \in 0..MaxFaults, stopped' \in BOOLEAN,
           connection' \in [Connections -> [active: BOOLEAN, config: Config]],
           backoff' \in [Connections -> BOOLEAN], UNCHANGED <<call, overlapped>>
    PROVE  SessionsInv'
<1>1. SessionsTypeOK'
  BY DEF SessionsInv, SessionsTypeOK
<1>2. ASSUME ~overlapped' PROVE Serial'
  <2>1. ASSUME NEW r \in Reconciles, call[r].pc \in {"connecting", "reporting"}
        PROVE  Current(r) \in Connections
    BY <2>1, CurrentIsListed DEF SessionsInv, SessionsTypeOK
  <2>2. \A r \in Reconciles : Current(r)' = Current(r)
    BY DEF Current
  <2>. QED  BY <1>2, <2>1, <2>2 DEF SessionsInv, Serial, OneCall, OwnEntry, Busy
<1>. QED  BY <1>1, <1>2 DEF SessionsInv

LEMMA AroundSteps ==
    ASSUME SessionsInv, NEW c \in Connections,
           \/ Reconfigure(c) \/ Drop(c) \/ GoDeaf(c) \/ GoIdle(c) \/ Hear(c) \/ BackoffEnds(c)
    PROVE  SessionsInv'
<1>. USE DEF SessionsInv, SessionsTypeOK
<1>0. /\ session[c] \in Session \cup {NoSession}
      /\ \A d \in Connections : session[d] = NoSession \/ (session[d] # NoSession /\ session[d].by = session[d].by)
      /\ leaked \subseteq leaked
  OBVIOUS
<1>1. CASE Reconfigure(c)
  <2>1. connection' \in [Connections -> [active: BOOLEAN, config: Config]]
    BY <1>1 DEF Reconfigure, Config
  <2>. QED  BY <1>0, <1>1, <2>1, Around DEF Reconfigure
<1>2. CASE Drop(c)
  BY <1>0, <1>2, Around, FaultType DEF Drop
<1>3. CASE GoDeaf(c)
  <2>1. session[c] \in Session /\ session' = [session EXCEPT ![c] = [session[c] EXCEPT !.deaf = TRUE]]
    BY <1>0, <1>3 DEF GoDeaf
  <2>. QED  BY <1>0, <1>3, <2>1, Around, FaultType, Shapes DEF GoDeaf
<1>4. CASE GoIdle(c)
  <2>1. session[c] \in Session /\ session' = [session EXCEPT ![c] = [session[c] EXCEPT !.idle = TRUE]]
    BY <1>0, <1>4 DEF GoIdle
  <2>2. [session[c] EXCEPT !.idle = TRUE] \in Session /\ [session[c] EXCEPT !.idle = TRUE].by = session[c].by
    BY <2>1, Shapes
  <2>3. session[c] # NoSession
    BY <1>4 DEF GoIdle
  <2>. QED  BY <1>0, <1>4, <2>1, <2>2, <2>3, Around DEF GoIdle
<1>5. CASE Hear(c)
  <2>1. session[c] \in Session /\ session' = [session EXCEPT ![c] = [session[c] EXCEPT !.idle = FALSE]]
    BY <1>0, <1>5 DEF Hear, NoSession
  <2>. QED  BY <1>0, <1>5, <2>1, Around, Shapes DEF Hear
<1>6. CASE BackoffEnds(c)
  BY <1>0, <1>6, Around DEF BackoffEnds
<1>. QED  BY <1>1, <1>2, <1>3, <1>4, <1>5, <1>6

LEMMA EndSteps ==
    ASSUME SessionsInv, Stop \/ (\E k \in leaked : DropLeaked(k)) PROVE SessionsInv'
<1>. USE DEF SessionsInv, SessionsTypeOK
<1>0. \A d \in Connections : session[d] = NoSession \/ (session[d] # NoSession /\ session[d].by = session[d].by)
  OBVIOUS
<1>1. CASE Stop
  BY <1>1, Around DEF Stop
<1>2. ASSUME NEW k \in leaked, DropLeaked(k) PROVE SessionsInv'
  BY <1>0, <1>2, Around DEF DropLeaked
<1>. QED  BY <1>1, <1>2

LEMMA CallSteps ==
    ASSUME SessionsInv, NEW r \in Reconciles, CallStep(r) PROVE SessionsInv'
<1>1. CASE ConnectFails(r) \/ ReportFails(r)
  BY <1>1, CatchStep DEF ConnectFails, ReportFails
<1>. QED  BY <1>1, BeginStep, ListStep, QuietSteps, RebuildStep, ConnectStep, ReportedStep DEF CallStep

-----------------------------------------------------------------------------

(* The inductive invariant: types, and what holds while calls are serial.  *)
THEOREM SessionsInvariance == SessionsSpec => []SessionsInv
<1>1. SessionsInv /\ [SessionsNext]_sessionVars => SessionsInv'
  <2>. SUFFICES ASSUME SessionsInv, [SessionsNext]_sessionVars PROVE SessionsInv'
    OBVIOUS
  <2>1. CASE UNCHANGED sessionVars
    BY <2>1 DEF sessionVars, SessionsInv, SessionsTypeOK, Serial, OneCall, OwnEntry, Busy, Current
  <2>2. CASE SessionsNext
    BY <2>2, CallSteps, AroundSteps, EndSteps DEF SessionsNext
  <2>. QED  BY <2>1, <2>2
<1>. QED  BY <1>1, SessionsInitially, PTL DEF SessionsSpec

(* Types are kept, and a call past the list has something to do.           *)
THEOREM SessionsTypeCorrect == SessionsSpec => []SessionsTypeOK
BY SessionsInvariance, PTL DEF SessionsInv

(* While calls of reconcile do not overlap, the map leads to every relay   *)
(* that is open, for any number of connections, failures and lost sockets. *)
THEOREM NoLeaks == SessionsSpec => []SerialNeverLeaks
<1>1. SessionsInv => SerialNeverLeaks
  BY DEF SessionsInv, Serial, SerialNeverLeaks
<1>. QED  BY <1>1, SessionsInvariance, PTL

-----------------------------------------------------------------------------
(* SourceReplay                                                            *)

Times == 1..MaxTime

\* A subscription goes back to every cursor; while it is open and nothing was lost,
\* every post since then has arrived or will.
GoesBack ==
    subscription.at # "closed" => \A r \in Routes : subscription.since <= cursor[r]

Arrives ==
    subscription.at = "open" /\ losses = 0 =>
        \A e \in Posts : Posted(e) /\ posted[e].at >= subscription.since =>
            e \in feed \cup handling \cup ingested

ReplayInv == ReplayTypeOK /\ GoesBack /\ Arrives

LEMMA ReplayTimes == ASSUME NEW t \in Times PROVE t \in Nat /\ t \in 0..MaxTime
BY ReplayAssumption DEF Times

(* Types of what the relay stores, without the variants of the record.     *)
LEMMA PostedType ==
    ASSUME ReplayTypeOK, NEW e \in Posts, Posted(e)
    PROVE  posted[e].route \in Routes /\ posted[e].at \in Times
BY DEF ReplayTypeOK, Posted, Times

(* The start of a subscription is the smallest of the cursors.             *)
LEMMA SinceIsSmallest ==
    ASSUME ReplayTypeOK
    PROVE  Since \in Times /\ \A r \in Routes : Since <= cursor[r]
<1>. DEFINE cursors == {cursor[r] : r \in Routes}
<1>1. \A r \in Routes : cursor[r] \in Times
  BY DEF ReplayTypeOK, Times
<1>2. cursors \in SUBSET Nat /\ cursors # {}
  BY <1>1, ReplayTimes, ReplayAssumption
<1>3. \E x \in cursors : \A y \in cursors : x <= y
  BY <1>2, SmallestOf
<1>4. Since \in cursors /\ \A y \in cursors : Since <= y
  BY <1>3 DEF Since, Min
<1>. QED  BY <1>1, <1>4

LEMMA LaterOf ==
    ASSUME NEW a \in Times, NEW b \in Times
    PROVE  Max({a, b}) \in Times /\ a <= Max({a, b}) /\ b <= Max({a, b})
<1>1. a \in Nat /\ b \in Nat
  BY ReplayTimes
<1>2. \E x \in {a, b} : \A y \in {a, b} : x >= y
  BY <1>1
<1>3. Max({a, b}) \in {a, b} /\ \A y \in {a, b} : Max({a, b}) >= y
  BY <1>2 DEF Max
<1>. QED  BY <1>1, <1>3

LEMMA ReplayInitially == ReplayInit => ReplayInv
BY ReplayAssumption
   DEF ReplayInit, ReplayInv, ReplayTypeOK, GoesBack, Arrives, Closed, NotPosted, Posted

LEMMA PostStep == ASSUME ReplayInv, NEW e \in Posts, Post(e) PROVE ReplayInv'
<1>0. ReplayTypeOK /\ GoesBack /\ Arrives
  BY DEF ReplayInv
<1>1. PICK r \in Routes, t \in 1..clock :
        /\ posted' = [posted EXCEPT ![e] = [route |-> r, at |-> t]]
        /\ feed' = IF subscription.at = "open" /\ t >= subscription.since
                   THEN feed \cup {e} ELSE feed
  BY DEF Post
<1>2. t \in 1..MaxTime
  BY <1>0, <1>1, ReplayAssumption DEF ReplayTypeOK
<1>3. /\ posted'[e] = [route |-> r, at |-> t]
      /\ \A f \in Posts \ {e} : posted'[f] = posted[f]
      /\ posted' \in [Posts -> [route: Routes, at: 1..MaxTime] \cup {NotPosted}]
  BY <1>0, <1>1, <1>2 DEF ReplayTypeOK
<1>4. Posted(e)' /\ \A f \in Posts : Posted(f) => Posted(f)'
  <2>1. [route |-> r, at |-> t] # NotPosted
    BY <1>2, ReplayAssumption DEF NotPosted
  <2>. QED  BY <1>3, <2>1 DEF Posted
<1>5. ReplayTypeOK'
  BY <1>0, <1>1, <1>3, <1>4 DEF ReplayTypeOK, Post
<1>6. GoesBack'
  BY <1>0 DEF GoesBack, Post
<1>7. Arrives'
  <2>. SUFFICES ASSUME subscription.at = "open", losses = 0, NEW f \in Posts, Posted(f)',
                       posted'[f].at >= subscription.since
                PROVE  f \in feed' \cup handling \cup ingested
    BY DEF Arrives, Post
  <2>1. CASE f = e
    BY <1>1, <1>3, <2>1
  <2>2. CASE f # e
    BY <1>0, <1>1, <1>3, <2>2 DEF Arrives, Posted
  <2>. QED  BY <2>1, <2>2
<1>. QED  BY <1>5, <1>6, <1>7 DEF ReplayInv

LEMMA SubscriptionSteps ==
    ASSUME ReplayInv, Second \/ ListRoutes \/ Subscribe \/ Close \/ ConnectorDies
    PROVE  ReplayInv'
<1>0. /\ ReplayTypeOK /\ GoesBack /\ Arrives
      /\ subscription \in [at: {"closed", "connecting", "open"}, since: 0..MaxTime]
  BY DEF ReplayInv, ReplayTypeOK
<1>1. UNCHANGED <<posted, cursor, ingested>> /\ \A e : Posted(e)' <=> Posted(e)
  BY DEF Second, ListRoutes, Subscribe, Close, ConnectorDies, Posted
<1>2. CASE Second
  <2>1. clock' \in 1..MaxTime
    BY <1>0, <1>2, ReplayAssumption DEF Second, ReplayTypeOK
  <2>. QED  BY <1>0, <1>1, <1>2, <2>1 DEF Second, ReplayInv, ReplayTypeOK, GoesBack, Arrives
<1>3. CASE ListRoutes
  <2>1. subscription' = [at |-> "connecting", since |-> Since]
    BY <1>3 DEF ListRoutes
  <2>2. Since \in 0..MaxTime /\ \A r \in Routes : Since <= cursor[r]
    BY <1>0, SinceIsSmallest, ReplayTimes
  <2>. QED  BY <1>0, <1>1, <1>3, <2>1, <2>2
            DEF ListRoutes, ReplayInv, ReplayTypeOK, GoesBack, Arrives
<1>4. CASE Subscribe
  <2>1. /\ subscription.at = "connecting" /\ subscription'.at = "open"
        /\ subscription'.since = subscription.since
        /\ subscription' \in [at: {"closed", "connecting", "open"}, since: 0..MaxTime]
        /\ feed' = {e \in Posts : Posted(e) /\ posted[e].at >= subscription.since}
    BY <1>0, <1>4 DEF Subscribe
  <2>. QED  BY <1>0, <1>1, <1>4, <2>1
            DEF Subscribe, ReplayInv, ReplayTypeOK, GoesBack, Arrives
<1>5. CASE Close
  BY <1>0, <1>1, <1>5, ReplayAssumption
     DEF Close, Closed, ReplayInv, ReplayTypeOK, GoesBack, Arrives
<1>6. CASE ConnectorDies
  <2>1. losses' \in 0..MaxLosses
    BY <1>0, <1>6, ReplayAssumption DEF ConnectorDies, Lose, ReplayTypeOK
  <2>. QED  BY <1>0, <1>1, <1>6, <2>1, ReplayAssumption
            DEF ConnectorDies, Closed, ReplayInv, ReplayTypeOK, GoesBack, Arrives
<1>. QED  BY <1>2, <1>3, <1>4, <1>5, <1>6

LEMMA EventSteps ==
    ASSUME ReplayInv, NEW e \in Posts, Receive(e) \/ Ingest(e) \/ IngestFails(e)
    PROVE  ReplayInv'
<1>0. ReplayTypeOK /\ GoesBack /\ Arrives
  BY DEF ReplayInv
<1>1. UNCHANGED <<clock, posted, subscription>> /\ \A f : Posted(f)' <=> Posted(f)
  BY DEF Receive, Ingest, IngestFails, Posted
<1>2. CASE Receive(e)
  BY <1>0, <1>1, <1>2 DEF Receive, ReplayInv, ReplayTypeOK, GoesBack, Arrives
<1>3. CASE Ingest(e)
  <2>0. Posted(e) /\ posted[e].route \in Routes /\ posted[e].at \in Times
    BY <1>0, <1>3, PostedType DEF Ingest, ReplayTypeOK
  <2>1. /\ cursor' \in [Routes -> Times]
        /\ \A r \in Routes : cursor[r] <= cursor'[r]
    <3>0. cursor \in [Routes -> Times] /\ \A r \in Routes : cursor[r] \in Nat
      BY <1>0, ReplayTimes DEF ReplayTypeOK, Times
    <3>1. CASE cursor' = cursor
      BY <3>0, <3>1
    <3>2. CASE cursor' = [cursor EXCEPT ![posted[e].route] = Max({@, posted[e].at})]
      <4>1. /\ Max({cursor[posted[e].route], posted[e].at}) \in Times
            /\ cursor[posted[e].route] <= Max({cursor[posted[e].route], posted[e].at})
        BY <2>0, <3>0, LaterOf
      <4>. QED  BY <2>0, <3>0, <3>2, <4>1
    <3>. QED  BY <1>3, <3>1, <3>2 DEF Ingest
  <2>2. ReplayTypeOK'
    BY <1>0, <1>1, <1>3, <2>0, <2>1 DEF Ingest, ReplayTypeOK, Times
  <2>3. GoesBack'
    <3>. SUFFICES ASSUME subscription.at # "closed", NEW r \in Routes
                  PROVE  subscription.since <= cursor'[r]
      BY <1>1 DEF GoesBack
    <3>1. subscription.since \in Nat /\ cursor[r] \in Nat /\ cursor'[r] \in Nat
      BY <1>0, <2>1, ReplayTimes, ReplayAssumption DEF ReplayTypeOK, Times
    <3>2. subscription.since <= cursor[r] /\ cursor[r] <= cursor'[r]
      BY <1>0, <2>1 DEF GoesBack
    <3>. QED  BY <3>1, <3>2
  <2>4. Arrives'
    BY <1>0, <1>1, <1>3 DEF Ingest, Arrives
  <2>. QED  BY <2>2, <2>3, <2>4 DEF ReplayInv
<1>4. CASE IngestFails(e)
  <2>1. losses' \in 0..MaxLosses /\ losses' # 0
    BY <1>0, <1>4, ReplayAssumption DEF IngestFails, Lose, ReplayTypeOK
  <2>. QED  BY <1>0, <1>1, <1>4, <2>1
            DEF IngestFails, ReplayInv, ReplayTypeOK, GoesBack, Arrives
<1>. QED  BY <1>2, <1>3, <1>4

(* Whatever order events arrive and are handled in, the cursors never pass *)
(* the subscription, so that it goes back to all of them.                  *)
THEOREM ReplayInvariance == ReplaySpec => []ReplayInv
<1>1. ReplayInv /\ [ReplayNext]_replayVars => ReplayInv'
  <2>. SUFFICES ASSUME ReplayInv, [ReplayNext]_replayVars PROVE ReplayInv'
    OBVIOUS
  <2>1. CASE UNCHANGED replayVars
    BY <2>1 DEF replayVars, ReplayInv, ReplayTypeOK, GoesBack, Arrives, Posted
  <2>2. CASE ReplayNext
    BY <2>2, PostStep, SubscriptionSteps, EventSteps DEF ReplayNext
  <2>. QED  BY <2>1, <2>2
<1>. QED  BY <1>1, ReplayInitially, PTL DEF ReplaySpec

(* Posts, cursors and the subscription keep their types.                   *)
THEOREM ReplayTypeCorrect == ReplaySpec => []ReplayTypeOK
<1>1. ReplayInv => ReplayTypeOK
  BY DEF ReplayInv
<1>. QED  BY <1>1, ReplayInvariance, PTL

(* The safety side of EventuallyIngestedOrOvertaken: while a subscription  *)
(* is open and no ingest failed and no worker died, nothing hides a post.  *)
(* It is ingested, on its way, or a later post of its own channel was      *)
(* ingested: one since for all channels (connector.ts, subscribe) takes    *)
(* nothing from any of them.                                               *)
THEOREM OpenMissesNothing ==
    ReplaySpec => [](subscription.at = "open" /\ losses = 0 =>
        \A e \in Posts : Posted(e) => e \in feed \cup handling \cup ingested \/ Overtaken(e))
<1>1. ASSUME ReplayInv, subscription.at = "open", losses = 0, NEW e \in Posts, Posted(e)
      PROVE  e \in feed \cup handling \cup ingested \/ Overtaken(e)
  <2>1. ReplayTypeOK /\ GoesBack /\ Arrives
    BY <1>1 DEF ReplayInv
  <2>2. posted[e].route \in Routes /\ posted[e].at \in Times
    BY <1>1, <2>1, PostedType
  <2>3. /\ posted[e].at \in Nat /\ cursor[posted[e].route] \in Nat
        /\ subscription.since \in Nat
    BY <2>1, <2>2, ReplayTimes, ReplayAssumption DEF ReplayTypeOK, Times
  <2>4. subscription.since <= cursor[posted[e].route]
    BY <1>1, <2>1, <2>2 DEF GoesBack
  <2>5. CASE posted[e].at >= subscription.since
    BY <1>1, <2>1, <2>5 DEF Arrives
  <2>6. CASE ~(posted[e].at >= subscription.since)
    BY <1>1, <2>3, <2>4, <2>6 DEF Overtaken
  <2>. QED  BY <2>5, <2>6
<1>2. ReplayInv => (subscription.at = "open" /\ losses = 0 =>
        \A e \in Posts : Posted(e) => e \in feed \cup handling \cup ingested \/ Overtaken(e))
  BY <1>1
<1>. QED  BY <1>2, ReplayInvariance, PTL

-----------------------------------------------------------------------------
(* The parts together                                                      *)

(* Whatever part runs, each is a behaviour of its own specification.       *)
THEOREM ConnectionsParts ==
    ConnectionsSpec => InstallSpec /\ SessionsSpec /\ ReplaySpec
<1>. DEFINE connectionsVars == <<part, installVars, sessionVars, replayVars>>
<1>1. ConnectionsInit => InstallInit /\ SessionsInit /\ ReplayInit
  BY DEF ConnectionsInit
<1>2. [ConnectionsNext]_connectionsVars => [InstallNext]_installVars
  BY DEF ConnectionsNext
<1>3. [ConnectionsNext]_connectionsVars => [SessionsNext]_sessionVars
  BY DEF ConnectionsNext
<1>4. [ConnectionsNext]_connectionsVars => [ReplayNext]_replayVars
  BY DEF ConnectionsNext
<1>. QED  BY <1>1, <1>2, <1>3, <1>4, PTL
          DEF ConnectionsSpec, InstallSpec, SessionsSpec, ReplaySpec

(* Every variable of the life of a connection keeps its type.              *)
THEOREM ConnectionsTypeCorrect == ConnectionsSpec => []ConnectionsTypeOK
<1>1. InstallTypeOK /\ SessionsTypeOK /\ ReplayTypeOK => ConnectionsTypeOK
  BY DEF ConnectionsTypeOK
<1>. QED  BY <1>1, ConnectionsParts, InstallTypeCorrect, SessionsTypeCorrect,
             ReplayTypeCorrect, PTL

(* The safety properties of the parts hold of the connection.              *)
THEOREM ConnectionsSafe ==
    ConnectionsSpec => [](ActiveKeyProved /\ PendingIsCurrent /\ SerialNeverLeaks)
BY ConnectionsParts, ActivatedByProof, OneUsableToken, NoLeaks, PTL

=============================================================================
