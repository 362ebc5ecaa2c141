-------------------------- MODULE DirectoryProofs --------------------------
(***************************************************************************)
(* Proofs about the directory: a signed request is used once               *)
(* (RequestReplay), a monitor's cursor passes no report (Nip66Source), a   *)
(* verdict is shown next to its own code (InviteFreshness), and whatever   *)
(* part of DirectoryMC runs, it is a behaviour of its own specification,   *)
(* so that what is proved of the parts holds of the whole.                 *)
(***************************************************************************)
EXTENDS DirectoryMC, CandidateProbesProofs, SubmissionValidationProofs,
        FiniteSetTheorems, TLAPS

-----------------------------------------------------------------------------
(* RequestReplay                                                           *)

\* The two clocks stay together.
Skew == web <= db + MaxSkew /\ db <= web + MaxSkew

\* A request under way was timely when it was verified, and that is not long ago.
Recent ==
    \A r \in Requests : request[r] # NoRequest =>
        LET e == request[r].event
            since == request[r].since
        IN  /\ since <= web /\ web <= since + MaxDelay
            /\ since <= createdAt[e] + Window /\ createdAt[e] <= since + Window

\* An id is remembered from about the time its event was made on.
Remembered ==
    \A e \in Events : used[e] # Unused =>
        used[e] <= db /\ createdAt[e] <= used[e] + Window + MaxSkew

\* Past every clock at which the event can be verified or a request with it can wait.
Gone(e) == createdAt[e] + Window + MaxDelay < web

\* An event that was accepted is remembered until it is gone.
Once ==
    \A e \in Events : accepted[e] = 0 \/ (accepted[e] = 1 /\ (used[e] # Unused \/ Gone(e)))

AuthInv == AuthTypeOK /\ Skew /\ Recent /\ Remembered /\ Once

-----------------------------------------------------------------------------

(* An id is forgotten only when its event is gone: the retention outlasts  *)
(* both windows, the skew of the clocks twice, and the wait.               *)
LEMMA ForgottenIsGone ==
    ASSUME AuthInv, NEW e \in Events, e \in Expired
    PROVE  Gone(e)
<1>1. /\ createdAt[e] \in Nat /\ used[e] \in Nat /\ web \in Nat /\ db \in Nat
      /\ {Window, Retention, MaxSkew, MaxDelay} \subseteq Nat
  BY WindowsAssumption DEF AuthInv, AuthTypeOK
<1>2. used[e] + Retention < db /\ createdAt[e] <= used[e] + Window + MaxSkew
  BY DEF AuthInv, Remembered, Expired
<1>3. db <= web + MaxSkew
  BY DEF AuthInv, Skew
<1>. QED  BY <1>1, <1>2, <1>3, WindowsAssumption DEF Gone

(* A request under way holds an event that is not gone.                    *)
LEMMA WaitingIsNotGone ==
    ASSUME AuthInv, NEW r \in Requests, request[r] # NoRequest
    PROVE  request[r].event \in Events /\ ~Gone(request[r].event)
<1>1. request[r] \in [at: {"verified"}, event: Events, since: 0..MaxClock]
  BY DEF AuthInv, AuthTypeOK
<1>2. createdAt[request[r].event] \in Nat /\ web \in Nat /\ request[r].since \in Nat
      /\ Window \in Nat /\ MaxDelay \in Nat
  BY <1>1, WindowsAssumption DEF AuthInv, AuthTypeOK
<1>3. web <= request[r].since + MaxDelay /\ request[r].since <= createdAt[request[r].event] + Window
  BY DEF AuthInv, Recent
<1>. QED  BY <1>1, <1>2, <1>3 DEF Gone

-----------------------------------------------------------------------------

LEMMA AuthInitially == AuthInit => AuthInv
<1>. SUFFICES ASSUME AuthInit PROVE AuthInv
  OBVIOUS
<1>1. AuthTypeOK
  BY WindowsAssumption DEF AuthInit, AuthTypeOK, Unused
<1>2. Skew
  BY WindowsAssumption DEF AuthInit, Skew
<1>3. Recent /\ Remembered /\ Once
  BY DEF AuthInit, Recent, Remembered, Once
<1>. QED  BY <1>1, <1>2, <1>3 DEF AuthInv

LEMMA WebStep == ASSUME AuthInv, WebSecond PROVE AuthInv'
<1>. USE WindowsAssumption DEF AuthInv, WebSecond
<1>0. web \in Nat /\ db \in Nat /\ web' = web + 1
  BY DEF AuthTypeOK
<1>1. AuthTypeOK'
  BY <1>0 DEF AuthTypeOK
<1>2. Skew'
  BY <1>0 DEF Skew
<1>3. Recent'
  <2>. SUFFICES ASSUME NEW r \in Requests, request[r] # NoRequest
                PROVE  LET e == request[r].event
                           since == request[r].since
                       IN  /\ since <= web' /\ web' <= since + MaxDelay
                           /\ since <= createdAt[e] + Window /\ createdAt[e] <= since + Window
    BY DEF Recent
  <2>1. request[r].since \in Nat
    BY DEF AuthTypeOK
  <2>2. request[r].since <= web /\ web - request[r].since < MaxDelay
    BY DEF Recent
  <2>. QED  BY <1>0, <2>1, <2>2 DEF Recent
<1>4. Remembered'
  BY DEF Remembered, Unused
<1>5. Once'
  <2>. SUFFICES ASSUME NEW e \in Events, Gone(e) PROVE Gone(e)'
    BY DEF Once, Unused
  <2>1. createdAt[e] \in Nat
    BY DEF AuthTypeOK
  <2>. QED  BY <1>0, <2>1 DEF Gone
<1>. QED  BY <1>1, <1>2, <1>3, <1>4, <1>5 DEF AuthInv

LEMMA DatabaseStep == ASSUME AuthInv, DatabaseSecond PROVE AuthInv'
<1>. USE WindowsAssumption DEF AuthInv, DatabaseSecond
<1>0. web \in Nat /\ db \in Nat /\ db' = db + 1
  BY DEF AuthTypeOK
<1>1. AuthTypeOK'
  BY <1>0 DEF AuthTypeOK
<1>2. Skew'
  BY <1>0 DEF Skew
<1>3. Recent'
  BY DEF Recent
<1>4. Remembered'
  BY <1>0 DEF Remembered, Unused, AuthTypeOK
<1>5. Once'
  BY DEF Once, Unused, Gone
<1>. QED  BY <1>1, <1>2, <1>3, <1>4, <1>5 DEF AuthInv

LEMMA VerifyStep ==
    ASSUME AuthInv, NEW r \in Requests, NEW e \in Events, Verify(r, e) PROVE AuthInv'
<1>. USE WindowsAssumption DEF AuthInv, Verify
<1>0. request' = [request EXCEPT ![r] = [at |-> "verified", event |-> e, since |-> web]]
  OBVIOUS
<1>1. AuthTypeOK'
  BY <1>0 DEF AuthTypeOK
<1>2. Skew'
  BY DEF Skew
<1>3. Recent'
  <2>. SUFFICES ASSUME NEW q \in Requests, request'[q] # NoRequest
                PROVE  LET f == request'[q].event
                           since == request'[q].since
                       IN  /\ since <= web /\ web <= since + MaxDelay
                           /\ since <= createdAt[f] + Window /\ createdAt[f] <= since + Window
    BY DEF Recent
  <2>1. CASE q = r
    <3>1. request'[q].event = e /\ request'[q].since = web
      BY <1>0, <2>1 DEF AuthTypeOK
    <3>2. web \in Nat
      BY DEF AuthTypeOK
    <3>. QED  BY <3>1, <3>2 DEF Timely
  <2>2. CASE q # r
    BY <1>0, <2>2 DEF Recent, AuthTypeOK
  <2>. QED  BY <2>1, <2>2
<1>4. Remembered' /\ Once'
  BY DEF Remembered, Once, Gone, Unused
<1>. QED  BY <1>1, <1>2, <1>3, <1>4 DEF AuthInv

LEMMA AbandonStep ==
    ASSUME AuthInv, NEW r \in Requests, Abandon(r) PROVE AuthInv'
<1>. USE DEF AuthInv, Abandon
<1>1. AuthTypeOK'
  BY DEF AuthTypeOK
<1>2. Recent'
  BY DEF Recent, AuthTypeOK
<1>3. Skew' /\ Remembered' /\ Once'
  BY DEF Skew, Remembered, Once, Gone, Unused
<1>. QED  BY <1>1, <1>2, <1>3 DEF AuthInv

LEMMA ConsumeStep ==
    ASSUME AuthInv, NEW r \in Requests, Consume(r) PROVE AuthInv'
<1>. DEFINE e == request[r].event
            kept == [f \in Events |-> IF f \in Expired THEN Unused ELSE used[f]]
<1>0. /\ request[r] # NoRequest /\ request' = [request EXCEPT ![r] = NoRequest]
      /\ UNCHANGED <<web, db, createdAt>>
  BY DEF Consume
<1>1. e \in Events /\ ~Gone(e)
  BY <1>0, WaitingIsNotGone
<1>2. /\ web \in Nat /\ db \in 0..MaxClock /\ MaxClock \in Nat
      /\ {Window, MaxSkew, MaxDelay} \subseteq Nat
  BY WindowsAssumption DEF AuthInv, AuthTypeOK
<1>3. kept \in [Events -> 0..MaxClock + 1]
  BY <1>2 DEF AuthInv, AuthTypeOK, Unused
<1>4. Skew' /\ Recent'
  BY <1>0 DEF AuthInv, Skew, Recent, AuthTypeOK
<1>5. ASSUME NEW f \in Events, kept[f] # Unused
      PROVE  kept[f] = used[f] /\ kept[f] <= db /\ createdAt[f] <= kept[f] + Window + MaxSkew
  BY <1>5 DEF AuthInv, Remembered
<1>6. ASSUME NEW f \in Events, accepted[f] # 0
      PROVE  accepted[f] = 1 /\ (kept[f] # Unused \/ Gone(f))
  BY <1>6, ForgottenIsGone DEF AuthInv, Once
<1>7. CASE used' = kept /\ UNCHANGED accepted
  <2>1. AuthTypeOK'
    BY <1>0, <1>3, <1>7 DEF AuthInv, AuthTypeOK
  <2>2. Remembered'
    BY <1>0, <1>5, <1>7 DEF Remembered, Unused
  <2>3. Once'
    BY <1>0, <1>6, <1>7 DEF Once, Gone, Unused
  <2>. QED  BY <1>4, <2>1, <2>2, <2>3 DEF AuthInv
<1>8. CASE /\ used[e] = Unused \/ e \in Expired
           /\ used' = [kept EXCEPT ![e] = db]
           /\ accepted' = [accepted EXCEPT ![e] = @ + 1]
  <2>1. accepted[e] = 0
    BY <1>1, <1>8, ForgottenIsGone DEF AuthInv, Once
  <2>2. /\ used'[e] = db /\ accepted'[e] = 1
        /\ \A f \in Events \ {e} : used'[f] = kept[f] /\ accepted'[f] = accepted[f]
    BY <1>1, <1>3, <1>8, <2>1 DEF AuthInv, AuthTypeOK
  <2>3. AuthTypeOK'
    BY <1>0, <1>1, <1>2, <1>3, <1>8 DEF AuthInv, AuthTypeOK
  <2>4. createdAt[e] <= db + Window + MaxSkew
    <3>1. request[r].since \in Nat /\ createdAt[e] \in Nat
      BY <1>0, <1>1 DEF AuthInv, AuthTypeOK
    <3>2. request[r].since <= web /\ createdAt[e] <= request[r].since + Window
      BY <1>0 DEF AuthInv, Recent
    <3>. QED  BY <1>2, <3>1, <3>2 DEF AuthInv, Skew
  <2>5. Remembered'
    BY <1>0, <1>1, <1>2, <1>5, <2>2, <2>4 DEF Remembered, Unused
  <2>6. Once'
    BY <1>0, <1>1, <1>2, <1>6, <2>2 DEF Once, Gone, Unused
  <2>. QED  BY <1>4, <2>3, <2>5, <2>6 DEF AuthInv
<1>. QED  BY <1>7, <1>8 DEF Consume

-----------------------------------------------------------------------------

(* The inductive invariant: clocks, requests, memory and acceptances.      *)
THEOREM AuthInvariance == AuthSpec => []AuthInv
<1>1. AuthInv /\ [AuthNext]_replayedVars => AuthInv'
  <2>. SUFFICES ASSUME AuthInv, [AuthNext]_replayedVars PROVE AuthInv'
    OBVIOUS
  <2>1. CASE UNCHANGED replayedVars
    BY <2>1 DEF replayedVars, AuthInv, AuthTypeOK, Skew, Recent, Remembered, Once, Gone, Unused
  <2>2. CASE WebSecond
    BY <2>2, WebStep
  <2>3. CASE DatabaseSecond
    BY <2>3, DatabaseStep
  <2>4. ASSUME NEW r \in Requests, NEW e \in Events, Verify(r, e) PROVE AuthInv'
    BY <2>4, VerifyStep
  <2>5. ASSUME NEW r \in Requests, Consume(r) PROVE AuthInv'
    BY <2>5, ConsumeStep
  <2>6. ASSUME NEW r \in Requests, Abandon(r) PROVE AuthInv'
    BY <2>6, AbandonStep
  <2>. QED  BY <2>1, <2>2, <2>3, <2>4, <2>5, <2>6 DEF AuthNext
<1>. QED  BY <1>1, AuthInitially, PTL DEF AuthSpec

(* Types are kept.                                                         *)
THEOREM AuthTypeCorrect == AuthSpec => []AuthTypeOK
BY AuthInvariance, PTL DEF AuthInv

(* A signed event authenticates at most one request (consumeNip98Event),   *)
(* for any windows, skew and wait that the retention outlasts.             *)
THEOREM SingleUse == AuthSpec => []UsedOnce
<1>1. ASSUME AuthInv PROVE UsedOnce
  <2>. SUFFICES ASSUME NEW e \in Events PROVE accepted[e] <= 1
    BY DEF UsedOnce
  <2>1. accepted[e] = 0 \/ accepted[e] = 1
    BY <1>1 DEF AuthInv, Once
  <2>. QED  BY <2>1
<1>. QED  BY <1>1, AuthInvariance, PTL

-----------------------------------------------------------------------------
(* InviteFreshness                                                         *)

\* What is recorded, and what a pass is about to record, was shown by a claim of the
\* code it is recorded with.
VerdictIsProbed == verdict # NoVerdict => <<verdict.code, verdict.status>> \in probed

PassIsProbed ==
    \A p \in JoinPasses : joinPass[p].at = "probed" =>
        <<joinPass[p].code, joinPass[p].status>> \in probed

InvitesInv == InvitesTypeOK /\ VerdictIsProbed /\ PassIsProbed

LEMMA InvitesInitially == InvitesInit => InvitesInv
BY WritesAssumption
   DEF InvitesInit, InvitesInv, InvitesTypeOK, VerdictIsProbed, PassIsProbed, Unreported,
       AtRest, NoVerdict

(* The fields a pass has, by where it is.                                  *)
LEMMA PassShapes ==
    ASSUME InvitesTypeOK, NEW p \in JoinPasses
    PROVE  /\ joinPass[p].at = "listed" => joinPass[p].code \in Codes
           /\ joinPass[p].at = "probed" =>
                 joinPass[p].code \in Codes /\ joinPass[p].status \in Statuses
BY DEF InvitesTypeOK, AtRest

RefreshStates ==
    {AtRest, [at |-> "searching"]} \cup [at: {"read", "swapping", "clearing"}, code: Codes]

(* Sources, members, the relay and the freshness pass know nothing of      *)
(* claims.                                                                 *)
LEMMA CodeSteps ==
    ASSUME InvitesInv,
           \/ \E s \in Sources : Report(s)
           \/ \E c \in Codes : Harvest(c) \/ Expires(c)
           \/ Read \/ Judge \/ Choose \/ Swap \/ Clear \/ GiveUp
    PROVE  InvitesInv'
<1>0. UNCHANGED <<joinPass, verdict, probed>>
  BY DEF Report, Harvest, Expires, Read, Judge, Choose, Swap, Clear, GiveUp
<1>1. VerdictIsProbed' /\ PassIsProbed'
  BY <1>0 DEF InvitesInv, VerdictIsProbed, PassIsProbed
<1>. SUFFICES InvitesTypeOK'
  BY <1>1 DEF InvitesInv
<1>2. InvitesTypeOK
  BY DEF InvitesInv
<1>w. writes < MaxWrites /\ writes' = writes + 1 => writes' \in 0..MaxWrites
  BY <1>2, WritesAssumption DEF InvitesTypeOK
<1>3. ASSUME NEW s \in Sources, Report(s) PROVE InvitesTypeOK'
  <2>1. PICK c \in Codes \cup {NoCode}, t \in 0..writes' :
          source' = [source EXCEPT ![s] =
              [code |-> c, seen |-> writes', observed |-> IF t > @.observed THEN t ELSE @.observed]]
    BY <1>3 DEF Report
  <2>2. writes' \in 0..MaxWrites /\ t \in 0..MaxWrites
    BY <1>3, <1>w, WritesAssumption DEF Report
  <2>3. source' \in [Sources -> [code: Codes \cup {NoCode}, seen: 0..MaxWrites,
                                 observed: 0..MaxWrites]]
    BY <1>2, <2>1, <2>2 DEF InvitesTypeOK
  <2>. QED  BY <1>2, <1>3, <2>2, <2>3 DEF InvitesTypeOK, Report
<1>4. ASSUME NEW c \in Codes, Harvest(c) \/ Expires(c) PROVE InvitesTypeOK'
  BY <1>2, <1>4 DEF InvitesTypeOK, Harvest, Expires
<1>r. ASSUME refresh' \in RefreshStates,
             UNCHANGED <<writes, source, life, joinPass, verdict, probed>>,
             harvested' \subseteq harvested
      PROVE  InvitesTypeOK'
  BY <1>2, <1>r DEF InvitesTypeOK, RefreshStates
<1>s. /\ AtRest \in RefreshStates /\ [at |-> "searching"] \in RefreshStates
      /\ \A at \in {"read", "swapping", "clearing"}, c \in Codes :
            [at |-> at, code |-> c] \in RefreshStates
  BY DEF RefreshStates
<1>5. CASE Read
  <2>1. \A c \in Refreshed : c \in Codes
    BY <1>2 DEF Refreshed, InvitesTypeOK
  <2>2. PICK c \in Codes : refresh' = [at |-> "read", code |-> c]
    BY <1>5, <2>1 DEF Read
  <2>3. refresh' \in RefreshStates
    BY <1>s, <2>2
  <2>. QED  BY <1>5, <1>r, <2>3 DEF Read
<1>6. CASE Judge
  <2>1. refresh' = AtRest \/ refresh' = [at |-> "searching"]
    BY <1>6 DEF Judge
  <2>2. refresh' \in RefreshStates
    BY <1>s, <2>1
  <2>. QED  BY <1>6, <1>r, <2>2 DEF Judge
<1>7. CASE Choose
  <2>1. PICK c \in Codes : refresh' = [at |-> "swapping", code |-> c]
    BY <1>2, <1>7 DEF Choose, InvitesTypeOK
  <2>2. refresh' \in RefreshStates
    BY <1>s, <2>1
  <2>. QED  BY <1>7, <1>r, <2>2 DEF Choose
<1>8. CASE Swap
  <2>1. refresh.code \in Codes /\ refresh' \in [at: {"clearing"}, code: Codes]
    <3>1. refresh.at = "swapping" /\ refresh' = [refresh EXCEPT !.at = "clearing"]
      BY <1>8 DEF Swap
    <3>2. refresh \in [at: {"read", "swapping", "clearing"}, code: Codes]
      BY <1>2, <3>1 DEF InvitesTypeOK, AtRest
    <3>. QED  BY <3>1, <3>2
  <2>2. writes' \in 0..MaxWrites
    BY <1>8, <1>w DEF Swap
  <2>3. source' \in [Sources -> [code: Codes \cup {NoCode}, seen: 0..MaxWrites,
                                 observed: 0..MaxWrites]]
    <3>1. \A s \in Sources : source[s] \in [code: Codes \cup {NoCode}, seen: 0..MaxWrites,
                                             observed: 0..MaxWrites]
      BY <1>2 DEF InvitesTypeOK
    <3>2. source' = [s \in Sources |->
             IF source[s] = Unreported THEN Unreported
             ELSE [source[s] EXCEPT !.code = refresh.code, !.seen = writes']]
      BY <1>8 DEF Swap
    <3>3. \A s \in Sources : source[s] # Unreported =>
             [source[s] EXCEPT !.code = refresh.code, !.seen = writes']
                \in [code: Codes \cup {NoCode}, seen: 0..MaxWrites, observed: 0..MaxWrites]
      BY <2>1, <2>2, <3>1
    <3>4. \A s \in Sources : source'[s] \in [code: Codes \cup {NoCode}, seen: 0..MaxWrites,
                                             observed: 0..MaxWrites]
      BY <3>1, <3>2, <3>3
    <3>. QED  BY <3>2, <3>4
  <2>. QED  BY <1>2, <1>8, <2>1, <2>2, <2>3 DEF InvitesTypeOK, Swap
<1>9. CASE Clear \/ GiveUp
  <2>1. refresh' \in RefreshStates /\ harvested' \subseteq harvested
    BY <1>9, <1>s DEF Clear, GiveUp
  <2>. QED  BY <1>9, <1>r, <2>1 DEF Clear, GiveUp
<1>. QED  BY <1>3, <1>4, <1>5, <1>6, <1>7, <1>8, <1>9

(* A pass carries the code it has listed through the claim to its verdict. *)
LEMMA PassSteps ==
    ASSUME InvitesInv, NEW p \in JoinPasses,
           ListTarget(p) \/ ProbeJoin(p) \/ RecordJoin(p) \/ JoinPassFails(p)
    PROVE  InvitesInv'
<1>0. InvitesTypeOK /\ VerdictIsProbed /\ PassIsProbed
  BY DEF InvitesInv
<1>1. CASE ListTarget(p)
  <2>1. PICK c \in Served : joinPass' = [joinPass EXCEPT ![p] = [at |-> "listed", code |-> c]]
    BY <1>1 DEF ListTarget
  <2>2. c \in Codes
    BY <1>0 DEF Served, InvitesTypeOK
  <2>. QED  BY <1>0, <1>1, <2>1, <2>2
            DEF ListTarget, InvitesInv, InvitesTypeOK, VerdictIsProbed, PassIsProbed
<1>2. CASE ProbeJoin(p)
  <2>0. joinPass[p].code \in Codes
    BY <1>0, <1>2, PassShapes DEF ProbeJoin
  <2>1. PICK st \in Statuses :
          /\ joinPass' = [joinPass EXCEPT ![p] =
                             [at |-> "probed", code |-> @.code, status |-> st]]
          /\ probed' = probed \cup {<<joinPass[p].code, st>>}
    BY <1>2 DEF ProbeJoin
  <2>2. /\ \A q \in JoinPasses \ {p} : joinPass'[q] = joinPass[q]
        /\ joinPass'[p] = [at |-> "probed", code |-> joinPass[p].code, status |-> st]
    BY <1>0, <2>1 DEF InvitesTypeOK
  <2>3. PassIsProbed'
    BY <1>0, <2>1, <2>2 DEF PassIsProbed
  <2>4. InvitesTypeOK'
    BY <1>0, <1>2, <2>0, <2>1 DEF InvitesTypeOK, ProbeJoin
  <2>5. VerdictIsProbed'
    BY <1>0, <1>2, <2>1 DEF VerdictIsProbed, ProbeJoin
  <2>. QED  BY <2>3, <2>4, <2>5 DEF InvitesInv
<1>3. CASE RecordJoin(p)
  <2>1. /\ joinPass[p].code \in Codes /\ joinPass[p].status \in Statuses
        /\ <<joinPass[p].code, joinPass[p].status>> \in probed
    BY <1>0, <1>3, PassShapes DEF RecordJoin, PassIsProbed
  <2>. QED  BY <1>0, <1>3, <2>1
            DEF RecordJoin, InvitesInv, InvitesTypeOK, VerdictIsProbed, PassIsProbed, AtRest
<1>4. CASE JoinPassFails(p)
  BY <1>0, <1>4
     DEF JoinPassFails, InvitesInv, InvitesTypeOK, VerdictIsProbed, PassIsProbed, AtRest
<1>. QED  BY <1>1, <1>2, <1>3, <1>4

LEMMA DecayStep == ASSUME InvitesInv, Decays PROVE InvitesInv'
<1>1. verdict \in [code: Codes, status: Statuses, fresh: BOOLEAN]
  BY DEF InvitesInv, InvitesTypeOK, Decays
<1>2. verdict' = [verdict EXCEPT !.fresh = FALSE]
  BY DEF Decays
<1>3. /\ verdict' \in [code: Codes, status: Statuses, fresh: BOOLEAN]
      /\ verdict'.code = verdict.code /\ verdict'.status = verdict.status
  BY <1>1, <1>2
<1>. QED  BY <1>3 DEF Decays, InvitesInv, InvitesTypeOK, VerdictIsProbed, PassIsProbed

(* What a claim has shown of a code is recorded with that code.            *)
THEOREM InvitesInvariance == InvitesSpec => []InvitesInv
<1>1. InvitesInv /\ [InvitesNext]_inviteVars => InvitesInv'
  <2>. SUFFICES ASSUME InvitesInv, [InvitesNext]_inviteVars PROVE InvitesInv'
    OBVIOUS
  <2>1. CASE InvitesNext
    BY <2>1, CodeSteps, PassSteps, DecayStep DEF InvitesNext
  <2>2. CASE UNCHANGED inviteVars
    BY <2>2 DEF inviteVars, InvitesInv, InvitesTypeOK, VerdictIsProbed, PassIsProbed
  <2>. QED  BY <2>1, <2>2
<1>. QED  BY <1>1, InvitesInitially, PTL DEF InvitesSpec

(* Sources, codes, the freshness pass, claims and verdicts keep their      *)
(* types.                                                                  *)
THEOREM InvitesTypeCorrect == InvitesSpec => []InvitesTypeOK
<1>1. InvitesInv => InvitesTypeOK
  BY DEF InvitesInv
<1>. QED  BY <1>1, InvitesInvariance, PTL

(* The directory shows a verdict only next to the code that a claim has    *)
(* shown it of (probe-joinability.ts, presence.ts and directory.ts), for   *)
(* any number of sources, codes and overlapping passes.                    *)
THEOREM VerdictOfItsCode == InvitesSpec => []ShownIsProbed
<1>1. InvitesInv => ShownIsProbed
  BY DEF InvitesInv, VerdictIsProbed, ShownIsProbed, Shown, Served, NoVerdict
<1>. QED  BY <1>1, InvitesInvariance, PTL

-----------------------------------------------------------------------------
(* Nip66Source                                                             *)

\* Reports the relay had in time that no run has ingested yet.
Outstanding == {r \in Published : ~published[r].late /\ r \notin upserted}

NewerThanRead(r) == \A s \in run.read : published[s].at <= published[r].at

Clocked ==
    /\ sourceCursor <= now
    /\ \A r \in Published : 1 <= published[r].at /\ published[r].at <= now

\* A pending report that a run has not read is one it will come to, in the part of its
\* interval that is left, or it is at least as new as all it has read: then the cursor
\* does not pass it.
NothingPassed ==
    run.at # "idle" =>
        /\ run.since = sourceCursor /\ run.read \subseteq Published
        /\ run.at = "boundary" => run.since <= run.until
        /\ \A r \in run.read : run.since <= published[r].at
        /\ \A r \in Outstanding \ run.read :
              run.at = "ingesting" \/ run.until < published[r].at => NewerThanRead(r)

SourceInv == SourceTypeOK /\ Clocked /\ NothingPassed /\ NoReportSkipped

\* The smallest and the largest time of some reports that were published.
LEMMA OldestOf ==
    ASSUME SourceTypeOK, NEW page \in SUBSET Reports, page # {}
    PROVE  /\ \E s \in page : Oldest(page) = published[s].at
           /\ \A r \in page : Oldest(page) <= published[r].at
<1>. DEFINE times == {published[r].at : r \in page}
<1>1. times \in SUBSET Nat /\ times # {}
  BY DEF SourceTypeOK
<1>2. \E t \in times : \A u \in times : t <= u
  BY <1>1, SmallestOf
<1>3. \E t \in times : \A r \in page : t <= published[r].at
  BY <1>2
<1>4. Oldest(page) \in times /\ \A r \in page : Oldest(page) <= published[r].at
  BY <1>3 DEF Oldest
<1>. QED  BY <1>4

LEMMA NewestOf ==
    ASSUME SourceTypeOK, NEW read \in SUBSET Reports, read # {}
    PROVE  \E t \in {published[r].at : r \in read} : \A r \in read : published[r].at <= t
<1>. DEFINE left == {MaxNow - published[r].at : r \in read}
<1>1. \A r \in read : published[r].at \in 0..MaxNow
  BY DEF SourceTypeOK
<1>2. \A r \in read : published[r].at \in Nat /\ MaxNow - published[r].at \in Nat
  BY <1>1, NowAssumption
<1>3. left \in SUBSET Nat /\ left # {}
  BY <1>2
<1>4. PICK x \in left : \A y \in left : x <= y
  BY <1>3, SmallestOf
<1>5. PICK s \in read : x = MaxNow - published[s].at
  BY <1>4
<1>6. ASSUME NEW r \in read PROVE published[r].at <= published[s].at
  <2>1. MaxNow - published[s].at <= MaxNow - published[r].at
    BY <1>4, <1>5
  <2>. QED  BY <1>2, <2>1, NowAssumption
<1>. QED  BY <1>6

(* A page is all there is between two times, or as many of the newest as   *)
(* fit; a short one is all.                                                *)
LEMMA PageOf ==
    ASSUME NEW since, NEW until, NEW page \in Pages(since, until)
    PROVE  /\ page \subseteq Between(since, until)
           /\ Cardinality(page) < PageSize => page = Between(since, until)
           /\ \A r \in page, s \in Between(since, until) \ page :
                 published[s].at <= published[r].at
           /\ ~(Cardinality(page) < PageSize) => page # {}
<1>1. \/ page = Between(since, until)
      \/ /\ page \subseteq Between(since, until) /\ Cardinality(page) = PageSize
         /\ \A r \in page, s \in Between(since, until) \ page :
               published[s].at <= published[r].at
  BY DEF Pages
<1>2. Cardinality({}) < PageSize
  BY FS_EmptySet, PageSizeAssumption
<1>. QED  BY <1>1, <1>2, PageSizeAssumption

LEMMA SourceInitially == SourceInit => SourceInv
BY NowAssumption
   DEF SourceInit, SourceInv, SourceTypeOK, Clocked, NothingPassed, NoReportSkipped, NoRun,
       Published, Unpublished

(* A second passes, a run begins or is given up, a report is ingested.     *)
LEMMA PlainSteps ==
    ASSUME SourceInv, Tick \/ StartRun \/ Fail \/ \E r \in Reports : IngestReport(r)
    PROVE  SourceInv'
<1>0. /\ SourceTypeOK /\ Clocked /\ NothingPassed /\ NoReportSkipped
      /\ now \in Nat /\ sourceCursor \in Nat
  BY DEF SourceInv, SourceTypeOK
<1>1. UNCHANGED <<published, sourceCursor>> /\ Published' = Published
  BY DEF Tick, StartRun, Fail, IngestReport, Published
<1>t. \A r \in Reports : published[r].at \in Nat
  BY <1>0 DEF SourceTypeOK
<1>2. CASE Tick
  <2>1. now' = now + 1 /\ now' \in 1..MaxNow
    BY <1>0, <1>2, NowAssumption DEF Tick, SourceTypeOK
  <2>2. SourceTypeOK'
    BY <1>0, <1>1, <1>2, <2>1 DEF Tick, SourceTypeOK
  <2>3. Clocked'
    BY <1>0, <1>1, <1>t, <2>1 DEF Clocked, Published
  <2>4. NothingPassed' /\ NoReportSkipped'
    BY <1>0, <1>1, <1>2 DEF Tick, NothingPassed, NoReportSkipped, Outstanding, NewerThanRead
  <2>. QED  BY <2>2, <2>3, <2>4 DEF SourceInv
<1>3. CASE StartRun
  <2>1. run' = [at |-> "paging", since |-> sourceCursor, until |-> now, read |-> {}]
    BY <1>3 DEF StartRun
  <2>2. SourceTypeOK'
    BY <1>0, <1>1, <1>3, <2>1, NowAssumption DEF StartRun, SourceTypeOK
  <2>3. NothingPassed'
    BY <1>1, <2>1 DEF NothingPassed, NewerThanRead
  <2>4. Clocked' /\ NoReportSkipped'
    BY <1>0, <1>1, <1>3 DEF StartRun, Clocked, NoReportSkipped
  <2>. QED  BY <2>2, <2>3, <2>4 DEF SourceInv
<1>4. CASE Fail
  <2>1. NothingPassed'
    BY <1>4 DEF Fail, NoRun, NothingPassed
  <2>2. SourceTypeOK'
    BY <1>0, <1>1, <1>4, NowAssumption DEF Fail, NoRun, SourceTypeOK
  <2>3. Clocked' /\ NoReportSkipped'
    BY <1>0, <1>1, <1>4 DEF Fail, Clocked, NoReportSkipped
  <2>. QED  BY <2>1, <2>2, <2>3 DEF SourceInv
<1>5. ASSUME NEW r \in Reports, IngestReport(r) PROVE SourceInv'
  <2>1. UNCHANGED <<now, run>> /\ upserted' = upserted \cup {r} /\ r \in Published
    BY <1>0, <1>5 DEF IngestReport, NothingPassed
  <2>2. SourceTypeOK'
    BY <1>0, <1>1, <2>1 DEF SourceTypeOK
  <2>3. Outstanding' \subseteq Outstanding
    BY <1>1, <2>1 DEF Outstanding
  <2>4. NothingPassed'
    BY <1>0, <1>1, <2>1, <2>3 DEF NothingPassed, NewerThanRead
  <2>5. Clocked' /\ NoReportSkipped'
    BY <1>0, <1>1, <2>1 DEF Clocked, NoReportSkipped
  <2>. QED  BY <2>2, <2>4, <2>5 DEF SourceInv
<1>. QED  BY <1>2, <1>3, <1>4, <1>5

(* A report that arrives in time is as new as everything there is.         *)
LEMMA PublishStep == ASSUME SourceInv, NEW r \in Reports, Publish(r) PROVE SourceInv'
<1>0. /\ SourceTypeOK /\ Clocked /\ NothingPassed /\ NoReportSkipped
      /\ now \in Nat \ {0} /\ sourceCursor \in Nat
  BY NowAssumption DEF SourceInv, SourceTypeOK
<1>1. UNCHANGED <<now, sourceCursor, run, upserted>> /\ r \notin Published
  BY DEF Publish
<1>2. PICK at \in 0..MaxNow, late \in BOOLEAN :
        /\ published' = [published EXCEPT ![r] = [at |-> at, late |-> late]]
        /\ 1 <= at /\ at <= now
        /\ late \/ at = now
  <2>0. now \in 0..MaxNow /\ (now > 1 => now - 1 \in 0..MaxNow /\ 1 <= now - 1)
    BY <1>0, NowAssumption DEF SourceTypeOK
  <2>1. \/ published' = [published EXCEPT ![r] = [at |-> now, late |-> FALSE]]
        \/ now > 1 /\ published' = [published EXCEPT ![r] = [at |-> now - 1, late |-> TRUE]]
    BY DEF Publish
  <2>2. \E at \in 0..MaxNow, late \in BOOLEAN :
          /\ published' = [published EXCEPT ![r] = [at |-> at, late |-> late]]
          /\ 1 <= at /\ at <= now
          /\ late \/ at = now
    <3>1. CASE published' = [published EXCEPT ![r] = [at |-> now, late |-> FALSE]]
      <4>1. 1 <= now /\ now <= now /\ FALSE \in BOOLEAN
        BY <1>0
      <4>. QED  BY <2>0, <3>1, <4>1
    <3>2. CASE now > 1 /\ published' = [published EXCEPT ![r] = [at |-> now - 1, late |-> TRUE]]
      <4>1. now - 1 <= now /\ TRUE \in BOOLEAN
        BY <1>0
      <4>. QED  BY <2>0, <3>2, <4>1
    <3>. QED  BY <2>1, <3>1, <3>2
  <2>. QED  BY <2>2
<1>3. /\ \A s \in Reports \ {r} : published'[s] = published[s]
      /\ published'[r] = [at |-> at, late |-> late]
  BY <1>0, <1>2 DEF SourceTypeOK
<1>t. \A s \in Reports : published[s].at \in Nat
  BY <1>0 DEF SourceTypeOK
<1>4. Published' = Published \cup {r}
  <2>1. [at |-> at, late |-> late] # Unpublished
    BY <1>2 DEF Unpublished
  <2>. QED  BY <1>3, <2>1 DEF Published
<1>5. Outstanding' \subseteq Outstanding \cup {r} /\ (r \in Outstanding' => at = now)
  BY <1>1, <1>2, <1>3, <1>4 DEF Outstanding, Published
<1>6. SourceTypeOK'
  BY <1>0, <1>1, <1>2, <1>4 DEF SourceTypeOK
<1>7. Clocked'
  BY <1>0, <1>1, <1>2, <1>3, <1>4 DEF Clocked, Published
<1>8. NothingPassed'
  <2>. SUFFICES ASSUME run.at # "idle"
                PROVE  \A s \in Outstanding' \ run.read :
                         run.at = "ingesting" \/ run.until < published'[s].at
                           => NewerThanRead(s)'
    <3>1. run.at # "idle" =>
            /\ run.since = sourceCursor /\ run.read \subseteq Published
            /\ run.at = "boundary" => run.since <= run.until
            /\ \A s \in run.read : run.since <= published[s].at
      BY <1>0 DEF NothingPassed
    <3>2. run.at # "idle" => \A s \in run.read : run.since <= published'[s].at
      BY <1>1, <1>3, <3>1 DEF Published
    <3>. QED  BY <1>1, <1>4, <3>1, <3>2 DEF NothingPassed
  <2>1. run.read \subseteq Published /\ r \notin run.read
    BY <1>0, <1>1 DEF NothingPassed
  <2>2. \A s \in run.read : published'[s] = published[s] /\ published[s].at <= now
    BY <1>0, <1>3, <2>1 DEF Clocked, Published
  <2>3. ASSUME NEW s \in Outstanding' \ run.read, s # r,
               run.at = "ingesting" \/ run.until < published'[s].at
        PROVE  NewerThanRead(s)'
    <3>1. s \in Outstanding \ run.read /\ published'[s] = published[s]
      BY <1>3, <1>5, <2>3 DEF Outstanding, Published
    <3>2. NewerThanRead(s)
      BY <1>0, <2>3, <3>1 DEF NothingPassed
    <3>. QED  BY <1>1, <2>2, <3>1, <3>2 DEF NewerThanRead
  <2>4. r \in Outstanding' => NewerThanRead(r)'
    BY <1>1, <1>3, <1>5, <2>2 DEF NewerThanRead
  <2>. QED  BY <2>3, <2>4
<1>9. NoReportSkipped'
  <2>1. \A s \in Published : published'[s] = published[s]
    BY <1>1, <1>3 DEF Published
  <2>2. late \/ at >= sourceCursor
    BY <1>0, <1>2 DEF Clocked
  <2>. QED  BY <1>0, <1>1, <1>3, <1>4, <2>1, <2>2 DEF NoReportSkipped
<1>. QED  BY <1>6, <1>7, <1>8, <1>9 DEF SourceInv

(* A page leaves out nothing that is newer than its oldest report.         *)
LEMMA PageStep == ASSUME SourceInv, ReadPage PROVE SourceInv'
<1>0. /\ SourceTypeOK /\ Clocked /\ NothingPassed /\ NoReportSkipped
      /\ sourceCursor \in Nat /\ run.until \in 0..MaxNow /\ run.until \in Nat
      /\ run.at = "paging"
      /\ run.read \subseteq Reports /\ run.since = sourceCursor /\ run.read \subseteq Published
  BY NowAssumption DEF SourceInv, SourceTypeOK, NothingPassed, ReadPage
<1>1. /\ UNCHANGED <<now, published, sourceCursor, upserted>>
      /\ Published' = Published /\ Outstanding' = Outstanding
  BY DEF ReadPage, Published, Outstanding
<1>2. PICK page \in Pages(run.since, run.until) :
        run' = IF Cardinality(page) < PageSize
               THEN [run EXCEPT !.at = "ingesting", !.read = @ \cup page]
               ELSE [run EXCEPT !.at = "boundary", !.read = @ \cup page, !.until = Oldest(page)]
  BY DEF ReadPage
<1>t. \A r \in Reports : published[r].at \in Nat
  BY <1>0 DEF SourceTypeOK
<1>3. /\ page \subseteq Published
      /\ \A s \in page : published[s].at <= run.until
      /\ \A s \in page : run.since <= published[s].at
  BY <1>0, PageOf DEF Between
<1>4. page \in SUBSET Reports /\ run.read \cup page \subseteq Reports
  BY <1>0, <1>3 DEF Published
\* What is pending and not read lies after the start of the run's interval.
<1>5. \A r \in Outstanding : r \in Reports /\ r \in Published /\ run.since <= published[r].at
  BY <1>0, <1>t DEF Outstanding, Published, NoReportSkipped
<1>6. ASSUME NEW r \in Outstanding \ (run.read \cup page), run.until < published[r].at
      PROVE  \A s \in run.read \cup page : published[s].at <= published[r].at
  <2>1. NewerThanRead(r)
    BY <1>0, <1>6 DEF NothingPassed
  <2>2. \A s \in page : published[s].at <= published[r].at
    BY <1>0, <1>3, <1>4, <1>5, <1>6, <1>t
  <2>. QED  BY <2>1, <2>2 DEF NewerThanRead
<1>7. \A r \in Outstanding \ (run.read \cup page) :
         ~(run.until < published[r].at) => r \in Between(run.since, run.until) \ page
  BY <1>0, <1>5, <1>t DEF Between
<1>8. CASE Cardinality(page) < PageSize
  <2>1. run' = [run EXCEPT !.at = "ingesting", !.read = @ \cup page]
    BY <1>2, <1>8
  <2>2. /\ run'.at = "ingesting" /\ run'.read = run.read \cup page /\ run'.since = run.since
        /\ SourceTypeOK'
    BY <1>0, <1>1, <1>4, <2>1 DEF SourceTypeOK
  <2>3. \A r \in Outstanding \ (run.read \cup page) : run.until < published[r].at
    BY <1>7, <1>8, PageOf
  <2>4. NothingPassed'
    BY <1>0, <1>1, <1>3, <1>6, <2>2, <2>3 DEF NothingPassed, NewerThanRead
  <2>5. Clocked' /\ NoReportSkipped'
    BY <1>0, <1>1 DEF Clocked, NoReportSkipped
  <2>. QED  BY <2>2, <2>4, <2>5 DEF SourceInv
<1>9. CASE ~(Cardinality(page) < PageSize)
  <2>0. run' = [run EXCEPT !.at = "boundary", !.read = @ \cup page, !.until = Oldest(page)]
    BY <1>2, <1>9
  <2>1. PICK o \in page : Oldest(page) = published[o].at
    BY <1>0, <1>4, <1>9, PageOf, OldestOf
  <2>2. \A s \in Between(run.since, run.until) \ page : published[s].at <= Oldest(page)
    BY <2>1, PageOf
  <2>3. Oldest(page) \in 0..MaxNow /\ Oldest(page) \in Nat
    BY <1>0, <1>4, <2>1, <1>t DEF SourceTypeOK
  <2>4. /\ run'.at = "boundary" /\ run'.read = run.read \cup page /\ run'.since = run.since
        /\ run'.until = Oldest(page) /\ SourceTypeOK'
    BY <1>0, <1>1, <1>4, <2>0, <2>3 DEF SourceTypeOK
  <2>5. ASSUME NEW r \in Outstanding \ (run.read \cup page), Oldest(page) < published[r].at
        PROVE  run.until < published[r].at
    BY <1>5, <1>7, <1>t, <2>2, <2>3, <2>5
  <2>6. run.since <= Oldest(page)
    BY <1>3, <2>1
  <2>7. NothingPassed'
    BY <1>0, <1>1, <1>3, <1>6, <2>4, <2>5, <2>6 DEF NothingPassed, NewerThanRead
  <2>8. Clocked' /\ NoReportSkipped'
    BY <1>0, <1>1 DEF Clocked, NoReportSkipped
  <2>. QED  BY <2>4, <2>7, <2>8 DEF SourceInv
<1>. QED  BY <1>8, <1>9

(* The last second of a page is read whole, or the run is given up.        *)
LEMMA BoundaryStep == ASSUME SourceInv, ReadBoundary PROVE SourceInv'
<1>. DEFINE second == Between(run.until, run.until)
<1>0. /\ SourceTypeOK /\ Clocked /\ NothingPassed /\ NoReportSkipped
      /\ sourceCursor \in 1..MaxNow /\ run.until \in 0..MaxNow /\ run.at = "boundary"
      /\ run.read \subseteq Reports /\ run.since = sourceCursor /\ run.read \subseteq Published
      /\ run.since <= run.until
  BY DEF SourceInv, SourceTypeOK, NothingPassed, ReadBoundary
<1>1. /\ UNCHANGED <<now, published, sourceCursor, upserted>>
      /\ Published' = Published /\ Outstanding' = Outstanding
  BY DEF ReadBoundary, Published, Outstanding
<1>t. /\ \A r \in Reports : published[r].at \in Nat
      /\ sourceCursor \in Nat \ {0} /\ run.until \in Nat /\ run.since \in Nat \ {0}
      /\ run.until - 1 \in 0..MaxNow
  BY <1>0, NowAssumption DEF SourceTypeOK
<1>2. Clocked' /\ NoReportSkipped'
  BY <1>0, <1>1 DEF Clocked, NoReportSkipped
<1>3. CASE Cardinality(second) >= PageSize
  <2>1. run' = NoRun
    BY <1>3 DEF ReadBoundary
  <2>. QED  BY <1>0, <1>1, <1>2, <2>1, NowAssumption
            DEF SourceInv, SourceTypeOK, NothingPassed, NoRun
<1>4. CASE ~(Cardinality(second) >= PageSize)
  <2>1. run' = [at |-> IF run.until <= run.since THEN "ingesting" ELSE "paging",
                since |-> run.since, until |-> run.until - 1, read |-> run.read \cup second]
    BY <1>4 DEF ReadBoundary
  <2>2. /\ run'.at = IF run.until <= run.since THEN "ingesting" ELSE "paging"
        /\ run'.since = run.since /\ run'.until = run.until - 1
        /\ run'.read = run.read \cup second
    BY <2>1
  <2>3. /\ second \subseteq Published /\ second \subseteq Reports
        /\ \A s \in second : published[s].at = run.until
        /\ \A s \in Published : published[s].at = run.until => s \in second
    BY <1>t DEF Between, Published
  <2>4. SourceTypeOK'
    BY <1>0, <1>1, <1>t, <2>1, <2>3 DEF SourceTypeOK
  <2>5. \A r \in Outstanding : /\ r \in Reports /\ r \in Published /\ published[r].at \in Nat
                            /\ run.since <= published[r].at
    BY <1>0, <1>t DEF Outstanding, Published, NoReportSkipped
  <2>6. ASSUME NEW r \in Outstanding \ (run.read \cup second),
               run'.at = "ingesting" \/ run'.until < published[r].at
        PROVE  \A s \in run.read \cup second : published[s].at <= published[r].at
    <3>1. published[r].at \in Nat /\ published[r].at # run.until
      BY <2>3, <2>5, <2>6
    <3>2. run.until < published[r].at
      <4>1. CASE run.until <= run.since
        BY <1>t, <2>5, <2>6, <3>1, <4>1
      <4>2. CASE ~(run.until <= run.since)
        BY <1>t, <2>2, <2>6, <3>1, <4>2
      <4>. QED  BY <4>1, <4>2
    <3>3. NewerThanRead(r)
      BY <1>0, <2>6, <3>2 DEF NothingPassed
    <3>4. \A s \in second : published[s].at <= published[r].at
      BY <1>t, <2>3, <3>1, <3>2
    <3>. QED  BY <3>3, <3>4 DEF NewerThanRead
  <2>7. NothingPassed'
    <3>. HIDE DEF second
    <3>. QED  BY <1>0, <1>1, <2>2, <2>3, <2>6 DEF NothingPassed, NewerThanRead
  <2>. QED  BY <1>2, <2>4, <2>7 DEF SourceInv
<1>. QED  BY <1>3, <1>4

(* The cursor moves to the newest report read, and nothing that is pending *)
(* is older.                                                               *)
LEMMA SuccessStep == ASSUME SourceInv, RecordSuccess PROVE SourceInv'
<1>0. /\ SourceTypeOK /\ Clocked /\ NothingPassed /\ NoReportSkipped
      /\ now \in Nat /\ sourceCursor \in Nat /\ run.at = "ingesting"
      /\ run.read \subseteq Reports /\ run.since = sourceCursor /\ run.read \subseteq Published
      /\ run.read \subseteq upserted
  BY DEF SourceInv, SourceTypeOK, NothingPassed, RecordSuccess
<1>1. /\ UNCHANGED <<now, published, upserted>> /\ run' = NoRun
      /\ Published' = Published /\ Outstanding' = Outstanding
  BY DEF RecordSuccess, Published, Outstanding
<1>2. \/ sourceCursor' = sourceCursor
      \/ \E s \in run.read : sourceCursor' = published[s].at
  <2>1. CASE run.read = {}
    BY <1>0, <2>1 DEF RecordSuccess
  <2>2. CASE run.read # {}
    <3>1. \E t \in {published[r].at : r \in run.read} :
            \A r \in run.read : published[r].at <= t
      BY <1>0, <2>2, NewestOf
    <3>2. sourceCursor' \in {published[r].at : r \in run.read}
      BY <2>2, <3>1 DEF RecordSuccess
    <3>. QED  BY <3>2
  <2>. QED  BY <2>1, <2>2
<1>3. sourceCursor' \in 1..MaxNow /\ sourceCursor' <= now
  <2>1. CASE sourceCursor' = sourceCursor
    BY <1>0, <2>1 DEF SourceTypeOK, Clocked
  <2>2. ASSUME NEW s \in run.read, sourceCursor' = published[s].at
        PROVE  sourceCursor' \in 1..MaxNow /\ sourceCursor' <= now
    <3>1. published[s].at \in 0..MaxNow /\ 1 <= published[s].at /\ published[s].at <= now
      BY <1>0 DEF SourceTypeOK, Clocked
    <3>. QED  BY <2>2, <3>1
  <2>. QED  BY <1>2, <2>1, <2>2
<1>4. SourceTypeOK'
  BY <1>0, <1>1, <1>3, NowAssumption DEF SourceTypeOK, NoRun
<1>5. Clocked' /\ NothingPassed'
  BY <1>0, <1>1, <1>3 DEF Clocked, NothingPassed, NoRun
<1>6. NoReportSkipped'
  <2>. SUFFICES ASSUME NEW r \in Outstanding PROVE published[r].at >= sourceCursor'
    BY <1>1 DEF NoReportSkipped, Outstanding
  <2>1. published[r].at \in Nat /\ published[r].at >= sourceCursor /\ r \notin run.read
    BY <1>0 DEF SourceTypeOK, NoReportSkipped, Outstanding, Published
  <2>2. NewerThanRead(r)
    BY <1>0, <2>1 DEF NothingPassed
  <2>3. \A s \in run.read : published[s].at \in Nat /\ published[s].at <= published[r].at
    BY <1>0, <2>2 DEF NewerThanRead, SourceTypeOK
  <2>. QED  BY <1>0, <1>2, <2>1, <2>3
<1>. QED  BY <1>4, <1>5, <1>6 DEF SourceInv

(* A pending report is one that a run will come to, or the cursor stays    *)
(* behind it.                                                              *)
THEOREM SourceInvariance == SourceSpec => []SourceInv
<1>1. SourceInv /\ [SourceNext]_nip66Vars => SourceInv'
  <2>. SUFFICES ASSUME SourceInv, [SourceNext]_nip66Vars PROVE SourceInv'
    OBVIOUS
  <2>1. CASE SourceNext
    BY <2>1, PlainSteps, PublishStep, PageStep, BoundaryStep, SuccessStep DEF SourceNext
  <2>2. CASE UNCHANGED nip66Vars
    BY <2>2 DEF nip66Vars, SourceInv, SourceTypeOK, Clocked, NothingPassed,
                NoReportSkipped, Outstanding, NewerThanRead, Published
  <2>. QED  BY <2>1, <2>2
<1>. QED  BY <1>1, SourceInitially, PTL DEF SourceSpec

CursorGoesForward == [][sourceCursor' >= sourceCursor]_nip66Vars

(* The cursor never goes back, so a run asks for no second that an earlier *)
(* one has left behind: what a run reads is at least as new as its cursor. *)
THEOREM CursorAdvances == SourceSpec => CursorGoesForward
<1>1. ASSUME SourceInv, [SourceNext]_nip66Vars
      PROVE  sourceCursor' >= sourceCursor
  <2>1. sourceCursor \in Nat /\ run.read \subseteq Reports
    BY <1>1 DEF SourceInv, SourceTypeOK
  <2>2. CASE UNCHANGED sourceCursor
    BY <2>1, <2>2
  <2>3. CASE RecordSuccess
    <3>1. /\ run.at = "ingesting" /\ run.since = sourceCursor
          /\ \A r \in run.read : published[r].at >= sourceCursor
      <4>1. \A r \in run.read : published[r].at \in Nat
        BY <1>1, <2>1 DEF SourceInv, SourceTypeOK
      <4>. QED  BY <1>1, <2>1, <2>3, <4>1 DEF RecordSuccess, SourceInv, NothingPassed
    <3>2. CASE run.read = {}
      BY <2>1, <2>3, <3>1, <3>2 DEF RecordSuccess
    <3>3. CASE run.read # {}
      <4>1. \E t \in {published[r].at : r \in run.read} :
              \A r \in run.read : published[r].at <= t
        BY <1>1, <2>1, <3>3, NewestOf DEF SourceInv
      <4>2. sourceCursor' \in {published[r].at : r \in run.read}
        BY <2>3, <3>3, <4>1 DEF RecordSuccess
      <4>. QED  BY <3>1, <4>2
    <3>. QED  BY <3>2, <3>3
  <2>. QED
    BY <1>1, <2>2, <2>3 DEF SourceNext, nip66Vars, Tick, StartRun, ReadPage, ReadBoundary,
       Fail, Publish, IngestReport
<1>2. SourceInv /\ [SourceNext]_nip66Vars => [sourceCursor' >= sourceCursor]_nip66Vars
  BY <1>1
<1>. QED  BY <1>2, SourceInvariance, PTL DEF SourceSpec, CursorGoesForward

(* The clock, the reports, the cursor and the run keep their types.        *)
THEOREM SourceTypeCorrect == SourceSpec => []SourceTypeOK
<1>1. SourceInv => SourceTypeOK
  BY DEF SourceInv
<1>. QED  BY <1>1, SourceInvariance, PTL

(* The cursor of nip66.ts passes no report the relay had in time, for any  *)
(* number of reports, any page size and any times: whatever arrives while  *)
(* a run is reading, and wherever it fails.                                *)
THEOREM CursorPassesNothing == SourceSpec => []NoReportSkipped
<1>1. SourceInv => NoReportSkipped
  BY DEF SourceInv
<1>. QED  BY <1>1, SourceInvariance, PTL

-----------------------------------------------------------------------------
(* The parts together                                                      *)

(* Whatever part runs, each is a behaviour of its own specification: the   *)
(* others leave its state alone.                                           *)
THEOREM DirectoryParts ==
    DirectorySpec => ProbesSpec /\ SubmissionsSpec /\ SourceSpec /\ InvitesSpec /\ AuthSpec
<1>. DEFINE directoryVars ==
       <<part, probeVars, submissionVars, nip66Vars, inviteVars, replayedVars>>
<1>1. DirectoryInit => ProbesInit /\ SubmissionsInit /\ SourceInit /\ InvitesInit /\ AuthInit
  BY DEF DirectoryInit
<1>2. [DirectoryNext]_directoryVars => [ProbesNext]_probeVars
  BY DEF DirectoryNext
<1>3. [DirectoryNext]_directoryVars => [SubmissionsNext]_submissionVars
  BY DEF DirectoryNext
<1>4. [DirectoryNext]_directoryVars => [SourceNext]_nip66Vars
  BY DEF DirectoryNext
<1>5. [DirectoryNext]_directoryVars => [InvitesNext]_inviteVars
  BY DEF DirectoryNext
<1>6. [DirectoryNext]_directoryVars => [AuthNext]_replayedVars
  BY DEF DirectoryNext
<1>. QED  BY <1>1, <1>2, <1>3, <1>4, <1>5, <1>6, PTL
          DEF DirectorySpec, ProbesSpec, SubmissionsSpec, SourceSpec, InvitesSpec, AuthSpec

(* Every variable of the directory keeps its type.                         *)
THEOREM DirectoryTypeCorrect == DirectorySpec => []DirectoryTypeOK
<1>1. ProbesTypeOK /\ SubmissionsTypeOK /\ SourceTypeOK /\ InvitesTypeOK /\ AuthTypeOK
        => DirectoryTypeOK
  BY DEF DirectoryTypeOK
<1>. QED  BY <1>1, DirectoryParts, ProbesTypeCorrect, SubmissionsTypeCorrect,
             SourceTypeCorrect, InvitesTypeCorrect, AuthTypeCorrect, PTL

(* The safety properties of the parts hold of the directory.               *)
THEOREM DirectorySafe ==
    DirectorySpec => [](/\ ListedOnEvidence /\ VerifiedIsComplete /\ NoReportSkipped
                        /\ ShownIsProbed /\ UsedOnce)
BY DirectoryParts, Evidence, CompleteWhenVerified, CursorPassesNothing, VerdictOfItsCode,
   SingleUse, PTL

=============================================================================
