---------------------- MODULE ConnectionInstallProofs ----------------------
(***************************************************************************)
(* Keys, tokens and the connection they are for: proofs about              *)
(* ConnectionInstall.                                                      *)
(***************************************************************************)
EXTENDS ConnectionInstall, TLAPS

Consuming(a) == activation[a].at = "consumed"
Holding(i) == install[i].at \in {"expired", "upserted"}

\* An activation past its round trip has proved its key.
RoundTripDone ==
    \A a \in Activations :
        activation[a].at \in {"proved", "consumed"} => activation[a].token \in admitted \cap proved

\* A token that is being consumed is pending, by one activation, and no install expires it.
TokenLocks ==
    \A a \in Activations :
        Consuming(a) =>
            /\ token[activation[a].token] = "pending"
            /\ \A b \in Activations :
                  Consuming(b) /\ activation[b].token = activation[a].token => a = b
            /\ \A i \in Installs : Holding(i) => activation[a].token \notin install[i].expires

InstallInv == InstallTypeOK /\ RoundTripDone /\ TokenLocks /\ ActiveKeyProved /\ PendingIsCurrent

-----------------------------------------------------------------------------

LEMMA InstallInitially == InstallInit => InstallInv
BY DEF InstallInit, InstallInv, InstallTypeOK, RoundTripDone, TokenLocks, ActiveKeyProved, PendingIsCurrent,
       PendingTokens, Consuming, Untried, NoActivation

(* The tokens that are locked, one by one.                                 *)
LEMMA Locked ==
    ASSUME NEW t, t \notin LockedTokens
    PROVE  /\ \A i \in Installs : Holding(i) => t \notin install[i].expires
           /\ \A a \in Activations : Consuming(a) => activation[a].token # t
<1>1. ASSUME NEW i \in Installs, Holding(i), t \in install[i].expires PROVE FALSE
  <2>1. i \in {j \in Installs : install[j].at \in {"expired", "upserted"}}
    BY <1>1 DEF Holding
  <2>. QED  BY <1>1, <2>1 DEF LockedTokens
<1>2. ASSUME NEW a \in Activations, Consuming(a), activation[a].token = t PROVE FALSE
  <2>1. a \in {b \in Activations : activation[b].at = "consumed"}
    BY <1>2 DEF Consuming
  <2>2. activation[a].token \in LockedTokens
    BY <2>1 DEF LockedTokens
  <2>. QED  BY <1>2, <2>2
<1>. QED  BY <1>1, <1>2

(* An install that expires nothing new, and a key that is admitted, leave  *)
(* the connection and its tokens alone.                                    *)
LEMMA InstallProgress ==
    ASSUME InstallInv, InstallTypeOK', UNCHANGED <<link, token, proved, activation>>,
           admitted \subseteq admitted',
           \A i \in Installs, a \in Activations :
              Holding(i)' /\ Consuming(a) =>
                 \/ Holding(i) /\ install'[i].expires \subseteq install[i].expires
                 \/ activation[a].token \notin install'[i].expires
    PROVE  InstallInv'
<1>1. RoundTripDone'
  BY DEF InstallInv, RoundTripDone
<1>2. TokenLocks'
  BY DEF InstallInv, TokenLocks, Consuming
<1>3. ActiveKeyProved' /\ PendingIsCurrent'
  BY DEF InstallInv, ActiveKeyProved, PendingIsCurrent, PendingTokens
<1>. QED  BY <1>1, <1>2, <1>3 DEF InstallInv

LEMMA QuietInstallSteps ==
    ASSUME InstallInv, NEW i \in Installs,
           \/ Generate(i) \/ Admit(i) \/ Reenter(i) \/ Snapshot(i)
           \/ Upsert(i) \/ AlreadyActive(i) \/ Conflict(i) \/ InstallFails(i) \/ TokenAges(i)
    PROVE  InstallInv'
<1>1. CASE Generate(i) \/ Reenter(i)
  <2>1. link.state = "active" => link.key \in Installs
    BY DEF InstallInv, ActiveKeyProved, InstallTypeOK
  <2>2. InstallTypeOK'
    BY <1>1, <2>1 DEF Generate, Reenter, StepTo, InstallInv, InstallTypeOK
  <2>3. \A j \in Installs : Holding(j)' => Holding(j) /\ install'[j].expires = install[j].expires
    BY <1>1 DEF Generate, Reenter, StepTo, InstallInv, InstallTypeOK, Holding
  <2>. QED  BY <1>1, <2>2, <2>3, InstallProgress DEF Generate, Reenter
<1>2. CASE Admit(i) \/ TokenAges(i)
  <2>1. InstallTypeOK'
    BY <1>2 DEF Admit, TokenAges, InstallInv, InstallTypeOK
  <2>. QED  BY <1>2, <2>1, InstallProgress DEF Admit, TokenAges, Holding
<1>3. CASE Snapshot(i) \/ AlreadyActive(i) \/ Conflict(i) \/ InstallFails(i)
  <2>1. InstallTypeOK'
    <3>1. CASE Snapshot(i)
      BY <3>1 DEF Snapshot, PendingTokens, InstallInv, InstallTypeOK
    <3>2. CASE AlreadyActive(i) \/ Conflict(i) \/ InstallFails(i)
      BY <3>2 DEF AlreadyActive, Conflict, InstallFails, Abort, InstallInv, InstallTypeOK
    <3>. QED  BY <1>3, <3>1, <3>2
  <2>2. \A j \in Installs : Holding(j)' => Holding(j) /\ install'[j].expires = install[j].expires
    BY <1>3 DEF Snapshot, AlreadyActive, Conflict, InstallFails, Abort, InstallInv, InstallTypeOK, Holding
  <2>. QED  BY <1>3, <2>1, <2>2, InstallProgress DEF Snapshot, AlreadyActive, Conflict, InstallFails
<1>4. CASE Upsert(i)
  <2>1. InstallTypeOK'
    BY <1>4 DEF Upsert, StepTo, InstallInv, InstallTypeOK
  <2>2. \A j \in Installs : Holding(j)' => Holding(j) /\ install'[j].expires = install[j].expires
    BY <1>4 DEF Upsert, StepTo, InstallInv, InstallTypeOK, Holding
  <2>. QED  BY <1>4, <2>1, <2>2, InstallProgress DEF Upsert
<1>. QED  BY <1>1, <1>2, <1>3, <1>4

(* What an install expires is not being consumed when it gets the locks.   *)
LEMMA ExpireStep ==
    ASSUME InstallInv, NEW i \in Installs, ExpireTokens(i) PROVE InstallInv'
<1>1. InstallTypeOK'
  BY DEF ExpireTokens, PendingTokens, InstallInv, InstallTypeOK
<1>2. \A a \in Activations : Consuming(a) => activation[a].token \notin install'[i].expires
  <2>1. \A a \in Activations : Consuming(a) => activation[a].token \in LockedTokens
    BY Locked
  <2>. QED  BY <2>1 DEF ExpireTokens, InstallInv, InstallTypeOK
<1>3. \A j \in Installs : j # i => install'[j] = install[j]
  BY DEF ExpireTokens, InstallInv, InstallTypeOK
<1>. QED  BY <1>1, <1>2, <1>3, InstallProgress DEF ExpireTokens, Holding

(* A commit expires every pending token but its own: none of them is being *)
(* consumed, so nothing is, and the new one is for the key in the row.     *)
LEMMA CommitStep ==
    ASSUME InstallInv, NEW i \in Installs, CommitInstall(i) PROVE InstallInv'
<1>. USE DEF CommitInstall
<1>1. InstallTypeOK'
  BY DEF InstallInv, InstallTypeOK
<1>2. \A a \in Activations : ~Consuming(a)
  <2>. SUFFICES ASSUME NEW a \in Activations, Consuming(a) PROVE FALSE
    OBVIOUS
  <2>1. activation[a].token \in PendingTokens
    BY DEF InstallInv, TokenLocks, InstallTypeOK, Consuming, PendingTokens
  <2>2. activation[a].token \notin install[i].expires
    BY DEF InstallInv, TokenLocks, Holding
  <2>. QED  BY <2>1, <2>2
<1>3. TokenLocks'
  BY <1>2 DEF TokenLocks, Consuming
<1>4. PendingTokens' = {i}
  <2>1. \A j \in Installs : token'[j] = "pending" <=> j = i
    BY DEF PendingTokens
  <2>. QED  BY <2>1 DEF PendingTokens
<1>5. RoundTripDone' /\ ActiveKeyProved' /\ PendingIsCurrent'
  BY <1>4 DEF InstallInv, RoundTripDone, ActiveKeyProved, PendingIsCurrent
<1>. QED  BY <1>1, <1>3, <1>5 DEF InstallInv

-----------------------------------------------------------------------------

(* An activation that reads, proves, or gives up.                          *)
LEMMA QuietActivationSteps ==
    ASSUME InstallInv, NEW a \in Activations, Context(a) \/ RoundTrip(a) \/ ActivationEnds(a)
    PROVE  InstallInv'
<1>1. InstallTypeOK'
  <2>1. CASE Context(a)
    BY <2>1 DEF Context, InstallInv, InstallTypeOK
  <2>2. CASE RoundTrip(a)
    BY <2>2 DEF RoundTrip, InstallInv, InstallTypeOK
  <2>3. CASE ActivationEnds(a)
    BY <2>3 DEF ActivationEnds, NoActivation, InstallInv, InstallTypeOK
  <2>. QED  BY <2>1, <2>2, <2>3
<1>2. /\ \A b \in Activations : b # a => activation'[b] = activation[b]
      /\ ~Consuming(a)' /\ proved \subseteq proved'
      /\ activation'[a].at = "proved" => activation'[a].token \in admitted \cap proved'
      /\ UNCHANGED <<link, token, admitted, install>>
  BY DEF Context, RoundTrip, ActivationEnds, NoActivation, InstallInv, InstallTypeOK, Consuming
<1>3. RoundTripDone'
  BY <1>2 DEF InstallInv, RoundTripDone, Consuming
<1>4. TokenLocks'
  BY <1>2 DEF InstallInv, TokenLocks, Consuming, Holding
<1>5. ActiveKeyProved' /\ PendingIsCurrent'
  BY <1>2 DEF InstallInv, ActiveKeyProved, PendingIsCurrent, PendingTokens
<1>. QED  BY <1>1, <1>3, <1>4, <1>5 DEF InstallInv

LEMMA ConsumeStep ==
    ASSUME InstallInv, NEW a \in Activations, ConsumeToken(a) PROVE InstallInv'
<1>. DEFINE i == activation[a].token
<1>1. InstallTypeOK'
  BY DEF ConsumeToken, InstallInv, InstallTypeOK
<1>2. /\ \A b \in Activations : b # a => activation'[b] = activation[b]
      /\ activation'[a].token = i
      /\ i \in admitted \cap proved /\ token[i] = "pending" /\ i \notin LockedTokens
      /\ UNCHANGED <<link, token, admitted, proved, install>>
  BY DEF ConsumeToken, Usable, InstallInv, InstallTypeOK, RoundTripDone
<1>3. TokenLocks'
  BY <1>2, Locked DEF InstallInv, TokenLocks, Consuming, Holding
<1>4. RoundTripDone' /\ ActiveKeyProved' /\ PendingIsCurrent'
  BY <1>2 DEF InstallInv, RoundTripDone, ActiveKeyProved, PendingIsCurrent, PendingTokens
<1>. QED  BY <1>1, <1>3, <1>4 DEF InstallInv

(* The token that is consumed was the only one that could be used: any     *)
(* other would be for the same key.                                        *)
LEMMA ActivateStep ==
    ASSUME InstallInv, NEW a \in Activations, Activate(a) PROVE InstallInv'
<1>. DEFINE i == activation[a].token
<1>0. /\ i \in Installs /\ Consuming(a) /\ i \in admitted \cap proved
      /\ link = [state |-> "installing", key |-> i]
      /\ link' = [link EXCEPT !.state = "active"]
      /\ token' = [token EXCEPT ![i] = "consumed"]
      /\ activation' = [activation EXCEPT ![a] = NoActivation]
      /\ UNCHANGED <<aged, admitted, proved, install>>
  BY DEF Activate, InstallInv, InstallTypeOK, RoundTripDone, Consuming
<1>1. InstallTypeOK'
  BY <1>0 DEF NoActivation, InstallInv, InstallTypeOK
<1>2. \A j \in Installs : token'[j] # "pending"
  <2>1. \A j \in Installs : token[j] = "pending" => j = i
    BY <1>0 DEF InstallInv, PendingIsCurrent, PendingTokens
  <2>. QED  BY <1>0, <2>1 DEF InstallInv, InstallTypeOK
<1>3. \A b \in Activations : b # a => activation'[b] = activation[b] /\ activation'[a].at = "idle"
  BY <1>0 DEF NoActivation, InstallInv, InstallTypeOK
<1>4. TokenLocks'
  <2>1. \A b \in Activations : Consuming(b) =>
           token[activation[b].token] = "pending" /\ activation[b].token \in Installs
    BY DEF InstallInv, TokenLocks, InstallTypeOK, Consuming
  <2>2. \A b \in Activations : Consuming(b) => activation[b].token = i
    BY <1>0, <2>1 DEF InstallInv, PendingIsCurrent, PendingTokens
  <2>3. \A b \in Activations : Consuming(b) => a = b
    BY <1>0, <2>2 DEF InstallInv, TokenLocks
  <2>4. \A b \in Activations : ~Consuming(b)'
    BY <1>0, <1>3, <2>3 DEF Consuming, NoActivation, InstallInv, InstallTypeOK
  <2>. QED  BY <2>4 DEF TokenLocks
<1>5. RoundTripDone'
  BY <1>0, <1>3 DEF InstallInv, RoundTripDone, NoActivation, InstallTypeOK
<1>6. ActiveKeyProved' /\ PendingIsCurrent'
  BY <1>0, <1>2 DEF InstallInv, ActiveKeyProved, PendingIsCurrent, PendingTokens, InstallTypeOK
<1>. QED  BY <1>1, <1>4, <1>5, <1>6 DEF InstallInv

-----------------------------------------------------------------------------

(* The inductive invariant: the two promises, what a round trip leaves     *)
(* behind, and what the locks on the tokens keep apart.                    *)
THEOREM InstallInvariance == InstallSpec => []InstallInv
<1>1. InstallInv /\ [InstallNext]_installVars => InstallInv'
  <2>. SUFFICES ASSUME InstallInv, [InstallNext]_installVars PROVE InstallInv'
    OBVIOUS
  <2>1. CASE UNCHANGED installVars
    BY <2>1 DEF installVars, InstallInv, InstallTypeOK, RoundTripDone, TokenLocks, ActiveKeyProved,
                PendingIsCurrent, PendingTokens, Consuming, Holding
  <2>2. CASE InstallNext
    BY <2>2, QuietInstallSteps, ExpireStep, CommitStep, QuietActivationSteps, ConsumeStep, ActivateStep
       DEF InstallNext
  <2>. QED  BY <2>1, <2>2
<1>. QED  BY <1>1, InstallInitially, PTL DEF InstallSpec

(* Types are kept, and an activation under way holds a token.              *)
THEOREM InstallTypeCorrect == InstallSpec => []InstallTypeOK
BY InstallInvariance, PTL DEF InstallInv

(* An active connection runs with a key that was admitted and echoed, and  *)
(* activated with its own token, however many installs and activations     *)
(* overlap.                                                                *)
THEOREM ActivatedByProof == InstallSpec => []ActiveKeyProved
BY InstallInvariance, PTL DEF InstallInv

(* A pending token is for the key in the row.                              *)
THEOREM OneUsableToken == InstallSpec => []PendingIsCurrent
BY InstallInvariance, PTL DEF InstallInv

-----------------------------------------------------------------------------
(* What is final: an active connection and a token that was used up.       *)

\* One install has the row of the connection at most, and not once it is active.
LinkHeld ==
    \A i \in Installs : install[i].at = "upserted" =>
        link.state # "active" /\ \A j \in Installs : install[j].at = "upserted" => i = j

\* A token exists once its install has committed.
TokenOfItsInstall == \A i \in Installs : token[i] # "none" => install[i].at = "done"

\* The tokens an install has locked are pending, and locked by no other.
HeldTokens ==
    \A i \in Installs : Holding(i) =>
        /\ install[i].expires \subseteq PendingTokens
        /\ \A j \in Installs : Holding(j) /\ install[i].expires \cap install[j].expires # {} => i = j

FinalInv == LinkHeld /\ TokenOfItsInstall /\ HeldTokens

ActiveIsFinal == [][link.state = "active" => link' = link]_installVars

TokensAreFinal ==
    [][\A i \in Installs : token[i] \in {"expired", "consumed"} => token'[i] = token[i]]_installVars

LEMMA FinalInitially == InstallInit => FinalInv
BY DEF InstallInit, Untried, FinalInv, LinkHeld, TokenOfItsInstall, HeldTokens, Holding

(* A step of one install that leaves the tokens and the row alone.         *)
LEMMA InstallMoves ==
    ASSUME InstallInv, FinalInv, NEW i \in Installs, UNCHANGED <<link, token>>,
           \A j \in Installs : j # i => install'[j] = install[j],
           install'[i].at = "upserted" => link.state # "active" /\ ~LinkLocked,
           install[i].at = "done" => install'[i].at = "done",
           Holding(i)' =>
              \/ Holding(i) /\ install'[i].expires \subseteq install[i].expires
              \/ /\ install'[i].expires \subseteq PendingTokens
                 /\ install'[i].expires \cap LockedTokens = {}
    PROVE  FinalInv'
<1>1. LinkHeld' /\ TokenOfItsInstall'
  BY DEF FinalInv, LinkHeld, TokenOfItsInstall, LinkLocked
<1>2. \A j \in Installs : j # i /\ Holding(j) /\ Holding(i)' =>
          install'[i].expires \cap install[j].expires = {}
  <2>. SUFFICES ASSUME NEW j \in Installs, j # i, Holding(j), Holding(i)',
                       NEW t \in install'[i].expires, t \in install[j].expires
                PROVE  FALSE
    OBVIOUS
  <2>1. CASE Holding(i) /\ install'[i].expires \subseteq install[i].expires
    BY <2>1 DEF FinalInv, HeldTokens
  <2>2. CASE install'[i].expires \cap LockedTokens = {}
    BY <2>2, Locked
  <2>. QED  BY <2>1, <2>2
<1>3. /\ PendingTokens' = PendingTokens
      /\ \A j \in Installs : j # i => (Holding(j)' <=> Holding(j))
      /\ Holding(i)' => install'[i].expires \subseteq PendingTokens
  BY DEF FinalInv, HeldTokens, PendingTokens, Holding
<1>4. HeldTokens'
  BY <1>2, <1>3 DEF FinalInv, HeldTokens
<1>. QED  BY <1>1, <1>4 DEF FinalInv

LEMMA FinalQuietSteps ==
    ASSUME InstallInv, FinalInv, NEW i \in Installs,
           \/ Generate(i) \/ Admit(i) \/ Reenter(i) \/ Snapshot(i) \/ ExpireTokens(i)
           \/ Upsert(i) \/ AlreadyActive(i) \/ Conflict(i) \/ InstallFails(i) \/ TokenAges(i)
    PROVE  FinalInv' /\ UNCHANGED <<link, token>>
<1>. USE DEF InstallInv, InstallTypeOK, Holding
<1>1. CASE Admit(i) \/ TokenAges(i)
  <2>1. UNCHANGED <<link, token, install>>
    BY <1>1 DEF Admit, TokenAges
  <2>. QED  BY <2>1 DEF FinalInv, LinkHeld, TokenOfItsInstall, HeldTokens, PendingTokens
<1>2. CASE Generate(i) \/ Reenter(i) \/ Snapshot(i)
  BY <1>2, InstallMoves DEF Generate, Reenter, Snapshot, StepTo
<1>3. CASE ExpireTokens(i)
  <2>1. /\ UNCHANGED <<link, token>> /\ install[i].at = "expiring"
        /\ install'[i].at = "expired" /\ install'[i].expires \subseteq PendingTokens
        /\ install'[i].expires \cap LockedTokens = {}
        /\ \A j \in Installs : j # i => install'[j] = install[j]
    BY <1>3 DEF ExpireTokens
  <2>. QED  BY <2>1, InstallMoves
<1>4. CASE Upsert(i)
  <2>1. /\ UNCHANGED <<link, token>> /\ install[i].at = "expired" /\ ~LinkLocked
        /\ link.state # "active" /\ install'[i].at = "upserted"
        /\ install'[i].expires = install[i].expires
        /\ \A j \in Installs : j # i => install'[j] = install[j]
    BY <1>4 DEF Upsert, StepTo
  <2>. QED  BY <2>1, InstallMoves
<1>5. CASE AlreadyActive(i) \/ Conflict(i) \/ InstallFails(i)
  BY <1>5, InstallMoves DEF AlreadyActive, Conflict, InstallFails, Abort
<1>. QED  BY <1>1, <1>2, <1>3, <1>4, <1>5

LEMMA FinalCommitStep ==
    ASSUME InstallInv, FinalInv, NEW i \in Installs, CommitInstall(i)
    PROVE  /\ FinalInv' /\ link.state # "active"
           /\ \A j \in Installs : token[j] \in {"expired", "consumed"} => token'[j] = token[j]
<1>. USE DEF InstallInv, InstallTypeOK, Holding
<1>1. /\ install[i].at = "upserted" /\ PendingTokens \subseteq install[i].expires
      /\ token' = [j \in Installs |->
            IF j = i THEN "pending" ELSE IF j \in install[i].expires THEN "expired" ELSE token[j]]
      /\ link'.state = "installing"
      /\ install'[i].at = "done"
      /\ \A j \in Installs : j # i => install'[j] = install[j]
  BY DEF CommitInstall
<1>2. token[i] = "none" /\ link.state # "active" /\ install[i].expires \subseteq PendingTokens
  BY <1>1 DEF FinalInv, TokenOfItsInstall, LinkHeld, HeldTokens
<1>3. \A j \in Installs : token[j] \in {"expired", "consumed"} => token'[j] = token[j]
  BY <1>1, <1>2 DEF PendingTokens
<1>4. LinkHeld'
  BY <1>1 DEF FinalInv, LinkHeld
<1>5. TokenOfItsInstall'
  <2>1. \A j \in install[i].expires : install[j].at = "done"
    BY <1>2 DEF FinalInv, TokenOfItsInstall, PendingTokens
  <2>. QED  BY <1>1, <2>1 DEF FinalInv, TokenOfItsInstall
<1>6. HeldTokens'
  <2>1. \A j \in Installs : j # i /\ Holding(j) =>
            install[j].expires \subseteq PendingTokens /\ install[j].expires \cap install[i].expires = {}
    BY <1>1 DEF FinalInv, HeldTokens
  <2>2. \A j \in Installs : j # i /\ Holding(j) => install[j].expires = {}
    BY <1>1, <2>1
  <2>. QED  BY <1>1, <2>2 DEF HeldTokens
<1>. QED  BY <1>2, <1>3, <1>4, <1>5, <1>6 DEF FinalInv

LEMMA FinalActivationSteps ==
    ASSUME InstallInv, FinalInv, NEW a \in Activations,
           Context(a) \/ RoundTrip(a) \/ ConsumeToken(a) \/ Activate(a) \/ ActivationEnds(a)
    PROVE  /\ FinalInv'
           /\ link.state = "active" => link' = link
           /\ \A j \in Installs : token[j] \in {"expired", "consumed"} => token'[j] = token[j]
<1>1. CASE Context(a) \/ RoundTrip(a) \/ ConsumeToken(a) \/ ActivationEnds(a)
  <2>1. UNCHANGED <<link, token, install>>
    BY <1>1 DEF Context, RoundTrip, ConsumeToken, ActivationEnds
  <2>. QED
    BY <2>1 DEF FinalInv, LinkHeld, TokenOfItsInstall, HeldTokens, PendingTokens, Holding
<1>2. CASE Activate(a)
  <2>. DEFINE i == activation[a].token
  <2>1. /\ i \in Installs /\ token[i] = "pending" /\ ~LinkLocked /\ link.state = "installing"
        /\ token' = [token EXCEPT ![i] = "consumed"] /\ UNCHANGED install
    BY <1>2 DEF Activate, InstallInv, InstallTypeOK, TokenLocks, Consuming
  <2>2. \A j \in Installs : Holding(j) => i \notin install[j].expires
    BY <1>2 DEF Activate, InstallInv, TokenLocks, Consuming
  <2>3. LinkHeld'
    BY <2>1 DEF LinkHeld, LinkLocked
  <2>4. TokenOfItsInstall'
    BY <2>1 DEF FinalInv, TokenOfItsInstall, InstallInv, InstallTypeOK
  <2>5. HeldTokens'
    <3>1. \A j \in Installs : j # i /\ j \in PendingTokens => j \in PendingTokens'
      BY <2>1 DEF PendingTokens, InstallInv, InstallTypeOK
    <3>2. \A j \in Installs : Holding(j)' <=> Holding(j)
      BY <2>1 DEF Holding
    <3>3. PendingTokens \subseteq Installs
      BY DEF PendingTokens
    <3>. QED  BY <2>1, <2>2, <3>1, <3>2, <3>3 DEF FinalInv, HeldTokens
  <2>6. \A j \in Installs : token[j] \in {"expired", "consumed"} => token'[j] = token[j]
    BY <2>1 DEF InstallInv, InstallTypeOK
  <2>. QED  BY <2>1, <2>3, <2>4, <2>5, <2>6 DEF FinalInv
<1>. QED  BY <1>1, <1>2

LEMMA FinalStep ==
    ASSUME InstallInv, FinalInv, [InstallNext]_installVars
    PROVE  /\ FinalInv'
           /\ link.state = "active" => link' = link
           /\ \A j \in Installs : token[j] \in {"expired", "consumed"} => token'[j] = token[j]
<1>1. CASE UNCHANGED installVars
  BY <1>1 DEF installVars, FinalInv, LinkHeld, TokenOfItsInstall, HeldTokens, PendingTokens, Holding
<1>2. CASE InstallNext
  BY <1>2, FinalQuietSteps, FinalCommitStep, FinalActivationSteps DEF InstallNext
<1>. QED  BY <1>1, <1>2

(* What the row locks and the unique index of the tokens keep apart.       *)
THEOREM FinalInvariance == InstallSpec => []FinalInv
<1>1. InstallInv /\ FinalInv /\ [InstallNext]_installVars => FinalInv'
  BY FinalStep
<1>. QED  BY <1>1, FinalInitially, InstallInvariance, PTL DEF InstallSpec

(* No install takes an active connection over, however long before the     *)
(* activation it began: ON CONFLICT DO UPDATE ... WHERE state <> 'active'  *)
(* waits for the activation's lock on the row, or the activation for it.   *)
THEOREM ActiveStaysActive == InstallSpec => ActiveIsFinal
<1>1. InstallInv /\ FinalInv /\ [InstallNext]_installVars =>
         [link.state = "active" => link' = link]_installVars
  BY FinalStep
<1>. QED  BY <1>1, InstallInvariance, FinalInvariance, PTL DEF InstallSpec, ActiveIsFinal

(* A token that was consumed or replaced is never good again.              *)
THEOREM TokenUsedOnce == InstallSpec => TokensAreFinal
<1>. DEFINE Final == \A i \in Installs :
                       token[i] \in {"expired", "consumed"} => token'[i] = token[i]
<1>1. InstallInv /\ FinalInv /\ [InstallNext]_installVars => [Final]_installVars
  BY FinalStep
<1>. QED  BY <1>1, InstallInvariance, FinalInvariance, PTL DEF InstallSpec, TokensAreFinal

=============================================================================
