------------------------- MODULE ConnectionInstall -------------------------
(***************************************************************************)
(* Connecting one community: an install generates a connector key and a    *)
(* token for it (src/src/shared-channels/installer.ts, store.ts            *)
(* beginCommunityConnectionInstall), the relay admits the key, and an      *)
(* activation proves it with a round trip and switches the connection on   *)
(* (activateCommunityConnection).  Installs and activations overlap; their *)
(* transactions run under READ COMMITTED, so each is one step per          *)
(* statement, with the row locks it holds.                                 *)
(*                                                                         *)
(* A call of createCommunityInstallToken, its key and its token are one    *)
(* member of Installs.                                                     *)
(***************************************************************************)
EXTENDS FiniteSets

CONSTANTS
    Installs,       \* calls of createCommunityInstallToken
    Activations,    \* calls of verifyAndActivateCommunityConnection
    NoKey

ASSUME NoKeyAssumption == NoKey \notin Installs

VARIABLES
    link,           \* [state, key]: the row of community_connections
    token,          \* rows of connection_install_tokens
    aged,           \* tokens whose fifteen minutes have passed
    admitted,       \* keys the relay has admitted
    proved,         \* keys whose kind 0 event came back from the relay
    install,        \* [at, expires]: expires are the tokens its transaction locks
    activation      \* [at, token]

installVars == <<link, token, aged, admitted, proved, install, activation>>

Untried == [at |-> "idle", expires |-> {}]
NoActivation == [at |-> "idle", token |-> NoKey]

InstallInit ==
    /\ link = [state |-> "none", key |-> NoKey]
    /\ token = [i \in Installs |-> "none"]
    /\ aged = {}
    /\ admitted = {}
    /\ proved = {}
    /\ install = [i \in Installs |-> Untried]
    /\ activation = [a \in Activations |-> NoActivation]

PendingTokens == {i \in Installs : token[i] = "pending"}

\* Row locks: of the connection by an install that has upserted it, of a token
\* by an install that expires it or an activation that consumes it.
LinkLocked == \E i \in Installs : install[i].at = "upserted"
LockedTokens ==
    (UNION {install[i].expires : i \in {j \in Installs : install[j].at \in {"expired", "upserted"}}})
    \cup {activation[a].token : a \in {b \in Activations : activation[b].at = "consumed"}}

StepTo(i, at) == install' = [install EXCEPT ![i].at = at]
Abort(i) == install' = [install EXCEPT ![i] = [at |-> "failed", expires |-> {}]]

-----------------------------------------------------------------------------
(* createCommunityInstallToken, and the transaction in it                  *)

\* The key exists.  beginConnectionFromInvite redeems the invite with it before
\* the transaction, the other callers after it, or the owner admits it by hand.
Generate(i) ==
    /\ install[i].at = "idle"
    /\ StepTo(i, "keyed")
    /\ UNCHANGED <<link, token, aged, admitted, proved, activation>>

Admit(i) ==
    /\ install[i].at # "idle" /\ i \notin admitted
    /\ admitted' = admitted \cup {i}
    /\ UNCHANGED <<link, token, aged, proved, install, activation>>

\* beginConnectionFromInvite: an active connection is re-entered with its own key.
Reenter(i) ==
    /\ install[i].at = "idle" /\ link.state = "active"
    /\ admitted' = admitted \cup {link.key}
    /\ StepTo(i, "done")
    /\ UNCHANGED <<link, token, aged, proved, activation>>

\* The UPDATE of the pending tokens takes its snapshot, then waits for their locks.
Snapshot(i) ==
    /\ install[i].at = "keyed"
    /\ install' = [install EXCEPT ![i] = [at |-> "expiring", expires |-> PendingTokens]]
    /\ UNCHANGED <<link, token, aged, admitted, proved, activation>>

ExpireTokens(i) ==
    /\ install[i].at = "expiring"
    /\ install[i].expires \cap LockedTokens = {}
    /\ install' = [install EXCEPT
          ![i] = [at |-> "expired", expires |-> @.expires \cap PendingTokens]]
    /\ UNCHANGED <<link, token, aged, admitted, proved, activation>>

\* INSERT ... ON CONFLICT DO UPDATE WHERE state <> 'active'.
Upsert(i) ==
    /\ install[i].at = "expired" /\ ~LinkLocked
    /\ link.state # "active"
    /\ StepTo(i, "upserted")
    /\ UNCHANGED <<link, token, aged, admitted, proved, activation>>

AlreadyActive(i) ==
    /\ install[i].at = "expired" /\ ~LinkLocked
    /\ link.state = "active"
    /\ Abort(i)
    /\ UNCHANGED <<link, token, aged, admitted, proved, activation>>

\* Faulty variant: no unique index over the pending tokens.
CommitUnindexed(i) ==
    /\ install[i].at = "upserted"
    /\ link' = [state |-> "installing", key |-> i]
    /\ token' = [j \in Installs |->
          IF j = i THEN "pending" ELSE IF j \in install[i].expires THEN "expired" ELSE token[j]]
    /\ install' = [install EXCEPT ![i] = [at |-> "done", expires |-> {}]]
    /\ UNCHANGED <<aged, admitted, proved, activation>>

\* The insert of the new token respects connection_install_tokens_pending_idx.
CommitInstall(i) ==
    /\ install[i].at = "upserted"
    /\ PendingTokens \subseteq install[i].expires
    /\ link' = [state |-> "installing", key |-> i]
    /\ token' = [j \in Installs |->
          IF j = i THEN "pending" ELSE IF j \in install[i].expires THEN "expired" ELSE token[j]]
    /\ install' = [install EXCEPT ![i] = [at |-> "done", expires |-> {}]]
    /\ UNCHANGED <<aged, admitted, proved, activation>>

\* A second pending token, or a deadlock with the activation that holds it.
Conflict(i) ==
    /\ install[i].at = "upserted"
    /\ ~(PendingTokens \subseteq install[i].expires)
    /\ Abort(i)
    /\ UNCHANGED <<link, token, aged, admitted, proved, activation>>

\* The worker or the database gives up anywhere: the transaction is undone.
InstallFails(i) ==
    /\ install[i].at \in {"keyed", "expiring", "expired", "upserted"}
    /\ Abort(i)
    /\ UNCHANGED <<link, token, aged, admitted, proved, activation>>

TokenAges(i) ==
    /\ token[i] = "pending" /\ i \notin aged
    /\ aged' = aged \cup {i}
    /\ UNCHANGED <<link, token, admitted, proved, install, activation>>

-----------------------------------------------------------------------------
(* verifyAndActivateCommunityConnection                                    *)

Usable(i) == token[i] = "pending" /\ i \notin aged

\* getCommunityConnectionInstallContext: any holder of the token, any time.
Context(a) ==
    /\ activation[a].at = "idle"
    /\ \E i \in Installs :
          /\ Usable(i)
          /\ link = [state |-> "installing", key |-> i]
          /\ activation' = [activation EXCEPT ![a] = [at |-> "context", token |-> i]]
    /\ UNCHANGED <<link, token, aged, admitted, proved, install>>

\* Faulty variant: the profile is not read back.
RoundTripUnread(a) ==
    /\ activation[a].at = "context"
    /\ activation' = [activation EXCEPT ![a].at = "proved"]
    /\ UNCHANGED <<link, token, aged, admitted, proved, install>>

\* Connect as the key, publish its profile and read it back.
RoundTrip(a) ==
    /\ activation[a].at = "context"
    /\ activation[a].token \in admitted
    /\ proved' = proved \cup {activation[a].token}
    /\ activation' = [activation EXCEPT ![a].at = "proved"]
    /\ UNCHANGED <<link, token, aged, admitted, install>>

ConsumeToken(a) ==
    /\ activation[a].at = "proved"
    /\ Usable(activation[a].token)
    /\ activation[a].token \notin LockedTokens
    /\ activation' = [activation EXCEPT ![a].at = "consumed"]
    /\ UNCHANGED <<link, token, aged, admitted, proved, install>>

\* The connection must still be the one the token was made for.
Activate(a) ==
    LET i == activation[a].token
    IN  /\ activation[a].at = "consumed" /\ ~LinkLocked
        /\ link = [state |-> "installing", key |-> i]
        /\ link' = [link EXCEPT !.state = "active"]
        /\ token' = [token EXCEPT ![i] = "consumed"]
        /\ activation' = [activation EXCEPT ![a] = NoActivation]
        /\ UNCHANGED <<aged, admitted, proved, install>>

\* Refused, or given up at any await: a rollback frees the token.
ActivationEnds(a) ==
    /\ activation[a].at # "idle"
    /\ activation' = [activation EXCEPT ![a] = NoActivation]
    /\ UNCHANGED <<link, token, aged, admitted, proved, install>>

-----------------------------------------------------------------------------

InstallNext ==
    \/ \E i \in Installs :
          \/ Generate(i) \/ Admit(i) \/ Reenter(i) \/ Snapshot(i) \/ ExpireTokens(i)
          \/ Upsert(i) \/ AlreadyActive(i) \/ CommitInstall(i) \/ Conflict(i)
          \/ InstallFails(i) \/ TokenAges(i)
    \/ \E a \in Activations :
          Context(a) \/ RoundTrip(a) \/ ConsumeToken(a) \/ Activate(a) \/ ActivationEnds(a)

InstallSpec == InstallInit /\ [][InstallNext]_installVars

-----------------------------------------------------------------------------

InstallTypeOK ==
    /\ link \in [state: {"none", "installing", "active"}, key: Installs \cup {NoKey}]
    /\ token \in [Installs -> {"none", "pending", "expired", "consumed"}]
    /\ aged \subseteq Installs
    /\ admitted \subseteq Installs
    /\ proved \subseteq Installs
    /\ install \in [Installs ->
          [at: {"idle", "keyed", "expiring", "expired", "upserted", "done", "failed"},
           expires: SUBSET Installs]]
    /\ activation \in [Activations ->
          [at: {"idle", "context", "proved", "consumed"}, token: Installs \cup {NoKey}]]
    /\ \A a \in Activations : activation[a].at # "idle" => activation[a].token \in Installs

(* Whatever installs and activations overlap, an active connection runs    *)
(* with a key its relay has admitted and echoed, activated by that key's   *)
(* own token, and no token of another key can still be used.               *)
ActiveKeyProved ==
    link.state = "active" =>
        /\ link.key \in admitted \cap proved
        /\ token[link.key] = "consumed"
        /\ PendingTokens = {}

(* The token an owner holds is for the key the connection will run with:   *)
(* an install that lost a race, or failed half way, leaves the token of    *)
(* the winner pending and the winner's key in the row.                     *)
PendingIsCurrent ==
    \A i \in PendingTokens : link = [state |-> "installing", key |-> i]

=============================================================================
