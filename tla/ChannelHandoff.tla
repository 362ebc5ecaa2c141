--------------------------- MODULE ChannelHandoff ---------------------------
(***************************************************************************)
(* createDedicatedChannel (src/shared-channels/channel-handoff.ts): the    *)
(* bridge creates a channel on a community's relay, promotes the owner the *)
(* relay names, adds members, and demotes itself.  The sequence is         *)
(* journaled per idempotency key and resumed by any later call with it:    *)
(* the provisioner and /open use the same key, in no order.                *)
(*                                                                         *)
(* A call is suspended wherever it awaits the database or the relay, and   *)
(* may end there: it fails, times out or dies with its process (Fail).     *)
(* attempts and last_error only describe failures and are left out.        *)
(***************************************************************************)
EXTENDS Naturals

CONSTANTS
  Key,       \* idempotency keys of one connection
  Call,      \* calls of createDedicatedChannel that may overlap
  Channel,   \* the ids randomUUID may draw
  Bridge,    \* the bridge's pubkey
  Owner,     \* whom a roster may name: owners and admins of the relay
  Guest,     \* whom a caller may ask to add as a member
  NoChannel, Nobody

Person == Owner \cup Guest
Pubkey == Person \cup {Bridge}

(* resolveChannelOwner and normalizeMembers leave the bridge out. *)
ASSUME HandoffAssumption ==
  Bridge \notin Person /\ NoChannel \notin Channel /\ Nobody \notin Owner

VARIABLES
  journal,  \* [Key -> row of bridge_channel_handoffs]
  role,     \* [Channel -> [Pubkey -> role]] on the relay
  call      \* [Call -> where it is and its copy of the row]

vars == <<journal, role, call>>

State == {"none", "creating", "created", "handed_off", "completed"}
Row   == [state : State, channel : Channel \cup {NoChannel},
          owner : Owner \cup {Nobody}]
NoRow == [state |-> "none", channel |-> NoChannel, owner |-> Nobody]

(* How far a row is. *)
Rank == [s \in State |->
  CASE s = "none" -> 0 [] s = "creating" -> 1 [] s = "created" -> 2
    [] s = "handed_off" -> 3 [] OTHER -> 4]

Following == [s \in State |->
  CASE s = "creating" -> "created" [] s = "created" -> "handed_off"
    [] OTHER -> "completed"]

(* idle; roster: no row was found; publish: the event of row.state is next; *)
(* confirmed: the relay holds it; returned: the caller has the channel.    *)
Pc == {"idle", "roster", "publish", "confirmed", "returned"}
CallState == [pc : Pc, key : Key, row : Row, todo : SUBSET Guest]

at(c, pc)     == call[c].pc = pc
next(c, s)    == at(c, "publish") /\ call[c].row.state = s
confirm(c)    == call' = [call EXCEPT ![c].pc = "confirmed"]
Exists(ch)    == role[ch][Bridge] # "none"
IsOwner(ch, p) == role[ch][p] = "owner"

Init ==
  /\ journal = [k \in Key |-> NoRow]
  /\ role = [ch \in Channel |-> [p \in Pubkey |-> "none"]]
  /\ call \in [Call -> {[pc |-> "idle", key |-> k, row |-> NoRow, todo |-> {}] :
                          k \in Key}]
-----------------------------------------------------------------------------
(***************************************************************************)
(* Faulty variants.  No behaviour of Spec uses them: each is a definition  *)
(* below with one plausible bug in it, kept to show which property would   *)
(* notice that bug.                                                        *)
(***************************************************************************)

(* The members a caller asks for are taken as they come. *)
StartUnchecked(c, k, members) ==
  /\ at(c, "idle") \/ at(c, "returned")
  /\ call' = [call EXCEPT ![c] =
       [pc |-> CASE journal[k].state = "none"      -> "roster"
                 [] journal[k].state = "completed" -> "returned"
                 [] OTHER                          -> "publish",
        key |-> k, row |-> journal[k], todo |-> members \cup {Bridge}]]
  /\ UNCHANGED <<journal, role>>

(* The insert overwrites the row it conflicts with. *)
ReserveOverwrites(c) ==
  /\ at(c, "roster")
  /\ \E ch \in Channel, o \in Owner :
       /\ \A k \in Key : journal[k].channel # ch
       /\ journal' = [journal EXCEPT ![call[c].key] =
            [state |-> "creating", channel |-> ch, owner |-> o]]
  /\ call' = [call EXCEPT ![c].pc = "publish", ![c].row = journal'[call[c].key]]
  /\ UNCHANGED role

(* The call goes on with the owner it resolved, whatever the row says. *)
ReserveKeepsOwn(c) ==
  LET k == call[c].key IN
  /\ at(c, "roster")
  /\ \E o \in Owner :
       /\ IF journal[k].state = "none"
          THEN \E ch \in Channel :
                 /\ \A l \in Key : journal[l].channel # ch
                 /\ journal' = [journal EXCEPT ![k] =
                      [state |-> "creating", channel |-> ch, owner |-> o]]
          ELSE UNCHANGED journal
       /\ call' = [call EXCEPT
            ![c].pc = IF journal'[k].state = "completed" THEN "returned" ELSE "publish",
            ![c].row = [journal'[k] EXCEPT !.owner = o]]
  /\ UNCHANGED role

(* The owner is added as a member too when a caller names it. *)
PromoteKeepsGuests(c) ==
  LET r == call[c].row IN
  /\ next(c, "created")
  /\ IsOwner(r.channel, Bridge)
  /\ role' = [role EXCEPT ![r.channel][r.owner] = "owner"]
  /\ confirm(c)
  /\ UNCHANGED journal

(* The bridge steps down together with the promotion. *)
PromoteStepsDown(c) ==
  LET r == call[c].row IN
  /\ next(c, "created")
  /\ IsOwner(r.channel, Bridge)
  /\ role' = [role EXCEPT ![r.channel] =
                [@ EXCEPT ![r.owner] = "owner", ![Bridge] = "member"]]
  /\ call' = [call EXCEPT ![c].pc = "confirmed", ![c].todo = @ \ {r.owner}]
  /\ UNCHANGED journal

(* The journal is written whatever state it is in. *)
AdvanceAnyState(c) ==
  LET k == call[c].key  s == call[c].row.state IN
  /\ at(c, "confirmed")
  /\ s = "created" => call[c].todo = {}
  /\ journal' = [journal EXCEPT ![k].state = Following[s]]
  /\ call' = [call EXCEPT ![c].row.state = Following[s],
       ![c].pc = IF Following[s] = "completed" THEN "returned" ELSE "publish"]
  /\ UNCHANGED role

(* The journal is written once, at the end. *)
AdvanceAtTheEnd(c) ==
  LET k == call[c].key  s == call[c].row.state IN
  /\ at(c, "confirmed")
  /\ s = "created" => call[c].todo = {}
  /\ journal' = IF Following[s] = "completed"
                THEN [journal EXCEPT ![k].state = "completed"] ELSE journal
  /\ call' = [call EXCEPT ![c].row.state = Following[s],
       ![c].pc = IF Following[s] = "completed" THEN "returned" ELSE "publish"]
  /\ UNCHANGED role

(* A refused demotion passes for one that was made. *)
DemoteUnchecked(c) ==
  LET ch == call[c].row.channel IN
  /\ next(c, "handed_off")
  /\ role' \in {role, [role EXCEPT ![ch][Bridge] = "member"]}
  /\ confirm(c)
  /\ UNCHANGED journal
-----------------------------------------------------------------------------
(* createDedicatedChannel up to the relay: findHandoffByKey, and the early *)
(* return of a completed handoff.                                          *)
Start(c, k, members) ==
  /\ at(c, "idle") \/ at(c, "returned")
  /\ call' = [call EXCEPT ![c] =
       [pc |-> CASE journal[k].state = "none"      -> "roster"
                 [] journal[k].state = "completed" -> "returned"
                 [] OTHER                          -> "publish",
        key |-> k, row |-> journal[k], todo |-> members]]
  /\ UNCHANGED <<journal, role>>

(* resolveChannelOwner and reserveHandoff: the first insert of a key wins, *)
(* a later one reads the row that is there, however far it is by then.     *)
Reserve(c) ==
  LET k == call[c].key IN
  /\ at(c, "roster")
  /\ IF journal[k].state = "none"
     THEN \E ch \in Channel, o \in Owner :
            /\ \A l \in Key : journal[l].channel # ch
            /\ journal' = [journal EXCEPT ![k] =
                 [state |-> "creating", channel |-> ch, owner |-> o]]
     ELSE UNCHANGED journal
  /\ call' = [call EXCEPT
       ![c].pc = IF journal'[k].state = "completed" THEN "returned" ELSE "publish",
       ![c].row = journal'[k]]
  /\ UNCHANGED role

(* Kind 9007: the author of a new channel is its owner; for a channel that *)
(* exists it changes nothing, when the relay takes it at all.              *)
Create(c) ==
  LET ch == call[c].row.channel IN
  /\ next(c, "creating")
  /\ role' = IF Exists(ch) THEN role ELSE [role EXCEPT ![ch][Bridge] = "owner"]
  /\ confirm(c)
  /\ UNCHANGED journal

(* Kind 9000, from an owner only: the relay refuses it from anybody else,  *)
(* and the call fails.  The owner is not added as a member again.          *)
Promote(c) ==
  LET r == call[c].row IN
  /\ next(c, "created")
  /\ IsOwner(r.channel, Bridge)
  /\ role' = [role EXCEPT ![r.channel][r.owner] = "owner"]
  /\ call' = [call EXCEPT ![c].pc = "confirmed", ![c].todo = @ \ {r.owner}]
  /\ UNCHANGED journal

AddMember(c) ==
  LET r == call[c].row IN
  /\ at(c, "confirmed") /\ r.state = "created"
  /\ IsOwner(r.channel, Bridge)
  /\ \E m \in call[c].todo :
       /\ role' = [role EXCEPT ![r.channel][m] = "member"]
       /\ call' = [call EXCEPT ![c].todo = @ \ {m}]
  /\ UNCHANGED journal

Demote(c) ==
  LET ch == call[c].row.channel IN
  /\ next(c, "handed_off")
  /\ IsOwner(ch, Bridge)
  /\ role' = [role EXCEPT ![ch][Bridge] = "member"]
  /\ confirm(c)
  /\ UNCHANGED journal

(* advanceHandoff: the row moves only from the state the call is in, the   *)
(* call's own copy moves in any case.                                      *)
Advance(c) ==
  LET k == call[c].key  s == call[c].row.state IN
  /\ at(c, "confirmed")
  /\ s = "created" => call[c].todo = {}
  /\ journal' = IF journal[k].state = s
                THEN [journal EXCEPT ![k].state = Following[s]] ELSE journal
  /\ call' = [call EXCEPT ![c].row.state = Following[s],
       ![c].pc = IF Following[s] = "completed" THEN "returned" ELSE "publish"]
  /\ UNCHANGED role

(* The relay cannot be reached or refuses, an acknowledgement or its       *)
(* confirmation is lost, a query fails, the process dies: whatever was     *)
(* stored stays stored.                                                    *)
Fail(c) ==
  /\ ~at(c, "idle") /\ ~at(c, "returned")
  /\ call' = [call EXCEPT ![c].pc = "idle", ![c].row = NoRow, ![c].todo = {}]
  /\ UNCHANGED <<journal, role>>

(* The provisioner asks for no members, /open for the one who typed it. *)
Asked == {{}} \cup {{g} : g \in Guest}

Publish(c) == Create(c) \/ Promote(c) \/ AddMember(c) \/ Demote(c)

Next ==
  \E c \in Call :
    \/ \E k \in Key, members \in Asked : Start(c, k, members)
    \/ Reserve(c) \/ Publish(c) \/ Advance(c) \/ Fail(c)

Spec == Init /\ [][Next]_vars

(* The provisioner tries an unfinished key again on every pass. *)
Retry(k) ==
  journal[k].state \notin {"none", "completed"} /\ \E c \in Call : Start(c, k, {})

(* A step that is tried again and again does not fail every time, unless   *)
(* the relay refuses it.                                                   *)
Fairness ==
  /\ \A k \in Key : SF_vars(Retry(k))
  /\ \A c \in Call : /\ SF_vars(Create(c)) /\ SF_vars(Promote(c))
                     /\ SF_vars(AddMember(c)) /\ SF_vars(Demote(c))
                     /\ SF_vars(Advance(c))
                     /\ WF_vars(Fail(c))

FairSpec == Spec /\ Fairness
-----------------------------------------------------------------------------
TypeOK ==
  /\ journal \in [Key -> Row]
  /\ role \in [Channel -> [Pubkey -> {"none", "member", "owner"}]]
  /\ call \in [Call -> CallState]

(* "without it the promote would appear to succeed and still leave the     *)
(* channel with no owner once the bridge stepped down": no order of calls, *)
(* failures and members leaves a channel without an owner.                 *)
NeverOwnerless ==
  \A ch \in Channel : Exists(ch) => \E p \in Pubkey : IsOwner(ch, p)

(* Two calls may resolve different owners for one key, from two rosters:   *)
(* a channel is handed to one of them only, the one in the journal.        *)
OneHumanOwner ==
  \A ch \in Channel : \A p, q \in Person :
    IsOwner(ch, p) /\ IsOwner(ch, q) => p = q

(* The journal is never ahead of the relay: what it says has happened has, *)
(* although overlapping calls write it from the copies they hold.          *)
JournalNeverAhead ==
  \A k \in Key : LET r == journal[k] IN
    /\ Rank[r.state] >= 2 => Exists(r.channel)
    /\ Rank[r.state] >= 3 => IsOwner(r.channel, r.owner)
    /\ r.state = "completed" => ~IsOwner(r.channel, Bridge)

(* It is never so far behind that a resumed promotion would be refused: as *)
(* long as the owner may have to be promoted or members added, the bridge  *)
(* owns the channel.                                                       *)
Promotable ==
  \A k \in Key : LET r == journal[k] IN
    r.state \in {"creating", "created"} /\ Exists(r.channel) =>
      IsOwner(r.channel, Bridge)

(* Whoever gets a channel for a key gets the same one, owned by the owner  *)
(* of the journal and by the bridge no more.                               *)
ReturnedIsHandedOff ==
  \A c \in Call : at(c, "returned") =>
    LET r == call[c].row IN
    /\ r = journal[call[c].key] /\ r.state = "completed"
    /\ IsOwner(r.channel, r.owner) /\ ~IsOwner(r.channel, Bridge)

(* A key keeps its channel and its owner, and its handoff never goes back. *)
JournalIsMonotone ==
  [][\A k \in Key :
       /\ Rank[journal'[k].state] >= Rank[journal[k].state]
       /\ journal[k].state # "none" =>
            /\ journal'[k].channel = journal[k].channel
            /\ journal'[k].owner = journal[k].owner]_vars

(* With callers that retry, a reserved channel gets to its owner, whatever *)
(* failed on the way.                                                      *)
EventuallyHandedOff ==
  \A k \in Key :
    journal[k].state # "none" ~> journal[k].state \in {"handed_off", "completed"}

(* "this call is RESUMABLE: invoked again with the same idempotency key it *)
(* reuses the same channel and finishes whatever steps are left"           *)
(* (channel-handoff.ts): callers that retry end up with the channel.       *)
EventuallyCompleted ==
  \A k \in Key : journal[k].state # "none" ~> journal[k].state = "completed"
=============================================================================
