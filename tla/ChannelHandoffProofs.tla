------------------------ MODULE ChannelHandoffProofs ------------------------
(***************************************************************************)
(* Proofs about ChannelHandoff, for any keys, any number of overlapping    *)
(* calls, any channels, owners and guests.                                 *)
(*                                                                         *)
(* The inductive invariant IInv ties the three places a handoff is written *)
(* down: a call's copy of the row is the row itself, at most behind it     *)
(* (Copies); what a call is about to journal has happened on the relay     *)
(* (Confirmed); and a channel belongs to one key (RowsApart), exists only  *)
(* for a key (Reserved) and has no human owner but the journal's           *)
(* (ToOwnerOnly).  The last theorem is about the handoffs that no call can *)
(* finish (Stuck).                                                         *)
(***************************************************************************)
EXTENDS ChannelHandoff, TLAPS

RowsFilled ==
  \A k \in Key : journal[k].state # "none" =>
    journal[k].channel \in Channel /\ journal[k].owner \in Owner

RowsApart ==
  \A k, l \in Key :
    journal[k].state # "none" /\ journal[k].channel = journal[l].channel => k = l

Reserved ==
  \A ch \in Channel :
    (\A k \in Key : journal[k].state # "none" => journal[k].channel # ch) =>
      \A p \in Pubkey : role[ch][p] = "none"

Copies ==
  \A c \in Call : call[c].pc \in {"publish", "confirmed", "returned"} =>
    LET r == call[c].row  j == journal[call[c].key] IN
    /\ r.state # "none" /\ r.channel = j.channel /\ r.owner = j.owner
    /\ Rank[r.state] <= Rank[j.state]
    /\ r.state = "completed" <=> call[c].pc = "returned"

Confirmed ==
  \A c \in Call : at(c, "confirmed") =>
    LET r == call[c].row IN
    /\ r.state = "creating" => Exists(r.channel)
    /\ r.state = "created" => IsOwner(r.channel, r.owner) /\ r.owner \notin call[c].todo
    /\ r.state = "handed_off" => ~IsOwner(r.channel, Bridge)

ToOwnerOnly ==
  \A k \in Key, p \in Person :
    journal[k].state # "none" /\ IsOwner(journal[k].channel, p) => p = journal[k].owner

JournalOK == RowsFilled /\ RowsApart
RelayOK   == Reserved /\ JournalNeverAhead /\ Promotable /\ ToOwnerOnly
CallsOK   == Copies /\ Confirmed

IInv == TypeOK /\ JournalOK /\ RelayOK /\ CallsOK
-----------------------------------------------------------------------------
(* The order of the states of a handoff. *)
LEMMA RankFacts ==
  /\ Rank["none"] = 0 /\ Rank["creating"] = 1 /\ Rank["created"] = 2
  /\ Rank["handed_off"] = 3 /\ Rank["completed"] = 4
  /\ \A s \in State : Rank[s] \in Nat /\ Rank[s] <= 4 /\ Following[s] \in State
  /\ \A s \in State : s # "none" /\ s # "completed" =>
       /\ Rank[Following[s]] = Rank[s] + 1
       /\ Following[s] = "completed" <=> s = "handed_off"
       /\ Following[s] # "none"
  /\ Following["creating"] = "created" /\ Following["created"] = "handed_off"
  /\ Following["handed_off"] = "completed"
<1>1. /\ Rank["none"] = 0 /\ Rank["creating"] = 1 /\ Rank["created"] = 2
      /\ Rank["handed_off"] = 3 /\ Rank["completed"] = 4
  BY DEF Rank, State
<1>2. /\ Following["creating"] = "created" /\ Following["created"] = "handed_off"
      /\ Following["handed_off"] = "completed" /\ Following["none"] = "completed"
      /\ Following["completed"] = "completed"
  BY DEF Following, State
<1> QED
  BY <1>1, <1>2 DEF State

(* A row that is at the same rank as a copy, or further, and its state. *)
LEMMA RankOrder ==
  ASSUME NEW s \in State, NEW t \in State, Rank[s] <= Rank[t]
  PROVE  /\ t = "none" => s = "none"
         /\ t = "creating" => s \in {"none", "creating"}
         /\ s # t => Rank[s] + 1 <= Rank[t]
         /\ s = "handed_off" => t \in {"handed_off", "completed"}
         /\ s = "completed" => t = "completed"
BY RankFacts DEF State

(* The bridge is nobody else. *)
LEMMA BridgeApart ==
  /\ Bridge \in Pubkey /\ Person \subseteq Pubkey /\ Owner \subseteq Person
  /\ Guest \subseteq Person /\ \A p \in Person : p # Bridge
BY HandoffAssumption DEF Pubkey, Person
-----------------------------------------------------------------------------
LEMMA InitIInv == Init => IInv
<1> SUFFICES ASSUME Init PROVE IInv
  OBVIOUS
<1>1. NoRow \in Row
  BY DEF NoRow, Row, State
<1>2. TypeOK
  BY <1>1, RankFacts DEF Init, TypeOK, CallState, Pc
<1>3. \A k \in Key : journal[k].state = "none"
  BY DEF Init, NoRow
<1>4. \A c \in Call : call[c].pc = "idle"
  BY DEF Init
<1>5. JournalOK
  BY <1>3 DEF JournalOK, RowsFilled, RowsApart
<1>6. RelayOK
  <2>1. Reserved
    BY DEF Init, Reserved
  <2>2. JournalNeverAhead /\ Promotable /\ ToOwnerOnly
    BY <1>3, RankFacts DEF JournalNeverAhead, Promotable, ToOwnerOnly
  <2> QED
    BY <2>1, <2>2 DEF RelayOK
<1>7. CallsOK
  BY <1>4 DEF CallsOK, Copies, Confirmed, at
<1> QED
  BY <1>2, <1>5, <1>6, <1>7 DEF IInv

(* A step that leaves the journal and the relay alone keeps what is said   *)
(* of them.                                                                *)
LEMMA OnlyCalls ==
  ASSUME JournalOK, RelayOK, UNCHANGED <<journal, role>>
  PROVE  JournalOK' /\ RelayOK'
BY DEF JournalOK, RelayOK, RowsFilled, RowsApart, Reserved, JournalNeverAhead,
       Promotable, ToOwnerOnly, Exists, IsOwner

LEMMA StartStep ==
  ASSUME IInv, NEW c \in Call, NEW k \in Key, NEW members \in Asked, Start(c, k, members)
  PROVE  IInv'
<1> DEFINE new == [pc |-> CASE journal[k].state = "none"      -> "roster"
                            [] journal[k].state = "completed" -> "returned"
                            [] OTHER                          -> "publish",
                   key |-> k, row |-> journal[k], todo |-> members]
<1>1. call' = [call EXCEPT ![c] = new] /\ UNCHANGED <<journal, role>>
  BY DEF Start
<1>2. journal[k] \in Row /\ journal[k].state \in State
  BY DEF IInv, TypeOK, Row
<1>3. new.pc \in {"roster", "returned", "publish"} /\ new.row = journal[k] /\ new.key = k
      /\ (new.pc = "roster" <=> journal[k].state = "none")
      /\ (new.pc = "returned" <=> journal[k].state = "completed")
  BY DEF Start
<1>4. new \in CallState
  BY <1>2, <1>3 DEF CallState, Pc, Asked
<1>5. TypeOK'
  BY <1>1, <1>4 DEF IInv, TypeOK
<1>6. \A d \in Call : call'[d] = IF d = c THEN new ELSE call[d]
  BY <1>1 DEF IInv, TypeOK
<1> HIDE DEF new
<1>7. Copies'
  BY <1>1, <1>2, <1>3, <1>6, RankFacts DEF IInv, CallsOK, Copies
<1>8. Confirmed'
  BY <1>1, <1>3, <1>6 DEF IInv, CallsOK, Confirmed, at, Exists, IsOwner
<1> QED
  BY <1>1, <1>5, <1>7, <1>8, OnlyCalls DEF IInv, CallsOK

LEMMA FailStep ==
  ASSUME IInv, NEW c \in Call, Fail(c)
  PROVE  IInv'
<1>1. UNCHANGED <<journal, role>>
  BY DEF Fail
<1>2. \A d \in Call : IF d = c THEN call'[d].pc = "idle" ELSE call'[d] = call[d]
  BY DEF IInv, TypeOK, Fail, CallState
<1>3. NoRow \in Row
  BY DEF NoRow, Row, State
<1>4. TypeOK'
  <2>1. call[c] \in CallState
    BY DEF IInv, TypeOK
  <2>2. [call[c] EXCEPT !.pc = "idle", !.row = NoRow, !.todo = {}] \in CallState
    BY <1>3, <2>1 DEF CallState, Pc, Asked
  <2>3. call' = [call EXCEPT ![c] =
                    [call[c] EXCEPT !.pc = "idle", !.row = NoRow, !.todo = {}]]
    BY DEF Fail
  <2> QED
    BY <1>1, <2>2, <2>3 DEF IInv, TypeOK
<1>5. CallsOK'
  BY <1>1, <1>2 DEF IInv, CallsOK, Copies, Confirmed, at, Exists, IsOwner
<1> QED
  BY <1>1, <1>4, <1>5, OnlyCalls DEF IInv
-----------------------------------------------------------------------------
(* The first insert of a key: its channel is nobody's yet. *)
LEMMA InsertStep ==
  ASSUME IInv, NEW k \in Key, NEW ch \in Channel, NEW o \in Owner,
         journal[k].state = "none",
         \A l \in Key : journal[l].channel # ch,
         journal' = [journal EXCEPT ![k] =
           [state |-> "creating", channel |-> ch, owner |-> o]],
         UNCHANGED role
  PROVE  /\ journal' \in [Key -> Row] /\ JournalOK' /\ RelayOK'
         /\ \A l \in Key : l # k => journal'[l] = journal[l]
         /\ journal'[k].state = "creating"
<1> DEFINE new == [state |-> "creating", channel |-> ch, owner |-> o]
<1>1. new \in Row /\ new.state = "creating" /\ new.channel = ch /\ new.owner = o
  BY DEF Row, State
<1>2. \A l \in Key : journal'[l] = IF l = k THEN new ELSE journal[l]
  BY DEF IInv, TypeOK
<1>3. journal' \in [Key -> Row]
  BY <1>1 DEF IInv, TypeOK
<1> HIDE DEF new
<1>4. JournalOK'
  BY <1>1, <1>2 DEF IInv, JournalOK, RowsFilled, RowsApart
<1>5. \A p \in Pubkey : role[ch][p] = "none"
  BY DEF IInv, RelayOK, Reserved
<1>6. Reserved'
  <2> SUFFICES ASSUME NEW g \in Channel,
                      \A l \in Key : journal'[l].state # "none" => journal'[l].channel # g
               PROVE  \A p \in Pubkey : role[g][p] = "none"
    BY DEF Reserved
  <2>1. \A l \in Key : journal[l].state # "none" => journal[l].channel # g
    BY <1>2
  <2> QED
    BY <2>1 DEF IInv, RelayOK, Reserved
<1>7. JournalNeverAhead'
  BY <1>1, <1>2, RankFacts DEF IInv, RelayOK, JournalNeverAhead, Exists, IsOwner
<1>8. Promotable'
  BY <1>1, <1>2, <1>5, BridgeApart DEF IInv, RelayOK, Promotable, Exists, IsOwner
<1>9. ToOwnerOnly'
  BY <1>1, <1>2, <1>5, BridgeApart DEF IInv, RelayOK, ToOwnerOnly, IsOwner
<1> QED
  BY <1>1, <1>2, <1>3, <1>4, <1>6, <1>7, <1>8, <1>9 DEF RelayOK

LEMMA ReserveStep ==
  ASSUME IInv, NEW c \in Call, Reserve(c)
  PROVE  IInv'
<1> DEFINE k == call[c].key
<1>1. k \in Key /\ at(c, "roster") /\ UNCHANGED role
  BY DEF IInv, TypeOK, CallState, Reserve
<1>2. /\ journal' \in [Key -> Row] /\ JournalOK' /\ RelayOK'
      /\ \A l \in Key : l # k => journal'[l] = journal[l]
      /\ journal'[k].state # "none"
      /\ journal[k].state # "none" => journal'[k] = journal[k]
  <2>1. CASE journal[k].state = "none"
    <3>1. PICK ch \in Channel, o \in Owner :
            /\ \A l \in Key : journal[l].channel # ch
            /\ journal' = [journal EXCEPT ![k] =
                 [state |-> "creating", channel |-> ch, owner |-> o]]
      BY <2>1 DEF Reserve
    <3> HIDE DEF k
    <3> QED
      BY <1>1, <2>1, <3>1, InsertStep
  <2>2. CASE journal[k].state # "none"
    <3>1. UNCHANGED journal
      BY <2>2 DEF Reserve
    <3> QED
      BY <1>1, <2>2, <3>1, OnlyCalls DEF IInv, TypeOK
  <2> QED
    BY <2>1, <2>2
<1>3. /\ call' = [call EXCEPT
           ![c].pc = IF journal'[k].state = "completed" THEN "returned" ELSE "publish",
           ![c].row = journal'[k]]
  BY DEF Reserve
<1>4. TypeOK'
  <2> DEFINE pc == IF journal'[k].state = "completed" THEN "returned" ELSE "publish"
  <2>1. journal'[k] \in Row /\ pc \in Pc
    BY <1>1, <1>2 DEF Pc
  <2>2. call' = [call EXCEPT ![c] = [@ EXCEPT !.pc = pc, !.row = journal'[k]]]
    BY <1>3 DEF IInv, TypeOK
  <2> HIDE DEF k, pc
  <2>3. [call[c] EXCEPT !.pc = pc, !.row = journal'[k]] \in CallState
    BY <2>1 DEF IInv, TypeOK, CallState
  <2> QED
    BY <1>1, <1>2, <2>2, <2>3 DEF IInv, TypeOK
<1>5. /\ \A d \in Call : d # c => call'[d] = call[d]
      /\ call'[c].key = k /\ call'[c].row = journal'[k]
      /\ call'[c].pc = IF journal'[k].state = "completed" THEN "returned" ELSE "publish"
  BY <1>3 DEF IInv, TypeOK, CallState
<1>6. journal'[k].state \in State
  BY <1>1, <1>2 DEF Row
<1> HIDE DEF k
<1>7. Copies'
  <2> SUFFICES ASSUME NEW d \in Call, call'[d].pc \in {"publish", "confirmed", "returned"}
               PROVE  LET r == call'[d].row  j == journal'[call'[d].key] IN
                      /\ r.state # "none" /\ r.channel = j.channel /\ r.owner = j.owner
                      /\ Rank[r.state] <= Rank[j.state]
                      /\ r.state = "completed" <=> call'[d].pc = "returned"
    BY DEF Copies
  <2>1. CASE d = c
    BY <2>1, <1>2, <1>5, <1>6, RankFacts
  <2>2. CASE d # c
    <3>1. call'[d] = call[d] /\ call[d].key \in Key
      BY <2>2, <1>5 DEF IInv, TypeOK, CallState
    <3>2. journal[call[d].key].state # "none"
      BY <3>1, RankOrder DEF IInv, CallsOK, Copies, TypeOK, CallState, Row
    <3>3. journal'[call[d].key] = journal[call[d].key]
      BY <3>1, <3>2, <1>2
    <3> QED
      BY <3>1, <3>3 DEF IInv, CallsOK, Copies
  <2> QED
    BY <2>1, <2>2
<1>8. Confirmed'
  BY <1>1, <1>5 DEF IInv, CallsOK, Confirmed, at, Exists, IsOwner
<1> QED
  BY <1>2, <1>4, <1>7, <1>8 DEF IInv, CallsOK
-----------------------------------------------------------------------------
(* What a call that publishes or journals knows of its row. *)
LEMMA AtWork ==
  ASSUME IInv, NEW c \in Call, call[c].pc \in {"publish", "confirmed"}
  PROVE  LET r == call[c].row  k == call[c].key IN
         /\ k \in Key /\ r \in Row /\ call[c].todo \in SUBSET Guest
         /\ r.state \in State /\ r.state # "none" /\ r.state # "completed"
         /\ journal[k].state \in State /\ journal[k].state # "none"
         /\ r.channel = journal[k].channel /\ r.owner = journal[k].owner
         /\ r.channel \in Channel /\ r.owner \in Owner
         /\ Rank[r.state] <= Rank[journal[k].state]
<1>1. call[c] \in CallState /\ call[c].key \in Key /\ call[c].row \in Row
      /\ call[c].todo \in SUBSET Guest
  BY DEF IInv, TypeOK, CallState
<1>2. journal[call[c].key] \in Row
  BY <1>1 DEF IInv, TypeOK
<1>3. journal[call[c].key].state # "none"
  BY <1>1, <1>2, RankOrder DEF IInv, CallsOK, Copies, Row
<1> QED
  BY <1>1, <1>2, <1>3 DEF IInv, CallsOK, Copies, JournalOK, RowsFilled, Row

(* What the relay has, it keeps: channels, the promoted owners, and the    *)
(* bridge's demotions; nobody but the journal's owner is promoted; the     *)
(* bridge owns what may have to be promoted.                               *)
Kept ==
  /\ \A ch \in Channel : role[ch][Bridge] # "none" =>
       /\ role'[ch][Bridge] # "none"
       /\ role[ch][Bridge] # "owner" => role'[ch][Bridge] # "owner"
  /\ \A k \in Key : journal[k].state # "none" =>
       LET r == journal[k] IN
       /\ role[r.channel][r.owner] = "owner" => role'[r.channel][r.owner] = "owner"
       /\ \A p \in Person : p # r.owner /\ role'[r.channel][p] = "owner" =>
            role[r.channel][p] = "owner"
       /\ r.state \in {"creating", "created"} /\ role'[r.channel][Bridge] # "none" =>
            role'[r.channel][Bridge] = "owner"

(* A step of a call that tells the relay something about its channel: the  *)
(* call's copy of the row stays, the journal too.                          *)
LEMMA PublishStep ==
  ASSUME IInv, NEW c \in Call, call[c].pc \in {"publish", "confirmed"},
         UNCHANGED journal, Kept,
         role' \in [Channel -> [Pubkey -> {"none", "member", "owner"}]],
         \A ch \in Channel : ch # call[c].row.channel => role'[ch] = role[ch],
         call' \in [Call -> CallState],
         \A d \in Call : d # c => call'[d] = call[d],
         call'[c].row = call[c].row, call'[c].key = call[c].key,
         call'[c].pc = "confirmed",
         LET r == call[c].row IN
           /\ r.state = "creating" => role'[r.channel][Bridge] # "none"
           /\ r.state = "created" =>
                role'[r.channel][r.owner] = "owner" /\ r.owner \notin call'[c].todo
           /\ r.state = "handed_off" => role'[r.channel][Bridge] # "owner"
  PROVE  IInv'
<1>1. TypeOK' /\ JournalOK'
  BY DEF IInv, TypeOK, JournalOK, RowsFilled, RowsApart
<1>2. Copies'
  BY AtWork DEF IInv, CallsOK, Copies
<1>3. Reserved'
  <2> SUFFICES ASSUME NEW ch \in Channel,
                      \A k \in Key : journal[k].state # "none" => journal[k].channel # ch
               PROVE  \A p \in Pubkey : role'[ch][p] = "none"
    BY DEF Reserved
  <2>1. ch # call[c].row.channel
    BY AtWork
  <2> QED
    BY <2>1 DEF IInv, RelayOK, Reserved
<1>4. \A k \in Key : journal[k].state # "none" => journal[k].channel \in Channel
  BY DEF IInv, JournalOK, RowsFilled
<1>5. \A k \in Key : /\ journal[k].state \in State
                     /\ journal[k].state = "none" => Rank[journal[k].state] = 0
                     /\ journal[k].state = "completed" => Rank[journal[k].state] = 4
  BY RankFacts DEF IInv, TypeOK, Row
<1>6. JournalNeverAhead'
  BY <1>4, <1>5 DEF IInv, RelayOK, JournalNeverAhead, Kept, Exists, IsOwner
<1>7. Promotable'
  BY <1>4 DEF Promotable, Kept, Exists, IsOwner
<1>8. ToOwnerOnly'
  BY DEF IInv, RelayOK, ToOwnerOnly, Kept, IsOwner
<1>9. ASSUME NEW d \in Call, d # c, call[d].pc = "confirmed"
      PROVE  LET r == call[d].row IN
             /\ r.state = "creating" => role'[r.channel][Bridge] # "none"
             /\ r.state = "created" =>
                  role'[r.channel][r.owner] = "owner" /\ r.owner \notin call[d].todo
             /\ r.state = "handed_off" => role'[r.channel][Bridge] # "owner"
  <2> DEFINE r == call[d].row
             k == call[d].key
  <2>1. /\ k \in Key /\ journal[k].state # "none" /\ r.channel \in Channel
        /\ r.channel = journal[k].channel /\ r.owner = journal[k].owner
    BY <1>9, AtWork
  <2>2. r.state = "handed_off" => role[r.channel][Bridge] # "none"
    BY <2>1, <1>9, AtWork, RankOrder, RankFacts DEF IInv, RelayOK, JournalNeverAhead, Exists
  <2> QED
    BY <1>9, <2>1, <2>2 DEF IInv, CallsOK, Confirmed, at, Exists, IsOwner, Kept
<1>10. Confirmed'
  BY <1>9 DEF Confirmed, at, Exists, IsOwner
<1> QED
  BY <1>1, <1>2, <1>3, <1>6, <1>7, <1>8, <1>10 DEF IInv, RelayOK, CallsOK

(* Two keys with one channel are one key. *)
LEMMA OneKey ==
  ASSUME IInv, NEW c \in Call, call[c].pc \in {"publish", "confirmed"},
         NEW k \in Key, journal[k].state # "none"
  PROVE  /\ journal[k].channel \in Channel /\ journal[k].owner \in Person
         /\ journal[k].channel = call[c].row.channel =>
              k = call[c].key /\ journal[k].owner = call[c].row.owner
BY AtWork, BridgeApart DEF IInv, JournalOK, RowsFilled, RowsApart

LEMMA CreateStep ==
  ASSUME IInv, NEW c \in Call, Create(c)
  PROVE  IInv'
<1> DEFINE ch == call[c].row.channel
<1>1. /\ call[c].pc = "publish" /\ call[c].row.state = "creating" /\ UNCHANGED journal
      /\ call' = [call EXCEPT ![c].pc = "confirmed"]
      /\ role' = IF Exists(ch) THEN role ELSE [role EXCEPT ![ch][Bridge] = "owner"]
  BY DEF Create, next, at, confirm
<1>2. ch \in Channel
  BY <1>1, AtWork
<1>3. /\ role' \in [Channel -> [Pubkey -> {"none", "member", "owner"}]]
      /\ \A g \in Channel : g # ch => role'[g] = role[g]
      /\ \A g \in Channel : role[g][Bridge] # "none" => role'[g] = role[g]
      /\ \A g \in Channel, p \in Pubkey : p # Bridge => role'[g][p] = role[g][p]
      /\ role'[ch][Bridge] # "none"
      /\ role[ch][Bridge] = "none" => role'[ch][Bridge] = "owner"
  BY <1>1, <1>2, BridgeApart DEF IInv, TypeOK, Exists
<1>4. /\ call' \in [Call -> CallState] /\ call'[c].pc = "confirmed"
      /\ \A d \in Call : d # c => call'[d] = call[d]
      /\ call'[c].row = call[c].row /\ call'[c].key = call[c].key
  BY <1>1 DEF IInv, TypeOK, CallState, Pc
<1>5. Kept
  <2>1. \A g \in Channel : role[g][Bridge] # "none" =>
          role'[g][Bridge] # "none" /\ role'[g][Bridge] = role[g][Bridge]
    BY <1>3
  <2>2. ASSUME NEW k \in Key, journal[k].state # "none"
        PROVE  /\ journal[k].channel \in Channel
               /\ \A p \in Person :
                    role'[journal[k].channel][p] = role[journal[k].channel][p]
               /\ journal[k].owner \in Person
               /\ journal[k].state \in {"creating", "created"} /\
                  role'[journal[k].channel][Bridge] # "none" =>
                    role'[journal[k].channel][Bridge] = "owner"
    <3>1. journal[k].channel \in Channel /\ journal[k].owner \in Person
      BY <2>2, <1>1, OneKey
    <3>2. CASE role[journal[k].channel][Bridge] # "none"
      BY <3>1, <3>2, <1>3, <2>2, BridgeApart DEF IInv, RelayOK, Promotable, Exists, IsOwner
    <3>3. CASE role[journal[k].channel][Bridge] = "none"
      BY <3>1, <3>3, <1>3, BridgeApart
    <3> QED
      BY <3>1, <3>2, <3>3
  <2> QED
    BY <2>1, <2>2 DEF Kept
<1> QED
  BY <1>1, <1>3, <1>4, <1>5, PublishStep

LEMMA PromoteStep ==
  ASSUME IInv, NEW c \in Call, Promote(c)
  PROVE  IInv'
<1> DEFINE ch == call[c].row.channel
           o  == call[c].row.owner
<1>1. /\ call[c].pc = "publish" /\ call[c].row.state = "created" /\ UNCHANGED journal
      /\ call' = [call EXCEPT ![c].pc = "confirmed", ![c].todo = @ \ {o}]
      /\ role' = [role EXCEPT ![ch][o] = "owner"]
  BY DEF Promote, next, at
<1>2. ch \in Channel /\ o \in Pubkey /\ o # Bridge
  BY <1>1, AtWork, BridgeApart
<1>3. /\ role' \in [Channel -> [Pubkey -> {"none", "member", "owner"}]]
      /\ \A g \in Channel : g # ch => role'[g] = role[g]
      /\ \A p \in Pubkey : p # o => role'[ch][p] = role[ch][p]
      /\ role'[ch][o] = "owner"
  BY <1>1, <1>2 DEF IInv, TypeOK
<1>4. /\ call' \in [Call -> CallState] /\ call'[c].pc = "confirmed"
      /\ \A d \in Call : d # c => call'[d] = call[d]
      /\ call'[c].row = call[c].row /\ call'[c].key = call[c].key
      /\ o \notin call'[c].todo
  BY <1>1 DEF IInv, TypeOK, CallState, Pc
<1>5. Kept
  <2>1. \A g \in Channel : role'[g][Bridge] = role[g][Bridge]
    BY <1>2, <1>3, BridgeApart
  <2>2. ASSUME NEW k \in Key, journal[k].state # "none", NEW p \in Person
        PROVE  /\ role'[journal[k].channel][p] = role[journal[k].channel][p]
                 \/ (p = journal[k].owner /\ role'[journal[k].channel][p] = "owner")
               /\ journal[k].owner \in Person /\ journal[k].channel \in Channel
    BY <1>1, <1>2, <1>3, <2>2, OneKey, BridgeApart
  <2> QED
    BY <2>1, <2>2, <1>1, OneKey DEF Kept, IInv, RelayOK, Promotable, Exists, IsOwner
<1> QED
  BY <1>1, <1>3, <1>4, <1>5, PublishStep

LEMMA AddMemberStep ==
  ASSUME IInv, NEW c \in Call, AddMember(c)
  PROVE  IInv'
<1> DEFINE ch == call[c].row.channel
           o  == call[c].row.owner
<1>1. /\ call[c].pc = "confirmed" /\ call[c].row.state = "created" /\ UNCHANGED journal
  BY DEF AddMember, at
<1>2. PICK m \in call[c].todo :
        /\ call' = [call EXCEPT ![c].todo = @ \ {m}]
        /\ role' = [role EXCEPT ![ch][m] = "member"]
  BY DEF AddMember
<1>3. ch \in Channel /\ m \in Person /\ m \in Pubkey /\ m # Bridge /\ m # o
      /\ o \notin call[c].todo /\ role[ch][o] = "owner" /\ o \in Pubkey
  BY <1>1, AtWork, BridgeApart DEF IInv, CallsOK, Confirmed, at, IsOwner
<1>4. /\ role' \in [Channel -> [Pubkey -> {"none", "member", "owner"}]]
      /\ \A g \in Channel : g # ch => role'[g] = role[g]
      /\ \A p \in Pubkey : p # m => role'[ch][p] = role[ch][p]
      /\ role'[ch][m] = "member"
  BY <1>2, <1>3 DEF IInv, TypeOK
<1>5. /\ call' \in [Call -> CallState] /\ call'[c].pc = "confirmed"
      /\ \A d \in Call : d # c => call'[d] = call[d]
      /\ call'[c].row = call[c].row /\ call'[c].key = call[c].key
      /\ o \notin call'[c].todo
  BY <1>1, <1>2, <1>3 DEF IInv, TypeOK, CallState, Pc
<1>6. Kept
  <2>1. \A g \in Channel : role'[g][Bridge] = role[g][Bridge]
    BY <1>3, <1>4, BridgeApart
  <2>2. ASSUME NEW k \in Key, journal[k].state # "none", NEW p \in Person
        PROVE  /\ role'[journal[k].channel][p] = role[journal[k].channel][p]
                 \/ (p # journal[k].owner /\ role'[journal[k].channel][p] = "member")
               /\ journal[k].owner \in Person /\ journal[k].channel \in Channel
    BY <1>1, <1>3, <1>4, <2>2, OneKey, BridgeApart
  <2> QED
    BY <2>1, <2>2, <1>1, OneKey DEF Kept, IInv, RelayOK, Promotable, Exists, IsOwner
<1> QED
  BY <1>1, <1>3, <1>4, <1>5, <1>6, PublishStep

LEMMA DemoteStep ==
  ASSUME IInv, NEW c \in Call, Demote(c)
  PROVE  IInv'
<1> DEFINE ch == call[c].row.channel
           k  == call[c].key
<1>1. /\ call[c].pc = "publish" /\ call[c].row.state = "handed_off" /\ UNCHANGED journal
      /\ call' = [call EXCEPT ![c].pc = "confirmed"]
      /\ role' = [role EXCEPT ![ch][Bridge] = "member"]
  BY DEF Demote, next, at, confirm
<1>2. /\ ch \in Channel /\ k \in Key
      /\ journal[k].state \in {"handed_off", "completed"}
  BY <1>1, AtWork, RankOrder
<1>3. /\ role' \in [Channel -> [Pubkey -> {"none", "member", "owner"}]]
      /\ \A g \in Channel : g # ch => role'[g] = role[g]
      /\ \A p \in Pubkey : p # Bridge => role'[ch][p] = role[ch][p]
      /\ role'[ch][Bridge] = "member"
  BY <1>1, <1>2, BridgeApart DEF IInv, TypeOK
<1>4. /\ call' \in [Call -> CallState] /\ call'[c].pc = "confirmed"
      /\ \A d \in Call : d # c => call'[d] = call[d]
      /\ call'[c].row = call[c].row /\ call'[c].key = call[c].key
  BY <1>1 DEF IInv, TypeOK, CallState, Pc
<1>5. Kept
  <2>1. \A g \in Channel : role'[g][Bridge] = role[g][Bridge] \/ role'[g][Bridge] = "member"
    BY <1>3
  <2>2. ASSUME NEW l \in Key, journal[l].state # "none"
        PROVE  /\ journal[l].owner \in Person /\ journal[l].channel \in Channel
               /\ \A p \in Person :
                    role'[journal[l].channel][p] = role[journal[l].channel][p]
               /\ journal[l].state \in {"creating", "created"} =>
                    role'[journal[l].channel] = role[journal[l].channel]
    <3>1. journal[l].owner \in Person /\ journal[l].channel \in Channel
          /\ (journal[l].channel = ch => l = k)
      BY <1>1, <2>2, OneKey
    <3> QED
      BY <1>2, <1>3, <3>1, BridgeApart
  <2> QED
    BY <2>1, <2>2 DEF Kept, IInv, RelayOK, Promotable, Exists, IsOwner
<1> QED
  BY <1>1, <1>3, <1>4, <1>5, PublishStep

(* The row after a call journaled a step: where it was, or one further.    *)
LEMMA AdvanceRow ==
  ASSUME IInv, NEW c \in Call, Advance(c)
  PROVE  LET r == call[c].row  k == call[c].key  to == Following[r.state] IN
         /\ UNCHANGED role /\ call[c].pc = "confirmed"
         /\ journal' \in [Key -> Row]
         /\ \A l \in Key : l # k => journal'[l] = journal[l]
         /\ journal'[k].channel = journal[k].channel
         /\ journal'[k].owner = journal[k].owner
         /\ \/ journal[k].state = r.state /\ journal'[k].state = to
            \/ journal'[k] = journal[k] /\ journal[k].state # r.state
         /\ Rank[to] <= Rank[journal'[k].state]
         /\ Rank[journal[k].state] <= Rank[journal'[k].state]
<1> DEFINE k  == call[c].key
           r  == call[c].row
           to == Following[r.state]
<1>1. /\ call[c].pc = "confirmed" /\ UNCHANGED role
      /\ journal' = IF journal[k].state = r.state
                    THEN [journal EXCEPT ![k].state = to] ELSE journal
  BY DEF Advance, at
<1>2. /\ k \in Key /\ r.state \in State /\ r.state # "none" /\ r.state # "completed"
      /\ journal[k].state \in State /\ Rank[r.state] <= Rank[journal[k].state]
  BY <1>1, AtWork
<1>3. to \in State /\ Rank[to] = Rank[r.state] + 1
  BY <1>2, RankFacts
<1> HIDE DEF k, r, to
<1>4. CASE journal[k].state = r.state
  <2>1. journal' = [journal EXCEPT ![k] = [@ EXCEPT !.state = to]]
    BY <1>1, <1>4 DEF IInv, TypeOK
  <2>2. journal[k] \in Row /\ [journal[k] EXCEPT !.state = to] \in Row
    BY <1>2, <1>3 DEF IInv, TypeOK, Row
  <2>3. /\ journal' \in [Key -> Row]
        /\ \A l \in Key : l # k => journal'[l] = journal[l]
        /\ journal'[k] = [journal[k] EXCEPT !.state = to]
    BY <1>2, <2>1, <2>2 DEF IInv, TypeOK
  <2>4. /\ journal'[k].channel = journal[k].channel /\ journal'[k].owner = journal[k].owner
        /\ journal'[k].state = to
    BY <2>2, <2>3 DEF Row
  <2>5. Rank[to] \in Nat /\ Rank[r.state] \in Nat
    BY <1>2, <1>3, RankFacts
  <2> QED
    BY <1>1, <1>3, <1>4, <2>3, <2>4, <2>5 DEF k, r, to
<1>5. CASE journal[k].state # r.state
  <2>1. Rank[r.state] + 1 <= Rank[journal[k].state] /\ Rank[journal[k].state] \in Nat
    BY <1>2, <1>5, RankOrder, RankFacts
  <2> QED
    BY <1>1, <1>3, <1>5, <2>1 DEF IInv, TypeOK, k, r, to
<1> QED
  BY <1>4, <1>5

LEMMA AdvanceStep ==
  ASSUME IInv, NEW c \in Call, Advance(c)
  PROVE  IInv'
<1> DEFINE k  == call[c].key
           r  == call[c].row
           to == Following[r.state]
<1>1. /\ UNCHANGED role /\ call[c].pc = "confirmed"
      /\ journal' \in [Key -> Row]
      /\ \A l \in Key : l # k => journal'[l] = journal[l]
      /\ journal'[k].channel = journal[k].channel
      /\ journal'[k].owner = journal[k].owner
      /\ \/ journal[k].state = r.state /\ journal'[k].state = to
         \/ journal'[k] = journal[k] /\ journal[k].state # r.state
      /\ Rank[to] <= Rank[journal'[k].state]
      /\ Rank[journal[k].state] <= Rank[journal'[k].state]
  BY AdvanceRow
<1>2. /\ k \in Key /\ r \in Row /\ r.state \in State
      /\ r.state # "none" /\ r.state # "completed"
      /\ journal[k].state \in State /\ journal[k].state # "none"
      /\ r.channel = journal[k].channel /\ r.owner = journal[k].owner
      /\ r.channel \in Channel /\ r.owner \in Owner
  BY <1>1, AtWork
<1>3. /\ to \in State /\ to # "none" /\ (to = "completed" <=> r.state = "handed_off")
      /\ journal'[k].state \in State /\ journal'[k].state # "none"
  BY <1>1, <1>2, RankFacts DEF Row
<1>4. /\ call' \in [Call -> CallState]
      /\ \A d \in Call : d # c => call'[d] = call[d]
      /\ call'[c].key = k /\ call'[c].row.state = to
      /\ call'[c].row.channel = r.channel /\ call'[c].row.owner = r.owner
      /\ call'[c].pc = IF to = "completed" THEN "returned" ELSE "publish"
  <2> DEFINE pc == IF to = "completed" THEN "returned" ELSE "publish"
             new == [call[c] EXCEPT !.row = [r EXCEPT !.state = to], !.pc = pc]
  <2>1. call' = [call EXCEPT ![c] = new]
    BY DEF Advance, IInv, TypeOK
  <2>2. [r EXCEPT !.state = to] \in Row /\ pc \in Pc
    BY <1>2, <1>3 DEF Row, Pc
  <2>3. new \in CallState /\ new.key = k /\ new.row = [r EXCEPT !.state = to] /\ new.pc = pc
    BY <2>2 DEF IInv, TypeOK, CallState
  <2>4. new.row.state = to /\ new.row.channel = r.channel /\ new.row.owner = r.owner
    BY <1>2, <2>3 DEF Row
  <2> HIDE DEF new, pc, k, r, to
  <2> QED
    BY <2>1, <2>3, <2>4 DEF IInv, TypeOK, pc
<1>5. /\ r.state = "creating" => role[r.channel][Bridge] # "none"
      /\ r.state = "created" => role[r.channel][r.owner] = "owner"
      /\ r.state = "handed_off" => role[r.channel][Bridge] # "owner"
  BY <1>1 DEF IInv, CallsOK, Confirmed, at, Exists, IsOwner
<1> HIDE DEF k, r, to
<1>6. TypeOK' /\ JournalOK'
  <2>1. RowsFilled'
    BY <1>1, <1>2 DEF IInv, JournalOK, RowsFilled
  <2>2. RowsApart'
    BY <1>1, <1>2 DEF IInv, JournalOK, RowsApart
  <2> QED
    BY <1>1, <1>4, <2>1, <2>2 DEF IInv, TypeOK, JournalOK
<1>7. Reserved'
  <2> SUFFICES ASSUME NEW ch \in Channel,
                      \A l \in Key : journal'[l].state # "none" => journal'[l].channel # ch
               PROVE  \A p \in Pubkey : role'[ch][p] = "none"
    BY DEF Reserved
  <2>1. \A l \in Key : journal[l].state # "none" => journal[l].channel # ch
    BY <1>1, <1>2, <1>3
  <2> QED
    BY <1>1, <2>1 DEF IInv, RelayOK, Reserved
<1>8. JournalNeverAhead' /\ Promotable'
  <2>1. ASSUME NEW l \in Key
        PROVE  LET j == journal'[l] IN
               /\ Rank[j.state] >= 2 => role[j.channel][Bridge] # "none"
               /\ Rank[j.state] >= 3 => role[j.channel][j.owner] = "owner"
               /\ j.state = "completed" => role[j.channel][Bridge] # "owner"
               /\ j.state \in {"creating", "created"} /\ role[j.channel][Bridge] # "none" =>
                    role[j.channel][Bridge] = "owner"
    <3>1. CASE journal'[l] = journal[l]
      BY <3>1 DEF IInv, RelayOK, JournalNeverAhead, Promotable, Exists, IsOwner
    <3>2. CASE journal'[l] # journal[l]
      <4>1. l = k /\ journal[k].state = r.state /\ journal'[k].state = to
        BY <1>1, <3>2
      <4>2. r.state \in {"creating", "created", "handed_off"}
        BY <1>2 DEF State
      <4>3. CASE r.state = "creating"
        BY <1>1, <1>2, <1>5, <4>1, <4>3, RankFacts
           DEF to, IInv, RelayOK, Promotable, Exists, IsOwner
      <4>4. CASE r.state = "created"
        BY <1>1, <1>2, <1>5, <4>1, <4>4, RankFacts
           DEF to, IInv, RelayOK, JournalNeverAhead, Exists, IsOwner
      <4>5. CASE r.state = "handed_off"
        BY <1>1, <1>2, <1>5, <4>1, <4>5, RankFacts
           DEF to, IInv, RelayOK, JournalNeverAhead, Exists, IsOwner
      <4> QED
        BY <4>2, <4>3, <4>4, <4>5
    <3> QED
      BY <3>1, <3>2
  <2> QED
    BY <1>1, <2>1 DEF JournalNeverAhead, Promotable, Exists, IsOwner
<1>9. ToOwnerOnly'
  BY <1>1, <1>2 DEF IInv, RelayOK, ToOwnerOnly, IsOwner
<1>10. Copies'
  <2> SUFFICES ASSUME NEW d \in Call, call'[d].pc \in {"publish", "confirmed", "returned"}
               PROVE  LET q == call'[d].row  j == journal'[call'[d].key] IN
                      /\ q.state # "none" /\ q.channel = j.channel /\ q.owner = j.owner
                      /\ Rank[q.state] <= Rank[j.state]
                      /\ q.state = "completed" <=> call'[d].pc = "returned"
    BY DEF Copies
  <2>1. CASE d = c
    BY <2>1, <1>1, <1>2, <1>3, <1>4
  <2>2. CASE d # c
    <3>1. call'[d] = call[d] /\ call[d].key \in Key /\ call[d].row.state \in State
      BY <2>2, <1>4 DEF IInv, TypeOK, CallState, Row
    <3>2. /\ journal'[call[d].key].channel = journal[call[d].key].channel
          /\ journal'[call[d].key].owner = journal[call[d].key].owner
          /\ journal'[call[d].key] = journal[call[d].key] \/ call[d].key = k
      BY <3>1, <1>1
    <3>3. /\ Rank[call[d].row.state] \in Nat /\ Rank[journal[k].state] \in Nat
          /\ Rank[journal'[k].state] \in Nat
      BY <3>1, <1>2, <1>3, RankFacts
    <3> QED
      BY <3>1, <3>2, <3>3, <1>1 DEF IInv, CallsOK, Copies
  <2> QED
    BY <2>1, <2>2
<1>11. Confirmed'
  BY <1>1, <1>4 DEF IInv, CallsOK, Confirmed, at, Exists, IsOwner
<1> QED
  BY <1>6, <1>7, <1>8, <1>9, <1>10, <1>11 DEF IInv, RelayOK, CallsOK
-----------------------------------------------------------------------------
LEMMA StepIInv == IInv /\ [Next]_vars => IInv'
<1> SUFFICES ASSUME IInv, [Next]_vars PROVE IInv'
  OBVIOUS
<1>1. ASSUME NEW c \in Call, NEW k \in Key, NEW members \in Asked, Start(c, k, members)
      PROVE  IInv'
  BY <1>1, StartStep
<1>2. ASSUME NEW c \in Call, Reserve(c) PROVE IInv'
  BY <1>2, ReserveStep
<1>3. ASSUME NEW c \in Call, Publish(c) PROVE IInv'
  BY <1>3, CreateStep, PromoteStep, AddMemberStep, DemoteStep DEF Publish
<1>4. ASSUME NEW c \in Call, Advance(c) PROVE IInv'
  BY <1>4, AdvanceStep
<1>5. ASSUME NEW c \in Call, Fail(c) PROVE IInv'
  BY <1>5, FailStep
<1>6. CASE UNCHANGED vars
  <2>1. UNCHANGED <<journal, role, call>>
    BY <1>6 DEF vars
  <2>2. TypeOK' /\ CallsOK'
    BY <2>1 DEF IInv, TypeOK, CallsOK, Copies, Confirmed, at, Exists, IsOwner
  <2> QED
    BY <2>1, <2>2, OnlyCalls DEF IInv
<1> QED
  BY <1>1, <1>2, <1>3, <1>4, <1>5, <1>6 DEF Next

(* The inductive invariant holds in every reachable state. *)
THEOREM Invariance == Spec => []IInv
BY InitIInv, StepIInv, PTL DEF Spec

(* Rows, roles and calls keep their types. *)
THEOREM TypeCorrect == Spec => []TypeOK
<1>1. IInv => TypeOK
  BY DEF IInv
<1> QED
  BY <1>1, Invariance, PTL

(* No order of calls, failures and members leaves a channel ownerless. *)
THEOREM AlwaysOwned == Spec => []NeverOwnerless
<1>1. IInv => NeverOwnerless
  <2> SUFFICES ASSUME IInv, NEW ch \in Channel, Exists(ch)
               PROVE  \E p \in Pubkey : IsOwner(ch, p)
    BY DEF NeverOwnerless
  <2>1. PICK k \in Key : journal[k].state # "none" /\ journal[k].channel = ch
    BY BridgeApart DEF IInv, RelayOK, Reserved, Exists
  <2>2. journal[k].owner \in Pubkey /\ journal[k].state \in State
    BY <2>1, BridgeApart DEF IInv, TypeOK, Row, JournalOK, RowsFilled
  <2>3. CASE journal[k].state \in {"creating", "created"}
    BY <2>1, <2>3, BridgeApart DEF IInv, RelayOK, Promotable
  <2>4. CASE journal[k].state \in {"handed_off", "completed"}
    BY <2>1, <2>2, <2>4, RankFacts DEF IInv, RelayOK, JournalNeverAhead
  <2> QED
    BY <2>1, <2>2, <2>3, <2>4 DEF State
<1> QED
  BY <1>1, Invariance, PTL

(* A channel is handed to one person, the owner in the journal. *)
THEOREM SingleOwner == Spec => []OneHumanOwner
<1>1. IInv => OneHumanOwner
  <2> SUFFICES ASSUME IInv, NEW ch \in Channel, NEW p \in Person, NEW q \in Person,
                      IsOwner(ch, p), IsOwner(ch, q)
               PROVE  p = q
    BY DEF OneHumanOwner
  <2>1. PICK k \in Key : journal[k].state # "none" /\ journal[k].channel = ch
    BY BridgeApart DEF IInv, RelayOK, Reserved, IsOwner
  <2> QED
    BY <2>1 DEF IInv, RelayOK, ToOwnerOnly
<1> QED
  BY <1>1, Invariance, PTL

(* What the journal says has happened has happened on the relay. *)
THEOREM JournalTruthful == Spec => []JournalNeverAhead
<1>1. IInv => JournalNeverAhead
  BY DEF IInv, RelayOK
<1> QED
  BY <1>1, Invariance, PTL

(* A promotion that may have to be repeated is one the relay will take. *)
THEOREM PromotionResumable == Spec => []Promotable
<1>1. IInv => Promotable
  BY DEF IInv, RelayOK
<1> QED
  BY <1>1, Invariance, PTL

(* Every caller gets the channel of the journal, handed over. *)
THEOREM ReturnsHandedOff == Spec => []ReturnedIsHandedOff
<1>1. IInv => ReturnedIsHandedOff
  <2> SUFFICES ASSUME IInv, NEW c \in Call, call[c].pc = "returned"
               PROVE  LET r == call[c].row IN
                      /\ r = journal[call[c].key] /\ r.state = "completed"
                      /\ IsOwner(r.channel, r.owner) /\ ~IsOwner(r.channel, Bridge)
    BY DEF ReturnedIsHandedOff, at
  <2> DEFINE r == call[c].row
             j == journal[call[c].key]
  <2>1. /\ call[c].key \in Key /\ r \in Row /\ j \in Row
        /\ r.state \in State /\ j.state \in State
    BY DEF IInv, TypeOK, CallState, Row
  <2>2. /\ r.state = "completed" /\ Rank[r.state] <= Rank[j.state]
        /\ r.channel = j.channel /\ r.owner = j.owner
    BY DEF IInv, CallsOK, Copies
  <2>3. j.state = "completed"
    BY <2>1, <2>2, RankOrder
  <2>4. r = j
    BY <2>1, <2>2, <2>3 DEF Row
  <2>5. IsOwner(j.channel, j.owner) /\ ~IsOwner(j.channel, Bridge)
    BY <2>1, <2>3, RankFacts DEF IInv, RelayOK, JournalNeverAhead
  <2> QED
    BY <2>2, <2>4, <2>5
<1> QED
  BY <1>1, Invariance, PTL

(* A key keeps its channel and owner; its handoff only moves forward. *)
THEOREM HandoffForward == Spec => JournalIsMonotone
<1> DEFINE Forward ==
      \A k \in Key :
        /\ Rank[journal'[k].state] >= Rank[journal[k].state]
        /\ journal[k].state # "none" =>
             /\ journal'[k].channel = journal[k].channel
             /\ journal'[k].owner = journal[k].owner
<1>1. ASSUME IInv, [Next]_vars PROVE Forward \/ UNCHANGED vars
  <2>1. \A k \in Key : Rank[journal[k].state] \in Nat
    BY <1>1, RankFacts DEF IInv, TypeOK, Row
  <2>2. ASSUME UNCHANGED journal PROVE Forward
    BY <2>1, <2>2
  <2>3. ASSUME NEW c \in Call, Reserve(c) PROVE Forward
    <3>1. CASE journal[call[c].key].state = "none"
      <4>1. PICK ch \in Channel, o \in Owner :
              journal' = [journal EXCEPT ![call[c].key] =
                [state |-> "creating", channel |-> ch, owner |-> o]]
        BY <2>3, <3>1 DEF Reserve
      <4>2. \A k \in Key : IF k = call[c].key THEN journal'[k].state = "creating"
                            ELSE journal'[k] = journal[k]
        BY <1>1, <4>1 DEF IInv, TypeOK
      <4> QED
        BY <2>1, <3>1, <4>2, RankFacts
    <3>2. CASE journal[call[c].key].state # "none"
      BY <2>2, <2>3, <3>2 DEF Reserve
    <3> QED
      BY <3>1, <3>2
  <2>4. ASSUME NEW c \in Call, Advance(c) PROVE Forward
    <3> DEFINE k == call[c].key
    <3>1. /\ journal' \in [Key -> Row] /\ \A l \in Key : l # k => journal'[l] = journal[l]
          /\ journal'[k].channel = journal[k].channel
          /\ journal'[k].owner = journal[k].owner
          /\ Rank[journal[k].state] <= Rank[journal'[k].state]
      BY <1>1, <2>4, AdvanceRow
    <3>2. \A l \in Key : Rank[journal'[l].state] \in Nat
      BY <3>1, RankFacts DEF Row
    <3> HIDE DEF k
    <3> QED
      BY <2>1, <3>1, <3>2
  <2> HIDE DEF Forward
  <2> QED
    BY <1>1, <2>2, <2>3, <2>4 DEF Next, Start, Publish, Create, Promote, AddMember, Demote, Fail
<1>2. IInv /\ [Next]_vars => [Forward]_vars
  BY <1>1
<1> QED
  BY <1>2, Invariance, PTL DEF Spec, JournalIsMonotone
-----------------------------------------------------------------------------
(* A handoff that cannot be finished: the relay has stored the demotion of *)
(* the bridge, no call knows that it did, and the relay takes a demotion   *)
(* from an owner only.                                                     *)
Stuck(k) ==
  /\ journal[k].state = "handed_off" /\ ~IsOwner(journal[k].channel, Bridge)
  /\ \A c \in Call :
       call[c].key = k => ~(at(c, "confirmed") /\ call[c].row.state = "handed_off")

StaysStuck == [][\A k \in Key : Stuck(k) => Stuck(k)']_vars

(* A call that told the relay nothing new about the bridge, and does not   *)
(* believe that it did.                                                    *)
LEMMA StuckKept ==
  ASSUME NEW k \in Key, Stuck(k), NEW c \in Call, journal'[k] = journal[k],
         role'[journal[k].channel][Bridge] # "owner",
         \A d \in Call : d # c => call'[d] = call[d],
         call'[c].key = k =>
           ~(call'[c].pc = "confirmed" /\ call'[c].row.state = "handed_off")
  PROVE  Stuck(k)'
BY DEF Stuck, IsOwner, at

LEMMA StuckCreate ==
  ASSUME IInv, NEW k \in Key, Stuck(k), NEW c \in Call, Create(c)
  PROVE  Stuck(k)'
<1> DEFINE ch == call[c].row.channel
<1>1. /\ call[c].pc = "publish" /\ call[c].row.state = "creating" /\ UNCHANGED journal
      /\ call' = [call EXCEPT ![c].pc = "confirmed"]
      /\ role' = IF Exists(ch) THEN role ELSE [role EXCEPT ![ch][Bridge] = "owner"]
  BY DEF Create, next, at, confirm
<1>2. ch \in Channel
  BY <1>1, AtWork
<1>3. journal[k].channel \in Channel /\ Exists(journal[k].channel)
      /\ ~IsOwner(journal[k].channel, Bridge)
  BY RankFacts DEF IInv, RelayOK, JournalNeverAhead, JournalOK, RowsFilled, Stuck
<1>4. role'[journal[k].channel] = role[journal[k].channel]
  BY <1>1, <1>2, <1>3 DEF IInv, TypeOK, Exists
<1>5. /\ call'[c].row.state = "creating"
      /\ \A d \in Call : d # c => call'[d] = call[d]
  BY <1>1 DEF IInv, TypeOK, CallState
<1> QED
  BY <1>1, <1>3, <1>4, <1>5, StuckKept DEF IsOwner

LEMMA StuckPromote ==
  ASSUME IInv, NEW k \in Key, Stuck(k), NEW c \in Call, Promote(c) \/ AddMember(c)
  PROVE  Stuck(k)'
<1> DEFINE ch == call[c].row.channel
<1>1. /\ call[c].pc \in {"publish", "confirmed"} /\ call[c].row.state = "created"
      /\ UNCHANGED journal
      /\ role[ch][Bridge] = "owner"
  BY DEF Promote, AddMember, next, at, IsOwner
<1>2. ch # journal[k].channel
  BY <1>1 DEF Stuck, IsOwner
<1>3. /\ \E p \in Pubkey, s \in {"member", "owner"} :
           role' = [role EXCEPT ![ch][p] = s]
      /\ \E rest \in SUBSET Guest :
           call' = [call EXCEPT ![c].pc = "confirmed", ![c].todo = rest]
  <2>1. call[c] \in CallState /\ call[c].todo \in SUBSET Guest
    BY DEF IInv, TypeOK, CallState
  <2>2. CASE Promote(c)
    <3>1. call[c].row.owner \in Pubkey
      BY <1>1, AtWork, BridgeApart
    <3> QED
      BY <2>1, <2>2, <3>1 DEF Promote
  <2>3. CASE AddMember(c)
    <3>1. PICK m \in call[c].todo : /\ role' = [role EXCEPT ![ch][m] = "member"]
                                    /\ call' = [call EXCEPT ![c].todo = @ \ {m}]
      BY <2>3 DEF AddMember
    <3>2. call' = [call EXCEPT ![c].pc = "confirmed", ![c].todo = call[c].todo \ {m}]
      BY <2>3, <2>1, <3>1 DEF AddMember, at, IInv, TypeOK, CallState
    <3> QED
      BY <2>1, <3>1, <3>2, BridgeApart
  <2> QED
    BY <2>2, <2>3
<1>4. role'[journal[k].channel] = role[journal[k].channel]
  BY <1>2, <1>3 DEF IInv, TypeOK, Stuck
<1>5. /\ call'[c].row.state = "created"
      /\ \A d \in Call : d # c => call'[d] = call[d]
  BY <1>1, <1>3 DEF IInv, TypeOK, CallState
<1> QED
  BY <1>1, <1>4, <1>5, StuckKept DEF Stuck, IsOwner

LEMMA StuckAdvance ==
  ASSUME IInv, NEW k \in Key, Stuck(k), NEW c \in Call, Advance(c)
  PROVE  Stuck(k)'
<1>1. /\ UNCHANGED role /\ call[c].pc = "confirmed"
      /\ \A l \in Key : l # call[c].key => journal'[l] = journal[l]
      /\ \/ journal[call[c].key].state = call[c].row.state
         \/ journal'[call[c].key] = journal[call[c].key]
  BY AdvanceRow
<1>2. journal'[k] = journal[k]
  BY <1>1 DEF Stuck, at
<1>3. call[c].row.state \in State /\ call[c].row.state # "none"
      /\ call[c].row.state # "completed"
  BY <1>1, AtWork
<1>4. /\ call'[c].pc \in {"publish", "returned"}
      /\ \A d \in Call : d # c => call'[d] = call[d]
  BY DEF IInv, TypeOK, CallState, Advance
<1> QED
  BY <1>1, <1>2, <1>4, StuckKept DEF Stuck, IsOwner

(* What run "stuck" shows once, for every instance: once the relay has     *)
(* stored a demotion whose confirmation is lost, no call of any caller,    *)
(* however often it is resumed, moves the handoff on (channel-handoff.ts   *)
(* publishes the demotion again and the relay refuses it).                 *)
THEOREM StuckForGood == Spec => StaysStuck
<1> DEFINE Stays == \A k \in Key : Stuck(k) => Stuck(k)'
<1>1. ASSUME IInv, [Next]_vars, NEW k \in Key, Stuck(k) PROVE Stuck(k)'
  <2>1. CASE UNCHANGED vars
    BY <1>1, <2>1 DEF vars, Stuck, IsOwner, at
  <2>2. ASSUME NEW c \in Call, NEW l \in Key, NEW members \in Asked, Start(c, l, members)
        PROVE  Stuck(k)'
    <3>1. /\ UNCHANGED <<journal, role>> /\ call'[c].pc # "confirmed"
          /\ \A d \in Call : d # c => call'[d] = call[d]
      BY <1>1, <2>2 DEF Start, IInv, TypeOK
    <3> QED
      BY <1>1, <3>1, StuckKept DEF Stuck, IsOwner
  <2>3. ASSUME NEW c \in Call, Reserve(c) PROVE Stuck(k)'
    <3>1. /\ UNCHANGED role /\ call'[c].pc # "confirmed"
          /\ \A d \in Call : d # c => call'[d] = call[d]
      BY <1>1, <2>3 DEF Reserve, IInv, TypeOK
    <3>2. journal'[k] = journal[k]
      BY <1>1, <2>3 DEF Reserve, Stuck, IInv, TypeOK
    <3> QED
      BY <1>1, <3>1, <3>2, StuckKept DEF Stuck, IsOwner
  <2>4. ASSUME NEW c \in Call, Demote(c) PROVE Stuck(k)'
    <3> DEFINE ch == call[c].row.channel
    <3>1. /\ role[ch][Bridge] = "owner" /\ UNCHANGED journal
          /\ role' = [role EXCEPT ![ch][Bridge] = "member"]
          /\ call' = [call EXCEPT ![c].pc = "confirmed"]
          /\ call[c].pc = "publish"
      BY <2>4 DEF Demote, next, at, confirm, IsOwner
    <3>2. ch = journal[call[c].key].channel
      BY <1>1, <3>1, AtWork
    <3>3. ch # journal[k].channel
      BY <1>1, <3>1 DEF Stuck, IsOwner
    <3>4. call[c].key # k
      BY <3>2, <3>3
    <3>5. role'[journal[k].channel] = role[journal[k].channel]
      BY <1>1, <3>1, <3>3 DEF IInv, TypeOK
    <3>6. call'[c].key = call[c].key /\ \A d \in Call : d # c => call'[d] = call[d]
      BY <1>1, <3>1 DEF IInv, TypeOK, CallState
    <3> QED
      BY <1>1, <3>1, <3>4, <3>5, <3>6, StuckKept DEF Stuck, IsOwner
  <2>5. ASSUME NEW c \in Call, Fail(c) PROVE Stuck(k)'
    <3>1. /\ UNCHANGED <<journal, role>> /\ call'[c].pc = "idle"
          /\ \A d \in Call : d # c => call'[d] = call[d]
      BY <1>1, <2>5 DEF Fail, IInv, TypeOK, CallState
    <3> QED
      BY <1>1, <3>1, StuckKept DEF Stuck, IsOwner
  <2> QED
    BY <1>1, <2>1, <2>2, <2>3, <2>4, <2>5, StuckCreate, StuckPromote, StuckAdvance
       DEF Next, Publish
<1>2. IInv /\ [Next]_vars => [Stays]_vars
  BY <1>1
<1> QED
  BY <1>2, Invariance, PTL DEF Spec, StaysStuck
=============================================================================
