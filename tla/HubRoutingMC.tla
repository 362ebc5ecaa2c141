---------------------------- MODULE HubRoutingMC ----------------------------
(***************************************************************************)
(* Small instances of HubRouting: the home community and one or two others.*)
(***************************************************************************)
EXTENDS HubRouting, TLC

CONSTANTS home, x, y, e1, e2, e3

Pair  == {home, x}
Three == {home, x, y}

(* An owner switches receiving off, or shuts out everybody but Home. *)
Everything == OpenToAll
Deaf       == [OpenToAll EXCEPT !.receives = FALSE]
Picky      == [OpenToAll EXCEPT !.peers = {home}]

RoutesChoice == {Everything, Deaf, Picky}
NoFilter     == {Everything}

AllMessages == [e \in Event |-> "message"]
ByHome      == [e \in Event |-> home]
ByX         == [e \in Event |-> x]
NoReply     == [e \in Event |-> NoEvent]

(* routes: home addresses x, and x opens a channel with y. *)
RoutesVerb == (e1 :> "message") @@ (e2 :> "open")
RoutesFrom == (e1 :> home) @@ (e2 :> x)
RoutesTo   == (e1 :> x) @@ (e2 :> y)

(* commands: Home opens and closes its channel with x, and addresses x. *)
CommandVerb == (e1 :> "open") @@ (e2 :> "close here") @@ (e3 :> "message")

(* off: y addresses x, which holds a direct channel with Home only. *)
OffFrom == (e1 :> y) @@ (e2 :> x)
OffTo   == (e1 :> x) @@ (e2 :> home)
=============================================================================
