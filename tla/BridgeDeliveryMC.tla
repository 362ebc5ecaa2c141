-------------------------- MODULE BridgeDeliveryMC --------------------------
(***************************************************************************)
(* Small instances of BridgeDelivery: two communities a and b; m1 is       *)
(* addressed from a to b and m2 is the reply to it, either from b or from  *)
(* a itself.                                                               *)
(***************************************************************************)
EXTENDS BridgeDelivery, TLC

CONSTANTS a, b, m1, m2

TwoEndpoints == {a, b}
TwoMessages  == {m1, m2}

(* m1: a -> b; its answer m2: b -> a. *)
AnswerOrigin == (m1 :> a) @@ (m2 :> b)
AnswerTarget == (m1 :> b) @@ (m2 :> a)

(* m1: a -> b; a follows up under its own message: m2: a -> b. *)
FollowUpOrigin == (m1 :> a) @@ (m2 :> a)
FollowUpTarget == (m1 :> b) @@ (m2 :> b)

Thread   == (m1 :> NoMessage) @@ (m2 :> m1)
NoThread == (m1 :> NoMessage) @@ (m2 :> NoMessage)
Posted   == (m1 :> 2) @@ (m2 :> 1)

(* What owners save: everything on, or b's side of the route switched off. *)
Choices ==
  {[sends |-> TRUE, receives |-> r, peers |-> p] :
     r \in BOOLEAN, p \in {TwoEndpoints, {}}}
=============================================================================
