---------------------------- MODULE BridgePromise ----------------------------
(***************************************************************************)
(* What the hub promises about a routed message, without jobs, handlers,   *)
(* attempts or clocks: it is posted at the destination at most once, never *)
(* before the message it replies to is visible there, it is reported as    *)
(* delivered only when it is posted, and a delivered or dropped message    *)
(* stays so.  BridgeDelivery implements this specification.                *)
(***************************************************************************)
CONSTANTS
  Message,
  NeedsPost   \* [Message -> SUBSET Message] whose post must be visible first

VARIABLES
  status,     \* [Message -> "absent", "pending", "delivered" or "dropped"]
  wall        \* [Message -> "nothing", "one post" or "several posts"]

promise == <<status, wall>>

Init ==
  /\ status = [m \in Message |-> "absent"]
  /\ wall = [m \in Message |-> "nothing"]

Accept(m) ==
  /\ status[m] = "absent"
  /\ status' = [status EXCEPT ![m] = "pending"]
  /\ UNCHANGED wall

(* A dropped message may still appear: the attempt that posts it can have  *)
(* been under way when another one gave it up.                             *)
Show(m) ==
  /\ status[m] # "absent"
  /\ wall[m] = "nothing"
  /\ \A p \in NeedsPost[m] : wall[p] = "one post"
  /\ wall' = [wall EXCEPT ![m] = "one post"]
  /\ UNCHANGED status

Confirm(m) ==
  /\ status[m] = "pending"
  /\ wall[m] = "one post"
  /\ status' = [status EXCEPT ![m] = "delivered"]
  /\ UNCHANGED wall

Drop(m) ==
  /\ status[m] = "pending"
  /\ status' = [status EXCEPT ![m] = "dropped"]
  /\ UNCHANGED wall

Next == \E m \in Message : Accept(m) \/ Show(m) \/ Confirm(m) \/ Drop(m)

Spec == Init /\ [][Next]_promise
=============================================================================
