-------------------------- MODULE ChannelHandoffMC --------------------------
(***************************************************************************)
(* Small instances of ChannelHandoff.                                      *)
(***************************************************************************)
EXTENDS ChannelHandoff

CONSTANTS ann, bob, cat

(* A roster that changes between two calls, and members one of whom is     *)
(* also an owner.                                                          *)
Owners == {ann, bob}
Guests == {bob, cat}
=============================================================================
