----------------------------- MODULE MCEventLoop -----------------------------
(* An instance of EventLoop for TLC: two addresses to dial, and the shortest
   channels, so that they are full as often as possible. *)
EXTENDS EventLoop

CONSTANTS a1, a2

ConnectToTwo == <<a1, a2>>
=============================================================================
