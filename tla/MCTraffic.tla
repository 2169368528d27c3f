------------------------------ MODULE MCTraffic ------------------------------
(* An instance of Traffic for TLC: two connections to an allowlisted operator
   and one to a stranger whose application key is also its transport key. *)
EXTENDS Traffic, TLC

CONSTANTS t1, t2, A, X, c1, c2, c3

PeerOfTraffic == (c1 :> t1) @@ (c2 :> t1) @@ (c3 :> t2)
KeysTraffic == (t1 :> {A}) @@ (t2 :> {X})
AppPeerIdTraffic == (A :> NoPeer) @@ (X :> t2)
=============================================================================
