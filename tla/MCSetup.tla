------------------------------- MODULE MCSetup -------------------------------
(* Instances of Setup for TLC: which peer is behind each connection slot, and
   which application keys it signs with. *)
EXTENDS Setup, TLC

CONSTANTS t1, t2, A, X, c1, c2

\* An allowlisted operator and a stranger whose application key is also its
\* transport key, with one connection each.
PeerOfTwo == (c1 :> t1) @@ (c2 :> t2)
KeysOneToOne == (t1 :> {A}) @@ (t2 :> {X})
AppPeerIdOneToOne == (A :> NoPeer) @@ (X :> t2)

\* The operator restarted with a new transport key: two transports, one key.
KeysRestart == (t1 :> {A}) @@ (t2 :> {A})
AppPeerIdRestart == (A :> NoPeer) @@ (X :> NoPeer)
=============================================================================
