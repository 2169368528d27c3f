---------------------------- MODULE MCReputation ----------------------------
(* Instances of Reputation for TLC. *)
EXTENDS Reputation

CONSTANTS p1, c1, c2

\* Two connections to one peer: peers do not share any state.
PeerOfOne == [c \in ConnIds |-> p1]

MCThreshold == -2
MCMinScore == -4
=============================================================================
