---------------------------- MODULE PeerRegistry ----------------------------
(***************************************************************************)
(* What SetupBehaviour promises to the rest of the node: a directory of    *)
(* the peers that are online.  A peer arrives, announces its application   *)
(* key, and departs; the directory can be asked in both directions, and    *)
(* the two directions always answer alike.                                 *)
(***************************************************************************)
CONSTANTS Transports, Apps, NoKey, NoPeer

VARIABLES
    online,   \* transport ids with at least one connection
    key,      \* transport id -> application key, NoKey when not announced
    peer      \* application key -> transport id, NoPeer when not announced

vars == <<online, key, peer>>

\* The reverse of a directory in which no key occurs twice.
Reverse(k) ==
    [a \in Apps |-> IF \E t \in Transports : k[t] = a
                    THEN CHOOSE t \in Transports : k[t] = a
                    ELSE NoPeer]

Init ==
    /\ online = {}
    /\ key = [t \in Transports |-> NoKey]
    /\ peer = [a \in Apps |-> NoPeer]

Arrive(t) ==
    /\ t \notin online
    /\ online' = online \cup {t}
    /\ UNCHANGED <<key, peer>>

Announce(t, a) ==
    /\ t \in online
    /\ key' = [key EXCEPT ![t] = a]
    /\ peer' = Reverse(key')
    /\ UNCHANGED online

Depart(t) ==
    /\ t \in online
    /\ online' = online \ {t}
    /\ key' = [key EXCEPT ![t] = NoKey]
    /\ peer' = Reverse(key')

Next ==
    \E t \in Transports :
        \/ Arrive(t)
        \/ Depart(t)
        \/ \E a \in Apps : Announce(t, a)

Spec == Init /\ [][Next]_vars
=============================================================================
