------------------------------- MODULE Dialing -------------------------------
(***************************************************************************)
(* Dial sequences of a BYOS node.  Command::ConnectToPeer names a peer by  *)
(* its application key and gives several addresses; the node dials them    *)
(* one after the other, QUIC first, until a connection is established.     *)
(* DialManager remembers the addresses left (dial_queues) and which        *)
(* connection attempt belongs to which sequence (conn_to_dial).            *)
(*                                                                         *)
(* The swarm is external: Swarm::dial either refuses at once, because the  *)
(* connection limits deny it, and then reports no event, or starts an      *)
(* attempt that ends with exactly one event.                               *)
(***************************************************************************)
EXTENDS Integers, Sequences, FiniteSets

CONSTANTS
    Apps,        \* application public keys
    Addrs,       \* multiaddresses
    Quic,        \* those with a quic protocol in their stack
    Requests,    \* the address lists that ConnectToPeer commands carry
    MaxPending,  \* conn_limits: pending outgoing connections allowed
    MaxConn,     \* bound: number of connection attempts
    NoQueue, NoApp, NoAddr   \* None

ConnIds == 1 .. MaxConn

ASSUME DialingAssumption ==
    /\ Quic \subseteq Addrs
    /\ Requests \subseteq Seq(Addrs)
    /\ MaxPending \in Nat
    /\ MaxConn \in Nat
    /\ NoQueue \notin Seq(Addrs)
    /\ NoApp \notin Apps
    /\ NoAddr \notin Addrs

VARIABLES
    dial_queues,   \* DialManager::dial_queues
    conn_to_dial,  \* DialManager::conn_to_dial
    connect_to,    \* config.connect_to, as a set
    dialing,       \* swarm: the address of each attempt under way
    next_conn,     \* swarm: the next ConnectionId
    wanted,        \* history: the addresses of the current or last sequence, in dialing order
    tried,         \* history: those dialed so far
    outcome        \* history: how the current or last sequence stands

vars == <<dial_queues, conn_to_dial, connect_to, dialing, next_conn, wanted, tried, outcome>>

Outcomes == {"none", "dialing", "connected", "exhausted"}

-----------------------------------------------------------------------------
\* s has its QUIC addresses first.
QuicFirst(s) == \A i, j \in 1 .. Len(s) : i < j /\ s[j] \in Quic => s[i] \in Quic

\* addresses.sort_by_key(|addr| !quic), a stable sort: the results it may have
\* (there is one), as what the order of the standard library promises.
SortQuicLast(addresses) ==
    LET Index == 1 .. Len(addresses) IN
    {[i \in Index |-> addresses[p[i]]] : p \in
        {p \in [Index -> Index] : \A i, j \in Index : i < j =>
            \/ addresses[p[i]] \notin Quic /\ addresses[p[j]] \in Quic
            \/ (addresses[p[i]] \in Quic <=> addresses[p[j]] \in Quic) /\ p[i] < p[j]}}

SortQuicFirst(addresses) ==
    LET Index == 1 .. Len(addresses) IN
    {[i \in Index |-> addresses[p[i]]] : p \in
        {p \in [Index -> Index] : \A i, j \in Index : i < j =>
            \/ addresses[p[i]] \in Quic /\ addresses[p[j]] \notin Quic
            \/ (addresses[p[i]] \in Quic <=> addresses[p[j]] \in Quic) /\ p[i] < p[j]}}

\* ConnectionLimits: a dial is denied while too many attempts are under way.
\* The attempt ending in this step, if any, does not count.
Denied(ending) ==
    Cardinality({c \in ConnIds : dialing[c] # NoAddr} \ ending) >= MaxPending

\* P2P::dial_and_map: the attempt is entered in conn_to_dial (map) before it is
\* dialed, and stays there if the dial is denied.
dial_and_map(addr, a, map, ending) ==
    /\ next_conn \in ConnIds
    /\ next_conn' = next_conn + 1
    /\ conn_to_dial' = [map EXCEPT ![next_conn] = a]
    /\ dialing' = [c \in ConnIds |-> IF c = next_conn /\ ~Denied(ending) THEN addr
                                     ELSE IF c \in ending THEN NoAddr ELSE dialing[c]]

-----------------------------------------------------------------------------
\* DialManager::has_app_public_key.
has_no_queue_or_empty(a) == dial_queues[a] = NoQueue \/ dial_queues[a] = <<>>

has_no_queue(a) == dial_queues[a] = NoQueue

\* Command::ConnectToPeer of handle_command.  With no address, or while a
\* sequence for this key is under way, the command is dropped.
ConnectToPeer(a, addresses) ==
    /\ addresses # <<>>
    /\ has_no_queue(a)
    /\ \E queue \in SortQuicFirst(addresses) :
        /\ connect_to' = connect_to \cup {Head(queue)}
        /\ dial_queues' = [dial_queues EXCEPT ![a] = Tail(queue)]
        /\ dial_and_map(Head(queue), a, conn_to_dial, {})
        /\ wanted' = [wanted EXCEPT ![a] = queue]
        /\ tried' = [tried EXCEPT ![a] = <<Head(queue)>>]
    /\ outcome' = [outcome EXCEPT ![a] = "dialing"]

\* A dial of another part of the node (establish_connections, kademlia): its
\* events reach the same handlers.
OtherDial(addr) ==
    /\ ~Denied({})
    /\ next_conn \in ConnIds
    /\ next_conn' = next_conn + 1
    /\ dialing' = [dialing EXCEPT ![next_conn] = addr]
    /\ UNCHANGED <<dial_queues, conn_to_dial, connect_to, wanted, tried, outcome>>

\* handle_connection_event, ConnectionEstablished of an attempt of the sequence of a.
SequenceConnectsKeepingQueue(c, a) ==
    /\ conn_to_dial' = [conn_to_dial EXCEPT ![c] = NoApp]
    /\ outcome' = [outcome EXCEPT ![a] = "connected"]
    /\ UNCHANGED dial_queues

SequenceConnectsKeepingEntry(c, a) ==
    /\ dial_queues' = [dial_queues EXCEPT ![a] = NoQueue]
    /\ outcome' = [outcome EXCEPT ![a] = "connected"]
    /\ UNCHANGED conn_to_dial

SequenceConnects(c, a) ==
    /\ dial_queues' = [dial_queues EXCEPT ![a] = NoQueue]
    /\ conn_to_dial' = [conn_to_dial EXCEPT ![c] = NoApp]
    /\ outcome' = [outcome EXCEPT ![a] = "connected"]

ConnectionEstablished(c) ==
    /\ dialing[c] # NoAddr
    /\ dialing' = [dialing EXCEPT ![c] = NoAddr]
    /\ IF conn_to_dial[c] # NoApp THEN SequenceConnects(c, conn_to_dial[c])
       ELSE UNCHANGED <<dial_queues, conn_to_dial, outcome>>
    /\ UNCHANGED <<connect_to, next_conn, wanted, tried>>

\* handle_connection_event, OutgoingConnectionError: the next address is dialed.
TryNextAddressKeepingHead(c, a) ==
    /\ dial_queues[a] \notin {NoQueue, <<>>}
    /\ dial_and_map(Head(dial_queues[a]), a, [conn_to_dial EXCEPT ![c] = NoApp], {c})
    /\ tried' = [tried EXCEPT ![a] = Append(@, Head(dial_queues[a]))]
    /\ UNCHANGED <<dial_queues, connect_to, wanted, outcome>>

TryNextAddress(c, a) ==
    /\ dial_queues[a] \notin {NoQueue, <<>>}
    /\ dial_queues' = [dial_queues EXCEPT ![a] = Tail(@)]
    /\ dial_and_map(Head(dial_queues[a]), a, [conn_to_dial EXCEPT ![c] = NoApp], {c})
    /\ tried' = [tried EXCEPT ![a] = Append(@, Head(dial_queues[a]))]
    /\ UNCHANGED <<connect_to, wanted, outcome>>

\* handle_connection_event, OutgoingConnectionError: no address is left.
GiveUpEarly(c, a) ==
    /\ dial_queues' = [dial_queues EXCEPT ![a] = NoQueue]
    /\ conn_to_dial' = [conn_to_dial EXCEPT ![c] = NoApp]
    /\ dialing' = [dialing EXCEPT ![c] = NoAddr]
    /\ outcome' = [outcome EXCEPT ![a] = "exhausted"]
    /\ UNCHANGED <<connect_to, next_conn, wanted, tried>>

GiveUp(c, a) ==
    /\ dial_queues[a] \in {NoQueue, <<>>}
    /\ dial_queues' = [dial_queues EXCEPT ![a] = NoQueue]
    /\ conn_to_dial' = [conn_to_dial EXCEPT ![c] = NoApp]
    /\ dialing' = [dialing EXCEPT ![c] = NoAddr]
    /\ outcome' = [outcome EXCEPT ![a] = "exhausted"]
    /\ UNCHANGED <<connect_to, next_conn, wanted, tried>>

OutgoingConnectionError(c) ==
    /\ dialing[c] # NoAddr
    /\ IF conn_to_dial[c] # NoApp
       THEN TryNextAddress(c, conn_to_dial[c]) \/ GiveUp(c, conn_to_dial[c])
       ELSE /\ dialing' = [dialing EXCEPT ![c] = NoAddr]
            /\ UNCHANGED <<dial_queues, conn_to_dial, connect_to, next_conn, wanted, tried, outcome>>

-----------------------------------------------------------------------------
Init ==
    /\ dial_queues = [a \in Apps |-> NoQueue]
    /\ conn_to_dial = [c \in ConnIds |-> NoApp]
    /\ connect_to = {}
    /\ dialing = [c \in ConnIds |-> NoAddr]
    /\ next_conn = 1
    /\ wanted = [a \in Apps |-> <<>>]
    /\ tried = [a \in Apps |-> <<>>]
    /\ outcome = [a \in Apps |-> "none"]

Next ==
    \/ \E a \in Apps, addresses \in Requests : ConnectToPeer(a, addresses)
    \/ \E addr \in Addrs : OtherDial(addr)
    \/ \E c \in ConnIds : ConnectionEstablished(c) \/ OutgoingConnectionError(c)

Spec == Init /\ [][Next]_vars

\* Every attempt that the swarm started ends with one of the two events.
Fairness ==
    \A c \in ConnIds : WF_vars(ConnectionEstablished(c) \/ OutgoingConnectionError(c))

FairSpec == Spec /\ Fairness

-----------------------------------------------------------------------------
(* Properties. *)

\* Type invariant: queues hold addresses, attempts belong to application keys.
TypeOK ==
    /\ dial_queues \in [Apps -> Seq(Addrs) \cup {NoQueue}]
    /\ conn_to_dial \in [ConnIds -> Apps \cup {NoApp}]
    /\ connect_to \subseteq Addrs
    /\ dialing \in [ConnIds -> Addrs \cup {NoAddr}]
    /\ next_conn \in 1 .. MaxConn + 1
    /\ wanted \in [Apps -> Seq(Addrs)]
    /\ tried \in [Apps -> Seq(Addrs)]
    /\ outcome \in [Apps -> Outcomes]

\* A dial sequence has exactly one attempt mapped to it while it is under way and
\* none after it: two attempts of one sequence never race, and no entry of
\* conn_to_dial is left behind by a finished sequence (DialManager).
OneAttemptPerSequence ==
    /\ \A a \in Apps : dial_queues[a] # NoQueue <=> \E c \in ConnIds : conn_to_dial[c] = a
    /\ \A c, d \in ConnIds : conn_to_dial[c] # NoApp /\ conn_to_dial[c] = conn_to_dial[d] => c = d

\* No address of a ConnectToPeer command is skipped, repeated or reordered: the
\* addresses dialed and those left are the sorted list of the command.
NothingSkipped ==
    \A a \in Apps : dial_queues[a] # NoQueue => tried[a] \o dial_queues[a] = wanted[a]

\* A sequence is given up only after every address was dialed.
GivenUpOnlyWhenExhausted ==
    \A a \in Apps : outcome[a] = "exhausted" => tried[a] = wanted[a]

\* QUIC addresses are dialed before all others, also across fallbacks.
QuicDialedFirst ==
    \A a \in Apps : QuicFirst(tried[a])

\* An attempt that DialManager waits for is under way in the swarm, so that an
\* event for it will come; holds while the limits deny no dial.
AttemptsUnderWay ==
    MaxPending > MaxConn => \A c \in ConnIds : conn_to_dial[c] # NoApp => dialing[c] # NoAddr

\* README: "the dialer will fall back to TCP if QUIC fails (when both are
\* provided)".  Every dial sequence ends: with a connection, or with every
\* address dialed.  (The bound on attempts counts as an end.)
SequenceEnds ==
    \A a \in Apps :
        dial_queues[a] # NoQueue ~> dial_queues[a] = NoQueue \/ next_conn > MaxConn
=============================================================================
