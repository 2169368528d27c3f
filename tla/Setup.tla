-------------------------------- MODULE Setup --------------------------------
(***************************************************************************)
(* One node of strata-p2p in BYOS mode: the setup handshake that binds the *)
(* transport id of a connection to an application public key, the two maps *)
(* of SetupBehaviour, the allowlist enforcement of P2P::handle_setup_event *)
(* and the queries and commands that read the maps.                        *)
(*                                                                         *)
(* The node is one task: it takes one swarm event or one command at a time *)
(* and handles it completely.  What runs beside it are the connection      *)
(* tasks of libp2p: each has a SetupHandler, and a FIFO channel of handler *)
(* events to the swarm.  disconnect_peer_id only asks these tasks to close,*)
(* so a connection may still produce, and the node still handles, events   *)
(* after the node has decided to drop it.                                  *)
(*                                                                         *)
(* SetupBehaviour::events and SetupHandler::pending_events are vectors     *)
(* popped from the end, but each holds at most one event: libp2p polls the *)
(* behaviour and the handler after every event it gives them.              *)
(***************************************************************************)
EXTENDS Envelope, Sequences

CONSTANTS
    Transports,      \* transport ids (PeerId) of remote nodes
    Apps,            \* application public keys
    ConnIds,         \* connection slots; a slot is reused once it is idle
    PeerOf,          \* the remote transport id of each slot
    KeyHolders,      \* for each transport, the application keys its process signs with
    AppPeerId,       \* PublicKey::to_peer_id of each application key
    Allowlist,       \* P2P::app_allowlist
    Local,           \* our own transport id
    NoKey, NoPeer,   \* None
    Seconds,         \* values of clocks and dates
    EnvelopeMaxAge,  \* config.envelope_max_age, in milliseconds
    MaxClockSkew,    \* config.max_clock_skew, in milliseconds
    MaxEvents        \* bound: capacity of a connection's event channel

ASSUME SetupAssumption ==
    /\ PeerOf \in [ConnIds -> Transports]
    /\ KeyHolders \in [Transports -> SUBSET Apps]
    /\ AppPeerId \in [Apps -> Transports \cup {NoPeer}]
    /\ Allowlist \subseteq Apps
    /\ NoKey \notin Apps
    /\ NoPeer \notin Transports
    /\ Local \notin Transports
    /\ Seconds \subseteq Nat
    /\ EnvelopeMaxAge \in Nat
    /\ MaxClockSkew \in Nat
    /\ MaxEvents \in Nat \ {0}

VARIABLES
    phase,            \* "startup": in establish_connections; "listen": in listen
    conn,             \* state of each connection slot
    events,           \* handler events sent by a connection, not yet handled
    transport_ids,    \* SetupBehaviour::transport_ids (NoKey: no entry)
    app_public_keys,  \* SetupBehaviour::app_public_keys (NoPeer: no entry)
    verdict           \* history: what the node made of the handshake of a connection

vars == <<phase, conn, events, transport_ids, app_public_keys, verdict>>

(***************************************************************************)
(* "closing": the swarm has asked the connection task to close.            *)
(* "ended":   the task is over; its Closed event waits behind the handler  *)
(*            events it sent before.                                       *)
(***************************************************************************)
ConnStates == {"idle", "open", "closing", "ended"}

\* What is held against a connection.  "missed": a refusal that
\* establish_connections swallowed.
Verdicts == {"none", "refused", "missed"}

\* SetupHandlerEvent.  NegotiationFailed and ErrorDuringSetupHandshake, which the
\* node handles alike, are one event here.
AppKeyReceived(a) == [kind |-> "AppKeyReceived", app |-> a]
HandshakeFailed == [kind |-> "HandshakeFailed", app |-> NoKey]

SetupHandlerEvent == {AppKeyReceived(a) : a \in Apps} \cup {HandshakeFailed}

-----------------------------------------------------------------------------
(* The swarm, as P2P uses it. *)

ConnsOf(t) == {c \in ConnIds : PeerOf[c] = t}

\* Swarm::is_connected: true until the last ConnectionClosed is handled.
is_connected(t) == \E c \in ConnsOf(t) : conn[c] # "idle"

\* Swarm::disconnect_peer_id: starts closing every connection of t.
disconnect_peer_id(t) ==
    [c \in ConnIds |-> IF PeerOf[c] = t /\ conn[c] = "open" THEN "closing" ELSE conn[c]]

-----------------------------------------------------------------------------
(* SetupMessage and the check of an incoming one. *)

\* A signed setup message.  A process signs, with a key it holds, only messages
\* that name its own transport id (OutboundSetupUpgrade); to whom it sent them,
\* and when, is free.  A message with valid = FALSE fails verify().
SignedSetupMessage ==
    {m \in [app_public_key : Apps,
            local_transport_id : Transports,
            remote_transport_id : Transports \cup {Local},
            date : Seconds,
            valid : BOOLEAN] :
        m.valid => m.app_public_key \in KeyHolders[m.local_transport_id]}

\* The handler event that a setup message received from peer t produces.
ValidatedNoIdCheck(t, m, now) ==
    IF /\ m.valid
       /\ m.remote_transport_id = Local
       /\ SetupDateOk(now, m.date, EnvelopeMaxAge, MaxClockSkew)
    THEN AppKeyReceived(m.app_public_key)
    ELSE HandshakeFailed

Validated(t, m, now) ==
    IF /\ m.valid
       /\ m.remote_transport_id = Local
       /\ m.local_transport_id = t
       /\ SetupDateOk(now, m.date, EnvelopeMaxAge, MaxClockSkew)
    THEN AppKeyReceived(m.app_public_key)
    ELSE HandshakeFailed

-----------------------------------------------------------------------------
(* Connection tasks and their SetupHandler. *)

NotifyBehaviour(c, e) ==
    /\ conn[c] \in {"open", "closing"}
    /\ Len(events[c]) < MaxEvents
    /\ events' = [events EXCEPT ![c] = Append(@, e)]
    /\ UNCHANGED <<phase, conn, transport_ids, app_public_keys, verdict>>

\* The clock the handler reads is SystemTime, so any value is possible.
SetupOutcomes ==
    [t \in Transports |-> {Validated(t, m, now) : m \in SignedSetupMessage, now \in Seconds}]

FullyNegotiatedInbound(c) == \E e \in SetupOutcomes[PeerOf[c]] : NotifyBehaviour(c, e)

DialUpgradeError(c) == NotifyBehaviour(c, HandshakeFailed)

ListenUpgradeError(c) == NotifyBehaviour(c, HandshakeFailed)

\* The task of a connection ends: it obeys a close, or the remote hangs up, or
\* the idle timeout fires (keep_alive only delays the last one).
TaskEnds(c) ==
    /\ conn[c] \in {"open", "closing"}
    /\ conn' = [conn EXCEPT ![c] = "ended"]
    /\ UNCHANGED <<phase, events, transport_ids, app_public_keys, verdict>>

-----------------------------------------------------------------------------
(* Events of the swarm handled by the node. *)

ConnectionEstablished(c) ==
    /\ conn[c] = "idle"
    /\ conn' = [conn EXCEPT ![c] = "open"]
    /\ UNCHANGED <<phase, events, transport_ids, app_public_keys, verdict>>

\* SetupBehaviour::on_swarm_event for ConnectionClosed of c.
RemoveMappingsAlways(t, remaining) ==
    /\ transport_ids' = [transport_ids EXCEPT ![t] = NoKey]
    /\ app_public_keys' = IF transport_ids[t] = NoKey THEN app_public_keys
                          ELSE [app_public_keys EXCEPT ![transport_ids[t]] = NoPeer]

RemoveMappingsNever(t, remaining) == UNCHANGED <<transport_ids, app_public_keys>>

RemoveMappingsForward(t, remaining) ==
    /\ transport_ids' = IF remaining = {} THEN [transport_ids EXCEPT ![t] = NoKey]
                        ELSE transport_ids
    /\ UNCHANGED app_public_keys

RemoveMappings(t, remaining) ==
    IF remaining = {} /\ transport_ids[t] # NoKey
    THEN /\ transport_ids' = [transport_ids EXCEPT ![t] = NoKey]
         /\ app_public_keys' = [app_public_keys EXCEPT ![transport_ids[t]] = NoPeer]
    ELSE UNCHANGED <<transport_ids, app_public_keys>>

ConnectionClosed(c) ==
    LET t == PeerOf[c]
        remaining == {d \in ConnsOf(t) \ {c} : conn[d] # "idle"}
    IN  /\ conn[c] = "ended"
        /\ events[c] = <<>>
        /\ conn' = [conn EXCEPT ![c] = "idle"]
        /\ verdict' = [verdict EXCEPT ![c] = "none"]
        /\ RemoveMappings(t, remaining)
        /\ UNCHANGED <<phase, events>>

\* SetupBehaviour::on_connection_handler_event.
InsertMappings(t, e) ==
    IF e.kind = "AppKeyReceived"
    THEN /\ transport_ids' = [transport_ids EXCEPT ![t] = e.app]
         /\ app_public_keys' = [app_public_keys EXCEPT ![e.app] = t]
    ELSE UNCHANGED <<transport_ids, app_public_keys>>

Refuses(e) == e.kind # "AppKeyReceived" \/ e.app \notin Allowlist

\* A refusal stays on record until the connection is closed.
Judge(c, v) == verdict' = [verdict EXCEPT ![c] = IF @ = "refused" THEN @ ELSE v]

\* P2P::handle_setup_event.
HandleSetupEventKeysOnly(c, e) ==
    IF e.kind = "HandshakeFailed"
    THEN UNCHANGED conn /\ Judge(c, "refused")
    ELSE IF Refuses(e) THEN conn' = disconnect_peer_id(PeerOf[c]) /\ Judge(c, "refused")
         ELSE UNCHANGED conn /\ Judge(c, "none")

HandleSetupEvent(c, e) ==
    IF Refuses(e)
    THEN conn' = disconnect_peer_id(PeerOf[c]) /\ Judge(c, "refused")
    ELSE UNCHANGED conn /\ Judge(c, "none")

\* The `_ => {}` arm of the event loop in establish_connections.
IgnoreSetupEvent(c, e) ==
    /\ UNCHANGED conn
    /\ Judge(c, IF Refuses(e) THEN "missed" ELSE "none")

\* The behaviour updates its maps and queues a SetupBehaviourEvent, which the
\* swarm hands to the node before it polls any connection again.
HandlerEvent(c) ==
    /\ events[c] # <<>>
    /\ events' = [events EXCEPT ![c] = Tail(@)]
    /\ InsertMappings(PeerOf[c], Head(events[c]))
    /\ IF phase = "listen" THEN HandleSetupEvent(c, Head(events[c]))
       ELSE IgnoreSetupEvent(c, Head(events[c]))
    /\ UNCHANGED phase

\* A listening node drops a peer that it learns cannot speak its protocols.
DropUnsupported(t) ==
    /\ phase = "listen"
    /\ is_connected(t)
    /\ conn' = disconnect_peer_id(t)
    /\ verdict' = [c \in ConnIds |-> IF PeerOf[c] = t /\ conn[c] = "open"
                                     THEN "refused" ELSE verdict[c]]
    /\ UNCHANGED <<phase, events, transport_ids, app_public_keys>>

IdentifyReceived(t) == DropUnsupported(t)        \* the reported protocols lack one of ours
GossipsubNotSupported(t) == DropUnsupported(t)
OutboundFailure(t) == DropUnsupported(t)         \* UnsupportedProtocols

-----------------------------------------------------------------------------
(* The node itself. *)

\* establish_connections returns: everybody is connected, or the timeout fired.
StartListening ==
    /\ phase = "startup"
    /\ phase' = "listen"
    /\ UNCHANGED <<conn, events, transport_ids, app_public_keys, verdict>>

\* Command::DisconnectFromPeer of handle_command.
DisconnectFromPeer(a) ==
    /\ phase = "listen"
    /\ conn' = IF AppPeerId[a] # NoPeer /\ is_connected(AppPeerId[a])
               THEN disconnect_peer_id(AppPeerId[a]) ELSE conn
    /\ UNCHANGED <<phase, events, transport_ids, app_public_keys, verdict>>

\* Replies of handle_command to the IsConnected and GetConnectedPeers queries.
IsConnected(a) == app_public_keys[a] # NoPeer /\ is_connected(app_public_keys[a])

GetConnectedPeers == {transport_ids[t] : t \in {u \in Transports : is_connected(u)}} \ {NoKey}

-----------------------------------------------------------------------------
Init ==
    /\ phase = "startup"
    /\ conn = [c \in ConnIds |-> "idle"]
    /\ events = [c \in ConnIds |-> <<>>]
    /\ transport_ids = [t \in Transports |-> NoKey]
    /\ app_public_keys = [a \in Apps |-> NoPeer]
    /\ verdict = [c \in ConnIds |-> "none"]

Next ==
    \/ StartListening
    \/ \E c \in ConnIds :
          \/ FullyNegotiatedInbound(c)
          \/ DialUpgradeError(c)
          \/ ListenUpgradeError(c)
          \/ TaskEnds(c)
          \/ ConnectionEstablished(c)
          \/ ConnectionClosed(c)
          \/ HandlerEvent(c)
    \/ \E t \in Transports :
          \/ IdentifyReceived(t)
          \/ GossipsubNotSupported(t)
          \/ OutboundFailure(t)
    \/ \E a \in Apps : DisconnectFromPeer(a)

Spec == Init /\ [][Next]_vars

(***************************************************************************)
(* The node's task keeps taking events, and a connection task that was     *)
(* asked to close does so (libp2p closes the muxer, or drops it).          *)
(***************************************************************************)
Fairness ==
    /\ \A c \in ConnIds :
          /\ WF_vars(HandlerEvent(c))
          /\ WF_vars(ConnectionClosed(c))
          /\ WF_vars(TaskEnds(c) /\ conn[c] = "closing")

FairSpec == Spec /\ Fairness

-----------------------------------------------------------------------------
(* Properties. *)

\* Type invariant: a map entry is a key or a peer of the right kind, and every
\* queued handler event is one a SetupHandler can send.
TypeOK ==
    /\ phase \in {"startup", "listen"}
    /\ conn \in [ConnIds -> ConnStates]
    /\ events \in [ConnIds -> Seq(SetupHandlerEvent)]
    /\ transport_ids \in [Transports -> Apps \cup {NoKey}]
    /\ app_public_keys \in [Apps -> Transports \cup {NoPeer}]
    /\ verdict \in [ConnIds -> Verdicts]

\* SetupBehaviour::on_swarm_event leaves no entry of a peer behind: a transport
\* id with a key is connected, although keys of a connection that is already
\* closing are still inserted.
BoundPeersConnected ==
    \A t \in Transports : transport_ids[t] # NoKey => is_connected(t)

\* The handshake binds a key only to a transport whose process signs with it,
\* in both maps: a setup message signed for another transport id, replayed by
\* somebody it was sent to, binds nothing (SetupHandler::on_connection_event).
BindingsAuthentic ==
    /\ \A t \in Transports : transport_ids[t] # NoKey => transport_ids[t] \in KeyHolders[t]
    /\ \A a \in Apps : app_public_keys[a] # NoPeer => a \in KeyHolders[app_public_keys[a]]

OneKeyPerTransport ==
    \A t \in Transports : \A a, b \in KeyHolders[t] : a = b

OneTransportPerKey ==
    \A t, u \in Transports : KeyHolders[t] \cap KeyHolders[u] # {} => t = u

\* While every transport uses one application key, the reverse map never points
\* to a peer that is bound to another key or to none: a request addressed to a
\* key (handle_request_response_command) goes to a peer that announced it.
ReverseMapSound ==
    OneKeyPerTransport =>
        \A a \in Apps : app_public_keys[a] # NoPeer => transport_ids[app_public_keys[a]] = a

\* The "bimap-like solution" of SetupBehaviour is a bijection as long as keys and
\* transports correspond one to one.
MapsInverse ==
    OneKeyPerTransport /\ OneTransportPerKey =>
        \A t \in Transports, a \in Apps : transport_ids[t] = a <=> app_public_keys[a] = t

\* The queries IsConnected and GetConnectedPeers of handle_command, which read
\* different maps, agree as long as keys and transports correspond one to one.
QueriesAgree ==
    OneKeyPerTransport /\ OneTransportPerKey =>
        \A a \in Apps : IsConnected(a) <=> a \in GetConnectedPeers

\* A connection on which a listening node refused the handshake (error, no setup
\* protocol, key not in the allowlist) or missed a protocol is never open again,
\* whatever its peer announces later: handle_setup_event.
RefusedNeverOpen ==
    \A c \in ConnIds : verdict[c] = "refused" => conn[c] # "open"

\* An announced key is forgotten only with the last connection of its peer
\* (remaining_established == 0 in SetupBehaviour::on_swarm_event).
BindingLostOnlyAtLastClose ==
    [][\A t \in Transports :
          transport_ids[t] # NoKey /\ transport_ids'[t] = NoKey => ~is_connected(t)']_vars

\* A refused connection is eventually closed and cleaned up.
RefusedEventuallyClosed ==
    \A c \in ConnIds : verdict[c] = "refused" ~> conn[c] = "idle"

\* SetupBehaviour implements the directory of PeerRegistry while keys and
\* transports correspond one to one.
Registry == INSTANCE PeerRegistry WITH
    online <- {t \in Transports : is_connected(t)},
    key <- transport_ids,
    peer <- app_public_keys

ImplementsRegistry == Registry!Spec

-----------------------------------------------------------------------------
(* Statements of the documentation and the tests that the code does not meet. *)

\* README: the setup handshake will "enforce the allowlist before allowing
\* traffic".  A listening node has no open connection on which the peer's
\* handshake failed or announced a key outside the allowlist.
AllowlistEnforced ==
    phase = "listen" =>
        \A c \in ConnIds : verdict[c] \in {"refused", "missed"} => conn[c] # "open"

\* SetupBehaviour::get_transport_id_by_application_key returns None only if the
\* peer is not connected or the key exchange has not happened.
LookupComplete ==
    \A t \in Transports :
        transport_ids[t] # NoKey /\ is_connected(t) => app_public_keys[transport_ids[t]] # NoPeer
=============================================================================
