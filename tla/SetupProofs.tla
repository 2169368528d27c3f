----------------------------- MODULE SetupProofs -----------------------------
(***************************************************************************)
(* Proofs about Setup, for every set of peers, keys and connections.       *)
(***************************************************************************)
EXTENDS Setup, TLAPS

\* The events a SetupHandler of a connection to t can send: the only keys in
\* them are keys that the process behind t signs with.
HonestEvents(t) ==
    {AppKeyReceived(a) : a \in KeyHolders[t]} \cup {HandshakeFailed}

\* What SetupHandler::on_connection_event makes of any setup message it receives
\* from t is an honest event: a key passes only with a valid signature over t.
LEMMA OutcomesHonest ==
    ASSUME NEW t \in Transports
    PROVE  SetupOutcomes[t] \subseteq HonestEvents(t)
<1> SUFFICES ASSUME NEW m \in SignedSetupMessage, NEW now \in Seconds
             PROVE  Validated(t, m, now) \in HonestEvents(t)
    BY DEF SetupOutcomes
<1>1. CASE m.valid /\ m.local_transport_id = t
    <2>1. m.app_public_key \in KeyHolders[t]
        BY <1>1 DEF SignedSetupMessage
    <2> QED BY <2>1 DEF Validated, HonestEvents
<1>2. CASE ~(m.valid /\ m.local_transport_id = t)
    BY <1>2 DEF Validated, HonestEvents
<1> QED BY <1>1, <1>2

\* Honest events are handler events.
LEMMA HonestAreEvents ==
    ASSUME NEW t \in Transports
    PROVE  HonestEvents(t) \subseteq SetupHandlerEvent
BY SetupAssumption DEF HonestEvents, SetupHandlerEvent

-----------------------------------------------------------------------------
\* Every step keeps the maps, the channels and the connection states well typed.
LEMMA TypeStep == TypeOK /\ [Next]_vars => TypeOK'
<1> SUFFICES ASSUME TypeOK, [Next]_vars PROVE TypeOK'
    OBVIOUS
<1> USE SetupAssumption
<1>1. ASSUME NEW c \in ConnIds, NEW e \in SetupHandlerEvent, NotifyBehaviour(c, e)
      PROVE  TypeOK'
    BY <1>1 DEF NotifyBehaviour, TypeOK
<1>2. CASE StartListening
    BY <1>2 DEF StartListening, TypeOK
<1>3. ASSUME NEW c \in ConnIds, FullyNegotiatedInbound(c) PROVE TypeOK'
    BY <1>1, <1>3, OutcomesHonest, HonestAreEvents DEF FullyNegotiatedInbound
<1>4. ASSUME NEW c \in ConnIds, DialUpgradeError(c) PROVE TypeOK'
    BY <1>1, <1>4 DEF DialUpgradeError, SetupHandlerEvent
<1>5. ASSUME NEW c \in ConnIds, ListenUpgradeError(c) PROVE TypeOK'
    BY <1>1, <1>5 DEF ListenUpgradeError, SetupHandlerEvent
<1>6. ASSUME NEW c \in ConnIds, TaskEnds(c) PROVE TypeOK'
    BY <1>6 DEF TaskEnds, TypeOK, ConnStates
<1>7. ASSUME NEW c \in ConnIds, ConnectionEstablished(c) PROVE TypeOK'
    BY <1>7 DEF ConnectionEstablished, TypeOK, ConnStates
<1>8. ASSUME NEW c \in ConnIds, ConnectionClosed(c) PROVE TypeOK'
    BY <1>8 DEF ConnectionClosed, RemoveMappings, TypeOK, ConnStates, Verdicts
<1>9. ASSUME NEW c \in ConnIds, HandlerEvent(c) PROVE TypeOK'
    <2> DEFINE e == Head(events[c])
    <2>1. e \in SetupHandlerEvent /\ Tail(events[c]) \in Seq(SetupHandlerEvent)
        BY <1>9 DEF HandlerEvent, TypeOK
    <2>2. e.kind = "AppKeyReceived" => e.app \in Apps
        BY <2>1 DEF SetupHandlerEvent, AppKeyReceived, HandshakeFailed
    <2>3. (phase \in {"startup", "listen"})'
          /\ (events \in [ConnIds -> Seq(SetupHandlerEvent)])'
        BY <1>9, <2>1 DEF HandlerEvent, TypeOK
    <2>4. (transport_ids \in [Transports -> Apps \cup {NoKey}])'
          /\ (app_public_keys \in [Apps -> Transports \cup {NoPeer}])'
        BY <1>9, <2>2 DEF HandlerEvent, InsertMappings, TypeOK
    <2>5. \A v \in Verdicts : Judge(c, v) => (verdict \in [ConnIds -> Verdicts])'
        BY DEF Judge, TypeOK, Verdicts
    <2>6. disconnect_peer_id(PeerOf[c]) \in [ConnIds -> ConnStates]
        BY DEF disconnect_peer_id, TypeOK, ConnStates
    <2>7. (conn \in [ConnIds -> ConnStates])' /\ (verdict \in [ConnIds -> Verdicts])'
        <3>1. CASE Refuses(e)
            BY <1>9, <2>5, <2>6, <3>1
            DEF HandlerEvent, HandleSetupEvent, IgnoreSetupEvent, Verdicts, TypeOK
        <3>2. CASE ~Refuses(e)
            BY <1>9, <2>5, <3>2
            DEF HandlerEvent, HandleSetupEvent, IgnoreSetupEvent, Verdicts, TypeOK
        <3> QED BY <3>1, <3>2
    <2> QED BY <2>3, <2>4, <2>7 DEF TypeOK
<1>10. ASSUME NEW t \in Transports, DropUnsupported(t) PROVE TypeOK'
    BY <1>10 DEF DropUnsupported, disconnect_peer_id, TypeOK, ConnStates, Verdicts
<1>11. ASSUME NEW a \in Apps, DisconnectFromPeer(a) PROVE TypeOK'
    BY <1>11 DEF DisconnectFromPeer, disconnect_peer_id, TypeOK, ConnStates
<1>12. CASE UNCHANGED vars
    BY <1>12 DEF vars, TypeOK
<1> QED
    BY <1>2, <1>3, <1>4, <1>5, <1>6, <1>7, <1>8, <1>9, <1>10, <1>11, <1>12
    DEF Next, IdentifyReceived, GossipsubNotSupported, OutboundFailure

\* The variables of the setup model are always well typed.
THEOREM TypeCorrect == Spec => []TypeOK
<1>1. Init => TypeOK
    BY SetupAssumption DEF Init, TypeOK, ConnStates, Verdicts
<1> QED BY <1>1, TypeStep, PTL DEF Spec

-----------------------------------------------------------------------------
(* Connections and what is known about them. *)

\* A slot without connection has no events under way and no verdict: the Closed
\* event of a connection is behind all of its handler events.
IdleIsClean ==
    \A c \in ConnIds : conn[c] = "idle" => events[c] = <<>> /\ verdict[c] = "none"

ConnInv == TypeOK /\ IdleIsClean /\ RefusedNeverOpen /\ BoundPeersConnected

\* disconnect_peer_id opens nothing and drops nothing at once.
LEMMA DisconnectFacts ==
    ASSUME TypeOK, NEW t, NEW c \in ConnIds
    PROVE  /\ disconnect_peer_id(t)[c] = "idle" <=> conn[c] = "idle"
           /\ disconnect_peer_id(t)[c] = "open" => conn[c] = "open"
           /\ PeerOf[c] = t => disconnect_peer_id(t)[c] # "open"
BY DEF disconnect_peer_id, TypeOK, ConnStates

\* Every step keeps the bookkeeping of connections.
LEMMA ConnStep == ConnInv /\ [Next]_vars => ConnInv'
<1> SUFFICES ASSUME ConnInv, [Next]_vars
             PROVE  IdleIsClean' /\ RefusedNeverOpen' /\ BoundPeersConnected'
    BY TypeStep DEF ConnInv
<1> USE SetupAssumption DEF ConnInv
<1>1. ASSUME NEW c \in ConnIds, NEW e, NotifyBehaviour(c, e)
      PROVE  IdleIsClean' /\ RefusedNeverOpen' /\ BoundPeersConnected'
    BY <1>1 DEF NotifyBehaviour, TypeOK, IdleIsClean, RefusedNeverOpen, BoundPeersConnected,
                is_connected, ConnsOf
<1>2. CASE StartListening
    BY <1>2 DEF StartListening, IdleIsClean, RefusedNeverOpen, BoundPeersConnected,
                is_connected, ConnsOf
<1>3. ASSUME NEW c \in ConnIds,
             FullyNegotiatedInbound(c) \/ DialUpgradeError(c) \/ ListenUpgradeError(c)
      PROVE  IdleIsClean' /\ RefusedNeverOpen' /\ BoundPeersConnected'
    BY <1>1, <1>3 DEF FullyNegotiatedInbound, DialUpgradeError, ListenUpgradeError
<1>6. ASSUME NEW c \in ConnIds, TaskEnds(c)
      PROVE  IdleIsClean' /\ RefusedNeverOpen' /\ BoundPeersConnected'
    BY <1>6 DEF TaskEnds, TypeOK, IdleIsClean, RefusedNeverOpen, BoundPeersConnected,
                is_connected, ConnsOf
<1>7. ASSUME NEW c \in ConnIds, ConnectionEstablished(c)
      PROVE  IdleIsClean' /\ RefusedNeverOpen' /\ BoundPeersConnected'
    BY <1>7 DEF ConnectionEstablished, TypeOK, IdleIsClean, RefusedNeverOpen,
                BoundPeersConnected, is_connected, ConnsOf
<1>8. ASSUME NEW c \in ConnIds, ConnectionClosed(c)
      PROVE  IdleIsClean' /\ RefusedNeverOpen' /\ BoundPeersConnected'
    <2>1. IdleIsClean' /\ RefusedNeverOpen'
        BY <1>8 DEF ConnectionClosed, TypeOK, IdleIsClean, RefusedNeverOpen
    <2>2. BoundPeersConnected'
        <3> DEFINE t == PeerOf[c]
                   remaining == {d \in ConnsOf(t) \ {c} : conn[d] # "idle"}
        <3>1. RemoveMappings(t, remaining) /\ conn' = [conn EXCEPT ![c] = "idle"]
            BY <1>8 DEF ConnectionClosed
        <3>2. \A d \in ConnIds : d # c => conn'[d] = conn[d]
            BY <3>1 DEF TypeOK
        <3> SUFFICES ASSUME NEW u \in Transports, transport_ids'[u] # NoKey
                     PROVE  is_connected(u)'
            BY DEF BoundPeersConnected
        <3>3. transport_ids[u] # NoKey /\ (u = t => remaining # {})
            BY <3>1 DEF RemoveMappings, TypeOK
        <3>4. CASE u = t
            BY <3>2, <3>3, <3>4 DEF is_connected, ConnsOf
        <3>5. CASE u # t
            BY <3>2, <3>3, <3>5 DEF BoundPeersConnected, is_connected, ConnsOf
        <3> QED BY <3>4, <3>5
    <2> QED BY <2>1, <2>2
<1>9. ASSUME NEW c \in ConnIds, HandlerEvent(c)
      PROVE  IdleIsClean' /\ RefusedNeverOpen' /\ BoundPeersConnected'
    <2> DEFINE e == Head(events[c])
    <2>1. conn[c] # "idle"
        BY <1>9 DEF HandlerEvent, IdleIsClean
    <2>2. \A d \in ConnIds : (conn[d] = "idle")' <=> conn[d] = "idle"
        BY <1>9, DisconnectFacts DEF HandlerEvent, HandleSetupEvent, IgnoreSetupEvent
    <2>3. \A d \in ConnIds : d # c => events'[d] = events[d] /\ verdict'[d] = verdict[d]
        BY <1>9 DEF HandlerEvent, HandleSetupEvent, IgnoreSetupEvent, Judge, TypeOK
    <2>4. IdleIsClean'
        BY <2>1, <2>2, <2>3 DEF IdleIsClean
    <2>5. \A d \in ConnIds : (conn[d] = "open")' => conn[d] = "open"
        BY <1>9, DisconnectFacts DEF HandlerEvent, HandleSetupEvent, IgnoreSetupEvent
    <2>6. verdict'[c] = "refused" => verdict[c] = "refused" \/ conn'[c] # "open"
        <3>1. \A v : Judge(c, v) /\ verdict'[c] = "refused" => verdict[c] = "refused" \/ v = "refused"
            BY DEF Judge, TypeOK
        <3>2. CASE Refuses(e) /\ phase = "listen"
            BY <1>9, <3>2, DisconnectFacts DEF HandlerEvent, HandleSetupEvent
        <3>3. CASE Refuses(e) /\ phase # "listen"
            BY <1>9, <3>1, <3>3 DEF HandlerEvent, IgnoreSetupEvent
        <3>4. CASE ~Refuses(e)
            BY <1>9, <3>1, <3>4 DEF HandlerEvent, HandleSetupEvent, IgnoreSetupEvent
        <3> QED BY <3>2, <3>3, <3>4
    <2>7. RefusedNeverOpen'
        BY <2>3, <2>5, <2>6 DEF RefusedNeverOpen
    <2>8. \A t \in Transports : is_connected(t) => is_connected(t)'
        BY <2>2 DEF is_connected, ConnsOf
    <2>9. is_connected(PeerOf[c])
        BY <2>1 DEF is_connected, ConnsOf
    <2>10. \A t \in Transports : t # PeerOf[c] => transport_ids'[t] = transport_ids[t]
        BY <1>9 DEF HandlerEvent, InsertMappings, TypeOK
    <2>11. BoundPeersConnected'
        BY <2>8, <2>9, <2>10 DEF BoundPeersConnected
    <2> QED BY <2>4, <2>7, <2>11
<1>10. ASSUME NEW t \in Transports, DropUnsupported(t)
       PROVE  IdleIsClean' /\ RefusedNeverOpen' /\ BoundPeersConnected'
    BY <1>10 DEF DropUnsupported, disconnect_peer_id, TypeOK, ConnStates, IdleIsClean,
                 RefusedNeverOpen, BoundPeersConnected, is_connected, ConnsOf
<1>11. ASSUME NEW a \in Apps, DisconnectFromPeer(a)
       PROVE  IdleIsClean' /\ RefusedNeverOpen' /\ BoundPeersConnected'
    BY <1>11 DEF DisconnectFromPeer, disconnect_peer_id, TypeOK, ConnStates, IdleIsClean,
                 RefusedNeverOpen, BoundPeersConnected, is_connected, ConnsOf
<1>12. CASE UNCHANGED vars
    BY <1>12 DEF vars, IdleIsClean, RefusedNeverOpen, BoundPeersConnected, is_connected, ConnsOf
<1> QED
    BY <1>2, <1>3, <1>6, <1>7, <1>8, <1>9, <1>10, <1>11, <1>12
    DEF Next, IdentifyReceived, GossipsubNotSupported, OutboundFailure

LEMMA ConnInvariant == Spec => []ConnInv
<1>1. Init => ConnInv
    BY SetupAssumption DEF Init, ConnInv, TypeOK, ConnStates, Verdicts, IdleIsClean,
       RefusedNeverOpen, BoundPeersConnected, is_connected, ConnsOf
<1> QED BY <1>1, ConnStep, PTL DEF Spec

\* A transport id that has a key in SetupBehaviour is connected: on_swarm_event
\* forgets a peer with its last connection, and no late handler event revives it.
THEOREM MappingsFollowConnections == Spec => []BoundPeersConnected
BY ConnInvariant, PTL DEF ConnInv

\* A connection refused by handle_setup_event is never open again.
THEOREM RefusalIsFinal == Spec => []RefusedNeverOpen
BY ConnInvariant, PTL DEF ConnInv

-----------------------------------------------------------------------------
(* The allowlist. *)

\* A node that listens, and on whose connections establish_connections has
\* swallowed no refusal.
CleanStart == phase = "listen" /\ \A c \in ConnIds : verdict[c] # "missed"

\* A listening node misses no refusal.
LEMMA CleanStartStep == TypeOK /\ CleanStart /\ [Next]_vars => CleanStart'
<1> SUFFICES ASSUME TypeOK, CleanStart, [Next]_vars PROVE CleanStart'
    OBVIOUS
<1> USE DEF CleanStart
<1>1. CASE UNCHANGED <<phase, verdict>>
    BY <1>1
<1>2. ASSUME NEW c \in ConnIds, ConnectionClosed(c) PROVE CleanStart'
    BY <1>2 DEF ConnectionClosed, TypeOK
<1>3. ASSUME NEW c \in ConnIds, HandlerEvent(c) PROVE CleanStart'
    <2>1. UNCHANGED phase /\ HandleSetupEvent(c, Head(events[c]))
        BY <1>3 DEF HandlerEvent
    <2>2. Judge(c, "refused") \/ Judge(c, "none")
        BY <2>1 DEF HandleSetupEvent
    <2> QED BY <2>1, <2>2 DEF Judge, TypeOK
<1>4. ASSUME NEW t \in Transports, DropUnsupported(t) PROVE CleanStart'
    BY <1>4 DEF DropUnsupported
<1>5. ASSUME NEW c \in ConnIds,
             FullyNegotiatedInbound(c) \/ DialUpgradeError(c) \/ ListenUpgradeError(c)
                \/ TaskEnds(c) \/ ConnectionEstablished(c)
      PROVE  UNCHANGED <<phase, verdict>>
    BY <1>5 DEF FullyNegotiatedInbound, DialUpgradeError, ListenUpgradeError, NotifyBehaviour,
                TaskEnds, ConnectionEstablished
<1>6. ASSUME NEW a \in Apps, DisconnectFromPeer(a) PROVE UNCHANGED <<phase, verdict>>
    BY <1>6 DEF DisconnectFromPeer
<1> QED
    BY <1>1, <1>2, <1>3, <1>4, <1>5, <1>6
    DEF Next, vars, StartListening, IdentifyReceived, GossipsubNotSupported, OutboundFailure

\* The event loop of establish_connections is the only place where a refusal gets
\* lost: a node that starts to listen without one enforces its allowlist for ever,
\* against every connection, old or new, and every order of events.
THEOREM AllowlistEnforcedAfterCleanStart == Spec => [](CleanStart => []AllowlistEnforced)
<1>1. ConnInv /\ CleanStart => AllowlistEnforced
    BY DEF ConnInv, CleanStart, RefusedNeverOpen, AllowlistEnforced
<1>2. ConnInv => TypeOK
    BY DEF ConnInv
<1> QED BY <1>1, <1>2, ConnInvariant, CleanStartStep, PTL DEF Spec

-----------------------------------------------------------------------------
(* Keys: which key is bound to which peer. *)

\* Events under way carry only keys that the peer behind the connection signs with.
QueuesHonest ==
    \A c \in ConnIds : events[c] \in Seq(HonestEvents(PeerOf[c]))

KeyInv == TypeOK /\ QueuesHonest /\ BindingsAuthentic /\ ReverseMapSound /\ MapsInverse

\* A step that touches neither the channels nor the maps preserves KeyInv.
LEMMA KeyUnchanged ==
    ASSUME KeyInv, TypeOK', UNCHANGED <<events, transport_ids, app_public_keys>>
    PROVE  KeyInv'
BY DEF KeyInv, QueuesHonest, BindingsAuthentic, ReverseMapSound, MapsInverse

\* SetupHandler only sends honest events.
LEMMA KeyNotify ==
    ASSUME KeyInv, TypeOK', NEW c \in ConnIds, NEW e \in HonestEvents(PeerOf[c]),
           NotifyBehaviour(c, e)
    PROVE  KeyInv'
<1>1. QueuesHonest'
    <2>1. \A d \in ConnIds : events'[d] = IF d = c THEN Append(events[c], e) ELSE events[d]
        BY DEF NotifyBehaviour, KeyInv, TypeOK
    <2>2. Append(events[c], e) \in Seq(HonestEvents(PeerOf[c]))
        BY DEF KeyInv, QueuesHonest
    <2> QED BY <2>1, <2>2 DEF KeyInv, QueuesHonest
<1>2. BindingsAuthentic' /\ ReverseMapSound' /\ MapsInverse'
    BY DEF NotifyBehaviour, KeyInv, BindingsAuthentic, ReverseMapSound, MapsInverse
<1> QED BY <1>1, <1>2 DEF KeyInv

\* on_swarm_event removes a binding in both directions.
LEMMA KeyRemove ==
    ASSUME KeyInv, TypeOK', NEW t \in Transports, NEW remaining,
           RemoveMappings(t, remaining), UNCHANGED events
    PROVE  KeyInv'
<1> USE SetupAssumption
<1>1. CASE UNCHANGED <<transport_ids, app_public_keys>>
    BY <1>1, KeyUnchanged
<1>2. CASE ~UNCHANGED <<transport_ids, app_public_keys>>
    <2> DEFINE b == transport_ids[t]
    <2>1. /\ b \in Apps
          /\ transport_ids' = [transport_ids EXCEPT ![t] = NoKey]
          /\ app_public_keys' = [app_public_keys EXCEPT ![b] = NoPeer]
        BY <1>2 DEF RemoveMappings, KeyInv, TypeOK
    <2>2. QueuesHonest'
        BY DEF KeyInv, QueuesHonest
    <2>3. BindingsAuthentic'
        BY <2>1 DEF KeyInv, BindingsAuthentic, TypeOK
    <2>4. ReverseMapSound'
        BY <2>1 DEF KeyInv, ReverseMapSound, TypeOK
    <2>5. MapsInverse'
        BY <2>1 DEF KeyInv, MapsInverse, TypeOK
    <2> QED BY <2>2, <2>3, <2>4, <2>5 DEF KeyInv
<1> QED BY <1>1, <1>2

\* on_connection_handler_event inserts a binding in both directions.
LEMMA KeyInsert ==
    ASSUME KeyInv, TypeOK', NEW c \in ConnIds, events[c] # <<>>,
           events' = [events EXCEPT ![c] = Tail(@)],
           InsertMappings(PeerOf[c], Head(events[c]))
    PROVE  KeyInv'
<1> USE SetupAssumption
<1> DEFINE t == PeerOf[c]
           e == Head(events[c])
<1>1. e \in HonestEvents(t) /\ Tail(events[c]) \in Seq(HonestEvents(t))
    BY DEF KeyInv, QueuesHonest
<1>2. QueuesHonest'
    BY <1>1 DEF KeyInv, QueuesHonest, TypeOK
<1>3. CASE e.kind # "AppKeyReceived"
    BY <1>2, <1>3 DEF InsertMappings, KeyInv, BindingsAuthentic, ReverseMapSound, MapsInverse
<1>4. CASE e.kind = "AppKeyReceived"
    <2>1. /\ e.app \in KeyHolders[t]
          /\ e.app \in Apps
          /\ t \in Transports
        BY <1>1, <1>4
        DEF HonestEvents, AppKeyReceived, HandshakeFailed
    <2>2. /\ transport_ids' = [transport_ids EXCEPT ![t] = e.app]
          /\ app_public_keys' = [app_public_keys EXCEPT ![e.app] = t]
        BY <1>4 DEF InsertMappings
    <2>3. BindingsAuthentic'
        BY <2>1, <2>2 DEF KeyInv, BindingsAuthentic, TypeOK
    <2>4. ReverseMapSound'
        BY <2>1, <2>2 DEF KeyInv, BindingsAuthentic, ReverseMapSound, OneKeyPerTransport, TypeOK
    <2>5. MapsInverse'
        <3> SUFFICES ASSUME OneKeyPerTransport, OneTransportPerKey,
                            NEW u \in Transports, NEW b \in Apps
                     PROVE  transport_ids'[u] = b <=> app_public_keys'[b] = u
            BY DEF MapsInverse
        <3>1. transport_ids[u] = b <=> app_public_keys[b] = u
            BY DEF KeyInv, MapsInverse
        <3>2. /\ transport_ids'[u] = IF u = t THEN e.app ELSE transport_ids[u]
              /\ app_public_keys'[b] = IF b = e.app THEN t ELSE app_public_keys[b]
            BY <2>1, <2>2 DEF KeyInv, TypeOK
        <3>3. CASE u = t /\ b # e.app
            <4>1. b \notin KeyHolders[t]
                BY <2>1, <3>3 DEF OneKeyPerTransport
            <4>2. b # NoKey /\ t # NoPeer
                BY <2>1
            <4> QED BY <2>1, <3>1, <3>2, <3>3, <4>1, <4>2 DEF KeyInv, BindingsAuthentic
        <3>4. CASE u # t /\ b = e.app
            <4>1. b \notin KeyHolders[u]
                BY <2>1, <3>4 DEF OneTransportPerKey
            <4>2. b # NoKey /\ u # NoPeer
                BY <2>1
            <4> QED BY <2>1, <3>1, <3>2, <3>4, <4>1, <4>2 DEF KeyInv, BindingsAuthentic
        <3> QED BY <3>1, <3>2, <3>3, <3>4
    <2> QED BY <1>2, <2>3, <2>4, <2>5 DEF KeyInv
<1> QED BY <1>3, <1>4

\* Every step keeps the bindings authentic and the two maps consistent.
LEMMA KeyStep == KeyInv /\ [Next]_vars => KeyInv'
<1> SUFFICES ASSUME KeyInv, [Next]_vars PROVE KeyInv'
    OBVIOUS
<1> USE SetupAssumption
<1>0. TypeOK'
    BY TypeStep DEF KeyInv
<1>1. CASE UNCHANGED vars \/ StartListening
    BY <1>0, <1>1, KeyUnchanged DEF vars, StartListening
<1>2. ASSUME NEW c \in ConnIds, FullyNegotiatedInbound(c) PROVE KeyInv'
    <2>1. PICK e \in SetupOutcomes[PeerOf[c]] : NotifyBehaviour(c, e)
        BY <1>2 DEF FullyNegotiatedInbound
    <2>2. e \in HonestEvents(PeerOf[c])
        BY OutcomesHonest
    <2> QED BY <1>0, <2>1, <2>2, KeyNotify
<1>3. ASSUME NEW c \in ConnIds, DialUpgradeError(c) \/ ListenUpgradeError(c) PROVE KeyInv'
    <2>1. NotifyBehaviour(c, HandshakeFailed)
        BY <1>3 DEF DialUpgradeError, ListenUpgradeError
    <2>2. HandshakeFailed \in HonestEvents(PeerOf[c])
        BY DEF HonestEvents
    <2> QED BY <1>0, <2>1, <2>2, KeyNotify
<1>4. ASSUME NEW c \in ConnIds, TaskEnds(c) \/ ConnectionEstablished(c) PROVE KeyInv'
    BY <1>0, <1>4, KeyUnchanged DEF TaskEnds, ConnectionEstablished
<1>5. ASSUME NEW c \in ConnIds, ConnectionClosed(c) PROVE KeyInv'
    <2>1. PICK remaining : RemoveMappings(PeerOf[c], remaining)
        BY <1>5 DEF ConnectionClosed
    <2>2. PeerOf[c] \in Transports /\ UNCHANGED events
        BY <1>5 DEF ConnectionClosed
    <2> QED BY <1>0, <2>1, <2>2, KeyRemove
<1>6. ASSUME NEW c \in ConnIds, HandlerEvent(c) PROVE KeyInv'
    BY <1>0, <1>6, KeyInsert DEF HandlerEvent
<1>7. ASSUME NEW t \in Transports, DropUnsupported(t) PROVE KeyInv'
    BY <1>0, <1>7, KeyUnchanged DEF DropUnsupported
<1>8. ASSUME NEW a \in Apps, DisconnectFromPeer(a) PROVE KeyInv'
    BY <1>0, <1>8, KeyUnchanged DEF DisconnectFromPeer
<1> QED
    BY <1>1, <1>2, <1>3, <1>4, <1>5, <1>6, <1>7, <1>8
    DEF Next, IdentifyReceived, GossipsubNotSupported, OutboundFailure

LEMMA KeyInvariant == Spec => []KeyInv
<1>1. Init => KeyInv
    <2>1. Init => TypeOK
        BY SetupAssumption DEF Init, TypeOK, ConnStates, Verdicts
    <2>2. Init => QueuesHonest
        BY DEF Init, QueuesHonest
    <2>3. Init => BindingsAuthentic /\ ReverseMapSound /\ MapsInverse
        BY SetupAssumption DEF Init, BindingsAuthentic, ReverseMapSound, MapsInverse
    <2> QED BY <2>1, <2>2, <2>3 DEF KeyInv
<1> QED BY <1>1, KeyStep, PTL DEF Spec

\* The handshake binds application keys only to transports whose process signs
\* with them, whatever messages are resent, delayed or made up.
THEOREM HandshakeAuthentic == Spec => []BindingsAuthentic
BY KeyInvariant, PTL DEF KeyInv

\* With one application key per transport, the reverse map of SetupBehaviour
\* leads only to peers bound to that very key.
THEOREM ReverseLookupSound == Spec => []ReverseMapSound
BY KeyInvariant, PTL DEF KeyInv

\* With keys and transports in one-to-one correspondence, the two maps of
\* SetupBehaviour are inverse to each other.
THEOREM BimapCorrect == Spec => []MapsInverse
BY KeyInvariant, PTL DEF KeyInv

\* Every announced key leads back to the peer that announced it.
BindingsFindable ==
    \A t \in Transports : transport_ids[t] # NoKey => app_public_keys[transport_ids[t]] = t

\* If no key is held by two transports, a step of one peer leaves the entries of
\* the others alone.
LEMMA FindableStep ==
    ASSUME OneTransportPerKey
    PROVE  KeyInv /\ KeyInv' /\ BindingsFindable /\ [Next]_vars => BindingsFindable'
<1> SUFFICES ASSUME KeyInv, KeyInv', BindingsFindable, [Next]_vars PROVE BindingsFindable'
    OBVIOUS
<1> USE SetupAssumption
<1>1. CASE UNCHANGED <<transport_ids, app_public_keys>>
    BY <1>1 DEF BindingsFindable
<1>2. \A t, u \in Transports :
         transport_ids[t] # NoKey /\ transport_ids[t] = transport_ids[u] => t = u
    BY DEF BindingsFindable
<1>3. ASSUME NEW c \in ConnIds, ConnectionClosed(c) PROVE BindingsFindable'
    <2> DEFINE t == PeerOf[c]
               b == transport_ids[t]
    <2>1. CASE ~UNCHANGED <<transport_ids, app_public_keys>>
        <3>1. /\ b \in Apps
              /\ transport_ids' = [transport_ids EXCEPT ![t] = NoKey]
              /\ app_public_keys' = [app_public_keys EXCEPT ![b] = NoPeer]
            BY <1>3, <2>1 DEF ConnectionClosed, RemoveMappings, KeyInv, TypeOK
        <3> QED BY <1>2, <3>1 DEF BindingsFindable, KeyInv, TypeOK
    <2> QED BY <1>1, <2>1
<1>4. ASSUME NEW c \in ConnIds, HandlerEvent(c) PROVE BindingsFindable'
    <2> DEFINE t == PeerOf[c]
               e == Head(events[c])
    <2>1. CASE e.kind # "AppKeyReceived"
        BY <1>1, <1>4, <2>1 DEF HandlerEvent, InsertMappings
    <2>2. CASE e.kind = "AppKeyReceived"
        <3>1. /\ transport_ids' = [transport_ids EXCEPT ![t] = e.app]
              /\ app_public_keys' = [app_public_keys EXCEPT ![e.app] = t]
            BY <1>4, <2>2 DEF HandlerEvent, InsertMappings
        <3>2. e \in HonestEvents(t)
            BY <1>4 DEF HandlerEvent, KeyInv, QueuesHonest
        <3>3. e.app \in KeyHolders[t] /\ e.app \in Apps
            BY <2>2, <3>2
            DEF HonestEvents, AppKeyReceived, HandshakeFailed
        <3>4. \A u \in Transports : u # t => transport_ids[u] # e.app
            BY <3>3 DEF OneTransportPerKey, KeyInv, BindingsAuthentic
        <3> QED BY <3>1, <3>3, <3>4 DEF BindingsFindable, KeyInv, TypeOK
    <2> QED BY <2>1, <2>2
<1> QED
    BY <1>1, <1>3, <1>4
    DEF Next, vars, StartListening, FullyNegotiatedInbound, DialUpgradeError,
        ListenUpgradeError, NotifyBehaviour, TaskEnds, ConnectionEstablished, IdentifyReceived,
        GossipsubNotSupported, OutboundFailure, DropUnsupported, DisconnectFromPeer

\* What get_transport_id_by_application_key promises holds whenever no operator
\* changes its transport key, even if one transport announces several keys.
THEOREM LookupCompleteWithoutRekeying ==
    ASSUME OneTransportPerKey
    PROVE  Spec => []LookupComplete
<1>1. Init => BindingsFindable
    BY DEF Init, BindingsFindable
<1>2. BindingsFindable => LookupComplete
    BY SetupAssumption DEF BindingsFindable, LookupComplete
<1> QED BY <1>1, <1>2, FindableStep, KeyInvariant, PTL DEF Spec

\* The queries of handle_command agree with each other under the same condition.
THEOREM QueriesConsistent == Spec => []QueriesAgree
<1>1. ConnInv /\ KeyInv => QueriesAgree
    <2> SUFFICES ASSUME ConnInv, KeyInv, OneKeyPerTransport, OneTransportPerKey,
                        NEW a \in Apps
                 PROVE  IsConnected(a) <=> a \in GetConnectedPeers
        BY DEF QueriesAgree
    <2>1. a # NoKey /\ app_public_keys[a] \in Transports \cup {NoPeer}
        BY SetupAssumption DEF KeyInv, TypeOK
    <2>2. \A t \in Transports : transport_ids[t] = a <=> app_public_keys[a] = t
        BY DEF KeyInv, MapsInverse
    <2>3. a \in GetConnectedPeers <=> \E t \in Transports : is_connected(t) /\ transport_ids[t] = a
        BY <2>1 DEF GetConnectedPeers
    <2> QED BY <2>1, <2>2, <2>3, SetupAssumption DEF IsConnected
<1> QED BY <1>1, ConnInvariant, KeyInvariant, PTL

\* A binding is lost only with the last connection of its peer.
THEOREM BindingKeptWhileConnected == Spec => BindingLostOnlyAtLastClose
<1>1. ConnInv /\ ConnInv' /\ [Next]_vars =>
        [\A t \in Transports :
            transport_ids[t] # NoKey /\ transport_ids'[t] = NoKey => ~is_connected(t)']_vars
    <2> SUFFICES ASSUME ConnInv, Next, NEW t \in Transports,
                        transport_ids[t] # NoKey, transport_ids'[t] = NoKey
                 PROVE  ~is_connected(t)'
        OBVIOUS
    <2> USE SetupAssumption
    <2>1. ASSUME NEW c \in ConnIds, HandlerEvent(c) PROVE FALSE
        <3>1. Head(events[c]) \in SetupHandlerEvent
            BY <2>1 DEF HandlerEvent, ConnInv, TypeOK
        <3>2. Head(events[c]).kind = "AppKeyReceived" => Head(events[c]).app # NoKey
            BY <3>1 DEF SetupHandlerEvent, AppKeyReceived, HandshakeFailed
        <3> QED BY <2>1, <3>2 DEF HandlerEvent, InsertMappings, ConnInv, TypeOK
    <2>2. PICK c \in ConnIds : ConnectionClosed(c)
        BY <2>1 DEF Next, StartListening, FullyNegotiatedInbound, DialUpgradeError,
                    ListenUpgradeError, NotifyBehaviour, TaskEnds, ConnectionEstablished,
                    IdentifyReceived, GossipsubNotSupported, OutboundFailure, DropUnsupported,
                    DisconnectFromPeer
    <2>3. t = PeerOf[c] /\ \A d \in ConnsOf(t) : d # c => conn[d] = "idle"
        BY <2>2 DEF ConnectionClosed, RemoveMappings, ConnInv, TypeOK
    <2>4. \A d \in ConnIds : conn'[d] = IF d = c THEN "idle" ELSE conn[d]
        BY <2>2 DEF ConnectionClosed, ConnInv, TypeOK
    <2> QED BY <2>3, <2>4 DEF is_connected, ConnsOf
<1> QED BY <1>1, ConnInvariant, PTL DEF Spec, BindingLostOnlyAtLastClose

-----------------------------------------------------------------------------
(* Refinement of PeerRegistry. *)

\* A map that is inverse to a directory is its reverse, as PeerRegistry computes it.
LEMMA ReverseIsReverse ==
    ASSUME NEW k, NEW p \in [Apps -> Transports \cup {NoPeer}],
           \A t \in Transports, a \in Apps : k[t] = a <=> p[a] = t
    PROVE  p = Registry!Reverse(k)
<1>1. ASSUME NEW a \in Apps
      PROVE  p[a] = IF \E t \in Transports : k[t] = a
                    THEN CHOOSE t \in Transports : k[t] = a
                    ELSE NoPeer
    <2>1. CASE \E t \in Transports : k[t] = a
        <3>1. /\ (CHOOSE t \in Transports : k[t] = a) \in Transports
              /\ k[CHOOSE t \in Transports : k[t] = a] = a
            BY <2>1
        <3> QED BY <2>1, <3>1
    <2>2. CASE ~\E t \in Transports : k[t] = a
        BY <2>2
    <2> QED BY <2>1, <2>2
<1> QED BY <1>1 DEF Registry!Reverse

\* A step that leaves the maps alone, and no peer's first or last connection
\* open or closed, is invisible in the registry.
LEMMA RegistryStutter ==
    ASSUME \A c \in ConnIds : (conn[c] = "idle")' <=> conn[c] = "idle",
           UNCHANGED <<transport_ids, app_public_keys>>
    PROVE  UNCHANGED Registry!vars
<1>1. \A t \in Transports : is_connected(t)' <=> is_connected(t)
    BY DEF is_connected, ConnsOf
<1>2. {t \in Transports : is_connected(t)}' = {t \in Transports : is_connected(t)}
    BY <1>1
<1> QED BY <1>2 DEF Registry!vars

\* Every step of Setup is a step of PeerRegistry or invisible.
LEMMA RegistryStep ==
    ASSUME OneKeyPerTransport, OneTransportPerKey
    PROVE  ConnInv /\ KeyInv /\ KeyInv' /\ [Next]_vars => [Registry!Next]_(Registry!vars)
<1> SUFFICES ASSUME ConnInv, KeyInv, KeyInv', [Next]_vars
             PROVE  Registry!Next \/ UNCHANGED Registry!vars
    OBVIOUS
<1> USE SetupAssumption
<1> DEFINE Online == {t \in Transports : is_connected(t)}
<1>0. app_public_keys' = Registry!Reverse(transport_ids')
    <2>1. /\ app_public_keys' \in [Apps -> Transports \cup {NoPeer}]
          /\ \A t \in Transports, a \in Apps : transport_ids'[t] = a <=> app_public_keys'[a] = t
        BY DEF KeyInv, TypeOK, MapsInverse
    <2> QED BY <2>1, ReverseIsReverse
<1>1. CASE UNCHANGED vars \/ StartListening
    BY <1>1, RegistryStutter DEF vars, StartListening
<1>2. ASSUME NEW c \in ConnIds,
             \/ FullyNegotiatedInbound(c) \/ DialUpgradeError(c)
             \/ ListenUpgradeError(c) \/ TaskEnds(c)
      PROVE  UNCHANGED Registry!vars
    BY <1>2, RegistryStutter
    DEF FullyNegotiatedInbound, DialUpgradeError, ListenUpgradeError, NotifyBehaviour, TaskEnds,
        KeyInv, TypeOK
<1>3. ASSUME NEW c \in ConnIds, ConnectionEstablished(c)
      PROVE  Registry!Next \/ UNCHANGED Registry!vars
    <2>1. \A d \in ConnIds : conn'[d] = IF d = c THEN "open" ELSE conn[d]
        BY <1>3 DEF ConnectionEstablished, KeyInv, TypeOK
    <2>2. Online' = Online \cup {PeerOf[c]}
        BY <2>1 DEF is_connected, ConnsOf
    <2>3. UNCHANGED <<transport_ids, app_public_keys>>
        BY <1>3 DEF ConnectionEstablished
    <2>4. CASE PeerOf[c] \in Online
        BY <2>2, <2>3, <2>4 DEF Registry!vars
    <2>5. CASE PeerOf[c] \notin Online
        BY <2>2, <2>3, <2>5 DEF Registry!Next, Registry!Arrive
    <2> QED BY <2>4, <2>5
<1>4. ASSUME NEW c \in ConnIds, ConnectionClosed(c)
      PROVE  Registry!Next \/ UNCHANGED Registry!vars
    <2> DEFINE t == PeerOf[c]
               remaining == {d \in ConnsOf(t) \ {c} : conn[d] # "idle"}
    <2>1. \A d \in ConnIds : conn'[d] = IF d = c THEN "idle" ELSE conn[d]
        BY <1>4 DEF ConnectionClosed, KeyInv, TypeOK
    <2>2. conn[c] = "ended" /\ RemoveMappings(t, remaining)
        BY <1>4 DEF ConnectionClosed
    <2>3. CASE remaining = {}
        <3>1. t \in Online /\ Online' = Online \ {t}
            BY <2>1, <2>2, <2>3 DEF is_connected, ConnsOf
        <3>2. transport_ids' = [transport_ids EXCEPT ![t] = NoKey]
            BY <2>2, <2>3 DEF RemoveMappings, KeyInv, TypeOK
        <3> QED BY <1>0, <3>1, <3>2 DEF Registry!Next, Registry!Depart
    <2>4. CASE remaining # {}
        <3>1. Online' = Online
            BY <2>1, <2>4 DEF is_connected, ConnsOf
        <3> QED BY <2>2, <2>4, <3>1 DEF RemoveMappings, Registry!vars
    <2> QED BY <2>3, <2>4
<1>5. ASSUME NEW c \in ConnIds, HandlerEvent(c)
      PROVE  Registry!Next \/ UNCHANGED Registry!vars
    <2> DEFINE e == Head(events[c])
    <2>1. \A d \in ConnIds : (conn[d] = "idle")' <=> conn[d] = "idle"
        BY <1>5, DisconnectFacts DEF HandlerEvent, HandleSetupEvent, IgnoreSetupEvent, KeyInv
    <2>2. Online' = Online
        BY <2>1 DEF is_connected, ConnsOf
    <2>3. CASE e.kind # "AppKeyReceived"
        BY <1>5, <2>1, <2>3, RegistryStutter DEF HandlerEvent, InsertMappings
    <2>4. CASE e.kind = "AppKeyReceived"
        <3>1. e \in SetupHandlerEvent
            BY <1>5 DEF HandlerEvent, KeyInv, TypeOK
        <3>2. e.app \in Apps
            BY <2>4, <3>1
            DEF SetupHandlerEvent, AppKeyReceived, HandshakeFailed
        <3>3. PeerOf[c] \in Online
            BY <1>5 DEF HandlerEvent, ConnInv, IdleIsClean, is_connected, ConnsOf
        <3>4. transport_ids' = [transport_ids EXCEPT ![PeerOf[c]] = e.app]
            BY <1>5, <2>4 DEF HandlerEvent, InsertMappings
        <3> QED BY <1>0, <2>2, <3>2, <3>3, <3>4 DEF Registry!Next, Registry!Announce
    <2> QED BY <2>3, <2>4
<1>6. ASSUME NEW t \in Transports, DropUnsupported(t) PROVE UNCHANGED Registry!vars
    BY <1>6, DisconnectFacts, RegistryStutter DEF DropUnsupported, KeyInv
<1>7. ASSUME NEW a \in Apps, DisconnectFromPeer(a) PROVE UNCHANGED Registry!vars
    BY <1>7, DisconnectFacts, RegistryStutter DEF DisconnectFromPeer, KeyInv
<1> QED
    BY <1>1, <1>2, <1>3, <1>4, <1>5, <1>6, <1>7
    DEF Next, IdentifyReceived, GossipsubNotSupported, OutboundFailure

\* While keys and transports correspond one to one, SetupBehaviour with the
\* connection events around it implements the directory of PeerRegistry.
THEOREM SetupImplementsRegistry ==
    ASSUME OneKeyPerTransport, OneTransportPerKey
    PROVE  Spec => ImplementsRegistry
<1>1. Init => Registry!Init
    BY DEF Init, Registry!Init, is_connected, ConnsOf
<1> QED BY <1>1, RegistryStep, ConnInvariant, KeyInvariant, PTL
        DEF Spec, ImplementsRegistry, Registry!Spec
=============================================================================
