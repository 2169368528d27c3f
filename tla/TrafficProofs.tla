---------------------------- MODULE TrafficProofs ----------------------------
(***************************************************************************)
(* Proofs about Traffic.  Traffic takes only steps of Setup and steps that *)
(* leave Setup alone, so the invariants proved of Setup hold here too; the *)
(* bindings they describe are what makes the messages authentic.           *)
(***************************************************************************)
EXTENDS Traffic, SetupProofs

\* Every behaviour of Traffic is, for the handshake, a behaviour of Setup.
LEMMA TrafficImplementsSetup == TrafficSpec => Spec
<1>1. TrafficInit => Init
    BY DEF TrafficInit
<1>2. [TrafficNext]_all_vars => [Next]_vars
    BY DEF TrafficNext, all_vars, vars
<1> QED BY <1>1, <1>2, PTL DEF TrafficSpec, Spec

\* Messages never disturb the directory of peers: with keys and transports in
\* one-to-one correspondence, the node with its traffic implements PeerRegistry.
THEOREM TrafficImplementsRegistry ==
    ASSUME OneKeyPerTransport, OneTransportPerKey
    PROVE  TrafficSpec => ImplementsRegistry
BY TrafficImplementsSetup, SetupImplementsRegistry, PTL

\* A key under which a message passes the checks is allowlisted, and somebody
\* signs with it.
LEMMA CheckedKeys ==
    ASSUME NEW a \in RequestKeys \cup ResponseKeys \cup GossipKeys
    PROVE  a \in Allowlist /\ a \in Apps /\ \E t \in Transports : a \in KeyHolders[t]
<1>1. PICK m \in SignedMessage :
         /\ a = m.public_key
         /\ RequestChecks(m) \/ ResponseChecks(m) \/ GossipChecks(m)
    BY DEF RequestKeys, ResponseKeys, GossipKeys
<1>2. m.public_key \in Apps /\ m.valid /\ m.public_key \in Allowlist
    BY <1>1 DEF RequestChecks, ResponseChecks, GossipChecks, EnvelopeOk, SignedMessage
<1> QED BY <1>1, <1>2 DEF SignedMessage

TrafficInv ==
    TrafficTypeOK /\ OnlyOperatorsHeard /\ RequestsToHolders /\ AnswersFromAsked

\* Every step keeps what was asked and heard authentic, given the bindings.
LEMMA TrafficInvStep == KeyInv /\ TrafficInv /\ [TrafficNext]_all_vars => TrafficInv'
<1> SUFFICES ASSUME KeyInv, TrafficInv, [TrafficNext]_all_vars PROVE TrafficInv'
    OBVIOUS
<1> USE SetupAssumption, TrafficAssumption DEF TrafficInv
<1>1. CASE UNCHANGED asked /\ (heard' = {} \/ UNCHANGED heard)
    BY <1>1 DEF TrafficTypeOK, OnlyOperatorsHeard, RequestsToHolders, AnswersFromAsked
<1>2. ASSUME NEW t \in Transports, ReceiveRequest(t) PROVE TrafficInv'
    <2>1. PICK a \in RequestKeys :
             MatchesStoredKey(t, a) /\ heard' = {Event(t, a, NoKey)}
        BY <1>2 DEF ReceiveRequest
    <2>2. UNCHANGED asked
        BY <1>2 DEF ReceiveRequest
    <2>3. a \in Apps /\ a \in Allowlist /\ a # NoKey
        BY CheckedKeys
    <2>4. a \in KeyHolders[t]
        BY <2>1, <2>3 DEF MatchesStoredKey, KeyInv, BindingsAuthentic
    <2>5. TrafficTypeOK'
        BY <2>1, <2>2, <2>3 DEF TrafficTypeOK, Event
    <2>6. OnlyOperatorsHeard'
        BY <2>1, <2>2, <2>3, <2>4 DEF OnlyOperatorsHeard, Event
    <2>7. RequestsToHolders' /\ AnswersFromAsked'
        BY <2>1, <2>2 DEF RequestsToHolders, AnswersFromAsked, Event
    <2> QED BY <2>5, <2>6, <2>7
<1>3. ASSUME NEW s \in Slots, NEW a \in Apps, SendRequest(s, a) PROVE TrafficInv'
    <2> DEFINE t == app_public_keys[a]
    <2>1. /\ t # NoPeer
          /\ asked' = [asked EXCEPT ![s] = [peer |-> t, app |-> a]]
          /\ heard' = {}
        BY <1>3 DEF SendRequest
    <2>2. t \in Transports /\ a \in KeyHolders[t]
        BY <2>1 DEF KeyInv, TypeOK, BindingsAuthentic
    <2>3. TrafficTypeOK'
        BY <2>1, <2>2 DEF TrafficTypeOK
    <2>4. \A r \in Slots : asked'[r] = IF r = s THEN [peer |-> t, app |-> a] ELSE asked[r]
        BY <2>1 DEF TrafficTypeOK
    <2>5. RequestsToHolders'
        BY <2>2, <2>4 DEF RequestsToHolders
    <2>6. OnlyOperatorsHeard' /\ AnswersFromAsked'
        BY <2>1 DEF OnlyOperatorsHeard, AnswersFromAsked
    <2> QED BY <2>3, <2>5, <2>6
<1>4. ASSUME NEW s \in Slots, ReceiveResponse(s) PROVE TrafficInv'
    <2> DEFINE q == asked[s]
    <2>1. PICK a \in ResponseKeys :
             MatchesStoredKey(q.peer, a) /\ heard' = {Event(q.peer, a, q.app)}
        BY <1>4 DEF ReceiveResponse
    <2>2. /\ q # NoRequest
          /\ asked' = [asked EXCEPT ![s] = NoRequest]
        BY <1>4 DEF ReceiveResponse
    <2>3. a \in Apps /\ a \in Allowlist /\ a # NoKey
        BY CheckedKeys
    <2>4. q.peer \in Transports /\ q.app \in Apps /\ q.app \in KeyHolders[q.peer]
        BY <2>2 DEF TrafficTypeOK, RequestsToHolders
    <2>5. a \in KeyHolders[q.peer]
        BY <2>1, <2>3, <2>4 DEF MatchesStoredKey, KeyInv, BindingsAuthentic
    <2>6. TrafficTypeOK'
        BY <2>1, <2>2, <2>3, <2>4 DEF TrafficTypeOK, Event
    <2>7. OnlyOperatorsHeard'
        BY <2>1, <2>2, <2>3, <2>4, <2>5 DEF OnlyOperatorsHeard, Event
    <2>8. RequestsToHolders'
        BY <2>2 DEF RequestsToHolders, TrafficTypeOK
    <2>9. OneKeyPerTransport => a = q.app
        BY <2>4, <2>5 DEF OneKeyPerTransport
    <2>10. AnswersFromAsked'
        BY <2>1, <2>4, <2>9 DEF AnswersFromAsked, Event
    <2> QED BY <2>6, <2>7, <2>8, <2>10
<1>5. ASSUME NEW s \in Slots, RequestFails(s) PROVE TrafficInv'
    BY <1>5 DEF RequestFails, TrafficTypeOK, OnlyOperatorsHeard, RequestsToHolders, AnswersFromAsked
<1>6. CASE ReceiveGossip
    <2>1. PICK a \in GossipKeys : heard' = {Event(NoPeer, a, NoKey)}
        BY <1>6 DEF ReceiveGossip
    <2>2. UNCHANGED asked
        BY <1>6 DEF ReceiveGossip
    <2>3. a \in Apps /\ a \in Allowlist /\ \E t \in Transports : a \in KeyHolders[t]
        BY CheckedKeys
    <2>4. TrafficTypeOK' /\ RequestsToHolders' /\ AnswersFromAsked'
        BY <2>1, <2>2, <2>3 DEF TrafficTypeOK, RequestsToHolders, AnswersFromAsked, Event
    <2>5. OnlyOperatorsHeard'
        BY <2>1, <2>2, <2>3 DEF OnlyOperatorsHeard, Event
    <2> QED BY <2>4, <2>5
<1> QED
    BY <1>1, <1>2, <1>3, <1>4, <1>5, <1>6 DEF TrafficNext, TrafficStep, all_vars

LEMMA TrafficInvariant == TrafficSpec => []TrafficInv
<1>1. TrafficInit => TrafficInv
    BY DEF TrafficInit, TrafficInv, TrafficTypeOK, OnlyOperatorsHeard, RequestsToHolders,
           AnswersFromAsked
<1>2. TrafficSpec => []KeyInv
    BY TrafficImplementsSetup, KeyInvariant, PTL
<1> QED BY <1>1, <1>2, TrafficInvStep, PTL DEF TrafficSpec

\* What the node has asked and heard is always well typed.
THEOREM TrafficTypeCorrect == TrafficSpec => []TrafficTypeOK
BY TrafficInvariant, PTL DEF TrafficInv

\* handle_message_event and handle_gossip_msg let nothing through to the
\* application but messages of operators, for any peers, keys and connections.
THEOREM OperatorsOnly == TrafficSpec => []OnlyOperatorsHeard
BY TrafficInvariant, PTL DEF TrafficInv

\* handle_request_response_command sends a request for a key only to a process
\* that signs with it, even if peers announce several keys and entries of
\* app_public_keys outlive their connections.
THEOREM RequestsReachHolders == TrafficSpec => []RequestsToHolders
BY TrafficInvariant, PTL DEF TrafficInv

\* A response put to the application comes from a process that signs with the
\* key that the request was addressed to.
THEOREM ResponsesComeFromAsked == TrafficSpec => []AnswersFromAsked
BY TrafficInvariant, PTL DEF TrafficInv
=============================================================================
