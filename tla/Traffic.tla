------------------------------- MODULE Traffic -------------------------------
(***************************************************************************)
(* Application traffic of a BYOS node on top of the setup handshake: the   *)
(* requests it sends, and the requests, responses and gossip messages it   *)
(* lets through to the application.                                        *)
(*                                                                         *)
(* Setup says which key is bound to which transport id; here these maps    *)
(* are used.  A request is addressed to a key and sent to the peer that    *)
(* app_public_keys gives for it; a message received from a peer is held    *)
(* against the key that transport_ids gives for it.  Between the two the   *)
(* maps change, connections come and go, and peers that were refused, or   *)
(* that establish_connections failed to refuse, go on sending.             *)
(*                                                                         *)
(* Anybody may pass on a message that somebody else has signed.            *)
(***************************************************************************)
EXTENDS Setup

CONSTANTS
    Slots,                 \* bound: requests of this node that can be in flight
    NoRequest,             \* a free slot
    Sizes,                 \* sizes of messages on the wire
    REQUEST_SIZE_MAXIMUM,
    RESPONSE_SIZE_MAXIMUM

ASSUME TrafficAssumption ==
    /\ NoRequest \notin [peer : Transports, app : Apps]
    /\ Sizes \subseteq Nat
    /\ REQUEST_SIZE_MAXIMUM \in Nat
    /\ RESPONSE_SIZE_MAXIMUM \in Nat

VARIABLES
    asked,          \* requests in flight: the key asked for and the peer it was sent to
    heard           \* history: what the last step put to the application, if anything

all_vars == <<phase, conn, events, transport_ids, app_public_keys, verdict, asked, heard>>

-----------------------------------------------------------------------------
(* Messages. *)

\* SignedMessage<M>: `valid` is the result of verify(); only a process that holds
\* the key produces a valid one.  `envelope` says that protocol and version are
\* the expected ones.  Gossip messages and responses name no destination.
SignedMessage ==
    {m \in [public_key : Apps,
            destination_peer_id : Transports \cup {Local},
            date : Seconds,
            size : Sizes,
            valid : BOOLEAN,
            envelope : BOOLEAN] :
        m.valid => \E t \in Transports : m.public_key \in KeyHolders[t]}

\* Codec::read_request and read_response stop reading at the maximum; what was
\* cut off does not decode.
Decodes(m, max) == m.size <= max

EnvelopeOk(m) ==
    /\ m.valid
    /\ m.envelope
    /\ \E now \in Seconds : MessageDateOk(now, m.date, EnvelopeMaxAge, MaxClockSkew)

\* The checks on a message alone, each of which drops it without any effect.
RequestChecks(m) ==
    /\ Decodes(m, REQUEST_SIZE_MAXIMUM)
    /\ EnvelopeOk(m)
    /\ m.destination_peer_id = Local
    /\ m.public_key \in Allowlist

ResponseChecks(m) ==
    /\ Decodes(m, RESPONSE_SIZE_MAXIMUM)
    /\ EnvelopeOk(m)
    /\ m.public_key \in Allowlist

GossipChecks(m) == EnvelopeOk(m) /\ m.public_key \in Allowlist

\* Keys under which some message passes these checks.
RequestKeys == {m.public_key : m \in {n \in SignedMessage : RequestChecks(n)}}
ResponseKeys == {m.public_key : m \in {n \in SignedMessage : ResponseChecks(n)}}
GossipKeys == {m.public_key : m \in {n \in SignedMessage : GossipChecks(n)}}

\* get_app_public_key_by_transport_id(t) == Some(a).
MatchesAllowlistOnly(t, a) == a \in Allowlist

MatchesStoredKey(t, a) == transport_ids[t] = a

-----------------------------------------------------------------------------
(* The handlers of the node. *)

\* What the application hears: a request from t (b = NoKey), a response from t to
\* a request for b, or gossip, which may have come a long way (t = NoPeer).
Event(t, a, b) == [from |-> t, key |-> a, asked |-> b]

\* handle_message_event, Message::Request: the request goes to the application.
ReceiveRequest(t) ==
    /\ phase = "listen"
    /\ is_connected(t)
    /\ \E a \in RequestKeys :
          /\ MatchesStoredKey(t, a)
          /\ heard' = {Event(t, a, NoKey)}
    /\ UNCHANGED asked

\* handle_request_response_command: the key is looked up, and the request sent
\* if the peer is connected.  Otherwise the command is dropped.
SendRequest(s, a) ==
    LET t == app_public_keys[a]
    IN  /\ phase = "listen"
        /\ asked[s] = NoRequest
        /\ t # NoPeer
        /\ is_connected(t)
        /\ asked' = [asked EXCEPT ![s] = [peer |-> t, app |-> a]]
        /\ heard' = {}

\* handle_message_event, Message::Response: the response goes to the application.
ReceiveResponse(s) ==
    /\ phase = "listen"
    /\ asked[s] # NoRequest
    /\ is_connected(asked[s].peer)
    /\ \E a \in ResponseKeys :
          /\ MatchesStoredKey(asked[s].peer, a)
          /\ heard' = {Event(asked[s].peer, a, asked[s].app)}
    /\ asked' = [asked EXCEPT ![s] = NoRequest]

\* The request ends without a response for the application: OutboundFailure, an
\* empty response, or one that fails a check.
RequestFails(s) ==
    /\ phase = "listen"
    /\ asked[s] # NoRequest
    /\ asked' = [asked EXCEPT ![s] = NoRequest]
    /\ heard' = {}

\* handle_gossip_msg, accepted: the message is forwarded and broadcast.  It may
\* reach the node through any connected peer.
ReceiveGossip ==
    /\ phase = "listen"
    /\ \E t \in Transports : is_connected(t)
    /\ \E a \in GossipKeys : heard' = {Event(NoPeer, a, NoKey)}
    /\ UNCHANGED asked

TrafficInit ==
    /\ Init
    /\ asked = [s \in Slots |-> NoRequest]
    /\ heard = {}

TrafficStep ==
    \/ \E t \in Transports : ReceiveRequest(t)
    \/ \E s \in Slots, a \in Apps : SendRequest(s, a)
    \/ \E s \in Slots : ReceiveResponse(s) \/ RequestFails(s)
    \/ ReceiveGossip

TrafficNext ==
    \/ Next /\ UNCHANGED asked /\ heard' = {}
    \/ TrafficStep /\ UNCHANGED vars

TrafficSpec == TrafficInit /\ [][TrafficNext]_all_vars

FairTrafficSpec == TrafficSpec /\ Fairness

-----------------------------------------------------------------------------
(* Properties. *)

\* Requests in flight have a peer and a key, and the application has heard
\* nothing but events of known peers under known keys.
TrafficTypeOK ==
    /\ asked \in [Slots -> [peer : Transports, app : Apps] \cup {NoRequest}]
    /\ heard \subseteq [from : Transports \cup {NoPeer}, key : Apps, asked : Apps \cup {NoKey}]

\* Whatever reaches the application as a request or a response comes from a peer
\* whose own process signs with an allowlisted key, and gossip only from holders
\* of such keys, although strangers stay connected after establish_connections
\* has missed their refusal and signed messages can be passed on by anybody.
OnlyOperatorsHeard ==
    \A h \in heard :
        /\ h.key \in Allowlist
        /\ IF h.from = NoPeer THEN \E t \in Transports : h.key \in KeyHolders[t]
           ELSE h.key \in KeyHolders[h.from]

\* A request for a key is only ever sent to a peer whose process signs with it,
\* also through an entry of app_public_keys that outlived its connection.
RequestsToHolders ==
    \A s \in Slots : asked[s] # NoRequest => asked[s].app \in KeyHolders[asked[s].peer]

\* The response that the application gets for a request comes from a process that
\* signs with the key it asked for, and under that very key if every process has
\* one, although ReceivedResponse does not say whose response it is and the maps
\* change while the request is in flight.
AnswersFromAsked ==
    \A h \in heard : h.asked # NoKey =>
        /\ h.asked \in KeyHolders[h.from]
        /\ OneKeyPerTransport => h.key = h.asked
=============================================================================
