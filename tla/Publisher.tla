------------------------------ MODULE Publisher ------------------------------
(***************************************************************************)
(* How a node publishes its own DHT record.  The first RoutingUpdated that *)
(* P2P::listen handles puts a token into kademlia_republish_stream, a      *)
(* bounded channel from the node to itself.  The node takes the token,     *)
(* signs a record and starts a put query; when the query ends, a spawned   *)
(* task sleeps and puts the token back.                                    *)
(*                                                                         *)
(* A cycle is one such token on its way round.  Nothing in the code names  *)
(* it; the model gives it a number to see whether there is only one, and   *)
(* the stage "lost" to see where it ends.                                  *)
(*                                                                         *)
(* The clock moves when the node and its timers have nothing to do, and a  *)
(* put query ends within PutTime: both are assumptions about the run time. *)
(***************************************************************************)
EXTENDS Envelope, FiniteSets

CONSTANTS
    RecordTTL,      \* kad_record_ttl, in seconds
    ExpiryMargin,   \* how much longer than kad_record_ttl kademlia keeps the record; 5 minutes
    RetryAfter,     \* kad_timer_putrecorderror, in seconds
    EnvelopeMaxAge, \* envelope_max_age of the nodes that look the record up, in milliseconds
    MaxClockSkew,   \* their max_clock_skew, in milliseconds
    Capacity,       \* of the channel; 10 in the code
    PutTime,        \* external: the time a put query takes at most, in seconds
    MaxCycles,      \* bound: cycles at the same time
    MaxTime         \* bound: the clock stops here

Cycles == 1 .. MaxCycles
Stages == {"idle", "queued", "putting", "sleeping", "lost"}
Times == 0 .. MaxTime

ASSUME PublisherAssumption ==
    /\ RecordTTL \in Nat
    /\ ExpiryMargin \in Nat
    /\ RetryAfter \in Nat
    /\ EnvelopeMaxAge \in Nat
    /\ MaxClockSkew \in Nat
    /\ Capacity \in Nat \ {0}
    /\ PutTime \in Nat
    /\ MaxCycles \in Nat
    /\ MaxTime \in Nat
    /\ MaxTime + AsSecs(MaxClockSkew) < U64 - 1

VARIABLES
    now,
    phase,      \* "startup": in establish_connections; "listen": in listen
    kademlia_is_routing_updated_first_time,
    stage,      \* of each cycle
    at,         \* of each cycle: when the put started, or when the sleep ends
    blocked,    \* the node waits for room in its own channel
    published,  \* history: the date of the record that was put last
    current     \* history: no later put of the record has failed

vars == <<now, phase, kademlia_is_routing_updated_first_time, stage, at, blocked, published, current>>

Queued == {i \in Cycles : stage[i] = "queued"}

Running == phase = "listen" /\ ~blocked

\* create_kademlia_behaviour, set_record_ttl: when the record that was put last
\* expires in the DHT.
ExpiresWithoutMargin == published + RecordTTL

Expires == published + RecordTTL + ExpiryMargin

-----------------------------------------------------------------------------
StartListening ==
    /\ phase = "startup"
    /\ phase' = "listen"
    /\ UNCHANGED <<now, kademlia_is_routing_updated_first_time, stage, at, blocked, published, current>>

\* handle_kademlia_event, RoutingUpdated.  establish_connections swallows the event.
RoutingUpdatedEveryTime(i) ==
    /\ Running
    /\ stage[i] = "idle"
    /\ kademlia_is_routing_updated_first_time' = FALSE
    /\ IF Cardinality(Queued) < Capacity
       THEN stage' = [stage EXCEPT ![i] = "queued"] /\ UNCHANGED blocked
       ELSE blocked' = TRUE /\ UNCHANGED stage
    /\ UNCHANGED <<now, phase, at, published, current>>

RoutingUpdated(i) ==
    /\ Running
    /\ kademlia_is_routing_updated_first_time
    /\ stage[i] = "idle"
    /\ kademlia_is_routing_updated_first_time' = FALSE
    /\ IF Cardinality(Queued) < Capacity
       THEN stage' = [stage EXCEPT ![i] = "queued"] /\ UNCHANGED blocked
       ELSE blocked' = TRUE /\ UNCHANGED stage
    /\ UNCHANGED <<now, phase, at, published, current>>

\* The kademlia_republish_stream arm of listen: ask_kademlia_put_record signs a
\* record dated now and starts a query, which ends with an event ...
Republish(i) ==
    /\ Running
    /\ stage[i] = "queued"
    /\ stage' = [stage EXCEPT ![i] = "putting"]
    /\ at' = [at EXCEPT ![i] = now]
    /\ UNCHANGED <<now, phase, kademlia_is_routing_updated_first_time, blocked, published, current>>

\* ... unless SignedRecord::new or put_record fails: no query, hence no event.
RepublishFails(i) ==
    /\ Running
    /\ stage[i] = "queued"
    /\ stage' = [stage EXCEPT ![i] = "lost"]
    /\ current' = FALSE
    /\ UNCHANGED <<now, phase, kademlia_is_routing_updated_first_time, at, blocked, published>>

\* handle_kademlia_event, PutRecordOk.
PutRecordOk(i) ==
    /\ Running
    /\ stage[i] = "putting"
    /\ stage' = [stage EXCEPT ![i] = "sleeping"]
    /\ at' = [at EXCEPT ![i] = now + RecordTTL]
    /\ published' = at[i]
    /\ current' = TRUE
    /\ UNCHANGED <<now, phase, kademlia_is_routing_updated_first_time, blocked>>

\* handle_kademlia_event, PutRecordError::Timeout and PutRecordError::QuorumFailed.
PutRecordErrorDropped(i) ==
    /\ Running
    /\ stage[i] = "putting"
    /\ stage' = [stage EXCEPT ![i] = "idle"]
    /\ current' = FALSE
    /\ UNCHANGED <<now, phase, kademlia_is_routing_updated_first_time, at, blocked, published>>

PutRecordError(i) ==
    /\ Running
    /\ stage[i] = "putting"
    /\ stage' = [stage EXCEPT ![i] = "sleeping"]
    /\ at' = [at EXCEPT ![i] = now + RetryAfter]
    /\ current' = FALSE
    /\ UNCHANGED <<now, phase, kademlia_is_routing_updated_first_time, blocked, published>>

\* The spawned task wakes up and sends, once there is room.
TimerFires(i) ==
    /\ stage[i] = "sleeping"
    /\ at[i] <= now
    /\ Cardinality(Queued) < Capacity
    /\ stage' = [stage EXCEPT ![i] = "queued"]
    /\ UNCHANGED <<now, phase, kademlia_is_routing_updated_first_time, at, blocked, published, current>>

NothingDue ==
    \A i \in Cycles :
        /\ stage[i] # "queued"
        /\ stage[i] = "sleeping" => now < at[i]
        /\ stage[i] = "putting" => now < at[i] + PutTime

Tick ==
    /\ now < MaxTime
    /\ NothingDue
    /\ now' = now + 1
    /\ UNCHANGED <<phase, kademlia_is_routing_updated_first_time, stage, at, blocked, published, current>>

-----------------------------------------------------------------------------
Init ==
    /\ now = 0
    /\ phase = "startup"
    /\ kademlia_is_routing_updated_first_time = TRUE
    /\ stage = [i \in Cycles |-> "idle"]
    /\ at = [i \in Cycles |-> 0]
    /\ blocked = FALSE
    /\ published = 0
    /\ current = FALSE

Next ==
    \/ StartListening
    \/ \E i \in Cycles :
          \/ RoutingUpdated(i)
          \/ Republish(i)
          \/ RepublishFails(i)
          \/ PutRecordOk(i)
          \/ PutRecordError(i)
          \/ TimerFires(i)
    \/ Tick

Spec == Init /\ [][Next]_vars

-----------------------------------------------------------------------------
(* Properties. *)

\* Type invariant: the time a cycle waits for is a time.
TypeOK ==
    /\ now \in Times
    /\ phase \in {"startup", "listen"}
    /\ kademlia_is_routing_updated_first_time \in BOOLEAN
    /\ stage \in [Cycles -> Stages]
    /\ at \in [Cycles -> Nat]
    /\ blocked \in BOOLEAN
    /\ published \in Nat
    /\ current \in BOOLEAN

\* The node publishes its record in at most one cycle, however routing updates,
\* retries and timers interleave: queries and timers do not multiply.
OnePublisher ==
    \A i, j \in Cycles : stage[i] # "idle" /\ stage[j] # "idle" => i = j

\* The node never waits for room in its own channel, which only it empties
\* (send().await inside handle_kademlia_event would stop listen for ever).
NeverBlocked == ~blocked

\* "Our custom republishing should happen before kademlia's own": as long as its
\* puts succeed, the record that a node published last has not expired in the DHT
\* when the next one replaces it, although a round takes the sleep and two puts
\* and the record was dated before the first of them.
RecordNotExpired == current => now <= Expires

\* The only way for the cycle to end is a record that could not be signed or
\* stored locally: no failed put, no timer and no full channel loses the token.
CycleKept ==
    kademlia_is_routing_updated_first_time \/ \E i \in Cycles : stage[i] # "idle"

-----------------------------------------------------------------------------
(* Statements of the documentation that the code does not meet. *)

\* kad_timer_putrecorderror says "in case of failed republishing of record, after
\* what time to try again": once begun, republishing goes on.
RepublishingGoesOn ==
    \/ kademlia_is_routing_updated_first_time
    \/ \E i \in Cycles : stage[i] \notin {"idle", "lost"}

\* kad_record_ttl is the "Kademlia TTL for our own record", and envelope_max_age
\* the "maximum allowed age for signed envelopes (gossip and req/resp)": while its
\* puts succeed and its time to live has not passed, the record that a node
\* published last passes validate_record_date of the nodes that find it.
RecordFindable ==
    current /\ now <= published + RecordTTL =>
        RecordDateOk(now, published, EnvelopeMaxAge, MaxClockSkew)
=============================================================================
