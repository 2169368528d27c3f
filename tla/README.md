# TLA+ models of strata-p2p

Models, model-checking runs and machine-checked proofs for the core of
`strata-p2p`, a peer-to-peer node library on top of libp2p. All source paths
below are relative to `src/crates/p2p/src/`; `PROJECT.json` maps each definition
to its lines.

## 1. The system

A node is one asynchronous task, `P2P` (`swarm/mod.rs`). It owns the libp2p
swarm and takes, one at a time, a swarm event, a command from a handle, a gossip
or request-response command, or a token of its own republish channel, and
handles it completely before it takes the next. Beside it run the connection
tasks of libp2p (one per connection, with a `SetupHandler` inside), timers in
spawned tasks, and the application behind bounded channels. A build has one of
two modes: *BYOS* ("bring your own signer": peers are known by application keys,
an allowlist decides who may connect) or not (peers are scored, muted, banned).

| component | state | operations | interacts with |
|---|---|---|---|
| Setup handshake (`swarm/setup/*`, `handle_setup_event`), BYOS | `transport_ids`, `app_public_keys` of `SetupBehaviour`; per connection a `SetupHandler` | inbound setup message, upgrade errors, connection established or closed, allowlist check, `DisconnectFromPeer`, `IsConnected`, `GetConnectedPeers` | connection tasks by event channels; gossip and request-response look peers up in the maps |
| Dial manager (`swarm/dial_manager.rs`, `ConnectToPeer`), BYOS | `dial_queues`, `conn_to_dial`, `config.connect_to` | start a sequence, next address after an error, end after success or the last error | swarm dials and their events, connection limits |
| Envelope dates | none | three written-out comparisons of a date with the clock | setup handler, gossip, request-response, DHT records |
| Reputation (`validator.rs`, `score_manager.rs`, `PenaltyPeerStorage`), not BYOS | scores, `last_scoring_decay_time`, ends of mutes and bans | charge a message, decay, mute, ban, forgive, query, clean up at disconnect | gossip and request-response handlers, connections, `SetScore` |
| Publishing the own DHT record | `kademlia_is_routing_updated_first_time`, the token in `kademlia_republish_stream`, timers | first routing update, put, result of a put, retry | kademlia, its own channel |
| Records of others and lookups | kademlia's `MemoryStore`, `kademlia_map_received_records` | accept a `PutRecord`, start a lookup, collect records, answer | kademlia, `CommandEvent` channel |
| Event loop (`establish_connections`, `listen`) | `is_not_connected`, retries, cancellation token, the channels | the dial and subscribe loops, the two event loops and how they end | everything |
| Request-response | requests in flight, the channel of events, a oneshot per request | request, response, two waits with a timeout | application, reputation or setup maps |
| Gossip | gossipsub's mesh | publish, receive, report validation | application, reputation or setup maps |
| Handles (`swarm/handle.rs`, `commands.rs`, `events.rs`) | ends of bounded channels | send a command, wait for a reply, `Sink`/`Stream` | event loop |
| Signed messages, codecs, construction, errors | none | pure functions, byte streams, builders | - |

What is hard here, and what the properties are about:

* *Closing is not instant.* `disconnect_peer_id` only asks connection tasks to
  close; their handshake results still arrive and are still handled.
* *Several connections per peer*, and several transport ids per operator after a
  restart, while the maps have one entry each.
* *Two phases*: `establish_connections` runs an event loop of its own that drops
  most events.
* *A step without an event*: a dial that is denied or a record that cannot be
  signed ends a chain of event-driven steps.
* *One clock, many users*: dates compared in three ways, one decay time for two
  scores, a TTL longer than the age that finders accept.
* *A channel from the node to itself.*
* *One task for everything.* While the node waits for the application's answer to a
  request it handles nothing else, and the application may be waiting for the node.

The complete list, each at its line, is under `hazards` in `PROJECT.json`.

## 2. Modules

| module | models | state ↔ code |
|---|---|---|
| `Envelope` | the date checks of setup messages, messages and records, with u64 arithmetic and `Duration` fractions | pure operators, `U64` is the number of values of a u64 |
| `EnvelopeLifetime` | envelopes of any date under the running clock of `Publisher` | no state of its own |
| `PeerRegistry` | abstract: what `SetupBehaviour` promises, a two-way directory of online peers | `online`, `key`, `peer` |
| `Setup` | handshake, maps, allowlist, disconnects | `transport_ids`, `app_public_keys` as in the code; `conn`, `events` are libp2p's; `verdict` is history |
| `Traffic` | requests, responses and gossip of a BYOS node on top of `Setup` | `asked`: requests in flight; `heard`, what the last step put to the application, is history |
| `Dialing` | `DialManager` and the handlers that drive it | `dial_queues`, `conn_to_dial`, `connect_to` as in the code; `dialing`, `next_conn` are the swarm's; `wanted`, `tried`, `outcome` are history |
| `Reputation` | `ScoreManager`, `PenaltyPeerStorage`, `DefaultP2PValidator` and the handlers that use them | `app_score`, `last_scoring_decay_time`, `until` (the three penalty maps); the rest is connections and history |
| `Publisher` | the republish cycle and the expiry of the record | `stage`, `at` follow the token through channel, query and timer; `blocked` is the node waiting in `send().await`; `published`, `current` are history |
| `Records` | stored records and lookups | `store`, `kademlia_map_received_records` as in the code; `asked`, `live` are kademlia's; `answer`, `best` and `newest` (the latest date ever stored under a key) are history |
| `EventLoop` | the task from `establish_connections` to the end of `listen`, the command channels, the channel of request-response events, queries, handles and their drops | `is_not_connected`, `num_retries`, `req_resp_events` as in the code; `step` is where the task is, `queued` the lengths of the command channels, `current` and `answer` the request being handled and its oneshot; `dialing`, `arrived`, `in_flight` are the swarm's; `call`, `held`, `handle`, `receivers` the application's; `established` is history |
| `MC*` | constants of the runs | - |
| `*Proofs` | theorems about the module in the name | - |

`Setup`, `Publisher` and `Records` extend `Envelope`, and `EnvelopeLifetime` extends
`Publisher` for its clock, so that one run serves both; `Setup` instantiates
`PeerRegistry` with a refinement mapping (`online` is the set of transports with
a connection, `key` and `peer` are the two maps). `Traffic` extends `Setup`: a step
is one of `Setup` or one of traffic, and traffic reads the maps and changes none.
`EventLoop` stands beside them: it models when the task gets to handle something,
the other modules what it does then.

Conventions. One action is one handler, run to its end; a function of the code
that a handler calls is an operator of the same name where the name is legal. An
operator defined just before a mapped one, with a longer name and the same
parameters (`RemoveMappingsAlways` before `RemoveMappings`), is a faulty variant:
replacing the original by it breaks the property listed with it under `mutants`,
which shows that the property depends on that code.

What the models leave out within these components:

* Signatures are a flag (`valid`), with the assumption that only a holder of a key
  signs with it. In `Setup` a process signs only setup messages that name its own
  transport id, for any addressee and at any time, and anyone can resend them. The
  events `NegotiationFailed` and `ErrorDuringSetupHandshake`, which the node handles
  alike, are one event, `HandshakeFailed`.
* Wall clocks in `Setup` are free: a handler may read any time. In `Reputation` the
  clock does not run backwards. Scores, f64 in the code, are integers in a unit in
  which cost, rate and threshold are whole.
* In `Publisher` the clock moves only when nothing is due, and a put query ends
  within `PutTime`. A cycle (a token on its way round) has a number, which the
  code does not give it, and the stage `lost` once no query was started for it.
* In `Traffic` a request, response or gossip message is dropped by each check without
  effect, so the checks are one condition, and only accepted messages are steps.
  Anybody may pass on what somebody else has signed, at any time.
* In `EventLoop` a message passes its checks or does not, and a command has no effect
  but to leave its channel. The signer returns. The application answers a request,
  drops its oneshot, drops its handle, or does nothing, at any time and in any order.
  `try_send` is refused while another sender waits for room, as tokio's semaphore
  hands permits to waiters first. Requests in the swarm have an identity that is
  reused once no trace of it is left.
* In `Records` the multiaddresses in a record are left out. A query reports whatever
  records the remote peers send, under any key. Expiry of a stored record may happen
  at any time.

## 3. Runs

Passing runs:

| run | instance | shows |
|---|---|---|
| `traffic` | two connections to an operator, one to a stranger, channel of one event, a request in flight, messages of two sizes, both phases | the handshake: `BoundPeersConnected`, `BindingsAuthentic`, `MapsInverse`, `QueriesAgree`, `RefusedNeverOpen`, `BindingLostOnlyAtLastClose`, `ImplementsRegistry`, and under fairness `RefusedEventuallyClosed`; the messages: `OnlyOperatorsHeard`, `RequestsToHolders`, `AnswersFromAsked` |
| `event_loop` | two addresses with one retry, one caller, two requests, channels of one, up to two gossip receivers | `TypeOK` (capacities included), `StartupHonest`, `StopsForCause`, `WaitsForSomebody`, and under fairness `CancellationStops`, `QueriesReturn`, `RequestsTakenUp` |
| `dialing_fallback` | two keys, lists of up to three addresses, five attempts, no limit | `OneAttemptPerSequence`, `NothingSkipped`, `GivenUpOnlyWhenExhausted`, `QuicDialedFirst`, `AttemptsUnderWay`, and under fairness `SequenceEnds` |
| `reputation` | one peer with two connections, both protocols, three seconds | `BannedNeverOpen`, `PenaltyKept`, and `RateLimited`: no order of messages, queries, mutes, pardons and set scores lets more messages through than score and time pay for |
| `publisher_cycle` | the default durations in units of 100 s, three possible cycles, channel of one, puts that may fail in every way; envelopes of four dates, five durations with fractions | `OnePublisher`, `NeverBlocked`, `CycleKept`, `RecordNotExpired`: the record is replaced before it expires in the DHT; `ChecksAgree`, `DateWindow`, `NoRevival`: the three date checks accept the same dates, a window with both ends, and too old stays too old |
| `records` | two keys, two concurrent lookups that keep up to two records, dates two seconds apart | `StoreAuthentic`, `OneAnswerPerLookup`, `AnswerIsLatest`, under fairness `EveryLookupAnswered`, and `ReplaysBounded`: a stored record gives way only to a newer one, and a replay after kademlia dropped it goes back by maximal age plus skew at most |

The bounds. The setup properties relate at most two connections of a peer, or two
transports of a key, and one outsider; a slot is reused after it closed, so runs
of any length are covered. A channel of one event already lets an event wait
while the connection closes. In `traffic` one request is in flight at a time: requests
do not influence each other, each has its peer and its key. Several
transports per key or keys per process make that run too large; the theorems about
its invariants cover them, and `setup_lookup` has a restarted operator. In
`event_loop` channels of one are full as soon as anything is in them, a second
request can arrive while the application still holds the first, whose wait has timed
out, and two addresses let one dial fail and the other succeed in either order. Dial sequences of three addresses have a first, a
middle and a last one, and five attempts let two sequences and other dials
interleave; an unfinished sequence at `MaxConn` counts as ended. The second
message at once brings a mute, a message costs what two seconds give back, and a
mute lasts two seconds, so three seconds contain a mute, its end and a recovery,
with decays at different moments; peers share no state, so one is enough. In `publisher_cycle` the
channel is as small as possible and three cycles could exist, so a second cycle
would be seen, and would block. The durations are the repository's defaults with 100 s
as the unit: a TTL of 36, a retry after 3, a margin of 3 before the record expires, an
age of 3 and a put of at most 1; the clock runs over two rounds. The five durations of
the date checks belong to other configurations: fractions of a second at both sides of
a whole one, and a skew so long that clock plus skew no longer fits. In `records`
each date is ahead of the window, within it and behind it as the clock moves, two records
kept for a lookup can have different dates or the same, and different keys, and a
replay that goes back by all that `ReplaysBounded` allows happens. Runs with a
clock or a count that stops have deadlock checking off, and so has `event_loop`,
where the node really stops; the setup and traffic runs, whose bounds are not
counters, keep it on.

The types of the other modules are not repeated in the runs: that they hold is
proved (`TypeCorrect`, `TrafficTypeCorrect`).

Fairness, only where a property needs it:

* `Setup`: the node keeps taking events (it is a loop over the swarm), and a
  connection task asked to close ends (libp2p closes or drops the muxer). Nothing
  is assumed of remote peers.
* `Dialing`: an attempt that the swarm started ends with one of its two events
  (libp2p's dial timeout).
* `Records`: a kademlia query ends (its own timeout).
* `EventLoop`: the task goes on (`Dial`, `Subscribe`, and the application calls
  `listen`), and timers fire: weak fairness of `StartupTimeout`, of the two waits of
  a request and of the timeout of a query. `tokio::select!` picks at random among the
  branches that are ready, so a branch that is ready again and again is taken: strong
  fairness of cancellation, commands and requests. A sender that waits for room in an
  mpsc channel gets its turn (permits are handed out in order): strong fairness of
  `SendQuery`. Nothing is assumed of what the application does with requests.

Runs that find a statement of the repository violated (`findings` quotes them):

| run | what happens |
|---|---|
| `setup_startup` | a handshake that fails during `establish_connections` is dropped in the `_ => {}` arm; the connection is open in a listening node, against the README's "enforce the allowlist before allowing traffic" |
| `setup_lookup` | an operator restarts with a new transport key; the close of the old connection deletes the entry of the new one from `app_public_keys` |
| `dialing_limits` | a dial denied by the connection limits ends the fallback silently, and later commands for the key are dropped |
| `publisher_signer` | one failure to sign or to store the own record ends republishing |
| `publisher_defaults` | with the default durations finders refuse the record once it is five minutes old (`DEFAULT_ENVELOPE_MAX_AGE`), and it is published again after an hour (`DEFAULT_KAD_RECORD_TTL`) |
| `records_key` | a remote peer answers a lookup with a valid record of another key; the handler compares the record's key with its signer only, keeps it, and its addresses are the answer |

Seen while modelling, without a run:

* `DisconnectFromPeer` turns the application key into a `PeerId` instead of looking up
  the transport id (`swarm/mod.rs:1708`): with separate keys it disconnects nobody.
  `Setup` models it as it is.
* The doc of `establish_connections` says it waits until "all peers are subscribed";
  subscriptions are counted and only logged. `StartupHonest` is about connections.
* Requests that reach the swarm during `establish_connections` are dropped unseen.
* The doc of `is_connected` says "Returns true if connected, false otherwise"; it also
  returns false when its timeout fires, as it does while the loop waits for an answer.
* The size limits of the codec and the default timeout of handles are process-wide
  statics: two nodes in a process share the last one set.
* A peer that announces a second key on another connection leaves the first in
  `app_public_keys` for ever; `tests/setup_memory_cleanup.rs` tests one key only.
* Gossip and request-response share `last_scoring_decay_time`, and a gossip message
  decays only its own score: the other one loses the recovery of that time. `RateLimited`
  holds all the same, since time is lost and never counted twice.
* Scores are forgotten at the last disconnect of a peer, so a peer that reconnects
  starts anew; `RateLimited` counts from there.
* `Ban(None)`, documented in `validator.rs` as permanent, ends after `DEFAULT_BAN_PERIOD`.

## 4. Proofs

TLAPS checks every theorem to its last leaf, for all values of the constants that
satisfy the named assumption of the module (`SetupAssumption`, ...). The assumptions
say that constants have the right type, that "None" values are not proper ones,
and in `Publisher` and `Records` that clock plus skew fits a u64. Some theorems need
more:

* `DateChecksAgree` needs that clock plus skew fits a u64 (`SkewFits`); beyond it
  the addition wraps and the forms differ.
* `ReverseLookupSound` needs one key per transport; `BimapCorrect`,
  `QueriesConsistent` and `SetupImplementsRegistry` need keys and transports one
  to one, and so does `TrafficImplementsRegistry`.
* `LookupCompleteWithoutRekeying` needs one transport per key, and nothing else: a
  peer may announce several keys. Run `setup_lookup` violates `LookupComplete` when
  an operator changes its transport, and this theorem says that there is no other way.
* `AttemptsUnderWay`, proved in `NoOrphanedAttempt`, is about a limit on pending dials
  that is above the number of attempts; run `dialing_limits` shows the other case.
* `RecordOutlivesRound` needs that two puts fit into the margin between
  `kad_record_ttl` and the expiry of the record. The margin is five minutes in the code,
  and kademlia's query timeout of one minute bounds each of the two phases of a put.
* `HonestReportsSuffice` needs that the peers asked report records of the key asked for
  only, an assumption about the environment that the code does not check. It says that
  the case of run `records_key` is the only way to a wrong answer.

The arguments:

* **Setup.** An idle connection has no events and no verdict, and a refused one is
  not open (`ConnInv`); every announced key, in the maps *and in events still in a
  channel*, is one that the peer's process holds (`KeyInv`). The second half is
  what makes it inductive: `HandlerEvent` binds what the channel holds. From these
  follow the invariants, the action property, and the refinement: a step of
  `Setup` is an arrival, an announcement, a departure of `PeerRegistry` or a
  stutter, because the reverse of a map without repeated keys is unique. The forward lookup
  is complete while no two transports share a key, since only the departure of the
  transport bound to a key then removes its entry (`BindingsFindable`). A listening
  node misses no refusal, and a refused connection is never open, so a node that did not
  miss one before `listen` enforces its allowlist (`AllowlistEnforcedAfterCleanStart`):
  run `setup_startup` shows the only way to get around it.
* **Traffic.** Every behaviour of `TrafficSpec` is one of `Setup`
  (the lemma `TrafficImplementsSetup`: the maps are read and never changed), so `KeyInv`
  holds in it. With it each delivered event and
  each request in flight satisfies its property at the moment it is created, and these
  are never changed afterwards: what a peer signs with does not depend on the state.
  That the maps change in between therefore does no harm. By the same refinement the
  composition implements `PeerRegistry`.
* **EventLoop.** `WaitsForSomebody` needs that what the task is sending is a real event
  (`SendsSomething`); then a waiting request is in the channel, moves from its head
  to the application, and leaves it only with an answer or a dropped sender.
  `StopsForCause` follows since a handle, once dropped, and a last receiver, once gone,
  do not come back while `listen` runs. `StartupHonest` needs that every address the
  dial loop is done with is still counted as not connected or has been connected,
  whether its dial succeeded or not (`StartupInv`).
* **Dialing.** The sequences with a queue and the attempts in `conn_to_dial` are in
  bijection, attempts not yet numbered are unused, and for a running sequence
  dialed addresses followed by the queue are the sorted list, whose QUIC addresses
  come first. `QuicDialedFirst` follows since a prefix of such a list is one. `AttemptsUnderWay` holds since attempts
  under way are among the `ConnectionId`s, fewer than the limit, so that no dial is
  denied. `FallbackProgresses` is the measure of `SequenceEnds`: the event of its own
  attempt shortens the queue of a sequence or ends it, and no other step changes it.
  `DeniedDialStrands` is the converse: a sequence whose attempt the swarm does not have
  is changed by no step at all, so the counterexample of `dialing_limits` needs no
  particular schedule after the denial.
* **Reputation.** `BannedNeverOpen` needs only types. `RateLimited` is not inductive:
  the strengthening adds, for each score, that it is at most the base minus the
  cost of the delivered messages plus what the time up to the last decay gave
  back (`RateInv`), so that no time is counted twice.
* **Publisher.** A cycle that is not idle is the only one, and there is none before
  the first routing update and one ever after (`CycleInv`), so the first update finds
  the channel empty; the published date plus `PutTime` plus
  `RecordTTL` bounds the time at which the next put starts, and it ends within another
  `PutTime` (`AgeInv`), which the margin covers. A lost cycle leaves none
  that could publish, and the first routing update is over: `OneFailureEndsPublishing`.
* **Records.** A lookup is not asked, under way or answered (`LookupPhases`), and while
  it is under way the history `best` is the latest of the records kept for it, the last
  of several with its date; appending a record makes it the latest or leaves the old
  one (`LatestOfAppend`), so the maximum taken at the end of the query and the
  history agree. The record check is the date window of `Envelope`, so what is stored is
  at most the skew ahead of the clock and never was further ahead (`NewestBounded`), and
  what is accepted is at most the age behind it: together they bound replays. If reports
  are honest about the key, `best` is always a record of the key asked for.
* **Envelope.** Arithmetic of whole seconds and milliseconds, and a clock that only
  moves forward.

Only model-checked: the liveness properties (`RefusedEventuallyClosed`,
`SequenceEnds`, `EveryLookupAnswered`, `CancellationStops`, `QueriesReturn`,
`RequestsTakenUp`), since reasoning about fairness is out of the prover's reach. For
`SequenceEnds` the safety half is proved: every sequence has an attempt, the attempt is
under way, and its event shortens the sequence; what is left is that the event comes.
Every invariant and action property of a passing run is stated by a theorem.

Five of the six violating runs have a theorem that says why, and that the cause is the
only one or its effect final: `AllowlistEnforcedAfterCleanStart`,
`LookupCompleteWithoutRekeying`, `DeniedDialStrands`, `OneFailureEndsPublishing` and
`HonestReportsSuffice`. The sixth, `publisher_defaults`, is a matter of two numbers.

## 5. Not modelled

* Cryptography, serialization and framing, construction of transports and
  behaviours, error types: no state of their own.
* Gossipsub's mesh and message cache, and the validation results that
  `handle_gossip_msg` reports to it: state of libp2p.
* The broadcast channels of gossip and command events beyond the question whether a
  receiver exists: a slow receiver loses the oldest events (`RecvError::Lagged`), which
  is tokio's and does not reach back into the node.
* `ConnectToPeer` without BYOS: one call of `Swarm::dial`, the fallback is libp2p's.
* A `SystemTime` of bounded range (a penalty whose end does not fit it).

## 6. Plan

What is left, in this order: the safety halves of the other liveness properties, as
`FallbackProgresses` is for `SequenceEnds` (what a step can do to a query that waits, to
a refused connection, to a lookup under way); a larger `event_loop` instance with two
callers, if it can be kept short.
