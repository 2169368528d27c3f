------------------------------ MODULE EventLoop ------------------------------
(***************************************************************************)
(* The task of a P2P node, from establish_connections to the end of        *)
(* listen, and what it shares with the application: the three command      *)
(* channels, the queries with their oneshot replies, the channel of        *)
(* request-response events with the oneshot of each request, the broadcast *)
(* of gossip, and the cancellation token.                                  *)
(*                                                                         *)
(* The task handles one thing at a time.  While it handles a request it    *)
(* waits twice, each time up to channel_timeout: for room in               *)
(* req_resp_events, and for the answer of the application.  The            *)
(* application may itself be waiting for the node then: it may call        *)
(* is_connected in the middle of answering a request.  So nothing is       *)
(* assumed of it: it may answer, drop or forget a request at any time.     *)
(*                                                                         *)
(* Which messages pass the checks is the subject of Traffic and            *)
(* Reputation; here a message passes or does not.                          *)
(***************************************************************************)
EXTENDS Naturals, Sequences

CONSTANTS
    ConnectTo,          \* config.connect_to: a sequence of addresses
    MaxRetries,         \* config.max_retries
    Callers,            \* tasks of the application that query the node
    CommandCapacity,    \* capacity of the three command channels
    EventCapacity,      \* capacity of req_resp_events
    Requests,           \* bound: requests of peers that can be around at a time
    MaxInFlight,        \* bound: own requests in flight
    MaxReceivers,       \* bound: receivers of gossip events
    Response,           \* a ReceivedResponse event
    Nothing

Addresses == {ConnectTo[i] : i \in 1..Len(ConnectTo)}

ASSUME EventLoopAssumption ==
    /\ ConnectTo \in Seq(Addresses)
    /\ MaxRetries \in Nat
    /\ CommandCapacity \in Nat \ {0}
    /\ EventCapacity \in Nat \ {0}
    /\ MaxInFlight \in Nat
    /\ MaxReceivers \in Nat
    /\ Response \notin Requests
    /\ Nothing \notin Requests \cup {Response}

VARIABLES
    step,               \* where the task is
    dialed,             \* addresses that the dial loop is done with
    num_retries,        \* of the dial or subscribe loop
    is_not_connected,   \* addresses without a connection of ours
    dialing,            \* dials under way in the swarm, by their place in connect_to
    established,        \* history: addresses with a connection that we dialed
    outcome,            \* how establish_connections ended
    queued,             \* number of commands in each of the three channels
    call,               \* where a query of a caller is
    in_flight,          \* number of own requests without response or failure
    arrived,            \* requests of peers that the swarm will report
    current,            \* what the task is putting to the application
    answer,             \* the oneshot of the current request
    req_resp_events,    \* the channel to the ReqRespHandle
    handle,             \* the ReqRespHandle exists
    held,               \* the requests that the application works on
    receivers,          \* receivers of gossip events
    cancelled           \* the cancellation token

startup_vars == <<dialed, num_retries, is_not_connected, dialing, established, outcome>>
command_vars == <<queued, call>>
reqresp_vars == <<in_flight, arrived, current, answer, req_resp_events, handle, held>>
app_vars == <<receivers, cancelled>>
vars == <<step, dialed, num_retries, is_not_connected, dialing, established, outcome,
          queued, call, in_flight, arrived, current, answer, req_resp_events, handle, held,
          receivers, cancelled>>

Channels == {"commands", "gossip_commands", "request_response_commands"}

ToSet(s) == {s[i] : i \in 1..Len(s)}

-----------------------------------------------------------------------------
(* establish_connections.  Neither commands nor the cancellation token are *)
(* looked at, and until the last loop the swarm is not polled either.      *)

\* The dial loop is over for the address: it counts as not connected, whether it
\* was dialed or not.
DialDoneIfDialed(ok) ==
    LET addr == ConnectTo[dialed + 1]
    IN  /\ dialed' = dialed + 1
        /\ num_retries' = 0
        /\ is_not_connected' = IF ok THEN is_not_connected \cup {addr} ELSE is_not_connected
        /\ dialing' = IF ok THEN dialing \cup {dialed + 1} ELSE dialing
        /\ UNCHANGED step

DialDone(ok) ==
    LET addr == ConnectTo[dialed + 1]
    IN  /\ dialed' = dialed + 1
        /\ num_retries' = 0
        /\ is_not_connected' = is_not_connected \cup {addr}
        /\ dialing' = IF ok THEN dialing \cup {dialed + 1} ELSE dialing
        /\ UNCHANGED step

\* The loop sleeps for dial_timeout and tries again.
DialAgain ==
    /\ num_retries' = num_retries + 1
    /\ UNCHANGED <<step, dialed, is_not_connected, dialing>>

Dial ==
    /\ step = "dialing"
    /\ dialed < Len(ConnectTo)
    /\ \/ DialDone(TRUE)
       \/ num_retries + 1 > MaxRetries /\ DialDone(FALSE)
       \/ num_retries + 1 <= MaxRetries /\ DialAgain
    /\ UNCHANGED <<established, outcome, command_vars, reqresp_vars, app_vars>>

\* The subscribe loop: it ends with a success or after the last retry.
Subscribe ==
    /\ step \in {"dialing", "subscribing"}
    /\ step = "dialing" => dialed = Len(ConnectTo)
    /\ \/ step' = "connecting" /\ num_retries' = 0
       \/ num_retries + 1 <= MaxRetries /\ step' = "subscribing" /\ num_retries' = num_retries + 1
    /\ UNCHANGED <<dialed, is_not_connected, dialing, established, outcome,
                   command_vars, reqresp_vars, app_vars>>

\* The check at the end of the event loop.
ReturnIfConnected ==
    IF is_not_connected' = {} THEN step' = "ready" /\ outcome' = "all"
    ELSE UNCHANGED <<step, outcome>>

DialerConnected(i) ==
    /\ step = "connecting"
    /\ i \in dialing
    /\ dialing' = dialing \ {i}
    /\ established' = established \cup {ConnectTo[i]}
    /\ is_not_connected' = is_not_connected \ {ConnectTo[i]}
    /\ ReturnIfConnected
    /\ UNCHANGED <<dialed, num_retries, command_vars, reqresp_vars, app_vars>>

\* OutgoingConnectionError is only logged.
DialFailed(i) ==
    /\ step = "connecting"
    /\ i \in dialing
    /\ dialing' = dialing \ {i}
    /\ UNCHANGED is_not_connected
    /\ ReturnIfConnected
    /\ UNCHANGED <<dialed, num_retries, established, command_vars, reqresp_vars, app_vars>>

\* Every other event, a request of a peer included, is dropped.  The event of a
\* connection that a peer dialed also skips the check (`continue`).
OtherStartupEvent ==
    /\ step = "connecting"
    /\ \/ \E r \in arrived : arrived' = arrived \ {r}
       \/ UNCHANGED arrived
    /\ UNCHANGED is_not_connected
    /\ ReturnIfConnected
    /\ UNCHANGED <<dialed, num_retries, dialing, established, command_vars, in_flight, current,
                   answer, req_resp_events, handle, held, app_vars>>

\* general_timeout.
StartupTimeout ==
    /\ step = "connecting"
    /\ step' = "ready"
    /\ outcome' = "timeout"
    /\ UNCHANGED <<dialed, num_retries, is_not_connected, dialing, established,
                   command_vars, reqresp_vars, app_vars>>

\* The application calls listen.  What was local to establish_connections is gone;
\* to listen, the outcome of a late dial is an event like any other.
Listen ==
    /\ step = "ready"
    /\ step' = "idle"
    /\ dialed' = 0
    /\ is_not_connected' = {}
    /\ dialing' = {}
    /\ established' = {}
    /\ outcome' = "none"
    /\ UNCHANGED <<num_retries, command_vars, reqresp_vars, app_vars>>

-----------------------------------------------------------------------------
(* listen. *)

\* listen returns, P2P is dropped with the swarm and its ends of the channels.
Stop ==
    /\ step' = "stopped"
    /\ queued' = [ch \in Channels |-> 0]
    /\ in_flight' = 0
    /\ arrived' = {}
    /\ current' = Nothing
    /\ answer' = "none"
    /\ UNCHANGED <<call, req_resp_events, handle, held>>

Cancelled ==
    /\ step = "idle"
    /\ cancelled
    /\ Stop
    /\ UNCHANGED <<startup_vars, app_vars>>

Take(ch) ==
    /\ step = "idle"
    /\ queued[ch] > 0
    /\ queued' = [queued EXCEPT ![ch] = @ - 1]
    /\ UNCHANGED <<step, startup_vars, call, app_vars>>

\* handle_command, whose effects are the subject of the other modules.  The reply
\* to a query is sent whether or not somebody still waits for it.
HandleCommandAfterEvents ==
    /\ arrived = {}
    /\ Take("commands")
    /\ UNCHANGED reqresp_vars

HandleCommand ==
    /\ Take("commands")
    /\ UNCHANGED reqresp_vars

\* handle_gossip_command: every failure is only logged.
HandleGossipCommand ==
    /\ Take("gossip_commands")
    /\ UNCHANGED reqresp_vars

\* handle_request_response_command: the request is sent, or dropped because the
\* peer is unknown or not connected, or signing fails.
HandleReqRespCommand ==
    /\ Take("request_response_commands")
    /\ \/ in_flight < MaxInFlight /\ in_flight' = in_flight + 1
       \/ UNCHANGED in_flight
    /\ UNCHANGED <<arrived, current, answer, req_resp_events, handle, held>>

\* handle_gossip_msg: broadcasting an accepted message fails without receivers.
HandleGossip ==
    /\ step = "idle"
    /\ receivers = 0
    /\ Stop
    /\ UNCHANGED <<startup_vars, app_vars>>

\* The first poll of `req_resp_events.send(event)`: done if there is room.
PutEvent(e) ==
    /\ handle
    /\ current' = IF e = Response /\ Len(req_resp_events) < EventCapacity THEN Nothing ELSE e
    /\ step' = IF Len(req_resp_events) = EventCapacity THEN "sending"
               ELSE IF e = Response THEN "idle" ELSE "waiting"
    /\ req_resp_events' = IF Len(req_resp_events) = EventCapacity THEN req_resp_events
                          ELSE Append(req_resp_events, e)

\* handle_message_event, Message::Request.
HandleRequestAfterCommands(r) ==
    /\ step = "idle"
    /\ r \in arrived
    /\ queued["request_response_commands"] = 0
    /\ arrived' = arrived \ {r}
    /\ PutEvent(r) \/ UNCHANGED <<step, current, req_resp_events>>
    /\ UNCHANGED <<startup_vars, command_vars, in_flight, answer, handle, held, app_vars>>

HandleRequest(r) ==
    /\ step = "idle"
    /\ r \in arrived
    /\ arrived' = arrived \ {r}
    /\ PutEvent(r) \/ UNCHANGED <<step, current, req_resp_events>>
    /\ UNCHANGED <<startup_vars, command_vars, in_flight, answer, handle, held, app_vars>>

\* handle_message_event, Message::Response, and OutboundFailure.
HandleResponse ==
    /\ step = "idle"
    /\ in_flight > 0
    /\ in_flight' = in_flight - 1
    /\ PutEvent(Response) \/ UNCHANGED <<step, current, req_resp_events>>
    /\ UNCHANGED <<startup_vars, command_vars, arrived, answer, handle, held, app_vars>>

\* ReqRespEventChannelClosed: an accepted message finds the handle dropped.
EventChannelClosed ==
    /\ ~handle
    /\ \/ step = "idle" /\ (arrived # {} \/ in_flight > 0)
       \/ step = "sending"
    /\ Stop
    /\ UNCHANGED <<startup_vars, app_vars>>

SendCompletes ==
    /\ step = "sending"
    /\ handle
    /\ Len(req_resp_events) < EventCapacity
    /\ PutEvent(current)
    /\ UNCHANGED <<startup_vars, command_vars, in_flight, arrived, answer, handle, held, app_vars>>

\* The event is dropped, and with it the oneshot sender of a request: the wait
\* for the answer that follows ends at once.
SendTimeoutKeepsWaiting ==
    /\ step = "sending"
    /\ step' = IF current = Response THEN "idle" ELSE "waiting"
    /\ current' = IF current = Response THEN Nothing ELSE current
    /\ UNCHANGED <<startup_vars, command_vars, in_flight, arrived, answer, req_resp_events,
                   handle, held, app_vars>>

SendTimeoutFatal ==
    /\ step = "sending"
    /\ Stop
    /\ UNCHANGED <<startup_vars, app_vars>>

SendTimeout ==
    /\ step = "sending"
    /\ step' = "idle"
    /\ current' = Nothing
    /\ UNCHANGED <<startup_vars, command_vars, in_flight, arrived, answer, req_resp_events,
                   handle, held, app_vars>>

\* The request is over: its oneshot is closed, whatever the application does later.
RequestDone ==
    /\ step' = "idle"
    /\ current' = Nothing
    /\ answer' = "none"
    /\ UNCHANGED <<startup_vars, command_vars, in_flight, arrived, req_resp_events, handle, held, app_vars>>

\* The application answered, and the response is signed and sent, or a step of
\* this fails; or it dropped the sender.
AnswerReady ==
    /\ step = "waiting"
    /\ answer # "none"
    /\ RequestDone

\* channel_timeout fires; an answer that comes in this very moment is lost.
AnswerTimeoutNever == FALSE /\ RequestDone

AnswerTimeout ==
    /\ step = "waiting"
    /\ RequestDone

-----------------------------------------------------------------------------
(* Peers, as a swarm that is polled reports them. *)

RequestArrives(r) ==
    /\ step \notin {"dialing", "subscribing", "stopped"}
    /\ r \notin arrived \cup held \cup {current} \cup ToSet(req_resp_events)
    /\ arrived' = arrived \cup {r}
    /\ UNCHANGED <<step, startup_vars, command_vars, in_flight, current, answer,
                   req_resp_events, handle, held, app_vars>>

-----------------------------------------------------------------------------
(* The application and its handles. *)

\* CommandHandle::is_connected and get_connected_peers: the send waits for room
\* without limit, the reply is awaited for a time.
CallQuery(c) ==
    /\ call[c] = "idle"
    /\ step # "stopped"
    /\ call' = [call EXCEPT ![c] = "sending"]
    /\ UNCHANGED <<step, startup_vars, queued, reqresp_vars, app_vars>>

SendQueryUnbounded(c) ==
    /\ call[c] = "sending"
    /\ step # "stopped"
    /\ queued' = [queued EXCEPT !["commands"] = @ + 1]
    /\ call' = [call EXCEPT ![c] = "awaiting"]
    /\ UNCHANGED <<step, startup_vars, reqresp_vars, app_vars>>

SendQuery(c) ==
    /\ call[c] = "sending"
    /\ step # "stopped"
    /\ queued["commands"] < CommandCapacity
    /\ queued' = [queued EXCEPT !["commands"] = @ + 1]
    /\ call' = [call EXCEPT ![c] = "awaiting"]
    /\ UNCHANGED <<step, startup_vars, reqresp_vars, app_vars>>

\* The call returns: the send failed, the reply came or will never come, or the
\* timeout fired.
QueryReturns(c) ==
    /\ \/ call[c] = "sending" /\ step = "stopped"
       \/ call[c] = "awaiting"
    /\ call' = [call EXCEPT ![c] = "idle"]
    /\ UNCHANGED <<step, startup_vars, queued, reqresp_vars, app_vars>>

\* Sink::start_send of the three handles: try_send, refused at a full channel and
\* while a sender waits for room.
StartSend(ch) ==
    /\ step # "stopped"
    /\ ch = "commands" => \A c \in Callers : call[c] # "sending"
    /\ ch = "gossip_commands" => receivers > 0
    /\ ch = "request_response_commands" => handle
    /\ queued[ch] < CommandCapacity
    /\ queued' = [queued EXCEPT ![ch] = @ + 1]
    /\ UNCHANGED <<step, startup_vars, call, reqresp_vars, app_vars>>

\* ReqRespHandle::next_event.
NextEvent ==
    /\ handle
    /\ req_resp_events # <<>>
    /\ req_resp_events' = Tail(req_resp_events)
    /\ held' = held \cup ({Head(req_resp_events)} \ {Response})
    /\ UNCHANGED <<step, startup_vars, command_vars, in_flight, arrived, current, answer, handle, app_vars>>

\* The application answers a request that it holds ("given"), or drops its oneshot
\* sender ("dropped").  The node notices if it still waits for this request.
Finish(r, a) ==
    /\ r \in held
    /\ held' = held \ {r}
    /\ answer' = IF current = r THEN a ELSE answer
    /\ UNCHANGED <<step, startup_vars, command_vars, in_flight, arrived, current, req_resp_events,
                   handle, app_vars>>

\* The ReqRespHandle is dropped with the events in its channel.
DropHandle ==
    /\ handle
    /\ handle' = FALSE
    /\ req_resp_events' = <<>>
    /\ answer' = IF current \in ToSet(req_resp_events) THEN "dropped" ELSE answer
    /\ UNCHANGED <<step, startup_vars, command_vars, in_flight, arrived, current, held, app_vars>>

\* new_gossip_handle, before listen takes the node; then GossipHandle's Clone,
\* get_new_receiver and drop.  Without a receiver there is none to clone.
NewGossipHandle ==
    /\ step = "ready"
    /\ receivers < MaxReceivers
    /\ receivers' = receivers + 1
    /\ UNCHANGED <<step, startup_vars, command_vars, reqresp_vars, cancelled>>

CloneReceiver ==
    /\ receivers \in 1..(MaxReceivers - 1)
    /\ receivers' = receivers + 1
    /\ UNCHANGED <<step, startup_vars, command_vars, reqresp_vars, cancelled>>

DropReceiver ==
    /\ receivers > 0
    /\ receivers' = receivers - 1
    /\ UNCHANGED <<step, startup_vars, command_vars, reqresp_vars, cancelled>>

Cancel ==
    /\ ~cancelled
    /\ cancelled' = TRUE
    /\ UNCHANGED <<step, startup_vars, command_vars, reqresp_vars, receivers>>

-----------------------------------------------------------------------------
Init ==
    /\ step = "dialing"
    /\ dialed = 0
    /\ num_retries = 0
    /\ is_not_connected = {}
    /\ dialing = {}
    /\ established = {}
    /\ outcome = "none"
    /\ queued = [ch \in Channels |-> 0]
    /\ call = [c \in Callers |-> "idle"]
    /\ in_flight = 0
    /\ arrived = {}
    /\ current = Nothing
    /\ answer = "none"
    /\ req_resp_events = <<>>
    /\ handle = TRUE
    /\ held = {}
    /\ receivers \in 0..MaxReceivers
    /\ cancelled = FALSE

Startup ==
    \/ Dial
    \/ Subscribe
    \/ \E i \in 1..Len(ConnectTo) : DialerConnected(i) \/ DialFailed(i)
    \/ OtherStartupEvent
    \/ StartupTimeout
    \/ Listen

Loop ==
    \/ Cancelled
    \/ HandleCommand
    \/ HandleGossipCommand
    \/ HandleReqRespCommand
    \/ HandleGossip
    \/ \E r \in Requests : HandleRequest(r)
    \/ HandleResponse
    \/ EventChannelClosed
    \/ SendCompletes
    \/ SendTimeout
    \/ AnswerReady
    \/ AnswerTimeout

Application ==
    \/ \E c \in Callers : CallQuery(c) \/ SendQuery(c) \/ QueryReturns(c)
    \/ \E ch \in Channels : StartSend(ch)
    \/ NextEvent
    \/ \E r \in Requests, a \in {"given", "dropped"} : Finish(r, a)
    \/ DropHandle
    \/ NewGossipHandle
    \/ CloneReceiver
    \/ DropReceiver
    \/ Cancel

Next == Startup \/ Loop \/ Application \/ \E r \in Requests : RequestArrives(r)

Spec == Init /\ [][Next]_vars

(***************************************************************************)
(* The task makes progress through establish_connections and its timers    *)
(* fire.  tokio::select! picks at random among the branches that are ready,*)
(* so a branch that is ready again and again is taken: strong fairness.    *)
(* A sender that waits for room in an mpsc channel gets its turn (the      *)
(* permits are handed out in order), and the timeout of a query fires.     *)
(* Nothing is assumed of the application's handling of requests.           *)
(***************************************************************************)
Fairness ==
    /\ WF_vars(Dial \/ Subscribe \/ Listen)
    /\ WF_vars(StartupTimeout)
    /\ WF_vars(SendCompletes \/ SendTimeout)
    /\ WF_vars(AnswerReady \/ AnswerTimeout)
    /\ SF_vars(Cancelled)
    /\ SF_vars(HandleCommand)
    /\ \A r \in Requests : SF_vars(HandleRequest(r) \/ EventChannelClosed)
    /\ \A c \in Callers : SF_vars(SendQuery(c)) /\ WF_vars(QueryReturns(c))

FairSpec == Spec /\ Fairness

-----------------------------------------------------------------------------
(* Properties. *)

Steps == {"dialing", "subscribing", "connecting", "ready", "idle", "sending", "waiting", "stopped"}

\* Type invariant; the channels respect their capacities.
TypeOK ==
    /\ step \in Steps
    /\ dialed \in 0..Len(ConnectTo)
    /\ num_retries \in 0..MaxRetries
    /\ is_not_connected \subseteq Addresses
    /\ dialing \subseteq 1..Len(ConnectTo)
    /\ established \subseteq Addresses
    /\ outcome \in {"none", "all", "timeout"}
    /\ queued \in [Channels -> 0..CommandCapacity]
    /\ call \in [Callers -> {"idle", "sending", "awaiting"}]
    /\ in_flight \in 0..MaxInFlight
    /\ arrived \subseteq Requests
    /\ current \in Requests \cup {Response, Nothing}
    /\ answer \in {"none", "given", "dropped"}
    /\ req_resp_events \in Seq(Requests \cup {Response}) /\ Len(req_resp_events) <= EventCapacity
    /\ handle \in BOOLEAN
    /\ held \subseteq Requests
    /\ receivers \in 0..MaxReceivers
    /\ cancelled \in BOOLEAN

\* establish_connections returns before its timeout only after every address of
\* connect_to has had a connection that this node dialed, whatever dials failed
\* at once or later and whoever dialed us meanwhile.
StartupHonest == outcome = "all" => Addresses \subseteq established

\* listen ends only because of the application: it cancelled, dropped the
\* ReqRespHandle or has no gossip receiver.  An application that is slow, stuck
\* or deaf to its events never stops the node.
StopsForCause == step = "stopped" => cancelled \/ ~handle \/ receivers = 0

\* The task never waits for an answer that nobody can give: the request is in the
\* channel or with the application, or its answer or the end of its sender is
\* already there.
WaitsForSomebody ==
    step = "waiting" =>
        /\ current \in Requests
        /\ current \in ToSet(req_resp_events) \cup held \/ answer # "none"

\* Cancellation stops the node, although establish_connections does not look at
\* the token and the application may sit on a request for ever.
CancellationStops == cancelled ~> step = "stopped"

\* Every call of is_connected or get_connected_peers returns, although the send
\* before it has no timeout, the command channel may be full, and the caller may
\* be the one the node waits for.
QueriesReturn == \A c \in Callers : call[c] # "idle" ~> call[c] = "idle"

\* A request of a peer is taken up, unless the node stops, however busy the other
\* branches of listen are and however slow the application is with earlier ones.
RequestsTakenUp == \A r \in Requests : r \in arrived ~> r \notin arrived
=============================================================================
