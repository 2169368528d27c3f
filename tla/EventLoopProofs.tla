--------------------------- MODULE EventLoopProofs ---------------------------
(***************************************************************************)
(* Theorems about EventLoop: for every list of addresses to dial, any      *)
(* number of callers and requests, and any capacities of the channels.     *)
(***************************************************************************)
EXTENDS EventLoop, SequenceTheorems, TLAPS

-----------------------------------------------------------------------------
(* Types.  The task sends something when it waits for room in the channel of
   events: without this SendCompletes could put Nothing into it. *)

SendsSomething == step = "sending" => current \in Requests \cup {Response}

\* Every initial state has the right types.
LEMMA InitTypes == Init => TypeOK
<1> SUFFICES ASSUME Init PROVE TypeOK
  OBVIOUS
<1> USE EventLoopAssumption DEF Steps, Channels
<1>1. dialed \in 0..Len(ConnectTo) /\ dialing \subseteq 1..Len(ConnectTo)
  <2>1. Len(ConnectTo) \in Nat
    OBVIOUS
  <2> QED BY <2>1 DEF Init
<1>2. queued \in [Channels -> 0..CommandCapacity]
  BY DEF Init
<1>3. call \in [Callers -> {"idle", "sending", "awaiting"}]
  BY DEF Init
<1>4. req_resp_events \in Seq(Requests \cup {Response}) /\ Len(req_resp_events) <= EventCapacity
  BY DEF Init
<1>5. handle \in BOOLEAN /\ cancelled \in BOOLEAN
  BY DEF Init
<1>6. current \in Requests \cup {Response, Nothing} /\ receivers \in 0..MaxReceivers
  BY DEF Init
<1> QED BY <1>1, <1>2, <1>3, <1>4, <1>5, <1>6 DEF Init, TypeOK

\* What PutEvent leaves: the event in the channel or in the hands of the task.
LEMMA PutEventTypes ==
    ASSUME TypeOK, NEW e \in Requests \cup {Response}, PutEvent(e)
    PROVE  /\ step' \in Steps
           /\ current' \in Requests \cup {Response, Nothing}
           /\ req_resp_events' \in Seq(Requests \cup {Response})
           /\ Len(req_resp_events') <= EventCapacity
           /\ step' = "sending" => current' = e
           /\ step' = "waiting" => e \in Requests /\ current' = e /\ req_resp_events' = Append(req_resp_events, e)
           /\ step' # "stopped"
BY EventLoopAssumption DEF PutEvent, TypeOK, Steps

\* The steps of establish_connections keep the types.
LEMMA StartupTypes == ASSUME TypeOK, Startup PROVE TypeOK'
<1> USE EventLoopAssumption DEF Steps, Channels
<1>1. CASE Dial
  <2> USE <1>1 DEF Dial
  <2>1. Len(ConnectTo) \in Nat /\ dialed + 1 \in 1..Len(ConnectTo)
    BY DEF TypeOK
  <2>2. ASSUME NEW ok \in BOOLEAN, DialDone(ok) PROVE TypeOK'
    <3>1. ConnectTo[dialed + 1] \in Addresses
      BY <2>1 DEF Addresses
    <3>2. is_not_connected' \subseteq Addresses
      BY <2>2, <3>1 DEF DialDone, TypeOK
    <3>3. dialing' \subseteq 1..Len(ConnectTo)
      BY <2>1, <2>2 DEF DialDone, TypeOK
    <3>4. dialed' \in 0..Len(ConnectTo) /\ num_retries' \in 0..MaxRetries /\ step' = step
      BY <2>1, <2>2 DEF DialDone
    <3> QED BY <3>2, <3>3, <3>4 DEF TypeOK, command_vars, reqresp_vars, app_vars
  <2>3. ASSUME num_retries + 1 <= MaxRetries, DialAgain PROVE TypeOK'
    BY <2>3 DEF DialAgain, TypeOK, command_vars, reqresp_vars, app_vars
  <2> QED BY <2>2, <2>3
<1>2. CASE Subscribe
  BY <1>2 DEF Subscribe, TypeOK, command_vars, reqresp_vars, app_vars
<1>3. CASE OtherStartupEvent
  BY <1>3 DEF OtherStartupEvent, ReturnIfConnected, TypeOK, command_vars, app_vars
<1>4. CASE StartupTimeout
  BY <1>4 DEF StartupTimeout, TypeOK, command_vars, reqresp_vars, app_vars
<1>5. CASE Listen
  BY <1>5 DEF Listen, TypeOK, command_vars, reqresp_vars, app_vars
<1>6. ASSUME NEW i \in 1..Len(ConnectTo), DialerConnected(i) \/ DialFailed(i) PROVE TypeOK'
  BY <1>6 DEF DialerConnected, DialFailed, ReturnIfConnected, TypeOK, Addresses,
              command_vars, reqresp_vars, app_vars
<1> QED BY <1>1, <1>2, <1>3, <1>4, <1>5, <1>6 DEF Startup

\* The steps of listen keep the types.
LEMMA LoopTypes == ASSUME TypeOK, SendsSomething, Loop PROVE TypeOK'
<1> USE EventLoopAssumption DEF Steps, Channels
<1>1. ASSUME Stop, UNCHANGED <<startup_vars, app_vars>> PROVE TypeOK'
  BY <1>1 DEF Stop, TypeOK, startup_vars, app_vars
<1>2. CASE Cancelled \/ HandleGossip \/ EventChannelClosed
  BY <1>1, <1>2 DEF Cancelled, HandleGossip, EventChannelClosed
<1>3. ASSUME NEW ch \in Channels, Take(ch) PROVE queued' \in [Channels -> 0..CommandCapacity]
  BY <1>3 DEF Take, TypeOK
<1>4. CASE HandleCommand \/ HandleGossipCommand
  <2>1. PICK ch \in Channels : Take(ch) /\ UNCHANGED reqresp_vars
    BY <1>4 DEF HandleCommand, HandleGossipCommand
  <2> QED BY <1>3, <2>1 DEF Take, TypeOK, startup_vars, reqresp_vars, app_vars
<1>5. CASE HandleReqRespCommand
  <2>1. queued' \in [Channels -> 0..CommandCapacity]
    BY <1>3, <1>5 DEF HandleReqRespCommand
  <2>2. in_flight' \in 0..MaxInFlight
    BY <1>5 DEF HandleReqRespCommand, TypeOK
  <2> QED BY <1>5, <2>1, <2>2 DEF HandleReqRespCommand, Take, TypeOK, startup_vars, app_vars
<1>6. ASSUME NEW r \in Requests, HandleRequest(r) PROVE TypeOK'
  <2>1. CASE PutEvent(r)
    BY <1>6, <2>1, PutEventTypes DEF HandleRequest, TypeOK, startup_vars, command_vars, app_vars
  <2>2. CASE UNCHANGED <<step, current, req_resp_events>>
    BY <1>6, <2>2 DEF HandleRequest, TypeOK, startup_vars, command_vars, app_vars
  <2> QED BY <1>6, <2>1, <2>2 DEF HandleRequest
<1>7. CASE HandleResponse
  <2>1. CASE PutEvent(Response)
    BY <1>7, <2>1, PutEventTypes DEF HandleResponse, TypeOK, startup_vars, command_vars, app_vars
  <2>2. CASE UNCHANGED <<step, current, req_resp_events>>
    BY <1>7, <2>2 DEF HandleResponse, TypeOK, startup_vars, command_vars, app_vars
  <2> QED BY <1>7, <2>1, <2>2 DEF HandleResponse
<1>8. CASE SendCompletes
  <2>1. current \in Requests \cup {Response}
    BY <1>8 DEF SendCompletes, SendsSomething
  <2> QED BY <1>8, <2>1, PutEventTypes DEF SendCompletes, TypeOK, startup_vars, command_vars, app_vars
<1>9. CASE SendTimeout
  BY <1>9 DEF SendTimeout, TypeOK, startup_vars, command_vars, app_vars
<1>10. CASE AnswerReady \/ AnswerTimeout
  BY <1>10 DEF AnswerReady, AnswerTimeout, RequestDone, TypeOK, startup_vars, command_vars, app_vars
<1> QED BY <1>2, <1>4, <1>5, <1>6, <1>7, <1>8, <1>9, <1>10 DEF Loop

\* The steps of the application keep the types.
LEMMA ApplicationTypes == ASSUME TypeOK, Application PROVE TypeOK'
<1> USE EventLoopAssumption DEF Steps, Channels
<1>1. ASSUME NEW c \in Callers, CallQuery(c) \/ QueryReturns(c) PROVE TypeOK'
  BY <1>1 DEF CallQuery, QueryReturns, TypeOK, startup_vars, reqresp_vars, app_vars
<1>2. ASSUME NEW c \in Callers, SendQuery(c) PROVE TypeOK'
  <2>1. queued' \in [Channels -> 0..CommandCapacity]
    BY <1>2 DEF SendQuery, TypeOK
  <2>2. call' \in [Callers -> {"idle", "sending", "awaiting"}]
    BY <1>2 DEF SendQuery, TypeOK
  <2> QED BY <1>2, <2>1, <2>2 DEF SendQuery, TypeOK, startup_vars, reqresp_vars, app_vars
<1>3. ASSUME NEW ch \in Channels, StartSend(ch) PROVE TypeOK'
  <2>1. queued' \in [Channels -> 0..CommandCapacity]
    BY <1>3 DEF StartSend, TypeOK
  <2> QED BY <1>3, <2>1 DEF StartSend, TypeOK, startup_vars, reqresp_vars, app_vars
<1>4. CASE NextEvent
  BY <1>4, HeadTailProperties DEF NextEvent, TypeOK, startup_vars, command_vars, app_vars
<1>5. ASSUME NEW r \in Requests, NEW a \in {"given", "dropped"}, Finish(r, a) PROVE TypeOK'
  BY <1>5 DEF Finish, TypeOK, startup_vars, command_vars, app_vars
<1>6. CASE DropHandle
  <2>1. req_resp_events' \in Seq(Requests \cup {Response}) /\ Len(req_resp_events') <= EventCapacity
    BY <1>6 DEF DropHandle
  <2>2. answer' \in {"none", "given", "dropped"} /\ handle' \in BOOLEAN
    BY <1>6 DEF DropHandle, TypeOK
  <2> QED BY <1>6, <2>1, <2>2 DEF DropHandle, TypeOK, startup_vars, command_vars, app_vars
<1>7. CASE NewGossipHandle \/ CloneReceiver \/ DropReceiver
  <2>1. receivers' \in 0..MaxReceivers
    BY <1>7 DEF NewGossipHandle, CloneReceiver, DropReceiver, TypeOK
  <2> QED BY <1>7, <2>1 DEF NewGossipHandle, CloneReceiver, DropReceiver, TypeOK,
                            startup_vars, command_vars, reqresp_vars
<1>8. CASE Cancel
  BY <1>8 DEF Cancel, TypeOK, startup_vars, command_vars, reqresp_vars
<1> QED BY <1>1, <1>2, <1>3, <1>4, <1>5, <1>6, <1>7, <1>8 DEF Application

\* Every step keeps the types.
LEMMA NextTypes == TypeOK /\ SendsSomething /\ [Next]_vars => TypeOK'
<1> SUFFICES ASSUME TypeOK, SendsSomething, [Next]_vars PROVE TypeOK'
  OBVIOUS
<1>1. ASSUME NEW r \in Requests, RequestArrives(r) PROVE TypeOK'
  BY <1>1 DEF RequestArrives, TypeOK, startup_vars, command_vars, app_vars
<1>2. CASE UNCHANGED vars
  BY <1>2 DEF vars, TypeOK
<1> QED BY <1>1, <1>2, StartupTypes, LoopTypes, ApplicationTypes DEF Next

-----------------------------------------------------------------------------
(* Waiting. *)

\* The element appended to a sequence is in it.
LEMMA AppendIn ==
    ASSUME NEW S, NEW s \in Seq(S), NEW e \in S
    PROVE  e \in ToSet(Append(s, e))
<1>1. Len(Append(s, e)) = Len(s) + 1 /\ Append(s, e)[Len(s) + 1] = e /\ Len(s) \in Nat
  OBVIOUS
<1> QED BY <1>1 DEF ToSet

\* What is in a sequence is its head or in its tail.
LEMMA HeadOrTail ==
    ASSUME NEW S, NEW s \in Seq(S), s # <<>>, NEW e \in ToSet(s)
    PROVE  e = Head(s) \/ e \in ToSet(Tail(s))
<1>1. PICK i \in 1..Len(s) : e = s[i]
  BY DEF ToSet
<1>2. CASE i = 1
  BY <1>1, <1>2
<1>3. CASE i # 1
  <2>1. i - 1 \in 1..Len(Tail(s)) /\ Tail(s)[i - 1] = s[i]
    BY <1>3, HeadTailProperties
  <2> QED BY <1>1, <2>1 DEF ToSet
<1> QED BY <1>2, <1>3

\* The invariant that makes waiting safe: the types, and that what the task is
\* sending or waiting for is a real event.
WaitInv == TypeOK /\ SendsSomething /\ WaitsForSomebody

\* The inductive step for sending and waiting.
LEMMA NextWaits == WaitInv /\ [Next]_vars => SendsSomething' /\ WaitsForSomebody'
<1> SUFFICES ASSUME WaitInv, [Next]_vars PROVE SendsSomething' /\ WaitsForSomebody'
  OBVIOUS
<1> USE EventLoopAssumption DEF WaitInv
<1>0. ASSUME UNCHANGED <<step, current, answer, req_resp_events, held>>
      PROVE  SendsSomething' /\ WaitsForSomebody'
  BY <1>0 DEF SendsSomething, WaitsForSomebody
<1>1. ASSUME step' \notin {"sending", "waiting"} PROVE SendsSomething' /\ WaitsForSomebody'
  BY <1>1 DEF SendsSomething, WaitsForSomebody
<1>2. ASSUME NEW e \in Requests \cup {Response}, PutEvent(e) PROVE SendsSomething' /\ WaitsForSomebody'
  <2>1. SendsSomething'
    BY <1>2, PutEventTypes DEF SendsSomething
  <2>2. ASSUME step' = "waiting" PROVE current' \in Requests /\ current' \in ToSet(req_resp_events')
    <3>1. e \in Requests /\ current' = e /\ req_resp_events' = Append(req_resp_events, e)
      BY <1>2, <2>2, PutEventTypes
    <3>2. e \in ToSet(Append(req_resp_events, e))
      BY AppendIn DEF TypeOK
    <3>3. ToSet(req_resp_events') = ToSet(Append(req_resp_events, e))
      BY <3>1
    <3> QED BY <3>1, <3>2, <3>3
  <2> QED BY <2>1, <2>2 DEF WaitsForSomebody
<1>3. CASE Startup
  <2>1. step' \notin {"sending", "waiting"}
    BY <1>3 DEF Startup, Dial, DialDone, DialAgain, Subscribe, DialerConnected, DialFailed,
                OtherStartupEvent, ReturnIfConnected, StartupTimeout, Listen
  <2> QED BY <1>1, <2>1
<1>4. CASE Loop
  <2>1. CASE Cancelled \/ HandleGossip \/ EventChannelClosed \/ SendTimeout \/ AnswerReady \/ AnswerTimeout
    <3>1. step' \notin {"sending", "waiting"}
      BY <2>1 DEF Cancelled, HandleGossip, EventChannelClosed, Stop, SendTimeout, AnswerReady,
                  AnswerTimeout, RequestDone
    <3> QED BY <1>1, <3>1
  <2>2. CASE HandleCommand \/ HandleGossipCommand \/ HandleReqRespCommand
    <3>1. step' = "idle"
      BY <2>2 DEF HandleCommand, HandleGossipCommand, HandleReqRespCommand, Take
    <3> QED BY <1>1, <3>1
  <2>3. ASSUME NEW r \in Requests, HandleRequest(r) PROVE SendsSomething' /\ WaitsForSomebody'
    <3>1. PutEvent(r) \/ step' = "idle"
      BY <2>3 DEF HandleRequest
    <3> QED BY <1>1, <1>2, <3>1
  <2>4. CASE HandleResponse
    <3>1. PutEvent(Response) \/ step' = "idle"
      BY <2>4 DEF HandleResponse
    <3> QED BY <1>1, <1>2, <3>1
  <2>5. CASE SendCompletes
    <3>1. current \in Requests \cup {Response} /\ PutEvent(current)
      BY <2>5 DEF SendCompletes, SendsSomething
    <3> QED BY <1>2, <3>1
  <2> QED BY <1>4, <2>1, <2>2, <2>3, <2>4, <2>5 DEF Loop
<1>5. CASE Application
  <2>1. CASE NextEvent
    <3>1. UNCHANGED <<step, current, answer>>
      BY <2>1 DEF NextEvent
    <3>2. ASSUME current \in Requests, current \in ToSet(req_resp_events)
          PROVE  current \in ToSet(req_resp_events') \cup held'
      <4>1. current = Head(req_resp_events) \/ current \in ToSet(Tail(req_resp_events))
        BY <2>1, <3>2, HeadOrTail DEF NextEvent, TypeOK
      <4> QED BY <2>1, <3>2, <4>1 DEF NextEvent
    <3>3. held \subseteq held'
      BY <2>1 DEF NextEvent
    <3> QED BY <3>1, <3>2, <3>3 DEF SendsSomething, WaitsForSomebody
  <2>2. ASSUME NEW r \in Requests, NEW a \in {"given", "dropped"}, Finish(r, a)
        PROVE  SendsSomething' /\ WaitsForSomebody'
    BY <2>2 DEF Finish, SendsSomething, WaitsForSomebody
  <2>3. CASE DropHandle
    BY <2>3 DEF DropHandle, SendsSomething, WaitsForSomebody
  <2>4. ASSUME NEW c \in Callers, CallQuery(c) \/ SendQuery(c) \/ QueryReturns(c)
        PROVE  SendsSomething' /\ WaitsForSomebody'
    BY <1>0, <2>4 DEF CallQuery, SendQuery, QueryReturns, reqresp_vars
  <2>5. ASSUME NEW ch \in Channels, StartSend(ch) PROVE SendsSomething' /\ WaitsForSomebody'
    BY <1>0, <2>5 DEF StartSend, reqresp_vars
  <2>6. CASE NewGossipHandle \/ CloneReceiver \/ DropReceiver \/ Cancel
    BY <1>0, <2>6 DEF NewGossipHandle, CloneReceiver, DropReceiver, Cancel, reqresp_vars
  <2> QED BY <1>5, <2>1, <2>2, <2>3, <2>4, <2>5, <2>6 DEF Application
<1>6. ASSUME NEW r \in Requests, RequestArrives(r) PROVE SendsSomething' /\ WaitsForSomebody'
  BY <1>0, <1>6 DEF RequestArrives
<1>7. CASE UNCHANGED vars
  BY <1>0, <1>7 DEF vars
<1> QED BY <1>3, <1>4, <1>5, <1>6, <1>7 DEF Next

\* The invariant of sending and waiting holds always.
LEMMA WaitInvariant == Spec => []WaitInv
<1>1. Init => WaitInv
  BY InitTypes DEF Init, WaitInv, SendsSomething, WaitsForSomebody
<1>2. WaitInv /\ [Next]_vars => WaitInv'
  BY NextTypes, NextWaits DEF WaitInv
<1> QED BY <1>1, <1>2, PTL DEF Spec

\* Channels never exceed their capacities, and the state of the task and of the
\* application is well typed: listen, the handles and establish_connections.
THEOREM TypeCorrect == Spec => []TypeOK
BY WaitInvariant, PTL DEF WaitInv

\* handle_message_event never waits for an answer that nobody can give.
THEOREM NeverWaitsInVain == Spec => []WaitsForSomebody
BY WaitInvariant, PTL DEF WaitInv

-----------------------------------------------------------------------------
(* Stopping. *)

\* listen stops only because the application cancelled it, dropped the handle of
\* requests, or has no receiver of gossip.
THEOREM OnlyTheApplicationStops == Spec => []StopsForCause
<1>1. Init => StopsForCause
  BY DEF Init, StopsForCause
<1>2. WaitInv /\ StopsForCause /\ [Next]_vars => StopsForCause'
  <2> SUFFICES ASSUME WaitInv, StopsForCause, [Next]_vars PROVE StopsForCause'
    OBVIOUS
  <2> USE EventLoopAssumption DEF WaitInv, StopsForCause
  <2>1. CASE Startup
    BY <2>1 DEF Startup, Dial, DialDone, DialAgain, Subscribe, DialerConnected, DialFailed,
                OtherStartupEvent, ReturnIfConnected, StartupTimeout, Listen
  <2>2. CASE Loop
    <3>1. CASE Cancelled \/ HandleGossip \/ EventChannelClosed
      BY <3>1 DEF Cancelled, HandleGossip, EventChannelClosed, Stop, app_vars
    <3>2. CASE SendTimeout \/ AnswerReady \/ AnswerTimeout
      BY <3>2 DEF SendTimeout, AnswerReady, AnswerTimeout, RequestDone
    <3>3. CASE HandleCommand \/ HandleGossipCommand \/ HandleReqRespCommand
      BY <3>3 DEF HandleCommand, HandleGossipCommand, HandleReqRespCommand, Take
    <3>4. ASSUME NEW r \in Requests, HandleRequest(r) PROVE step' # "stopped"
      BY <3>4, PutEventTypes DEF HandleRequest
    <3>5. CASE HandleResponse
      BY <3>5, PutEventTypes DEF HandleResponse
    <3>6. CASE SendCompletes
      <4>1. current \in Requests \cup {Response} /\ PutEvent(current)
        BY <3>6 DEF SendCompletes, SendsSomething
      <4> QED BY <4>1, PutEventTypes
    <3> QED BY <2>2, <3>1, <3>2, <3>3, <3>4, <3>5, <3>6 DEF Loop
  <2>3. CASE Application
    BY <2>3 DEF Application, CallQuery, SendQuery, QueryReturns, StartSend, NextEvent, Finish, DropHandle,
                NewGossipHandle, CloneReceiver, DropReceiver, Cancel, reqresp_vars, app_vars
  <2>4. ASSUME NEW r \in Requests, RequestArrives(r) PROVE StopsForCause'
    BY <2>4 DEF RequestArrives, app_vars
  <2>5. CASE UNCHANGED vars
    BY <2>5 DEF vars
  <2> QED BY <2>1, <2>2, <2>3, <2>4, <2>5 DEF Next
<1> QED BY <1>1, <1>2, WaitInvariant, PTL DEF Spec

-----------------------------------------------------------------------------
(* Startup. *)

\* Every address that the dial loop is done with is not connected yet or has had
\* a connection, and after the loop these are all addresses.
StartupInv ==
    /\ \A i \in 1..dialed : ConnectTo[i] \in is_not_connected \cup established
    /\ step \in {"subscribing", "connecting"} => dialed = Len(ConnectTo)
    /\ StartupHonest

\* establish_connections reports success only if every address has been connected.
THEOREM StartupReportsTruth == Spec => []StartupHonest
<1>1. Init => StartupInv
  BY DEF Init, StartupInv, StartupHonest
<1>2. TypeOK /\ StartupInv /\ [Next]_vars => StartupInv'
  <2> SUFFICES ASSUME TypeOK, StartupInv, [Next]_vars PROVE StartupInv'
    OBVIOUS
  <2> USE EventLoopAssumption
  <2>0. ASSUME UNCHANGED startup_vars, step' \notin {"subscribing", "connecting"} \/ step' = step
        PROVE  StartupInv'
    BY <2>0 DEF startup_vars, StartupInv, StartupHonest
  <2>1. CASE Startup
    <3> USE DEF StartupInv, StartupHonest
    <3>1. CASE Dial
      <4>1. dialed \in Nat
        BY DEF TypeOK
      <4>2. ASSUME NEW ok \in BOOLEAN, DialDone(ok) PROVE StartupInv'
        BY <3>1, <4>1, <4>2 DEF Dial, DialDone
      <4>3. CASE DialAgain
        BY <3>1, <4>3 DEF Dial, DialAgain
      <4> QED BY <3>1, <4>2, <4>3 DEF Dial
    <3>2. CASE Subscribe
      BY <3>2 DEF Subscribe
    <3>3. ASSUME UNCHANGED dialed, step = "connecting",
                 is_not_connected \cup established \subseteq is_not_connected' \cup established',
                 established \subseteq established', ReturnIfConnected
          PROVE  StartupInv'
      <4>1. \A i \in 1..Len(ConnectTo) : ConnectTo[i] \in is_not_connected' \cup established'
        BY <3>3
      <4>2. is_not_connected' = {} => Addresses \subseteq established'
        BY <4>1 DEF Addresses
      <4> QED BY <3>3, <4>1, <4>2 DEF ReturnIfConnected
    <3>4. ASSUME NEW i \in 1..Len(ConnectTo), DialerConnected(i) \/ DialFailed(i) PROVE StartupInv'
      BY <3>3, <3>4 DEF DialerConnected, DialFailed
    <3>5. CASE OtherStartupEvent
      BY <3>3, <3>5 DEF OtherStartupEvent
    <3>6. CASE StartupTimeout \/ Listen
      BY <3>6 DEF StartupTimeout, Listen
    <3> QED BY <2>1, <3>1, <3>2, <3>4, <3>5, <3>6 DEF Startup
  <2>2. CASE Loop
    <3>1. UNCHANGED startup_vars
      BY <2>2 DEF Loop, Cancelled, HandleCommand, HandleGossipCommand, HandleReqRespCommand, HandleGossip,
                  Take, HandleRequest, HandleResponse, EventChannelClosed, SendCompletes, SendTimeout,
                  AnswerReady, AnswerTimeout, RequestDone
    <3>2. step' \notin {"subscribing", "connecting"}
      BY <2>2 DEF Loop, Cancelled, HandleCommand, HandleGossipCommand, HandleReqRespCommand, HandleGossip,
                  Take, HandleRequest, HandleResponse, EventChannelClosed, SendCompletes, SendTimeout,
                  AnswerReady, AnswerTimeout, RequestDone, PutEvent, Stop
    <3> QED BY <2>0, <3>1, <3>2
  <2>3. CASE Application
    <3>1. UNCHANGED <<startup_vars, step>>
      BY <2>3 DEF Application, CallQuery, SendQuery, QueryReturns, StartSend, NextEvent, Finish, DropHandle,
                  NewGossipHandle, CloneReceiver, DropReceiver, Cancel
    <3> QED BY <2>0, <3>1
  <2>4. ASSUME NEW r \in Requests, RequestArrives(r) PROVE StartupInv'
    BY <2>0, <2>4 DEF RequestArrives
  <2>5. CASE UNCHANGED vars
    BY <2>0, <2>5 DEF vars, startup_vars
  <2> QED BY <2>1, <2>2, <2>3, <2>4, <2>5 DEF Next
<1>3. StartupInv => StartupHonest
  BY DEF StartupInv
<1> QED BY <1>1, <1>2, <1>3, TypeCorrect, PTL DEF Spec
=============================================================================
