----------------------------- MODULE Reputation -----------------------------
(***************************************************************************)
(* Scores and penalties of a node without BYOS: ScoreManager,              *)
(* PenaltyPeerStorage, the DefaultP2PValidator and the handlers of P2P     *)
(* that use them.  A message costs its sender score, time gives it back,   *)
(* and a sender whose score falls below a threshold is muted; the          *)
(* application can mute, ban and forgive with the SetScore command.        *)
(*                                                                         *)
(* The handlers run one at a time.  A message is only looked at for what   *)
(* the reputation depends on: the protocol, and at which of the checks it  *)
(* fails.  Scores (f64 in the code) are integers, in a unit in which Cost, *)
(* Rate and Threshold are whole; the wall clock does not run backwards.    *)
(***************************************************************************)
EXTENDS Integers

CONSTANTS
    Protocols,         \* the features gossipsub and request-response of the build
    Peers,             \* transport ids of remote peers
    ConnIds,           \* connection slots; a slot is reused once it is idle
    PeerOf,            \* the peer of each slot
    Cost,              \* DEFAULT_MESSAGE_COST
    Rate,              \* DEFAULT_DECAY_RATE_PER_SEC
    Threshold,         \* DEFAULT_MUTE_THRESHOLD
    MuteDuration,      \* DEFAULT_MUTE_DURATION
    DefaultBanPeriod,  \* DEFAULT_BAN_PERIOD
    Durations,         \* durations of penalties that SetScore commands carry
    NewScores,         \* scores that SetScore callbacks return
    Never,             \* None, for times
    MinScore,          \* bound: no message is handled at or below this score
    MaxTime            \* bound: the clock stops here

ASSUME ReputationAssumption ==
    /\ Protocols \subseteq {"gossip", "reqresp"}
    /\ PeerOf \in [ConnIds -> Peers]
    /\ Cost \in Nat
    /\ Rate \in Nat
    /\ Threshold \in Int
    /\ MuteDuration \in Nat
    /\ DefaultBanPeriod \in Nat
    /\ Durations \subseteq Nat
    /\ NewScores \subseteq Int
    /\ Never \notin Nat
    /\ MinScore \in Int
    /\ MaxTime \in Nat

Kinds == Protocols \cup {"ban"}

VARIABLES
    now,                      \* SystemTime::now()
    conn,                     \* state of each connection slot
    app_score,                \* ScoreManager's two maps; no entry counts as 0
    last_scoring_decay_time,  \* ScoreManager::last_scoring_decay_time
    until,                    \* PenaltyPeerStorage: the end of each kind of penalty
    delivered,                \* history: messages passed on since the score was last set
    base,                     \* history: what the score was set to
    since                     \* history: since when it recovers

reputation == <<app_score, last_scoring_decay_time, until>>
history == <<delivered, base, since>>
vars == <<now, conn, reputation, history>>

-----------------------------------------------------------------------------
(* PenaltyPeerStorage. *)

\* is_gossip_muted, is_req_resp_muted, is_banned.
Active(kind, p) == until[kind][p] # Never /\ until[kind][p] > now

has_active_penalties(p) == \E kind \in Kinds : Active(kind, p)

\* mute_peer_gossip, mute_peer_req_resp, ban_peer: the new end of a penalty.
Extended(kind, p, end) ==
    IF Active(kind, p) /\ until[kind][p] > end THEN until[kind][p] ELSE end

Penalize(kinds, p, end) ==
    until' = [k \in Kinds |-> IF k \in kinds THEN [until[k] EXCEPT ![p] = Extended(k, p, end)]
                              ELSE until[k]]

Forgive(kinds, p) ==
    until' = [k \in Kinds |-> IF k \in kinds THEN [until[k] EXCEPT ![p] = Never] ELSE until[k]]

-----------------------------------------------------------------------------
(* The swarm, as P2P uses it. *)

is_connected(p) == \E c \in ConnIds : PeerOf[c] = p /\ conn[c] # "idle"

disconnect_peer_id(p) ==
    [c \in ConnIds |-> IF PeerOf[c] = p /\ conn[c] = "open" THEN "closing" ELSE conn[c]]

-----------------------------------------------------------------------------
(* DefaultP2PValidator and the decay of scores. *)

apply_decay_to_zero(score, elapsed) == 0

apply_decay(score, elapsed) ==
    IF score + Rate * elapsed > 0 THEN 0 ELSE score + Rate * elapsed

\* get_elapsed_decay_time, without its update of last_scoring_decay_time.
Elapsed(p) == IF last_scoring_decay_time[p] = Never THEN 0 ELSE now - last_scoring_decay_time[p]

Decayed(proto, p) ==
    IF Elapsed(p) = 0 THEN app_score[proto][p] ELSE apply_decay(app_score[proto][p], Elapsed(p))

\* update_last_scoring_decay_time of get_elapsed_decay_time.
RecordDecay(p) == last_scoring_decay_time' = [last_scoring_decay_time EXCEPT ![p] = now]

validate_msg(score) == score - Cost

get_penalty(score) == score < Threshold

-----------------------------------------------------------------------------
(* Messages. *)

\* A verified message: the sender pays for it and is muted below the threshold;
\* otherwise the message goes on, and reaches the application if it is fresh.
Charge(proto, p, fresh) ==
    LET score == validate_msg(Decayed(proto, p)) IN
    /\ RecordDecay(p)
    /\ app_score' = [app_score EXCEPT ![proto][p] = score]
    /\ IF get_penalty(score)
       THEN Penalize({proto}, p, now + MuteDuration) /\ UNCHANGED delivered
       ELSE /\ UNCHANGED until
            /\ delivered' = [delivered EXCEPT ![proto][p] = IF fresh THEN @ + 1 ELSE @]
    /\ UNCHANGED <<now, conn, base, since>>

\* P2P::handle_gossip_msg.  The score decays even if the message then fails to
\* decode, to verify or to be fresh.
GossipMessage(p, ok) ==
    /\ "gossip" \in Protocols
    /\ is_connected(p)
    /\ ~Active("gossip", p)
    /\ app_score["gossip"][p] > MinScore
    /\ IF ok THEN Charge("gossip", p, TRUE)
       ELSE /\ RecordDecay(p)
            /\ app_score' = [app_score EXCEPT !["gossip"][p] = Decayed("gossip", p)]
            /\ UNCHANGED <<now, conn, until, delivered, base, since>>

\* P2P::handle_message_event, both branches.  A message that fails a check before
\* the scoring changes nothing; a stale one is paid for.
ReqRespMessage(p, fresh) ==
    /\ "reqresp" \in Protocols
    /\ is_connected(p)
    /\ ~Active("reqresp", p)
    /\ app_score["reqresp"][p] > MinScore
    /\ Charge("reqresp", p, fresh)

Request(p, fresh) == ReqRespMessage(p, fresh)
Response(p, fresh) == ReqRespMessage(p, fresh)

-----------------------------------------------------------------------------
(* Connections. *)

\* handle_connection_event: a banned peer is disconnected at once.
AdmitAlways(c) == conn' = [conn EXCEPT ![c] = "open"]

Admit(c) ==
    IF Active("ban", PeerOf[c])
    THEN conn' = [d \in ConnIds |-> IF d = c THEN "closing" ELSE disconnect_peer_id(PeerOf[c])[d]]
    ELSE conn' = [conn EXCEPT ![c] = "open"]

ConnectionEstablished(c) ==
    /\ conn[c] = "idle"
    /\ Admit(c)
    /\ UNCHANGED <<now, reputation, history>>

\* ScoreManager::remove_peer.
ForgetScores(p) ==
    /\ app_score' = [q \in Protocols |-> [app_score[q] EXCEPT ![p] = 0]]
    /\ last_scoring_decay_time' = [last_scoring_decay_time EXCEPT ![p] = Never]
    /\ delivered' = [q \in Protocols |-> [delivered[q] EXCEPT ![p] = 0]]
    /\ base' = [q \in Protocols |-> [base[q] EXCEPT ![p] = 0]]
    /\ since' = [since EXCEPT ![p] = now]

\* The end of the penalties of a peer that has gone.
ForgetPenaltiesIfUnbanned(p) == IF Active("ban", p) THEN UNCHANGED until ELSE Forgive(Kinds, p)

ForgetPenalties(p) == IF has_active_penalties(p) THEN UNCHANGED until ELSE Forgive(Kinds, p)

\* handle_connection_event, whichever side closed the connection.
ConnectionClosed(c) ==
    LET p == PeerOf[c] IN
    /\ conn[c] # "idle"
    /\ conn' = [conn EXCEPT ![c] = "idle"]
    /\ IF \E d \in ConnIds \ {c} : PeerOf[d] = p /\ conn[d] # "idle"
       THEN UNCHANGED <<reputation, delivered, base, since>>
       ELSE ForgetScores(p) /\ ForgetPenalties(p)
    /\ UNCHANGED now

-----------------------------------------------------------------------------
(* Commands. *)

\* DisconnectFromPeer.
DisconnectFromPeer(p) ==
    /\ is_connected(p)
    /\ conn' = disconnect_peer_id(p)
    /\ UNCHANGED <<now, reputation, history>>

\* GetPeerScore: the scores decay before they are reported.
GetPeerScore(p) ==
    /\ RecordDecay(p)
    /\ app_score' = [q \in Protocols |-> [app_score[q] EXCEPT ![p] = Decayed(q, p)]]
    /\ UNCHANGED <<now, conn, until, delivered, base, since>>

\* apply_penalty of SetScore: MuteGossip, MuteReqresp, MuteBoth.
Mute(kinds, p, duration) ==
    /\ Penalize(kinds, p, now + duration)
    /\ UNCHANGED conn

\* apply_penalty of SetScore: Ban(Some(duration)) and Ban(None).
Ban(p, duration) ==
    /\ Penalize({"ban"}, p, now + duration)
    /\ conn' = disconnect_peer_id(p)

BanByDefault(p) == Ban(p, DefaultBanPeriod)

\* remove_penalty of SetScore: Unban, UnmuteGossipsub, UnmuteRequestResponse, UnmuteBoth.
Unpenalize(kinds, p) ==
    /\ Forgive(kinds, p)
    /\ UNCHANGED conn

MuteKinds == (SUBSET Protocols) \ {{}}

\* The action of a SetScore command.
SetScoreAction(p) ==
    /\ \/ \E kinds \in MuteKinds, d \in Durations : Mute(kinds, p, d)
       \/ \E d \in Durations : Ban(p, d)
       \/ BanByDefault(p)
       \/ \E kinds \in MuteKinds \cup {{"ban"}} : Unpenalize(kinds, p)
    /\ UNCHANGED <<now, app_score, last_scoring_decay_time, delivered, base, since>>

\* The callback of a SetScore command sets both scores; they go on recovering from
\* the last decay.  (A command with an action and a callback is one after the other.)
SetScoreCallback(p) ==
    /\ \E scores \in [Protocols -> NewScores] :
          /\ app_score' = [q \in Protocols |-> [app_score[q] EXCEPT ![p] = scores[q]]]
          /\ base' = [q \in Protocols |-> [base[q] EXCEPT ![p] = scores[q]]]
    /\ since' = [since EXCEPT ![p] = now - Elapsed(p)]
    /\ delivered' = [q \in Protocols |-> [delivered[q] EXCEPT ![p] = 0]]
    /\ UNCHANGED <<now, conn, until, last_scoring_decay_time>>

-----------------------------------------------------------------------------
Init ==
    /\ now = 0
    /\ conn = [c \in ConnIds |-> "idle"]
    /\ app_score = [q \in Protocols |-> [p \in Peers |-> 0]]
    /\ last_scoring_decay_time = [p \in Peers |-> Never]
    /\ until = [k \in Kinds |-> [p \in Peers |-> Never]]
    /\ delivered = [q \in Protocols |-> [p \in Peers |-> 0]]
    /\ base = [q \in Protocols |-> [p \in Peers |-> 0]]
    /\ since = [p \in Peers |-> 0]

Tick ==
    /\ now < MaxTime
    /\ now' = now + 1
    /\ UNCHANGED <<conn, reputation, history>>

Next ==
    \/ Tick
    \/ \E c \in ConnIds : ConnectionEstablished(c) \/ ConnectionClosed(c)
    \/ \E p \in Peers :
          \/ \E ok \in BOOLEAN : GossipMessage(p, ok) \/ Request(p, ok) \/ Response(p, ok)
          \/ DisconnectFromPeer(p)
          \/ GetPeerScore(p)
          \/ SetScoreAction(p)
          \/ SetScoreCallback(p)

Spec == Init /\ [][Next]_vars

-----------------------------------------------------------------------------
(* Properties. *)

\* Type invariant: times of decays and penalties are times or None.
TypeOK ==
    /\ now \in 0 .. MaxTime
    /\ conn \in [ConnIds -> {"idle", "open", "closing"}]
    /\ app_score \in [Protocols -> [Peers -> Int]]
    /\ last_scoring_decay_time \in [Peers -> 0 .. now \cup {Never}]
    /\ until \in [Kinds -> [Peers -> Nat \cup {Never}]]
    /\ delivered \in [Protocols -> [Peers -> Nat]]
    /\ base \in [Protocols -> [Peers -> Int]]
    /\ since \in [Peers -> 0 .. now]

\* A banned peer has no open connection: neither one that it had when it was
\* banned (apply_penalty) nor one that was on its way then (handle_connection_event).
BannedNeverOpen ==
    \A c \in ConnIds : Active("ban", PeerOf[c]) => conn[c] # "open"

\* The scores limit the rate of messages: since the score of a peer was last set,
\* the messages of a protocol passed on to the application cost no more than the
\* score that was there, down to the threshold, and what the time gave back, no
\* matter how messages, queries, mutes and pardons interleave.
RateLimited ==
    \A q \in Protocols, p \in Peers :
        delivered[q][p] > 0 =>
            Cost * delivered[q][p] <= (base[q][p] - Threshold) + Rate * (now - since[p])

\* An active penalty ends early only by a pardon (remove_penalty): no shorter
\* penalty and no disconnect shortens it.
PenaltyKept ==
    [][\A kind \in Kinds, p \in Peers :
          Active(kind, p) =>
              \/ until'[kind][p] # Never /\ until'[kind][p] >= until[kind][p]
              \/ \E kinds \in SUBSET Kinds : kind \in kinds /\ Unpenalize(kinds, p)]_vars
=============================================================================
