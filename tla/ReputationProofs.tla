-------------------------- MODULE ReputationProofs --------------------------
(***************************************************************************)
(* Proofs about Reputation, for any peers, connections, costs and          *)
(* durations.  The bounds MinScore and MaxTime are arbitrary too.          *)
(***************************************************************************)
EXTENDS Reputation, TLAPS

\* Scores stay integers when they decay.
LEMMA DecayedType ==
    ASSUME TypeOK, NEW q \in Protocols, NEW p \in Peers
    PROVE  Decayed(q, p) \in Int /\ Elapsed(p) \in Nat
<1>1. Elapsed(p) \in Nat
    BY DEF Elapsed, TypeOK
<1>2. app_score[q][p] \in Int
    BY DEF TypeOK
<1>3. Rate * Elapsed(p) \in Int
    BY <1>1, ReputationAssumption
<1> QED BY <1>1, <1>2, <1>3 DEF Decayed, apply_decay

\* New ends of penalties are times.
LEMMA PenalizeType ==
    ASSUME TypeOK, NEW kinds, NEW p \in Peers, NEW end \in Nat, Penalize(kinds, p, end)
    PROVE  until' \in [Kinds -> [Peers -> Nat \cup {Never}]]
BY DEF Penalize, Extended, Active, TypeOK

LEMMA ForgiveType ==
    ASSUME TypeOK, NEW kinds, NEW p \in Peers, Forgive(kinds, p)
    PROVE  until' \in [Kinds -> [Peers -> Nat \cup {Never}]]
BY DEF Forgive, TypeOK

\* The type of a step of the message handlers.
LEMMA ChargeType ==
    ASSUME TypeOK, NEW q \in Protocols, NEW p \in Peers, NEW fresh \in BOOLEAN, Charge(q, p, fresh)
    PROVE  TypeOK'
<1> DEFINE score == validate_msg(Decayed(q, p))
<1>1. score \in Int
    BY DecayedType, ReputationAssumption DEF validate_msg
<1>2. now + MuteDuration \in Nat
    BY ReputationAssumption DEF TypeOK
<1>3. until' \in [Kinds -> [Peers -> Nat \cup {Never}]]
    <2>1. Penalize({q}, p, now + MuteDuration) \/ UNCHANGED until
        BY DEF Charge
    <2>2. CASE Penalize({q}, p, now + MuteDuration)
        BY <1>2, <2>2, PenalizeType
    <2>3. CASE UNCHANGED until
        BY <2>3 DEF TypeOK
    <2> QED BY <2>1, <2>2, <2>3
<1>4. delivered' \in [Protocols -> [Peers -> Nat]]
    <2>1. delivered[q][p] \in Nat /\ delivered[q][p] + 1 \in Nat
        BY DEF TypeOK
    <2>2. \/ UNCHANGED delivered
          \/ \E n \in {delivered[q][p], delivered[q][p] + 1} : delivered' = [delivered EXCEPT ![q][p] = n]
        BY DEF Charge
    <2> QED BY <2>1, <2>2 DEF TypeOK
<1>5. app_score' \in [Protocols -> [Peers -> Int]]
    BY <1>1 DEF Charge, TypeOK
<1>6. last_scoring_decay_time' \in [Peers -> 0 .. now \cup {Never}]
    BY DEF Charge, RecordDecay, TypeOK
<1> QED BY <1>3, <1>4, <1>5, <1>6 DEF Charge, TypeOK

\* Every step keeps the types.
LEMMA TypeStep == TypeOK /\ [Next]_vars => TypeOK'
<1> SUFFICES ASSUME TypeOK, [Next]_vars PROVE TypeOK'
    OBVIOUS
<1> USE ReputationAssumption
<1>1. CASE Tick
    BY <1>1 DEF Tick, TypeOK, reputation, history
<1>2. ASSUME NEW c \in ConnIds, ConnectionEstablished(c) PROVE TypeOK'
    <2>1. conn' \in [ConnIds -> {"idle", "open", "closing"}]
        BY <1>2 DEF ConnectionEstablished, Admit, disconnect_peer_id, TypeOK
    <2> QED BY <1>2, <2>1 DEF ConnectionEstablished, TypeOK, reputation, history
<1>3. ASSUME NEW c \in ConnIds, ConnectionClosed(c) PROVE TypeOK'
    <2>0. PeerOf[c] \in Peers
        OBVIOUS
    <2>1. until' \in [Kinds -> [Peers -> Nat \cup {Never}]]
        <3>1. Forgive(Kinds, PeerOf[c]) \/ UNCHANGED until
            BY <1>3 DEF ConnectionClosed, ForgetPenalties, reputation
        <3> QED BY <2>0, <3>1, ForgiveType DEF TypeOK
    <2>2. /\ conn' \in [ConnIds -> {"idle", "open", "closing"}]
          /\ UNCHANGED now
        BY <1>3 DEF ConnectionClosed, TypeOK
    <2>3. /\ app_score' \in [Protocols -> [Peers -> Int]]
          /\ last_scoring_decay_time' \in [Peers -> 0 .. now \cup {Never}]
          /\ delivered' \in [Protocols -> [Peers -> Nat]]
          /\ base' \in [Protocols -> [Peers -> Int]]
          /\ since' \in [Peers -> 0 .. now]
        <3>1. \/ ForgetScores(PeerOf[c])
              \/ UNCHANGED <<app_score, last_scoring_decay_time, delivered, base, since>>
            BY <1>3 DEF ConnectionClosed, reputation
        <3>2. CASE ForgetScores(PeerOf[c])
            BY <2>0, <3>2 DEF ForgetScores, TypeOK
        <3>3. CASE UNCHANGED <<app_score, last_scoring_decay_time, delivered, base, since>>
            BY <3>3 DEF TypeOK
        <3> QED BY <3>1, <3>2, <3>3
    <2> QED BY <2>1, <2>2, <2>3 DEF TypeOK
<1>4. ASSUME NEW p \in Peers, NEW ok \in BOOLEAN, GossipMessage(p, ok) PROVE TypeOK'
    <2>1. CASE ok
        BY <1>4, <2>1, ChargeType DEF GossipMessage
    <2>2. CASE ~ok
        <3>1. app_score' \in [Protocols -> [Peers -> Int]]
            BY <1>4, <2>2, DecayedType DEF GossipMessage, TypeOK
        <3>2. last_scoring_decay_time' \in [Peers -> 0 .. now \cup {Never}]
            BY <1>4, <2>2 DEF GossipMessage, RecordDecay, TypeOK
        <3> QED BY <1>4, <2>2, <3>1, <3>2 DEF GossipMessage, TypeOK
    <2> QED BY <2>1, <2>2
<1>5. ASSUME NEW p \in Peers, NEW ok \in BOOLEAN, ReqRespMessage(p, ok) PROVE TypeOK'
    BY <1>5, ChargeType DEF ReqRespMessage
<1>6. ASSUME NEW p \in Peers, DisconnectFromPeer(p) PROVE TypeOK'
    BY <1>6 DEF DisconnectFromPeer, disconnect_peer_id, TypeOK, reputation, history
<1>7. ASSUME NEW p \in Peers, GetPeerScore(p) PROVE TypeOK'
    <2>1. app_score' \in [Protocols -> [Peers -> Int]]
        BY <1>7, DecayedType DEF GetPeerScore, TypeOK
    <2>2. last_scoring_decay_time' \in [Peers -> 0 .. now \cup {Never}]
        BY <1>7 DEF GetPeerScore, RecordDecay, TypeOK
    <2> QED BY <1>7, <2>1, <2>2 DEF GetPeerScore, TypeOK
<1>8. ASSUME NEW p \in Peers, SetScoreAction(p) PROVE TypeOK'
    <2>1. \A d \in Durations \cup {DefaultBanPeriod} : now + d \in Nat
        BY DEF TypeOK
    <2>2. until' \in [Kinds -> [Peers -> Nat \cup {Never}]]
        BY <1>8, <2>1, PenalizeType, ForgiveType DEF SetScoreAction, Mute, Ban, BanByDefault, Unpenalize
    <2>3. conn' \in [ConnIds -> {"idle", "open", "closing"}]
        BY <1>8 DEF SetScoreAction, Mute, Ban, BanByDefault, Unpenalize, disconnect_peer_id, TypeOK
    <2> QED BY <1>8, <2>2, <2>3 DEF SetScoreAction, TypeOK
<1>9. ASSUME NEW p \in Peers, SetScoreCallback(p) PROVE TypeOK'
    <2>1. PICK scores \in [Protocols -> NewScores] :
            /\ app_score' = [q \in Protocols |-> [app_score[q] EXCEPT ![p] = scores[q]]]
            /\ base' = [q \in Protocols |-> [base[q] EXCEPT ![p] = scores[q]]]
        BY <1>9 DEF SetScoreCallback
    <2>2. app_score' \in [Protocols -> [Peers -> Int]] /\ base' \in [Protocols -> [Peers -> Int]]
        BY <2>1 DEF TypeOK
    <2>3. since' \in [Peers -> 0 .. now] /\ delivered' \in [Protocols -> [Peers -> Nat]]
        BY <1>9 DEF SetScoreCallback, Elapsed, TypeOK
    <2> QED BY <1>9, <2>2, <2>3 DEF SetScoreCallback, TypeOK
<1>10. CASE UNCHANGED vars
    BY <1>10 DEF vars, reputation, history, TypeOK
<1> QED BY <1>1, <1>2, <1>3, <1>4, <1>5, <1>6, <1>7, <1>8, <1>9, <1>10
        DEF Next, Request, Response

\* The variables of the reputation model are always well typed.
THEOREM TypeCorrect == Spec => []TypeOK
<1>1. Init => TypeOK
    BY ReputationAssumption DEF Init, TypeOK
<1> QED BY <1>1, TypeStep, PTL DEF Spec

-----------------------------------------------------------------------------
(* Bans. *)

\* A peer's ban does not become active by other kinds of penalties, by pardons
\* or by time, and it becomes active only when its connections are closed.
LEMMA BanStep == TypeOK /\ BannedNeverOpen /\ [Next]_vars => BannedNeverOpen'
<1> SUFFICES ASSUME TypeOK, BannedNeverOpen, [Next]_vars,
                    NEW c \in ConnIds, Active("ban", PeerOf[c])', conn'[c] = "open"
             PROVE  FALSE
    BY DEF BannedNeverOpen
<1> USE ReputationAssumption DEF Kinds
<1> DEFINE owner == PeerOf[c]
<1>0. owner \in Peers /\ now \in Nat /\ now' \in Nat
    BY TypeStep DEF TypeOK
<1>1. ASSUME now' >= now, until'["ban"][owner] \in {until["ban"][owner], Never},
             conn'[c] \in {conn[c], "idle", "closing"}
      PROVE  FALSE
    <2>1. until["ban"][owner] \in Nat \cup {Never}
        BY <1>0 DEF TypeOK
    <2>2. until["ban"][owner] # Never /\ until["ban"][owner] > now /\ conn[c] = "open"
        BY <1>0, <1>1, <2>1 DEF Active
    <2> QED BY <2>2 DEF Active, BannedNeverOpen
<1>2. CASE Tick
    <2>1. now' >= now /\ until' = until /\ conn' = conn
        BY <1>2 DEF Tick, reputation, TypeOK
    <2> QED BY <1>1, <2>1
<1>3. ASSUME NEW d \in ConnIds, ConnectionEstablished(d) PROVE FALSE
    <2>1. UNCHANGED <<now, until>>
        BY <1>3 DEF ConnectionEstablished, reputation
    <2>2. CASE d = c
        BY <1>3, <2>1, <2>2 DEF ConnectionEstablished, Admit, Active, TypeOK
    <2>3. CASE d # c
        <3>1. conn'[c] \in {conn[c], "closing"}
            BY <1>3, <2>3 DEF ConnectionEstablished, Admit, disconnect_peer_id, TypeOK
        <3> QED BY <1>1, <2>1, <3>1 DEF TypeOK
    <2> QED BY <2>2, <2>3
<1>4. ASSUME NEW d \in ConnIds, ConnectionClosed(d) PROVE FALSE
    <2>1. now' = now /\ conn'[c] \in {conn[c], "idle"}
        BY <1>4 DEF ConnectionClosed, TypeOK
    <2>2. until' = until \/ Forgive(Kinds, PeerOf[d])
        BY <1>4 DEF ConnectionClosed, ForgetPenalties, reputation
    <2>3. until'["ban"][owner] \in {until["ban"][owner], Never}
        BY <1>0, <2>2 DEF Forgive, TypeOK
    <2> QED BY <1>1, <2>1, <2>3 DEF TypeOK
<1>5. ASSUME UNCHANGED <<now, conn>>, until' = until PROVE FALSE
    BY <1>1, <1>5 DEF TypeOK
<1>6. ASSUME NEW kinds, NEW p \in Peers, NEW end, "ban" \notin kinds, Penalize(kinds, p, end)
      PROVE  until'["ban"] = until["ban"]
    BY <1>6 DEF Penalize
<1>7. ASSUME NEW q \in Protocols, NEW p \in Peers, NEW fresh \in BOOLEAN, Charge(q, p, fresh)
      PROVE  FALSE
    <2>1. UNCHANGED <<now, conn>> /\ (until' = until \/ Penalize({q}, p, now + MuteDuration))
        BY <1>7 DEF Charge
    <2>2. until'["ban"] = until["ban"]
        BY <1>6, <2>1
    <2> QED BY <1>1, <2>1, <2>2 DEF TypeOK
<1>8. ASSUME NEW p \in Peers, NEW ok \in BOOLEAN, GossipMessage(p, ok) PROVE FALSE
    BY <1>5, <1>7, <1>8 DEF GossipMessage
<1>9. ASSUME NEW p \in Peers, NEW ok \in BOOLEAN, ReqRespMessage(p, ok) PROVE FALSE
    BY <1>7, <1>9 DEF ReqRespMessage
<1>10. ASSUME NEW p \in Peers, DisconnectFromPeer(p) PROVE FALSE
    <2>1. UNCHANGED <<now, until>> /\ conn'[c] \in {conn[c], "closing"}
        BY <1>10 DEF DisconnectFromPeer, disconnect_peer_id, reputation
    <2> QED BY <1>1, <2>1 DEF TypeOK
<1>11. ASSUME NEW p \in Peers, GetPeerScore(p) \/ SetScoreCallback(p) PROVE FALSE
    BY <1>5, <1>11 DEF GetPeerScore, SetScoreCallback
<1>12. ASSUME NEW p \in Peers, SetScoreAction(p) PROVE FALSE
    <2>0. now' = now
        BY <1>12 DEF SetScoreAction
    <2>1. ASSUME NEW kinds \in MuteKinds, NEW d, Mute(kinds, p, d) PROVE FALSE
        <3>1. "ban" \notin kinds
            BY DEF MuteKinds
        <3>2. until'["ban"] = until["ban"] /\ UNCHANGED conn
            BY <1>6, <2>1, <3>1 DEF Mute
        <3> QED BY <1>1, <2>0, <3>2 DEF TypeOK
    <2>2. ASSUME NEW d, Penalize({"ban"}, p, now + d), conn' = disconnect_peer_id(p) PROVE FALSE
        <3>1. CASE owner = p
            BY <2>2, <3>1 DEF disconnect_peer_id, TypeOK
        <3>2. CASE owner # p
            <4>1. until'["ban"][owner] = until["ban"][owner]
                BY <1>0, <2>2, <3>2 DEF Penalize, TypeOK
            <4>2. conn'[c] = conn[c]
                BY <2>2, <3>2 DEF disconnect_peer_id
            <4> QED BY <1>1, <2>0, <4>1, <4>2 DEF TypeOK
        <3> QED BY <3>1, <3>2
    <2>3. ASSUME NEW kinds, Unpenalize(kinds, p) PROVE FALSE
        <3>1. until'["ban"][owner] \in {until["ban"][owner], Never} /\ UNCHANGED conn
            BY <1>0, <2>3 DEF Unpenalize, Forgive, TypeOK
        <3> QED BY <1>1, <2>0, <3>1 DEF TypeOK
    <2> QED BY <1>12, <2>1, <2>2, <2>3 DEF SetScoreAction, Ban, BanByDefault
<1>13. CASE UNCHANGED vars
    BY <1>5, <1>13 DEF vars, reputation
<1> QED BY <1>2, <1>3, <1>4, <1>8, <1>9, <1>10, <1>11, <1>12, <1>13 DEF Next, Request, Response

\* A banned peer never has an open connection.
THEOREM BansDisconnect == Spec => []BannedNeverOpen
<1>1. Init => BannedNeverOpen
    BY ReputationAssumption DEF Init, BannedNeverOpen
<1> QED BY <1>1, TypeCorrect, BanStep, PTL DEF Spec

-----------------------------------------------------------------------------
(* Penalties. *)

\* Penalize never makes an active penalty end earlier.
LEMMA PenalizeKeeps ==
    ASSUME TypeOK, NEW kinds, NEW p \in Peers, NEW end \in Nat, Penalize(kinds, p, end),
           NEW kind \in Kinds, NEW r \in Peers, Active(kind, r)
    PROVE  until'[kind][r] # Never /\ until'[kind][r] >= until[kind][r]
<1>1. until[kind][r] \in Nat
    BY ReputationAssumption DEF TypeOK, Active
<1>2. until'[kind][r] \in {until[kind][r], Extended(kind, r, end)}
    BY DEF Penalize, TypeOK
<1>3. Extended(kind, r, end) \in Nat /\ Extended(kind, r, end) >= until[kind][r]
    BY <1>1 DEF Extended
<1> QED BY <1>1, <1>2, <1>3, ReputationAssumption

\* A step that is not a pardon keeps every active penalty at least as long.
LEMMA PenaltyStep ==
    ASSUME TypeOK, [Next]_vars, NEW kind \in Kinds, NEW r \in Peers, Active(kind, r)
    PROVE  \/ until'[kind][r] # Never /\ until'[kind][r] >= until[kind][r]
           \/ \E kinds \in SUBSET Kinds : kind \in kinds /\ Unpenalize(kinds, r)
<1> USE ReputationAssumption
<1> DEFINE Kept == until'[kind][r] # Never /\ until'[kind][r] >= until[kind][r]
<1>0. until[kind][r] \in Nat
    BY DEF TypeOK, Active
<1>1. ASSUME until' = until PROVE Kept
    BY <1>0, <1>1
<1>2. ASSUME NEW kinds, NEW p \in Peers, NEW end \in Nat, Penalize(kinds, p, end) PROVE Kept
    BY <1>2, PenalizeKeeps
<1>3. ASSUME NEW q \in Protocols, NEW p \in Peers, NEW fresh \in BOOLEAN, Charge(q, p, fresh)
      PROVE  Kept
    <2>1. until' = until \/ Penalize({q}, p, now + MuteDuration)
        BY <1>3 DEF Charge
    <2>2. now + MuteDuration \in Nat
        BY DEF TypeOK
    <2> QED BY <1>1, <1>2, <2>1, <2>2
<1>4. ASSUME NEW c \in ConnIds, ConnectionClosed(c) PROVE Kept
    <2>1. CASE until' = until
        BY <1>1, <2>1
    <2>2. CASE until' # until
        <3>1. Forgive(Kinds, PeerOf[c]) /\ ~has_active_penalties(PeerOf[c])
            BY <1>4, <2>2 DEF ConnectionClosed, ForgetPenalties, reputation
        <3>2. r # PeerOf[c]
            BY <3>1 DEF has_active_penalties
        <3>3. until'[kind][r] = until[kind][r]
            BY <3>1, <3>2 DEF Forgive, TypeOK
        <3> QED BY <1>0, <3>3
    <2> QED BY <2>1, <2>2
<1>5. ASSUME NEW p \in Peers, SetScoreAction(p)
      PROVE  Kept \/ \E kinds \in SUBSET Kinds : kind \in kinds /\ Unpenalize(kinds, r)
    <2>1. \A d \in Durations \cup {DefaultBanPeriod} : now + d \in Nat
        BY DEF TypeOK
    <2>2. ASSUME NEW kinds \in MuteKinds, NEW d \in Durations, Mute(kinds, p, d) PROVE Kept
        BY <1>2, <2>1, <2>2 DEF Mute
    <2>3. ASSUME NEW d \in Durations \cup {DefaultBanPeriod}, Penalize({"ban"}, p, now + d) PROVE Kept
        BY <1>2, <2>1, <2>3
    <2>4. ASSUME NEW kinds \in MuteKinds \cup {{"ban"}}, Unpenalize(kinds, p)
          PROVE  Kept \/ \E ks \in SUBSET Kinds : kind \in ks /\ Unpenalize(ks, r)
        <3>1. CASE kind \in kinds /\ r = p
            <4>1. kinds \in SUBSET Kinds
                BY DEF MuteKinds, Kinds
            <4> QED BY <2>4, <3>1, <4>1
        <3>2. CASE ~(kind \in kinds /\ r = p)
            <4>1. until'[kind][r] = until[kind][r]
                BY <2>4, <3>2 DEF Unpenalize, Forgive, TypeOK
            <4> QED BY <1>0, <4>1
        <3> QED BY <3>1, <3>2
    <2> QED BY <1>5, <2>2, <2>3, <2>4 DEF SetScoreAction, Ban, BanByDefault
<1>6. ASSUME NEW p \in Peers, NEW ok \in BOOLEAN, GossipMessage(p, ok) PROVE Kept
    BY <1>1, <1>3, <1>6 DEF GossipMessage
<1>7. ASSUME NEW p \in Peers, NEW ok \in BOOLEAN, ReqRespMessage(p, ok) PROVE Kept
    BY <1>3, <1>7 DEF ReqRespMessage
<1>8. ASSUME NEW c \in ConnIds, ConnectionEstablished(c) PROVE Kept
    BY <1>1, <1>8 DEF ConnectionEstablished, reputation
<1>9. ASSUME NEW p \in Peers, DisconnectFromPeer(p) \/ GetPeerScore(p) \/ SetScoreCallback(p) PROVE Kept
    BY <1>1, <1>9 DEF DisconnectFromPeer, GetPeerScore, SetScoreCallback, reputation
<1>10. CASE Tick \/ UNCHANGED vars
    BY <1>1, <1>10 DEF Tick, vars, reputation
<1> QED BY <1>4, <1>5, <1>6, <1>7, <1>8, <1>9, <1>10 DEF Next, Request, Response

\* An active penalty ends early only by a pardon.
THEOREM PenaltiesLast == Spec => PenaltyKept
<1>1. TypeOK /\ [Next]_vars =>
        [\A kind \in Kinds, p \in Peers :
            Active(kind, p) =>
                \/ until'[kind][p] # Never /\ until'[kind][p] >= until[kind][p]
                \/ \E kinds \in SUBSET Kinds : kind \in kinds /\ Unpenalize(kinds, p)]_vars
    BY PenaltyStep
<1> QED BY <1>1, TypeCorrect, PTL DEF Spec, PenaltyKept

-----------------------------------------------------------------------------
(* Rates. *)

\* The time up to which a peer's score has recovered.
Recovered(p) == IF last_scoring_decay_time[p] = Never THEN since[p] ELSE last_scoring_decay_time[p]

\* A score is at most what it was set to, less the cost of the messages passed on,
\* plus what the time gave back until the last decay.
ScoreBounded ==
    \A q \in Protocols, p \in Peers :
        /\ Recovered(p) >= since[p]
        /\ app_score[q][p] <= (base[q][p] - Cost * delivered[q][p]) + Rate * (Recovered(p) - since[p])

RateInv == TypeOK /\ ScoreBounded /\ RateLimited

\* More time gives back more.
LEMMA RateMonotone ==
    ASSUME NEW x \in Nat, NEW y \in Nat, x <= y
    PROVE  Rate * x <= Rate * y /\ Rate * x \in Nat /\ Rate * y \in Nat
<1>1. Rate * y = Rate * x + Rate * (y - x) /\ Rate * (y - x) \in Nat
    BY ReputationAssumption
<1>2. Rate * x \in Nat
    BY ReputationAssumption
<1> QED BY <1>1, <1>2

\* Decaying adds no more than the time since the last decay gives back.
LEMMA DecayBounded ==
    ASSUME TypeOK, ScoreBounded, NEW q \in Protocols, NEW p \in Peers
    PROVE  Decayed(q, p) <= (base[q][p] - Cost * delivered[q][p]) + Rate * (now - since[p])
<1> USE ReputationAssumption
<1> DEFINE r == Recovered(p)
           e == Elapsed(p)
           s == app_score[q][p]
           b == base[q][p] - Cost * delivered[q][p]
<1>1. /\ r \in Nat /\ e \in Nat /\ s \in Int /\ now \in Nat /\ since[p] \in Nat
      /\ base[q][p] \in Int /\ delivered[q][p] \in Nat
    BY DEF Recovered, Elapsed, TypeOK
<1>2. b \in Int
    BY <1>1
<1>3. r >= since[p] /\ s <= b + Rate * (r - since[p])
    BY DEF ScoreBounded
<1>4. r + e <= now
    BY <1>1 DEF Recovered, Elapsed, TypeOK
<1>5. Decayed(q, p) <= s + Rate * e
    <2>1. Rate * e \in Nat /\ (e = 0 => Rate * e = 0)
        BY <1>1
    <2> QED BY <1>1, <2>1 DEF Decayed, apply_decay
<1>6. Rate * (r - since[p]) + Rate * e = Rate * ((r - since[p]) + e)
    BY <1>1
<1>7. Rate * ((r - since[p]) + e) <= Rate * (now - since[p])
    BY <1>1, <1>3, <1>4, RateMonotone
<1>8. Decayed(q, p) \in Int
    BY DecayedType
<1> HIDE DEF r, e, s, b
<1>9. Rate * (r - since[p]) \in Int /\ Rate * e \in Int /\ Rate * (now - since[p]) \in Int
    BY <1>1
<1> QED BY <1>1, <1>2, <1>3, <1>5, <1>6, <1>7, <1>8, <1>9 DEF b

\* What a step does to the score of one protocol and peer, in terms of the bounds.
Bound(q, p) ==
    /\ Recovered(p) >= since[p]
    /\ app_score[q][p] <= (base[q][p] - Cost * delivered[q][p]) + Rate * (Recovered(p) - since[p])
    /\ delivered[q][p] > 0 =>
          Cost * delivered[q][p] <= (base[q][p] - Threshold) + Rate * (now - since[p])

\* Time that passes, or that is recorded as the time of a decay, only widens the
\* bounds.
LEMMA BoundWidens ==
    ASSUME TypeOK, TypeOK', NEW q \in Protocols, NEW p \in Peers, Bound(q, p),
           app_score'[q][p] = app_score[q][p], base'[q][p] = base[q][p],
           delivered'[q][p] = delivered[q][p], since'[p] = since[p], now' >= now,
           Recovered(p)' >= Recovered(p)
    PROVE  Bound(q, p)'
<1> USE ReputationAssumption
<1>1. /\ Recovered(p) \in Nat /\ Recovered(p)' \in Nat /\ now \in Nat /\ now' \in Nat
      /\ since[p] \in 0 .. now
    BY DEF TypeOK, Recovered
<1>2. app_score[q][p] \in Int /\ base[q][p] \in Int /\ Cost * delivered[q][p] \in Int
    BY DEF TypeOK
<1>3. Recovered(p) >= since[p]
    BY DEF Bound
<1>4. Rate * (Recovered(p) - since[p]) <= Rate * (Recovered(p)' - since[p])
      /\ Rate * (Recovered(p) - since[p]) \in Nat /\ Rate * (Recovered(p)' - since[p]) \in Nat
    BY <1>1, <1>3, RateMonotone
<1>5. Rate * (now - since[p]) <= Rate * (now' - since[p])
      /\ Rate * (now - since[p]) \in Nat /\ Rate * (now' - since[p]) \in Nat
    BY <1>1, RateMonotone
<1>6. (app_score[q][p] <= (base[q][p] - Cost * delivered[q][p]) + Rate * (Recovered(p) - since[p]))
      /\ (delivered[q][p] > 0 =>
            Cost * delivered[q][p] <= (base[q][p] - Threshold) + Rate * (now - since[p]))
    BY DEF Bound
<1>7. app_score'[q][p] <= (base'[q][p] - Cost * delivered'[q][p]) + Rate * (Recovered(p)' - since'[p])
    BY <1>2, <1>4, <1>6
<1>8. delivered'[q][p] > 0 =>
        Cost * delivered'[q][p] <= (base'[q][p] - Threshold) + Rate * (now' - since'[p])
    BY <1>2, <1>5, <1>6
<1>9. Recovered(p)' >= since'[p]
    BY <1>1, <1>3
<1> QED BY <1>7, <1>8, <1>9 DEF Bound

\* A score that is set anew starts with new bounds.
LEMMA BoundRestarts ==
    ASSUME TypeOK', NEW q \in Protocols, NEW p \in Peers, app_score'[q][p] = base'[q][p],
           delivered'[q][p] = 0, Recovered(p)' = since'[p]
    PROVE  Bound(q, p)'
<1> USE ReputationAssumption
<1>1. since'[p] \in Nat /\ base'[q][p] \in Int
    BY DEF TypeOK
<1>2. Rate * (since'[p] - since'[p]) = 0 /\ Cost * 0 = 0
    BY <1>1
<1> QED BY <1>1, <1>2 DEF Bound

\* A score that decays stays within the bounds, now counted until now.
LEMMA BoundDecays ==
    ASSUME TypeOK, TypeOK', NEW q \in Protocols, NEW p \in Peers, ScoreBounded, Bound(q, p),
           app_score'[q][p] = Decayed(q, p), base'[q][p] = base[q][p],
           delivered'[q][p] = delivered[q][p], since'[p] = since[p], now' = now,
           last_scoring_decay_time'[p] = now
    PROVE  Bound(q, p)'
<1> USE ReputationAssumption
<1>1. now \in Nat /\ since[p] \in 0 .. now
    BY DEF TypeOK
<1>2. Recovered(p)' = now
    BY <1>1 DEF Recovered
<1>3. Decayed(q, p) <= (base[q][p] - Cost * delivered[q][p]) + Rate * (now - since[p])
    BY DecayBounded
<1> QED BY <1>1, <1>2, <1>3 DEF Bound

\* A message that is paid for stays within the bounds, whether it is passed on,
\* dropped as stale or answered with a mute.
LEMMA BoundCharged ==
    ASSUME TypeOK, TypeOK', NEW q \in Protocols, NEW p \in Peers, NEW fresh \in BOOLEAN,
           ScoreBounded, Bound(q, p), Charge(q, p, fresh)
    PROVE  Bound(q, p)'
<1> USE ReputationAssumption
<1> DEFINE n == delivered[q][p]
           b == base[q][p]
           room == Rate * (now - since[p])
           score == Decayed(q, p) - Cost
<1>1. /\ now \in Nat /\ since[p] \in 0 .. now /\ n \in Nat /\ b \in Int
      /\ Decayed(q, p) \in Int /\ score \in Int
    BY DecayedType DEF TypeOK
<1>2. room \in Nat /\ Cost * n \in Nat /\ Cost * (n + 1) = Cost * n + Cost
    BY <1>1
<1>3. Decayed(q, p) <= (b - Cost * n) + room
    BY DecayBounded
<1>4. /\ last_scoring_decay_time'[p] = now /\ app_score'[q][p] = score
      /\ base' = base /\ since' = since /\ now' = now
    BY DEF Charge, RecordDecay, validate_msg, TypeOK
<1>5. Recovered(p)' = now
    BY <1>1, <1>4 DEF Recovered
<1>6. \/ delivered'[q][p] = n
      \/ delivered'[q][p] = n + 1 /\ score >= Threshold
    BY <1>1 DEF Charge, get_penalty, validate_msg, TypeOK
<1>7. n > 0 => Cost * n <= (b - Threshold) + room
    BY DEF Bound
<1> HIDE DEF n, b, room
<1>8. CASE delivered'[q][p] = n
    <2>1. score <= (b - Cost * n) + room
        BY <1>1, <1>2, <1>3
    <2> QED BY <1>1, <1>4, <1>5, <1>7, <1>8, <2>1 DEF Bound, n, b, room
<1>9. CASE delivered'[q][p] = n + 1 /\ score >= Threshold
    <2>1. score <= (b - Cost * (n + 1)) + room
        BY <1>1, <1>2, <1>3
    <2>2. Cost * (n + 1) <= (b - Threshold) + room
        BY <1>1, <1>2, <1>9, <2>1
    <2> QED BY <1>1, <1>4, <1>5, <1>9, <2>1, <2>2 DEF Bound, b, room
<1> QED BY <1>6, <1>8, <1>9

\* The time of a decay is not before the last one.
LEMMA DecayRecorded ==
    ASSUME TypeOK, NEW p \in Peers, RecordDecay(p), UNCHANGED since
    PROVE  /\ Recovered(p)' >= Recovered(p)
           /\ last_scoring_decay_time'[p] = now
           /\ \A r \in Peers \ {p} : Recovered(r)' = Recovered(r)
BY ReputationAssumption DEF RecordDecay, Recovered, TypeOK

LEMMA RateStep == RateInv /\ [Next]_vars => RateInv'
<1> SUFFICES ASSUME TypeOK, ScoreBounded, RateLimited, [Next]_vars,
                    NEW q \in Protocols, NEW r \in Peers
             PROVE  Bound(q, r)'
    <2>1. TypeOK /\ [Next]_vars => TypeOK'
        BY TypeStep
    <2> QED BY <2>1 DEF RateInv, ScoreBounded, RateLimited, Bound
<1> USE ReputationAssumption
<1>0. TypeOK' /\ (\A o \in Protocols, p \in Peers : Bound(o, p)) /\ now \in Nat
    BY TypeStep DEF ScoreBounded, RateLimited, Bound, TypeOK
<1>1. ASSUME UNCHANGED <<app_score, last_scoring_decay_time, delivered, base, since>>, now' >= now
      PROVE  Bound(q, r)'
    <2>1. Recovered(r)' = Recovered(r) /\ Recovered(r) \in Nat
        BY <1>1 DEF Recovered, TypeOK
    <2> QED BY <1>0, <1>1, <2>1, BoundWidens
<1>2. ASSUME NEW o \in Protocols, NEW p \in Peers, NEW fresh \in BOOLEAN, Charge(o, p, fresh)
      PROVE  Bound(q, r)'
    <2>1. CASE o = q /\ p = r
        BY <1>0, <1>2, <2>1, BoundCharged
    <2>2. CASE o # q \/ p # r
        <3>1. /\ app_score'[q][r] = app_score[q][r] /\ delivered'[q][r] = delivered[q][r]
              /\ base' = base /\ since' = since /\ now' = now /\ RecordDecay(p)
            BY <1>2, <2>2 DEF Charge, TypeOK
        <3>2. Recovered(r)' >= Recovered(r)
            BY <3>1, DecayRecorded DEF Recovered, TypeOK
        <3> QED BY <1>0, <3>1, <3>2, BoundWidens
    <2> QED BY <2>1, <2>2
<1>3. ASSUME NEW p \in Peers, NEW o \in SUBSET Protocols, RecordDecay(p),
             UNCHANGED <<now, delivered, base, since>>,
             app_score' = [x \in Protocols |-> IF x \in o THEN [app_score[x] EXCEPT ![p] = Decayed(x, p)]
                                               ELSE app_score[x]]
      PROVE  Bound(q, r)'
    <2>1. CASE q \in o /\ p = r
        <3>1. app_score'[q][r] = Decayed(q, r)
            BY <1>3, <2>1 DEF TypeOK
        <3> QED BY <1>0, <1>3, <2>1, <3>1, DecayRecorded, BoundDecays
    <2>2. CASE ~(q \in o /\ p = r)
        <3>1. app_score'[q][r] = app_score[q][r]
            BY <1>3, <2>2 DEF TypeOK
        <3>2. Recovered(r)' >= Recovered(r)
            BY <1>3, DecayRecorded DEF Recovered, TypeOK
        <3> QED BY <1>0, <1>3, <3>1, <3>2, BoundWidens
    <2> QED BY <2>1, <2>2
<1>4. ASSUME NEW p \in Peers, NEW ok \in BOOLEAN, GossipMessage(p, ok) PROVE Bound(q, r)'
    <2>1. CASE ok
        BY <1>2, <1>4, <2>1 DEF GossipMessage
    <2>2. CASE ~ok
        <3>1. app_score' = [x \in Protocols |-> IF x \in {"gossip"}
                              THEN [app_score[x] EXCEPT ![p] = Decayed(x, p)] ELSE app_score[x]]
            BY <1>4, <2>2 DEF GossipMessage, TypeOK
        <3>2. {"gossip"} \in SUBSET Protocols
            BY <1>4 DEF GossipMessage
        <3>3. RecordDecay(p) /\ UNCHANGED <<now, delivered, base, since>>
            BY <1>4, <2>2 DEF GossipMessage
        <3> QED BY <1>3, <3>1, <3>2, <3>3
    <2> QED BY <2>1, <2>2
<1>5. ASSUME NEW p \in Peers, NEW ok \in BOOLEAN, ReqRespMessage(p, ok) PROVE Bound(q, r)'
    BY <1>2, <1>5 DEF ReqRespMessage
<1>6. ASSUME NEW p \in Peers, GetPeerScore(p) PROVE Bound(q, r)'
    <2>1. app_score' = [x \in Protocols |-> IF x \in Protocols
                          THEN [app_score[x] EXCEPT ![p] = Decayed(x, p)] ELSE app_score[x]]
        BY <1>6 DEF GetPeerScore
    <2>2. RecordDecay(p) /\ UNCHANGED <<now, delivered, base, since>>
        BY <1>6 DEF GetPeerScore
    <2> QED BY <1>3, <2>1, <2>2
<1>7. ASSUME NEW c \in ConnIds, ConnectionClosed(c) PROVE Bound(q, r)'
    <2>1. CASE UNCHANGED <<app_score, last_scoring_decay_time, delivered, base, since>>
        BY <1>0, <1>1, <1>7, <2>1 DEF ConnectionClosed
    <2>2. CASE ForgetScores(PeerOf[c]) /\ r = PeerOf[c]
        <3>1. app_score'[q][r] = 0 /\ base'[q][r] = 0 /\ delivered'[q][r] = 0 /\ Recovered(r)' = since'[r]
            BY <2>2 DEF ForgetScores, Recovered, TypeOK
        <3> QED BY <1>0, <3>1, BoundRestarts
    <2>3. CASE ForgetScores(PeerOf[c]) /\ r # PeerOf[c]
        <3>1. /\ app_score'[q][r] = app_score[q][r] /\ base'[q][r] = base[q][r]
              /\ delivered'[q][r] = delivered[q][r] /\ since'[r] = since[r]
              /\ Recovered(r)' = Recovered(r) /\ Recovered(r) \in Nat /\ now' = now
            BY <1>7, <2>3 DEF ConnectionClosed, ForgetScores, Recovered, TypeOK
        <3> QED BY <1>0, <3>1, BoundWidens
    <2> QED BY <1>7, <2>1, <2>2, <2>3 DEF ConnectionClosed, reputation
<1>8. ASSUME NEW p \in Peers, SetScoreCallback(p) PROVE Bound(q, r)'
    <2>1. PICK scores \in [Protocols -> NewScores] :
            /\ app_score' = [x \in Protocols |-> [app_score[x] EXCEPT ![p] = scores[x]]]
            /\ base' = [x \in Protocols |-> [base[x] EXCEPT ![p] = scores[x]]]
        BY <1>8 DEF SetScoreCallback
    <2>2. /\ since' = [since EXCEPT ![p] = now - Elapsed(p)]
          /\ delivered' = [x \in Protocols |-> [delivered[x] EXCEPT ![p] = 0]]
          /\ UNCHANGED <<now, last_scoring_decay_time>>
        BY <1>8 DEF SetScoreCallback
    <2>3. CASE r = p
        <3>1. app_score'[q][r] = base'[q][r] /\ delivered'[q][r] = 0
            BY <2>1, <2>2, <2>3 DEF TypeOK
        <3>2. Recovered(r)' = since'[r]
            BY <2>2, <2>3 DEF Recovered, Elapsed, TypeOK
        <3> QED BY <1>0, <3>1, <3>2, BoundRestarts
    <2>4. CASE r # p
        <3>1. /\ app_score'[q][r] = app_score[q][r] /\ base'[q][r] = base[q][r]
              /\ delivered'[q][r] = delivered[q][r] /\ since'[r] = since[r]
            BY <2>1, <2>2, <2>4 DEF TypeOK
        <3>2. Recovered(r)' = Recovered(r) /\ Recovered(r) \in Nat
            BY <2>2, <2>4 DEF Recovered, TypeOK
        <3> QED BY <1>0, <2>2, <3>1, <3>2, BoundWidens
    <2> QED BY <2>3, <2>4
<1>9. ASSUME NEW p \in Peers, SetScoreAction(p) \/ DisconnectFromPeer(p) PROVE Bound(q, r)'
    BY <1>0, <1>1, <1>9 DEF SetScoreAction, DisconnectFromPeer, reputation, history
<1>10. ASSUME NEW c \in ConnIds, ConnectionEstablished(c) PROVE Bound(q, r)'
    BY <1>0, <1>1, <1>10 DEF ConnectionEstablished, reputation, history
<1>11. CASE Tick \/ UNCHANGED vars
    BY <1>0, <1>1, <1>11 DEF Tick, vars, reputation, history
<1> QED BY <1>4, <1>5, <1>6, <1>7, <1>8, <1>9, <1>10, <1>11 DEF Next, Request, Response

\* The messages passed on are limited by the scores.
THEOREM RatesLimited == Spec => []RateLimited
<1>1. Init => RateInv
    BY ReputationAssumption
    DEF Init, RateInv, TypeOK, ScoreBounded, RateLimited, Recovered
<1> QED BY <1>1, RateStep, PTL DEF Spec, RateInv
=============================================================================
