SPECIFICATION Spec
CONSTANTS
    p1 = p1  c1 = c1  c2 = c2  Never = Never
    Protocols = {"gossip", "reqresp"}
    Peers = {p1}
    ConnIds = {c1, c2}
    PeerOf <- PeerOfOne
    Cost = 2
    Rate = 1
    Threshold <- MCThreshold
    MuteDuration = 2
    DefaultBanPeriod = 2
    Durations = {1}
    NewScores = {0}
    MinScore <- MCMinScore
    MaxTime = 3
INVARIANTS
    BannedNeverOpen
    RateLimited
PROPERTY PenaltyKept
CHECK_DEADLOCK FALSE
