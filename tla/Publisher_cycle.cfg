SPECIFICATION Spec
CONSTANTS
    U64 = 128
    RecordTTL = 36
    ExpiryMargin = 3
    RetryAfter = 3
    EnvelopeMaxAge = 3000
    MaxClockSkew = 0
    Capacity = 1
    PutTime = 1
    MaxCycles = 3
    MaxTime = 80
    Dates = {0, 40, 41, 127}
    Durations = {0, 999, 1000, 2500, 100000}
INVARIANTS
    OnePublisher
    NeverBlocked
    CycleKept
    RecordNotExpired
    ChecksAgree
    DateWindow
PROPERTY NoRevival
CHECK_DEADLOCK FALSE
