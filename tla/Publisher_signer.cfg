SPECIFICATION Spec
CONSTANTS
    U64 = 128
    RecordTTL = 36
    ExpiryMargin = 3
    RetryAfter = 3
    EnvelopeMaxAge = 3000
    MaxClockSkew = 0
    Capacity = 1
    PutTime = 1
    MaxCycles = 3
    MaxTime = 80
INVARIANT RepublishingGoesOn
CHECK_DEADLOCK FALSE
