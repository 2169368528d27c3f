SPECIFICATION Spec
CONSTANTS
    k1 = k1  k2 = k2  q1 = q1  q2 = q2  None = None
    U64 = 16
    Keys = {k1, k2}
    Queries = {q1, q2}
    Dates = {0, 2}
    EnvelopeMaxAge = 1000
    MaxClockSkew = 1000
    MaxTime = 3
    MaxFound = 2
INVARIANT AnswerOfKeyAsked
CHECK_DEADLOCK FALSE
