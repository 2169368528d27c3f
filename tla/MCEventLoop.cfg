SPECIFICATION FairSpec
CONSTANTS
    a1 = a1
    a2 = a2
    ConnectTo <- ConnectToTwo
    MaxRetries = 1
    Callers = {c1}
    CommandCapacity = 1
    EventCapacity = 1
    Requests = {r1, r2}
    MaxInFlight = 1
    MaxReceivers = 2
    Response = Response
    Nothing = Nothing
INVARIANTS
    TypeOK
    StartupHonest
    StopsForCause
    WaitsForSomebody
PROPERTIES
    CancellationStops
    QueriesReturn
    RequestsTakenUp
CHECK_DEADLOCK FALSE
