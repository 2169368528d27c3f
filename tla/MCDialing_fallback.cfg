SPECIFICATION FairSpec
CONSTANTS
    A = A  B = B  quic1 = quic1  quic2 = quic2  tcp1 = tcp1
    NoQueue = NoQueue  NoApp = NoApp  NoAddr = NoAddr
    Apps = {A, B}
    Addrs = {quic1, quic2, tcp1}
    Quic = {quic1, quic2}
    Requests <- MCRequests
    MaxPending = 10
    MaxConn = 5
INVARIANTS
    OneAttemptPerSequence
    NothingSkipped
    GivenUpOnlyWhenExhausted
    QuicDialedFirst
    AttemptsUnderWay
PROPERTY SequenceEnds
CHECK_DEADLOCK FALSE
