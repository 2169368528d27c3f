SPECIFICATION FairTrafficSpec
CONSTANTS
    t1 = t1  t2 = t2  A = A  X = X  c1 = c1  c2 = c2  c3 = c3
    Local = Local  NoKey = NoKey  NoPeer = NoPeer  NoRequest = NoRequest
    Transports = {t1, t2}
    Apps = {A, X}
    ConnIds = {c1, c2, c3}
    PeerOf <- PeerOfTraffic
    KeyHolders <- KeysTraffic
    AppPeerId <- AppPeerIdTraffic
    Allowlist = {A}
    Seconds = {0, 1, 2, 3}
    EnvelopeMaxAge = 1500
    MaxClockSkew = 1000
    MaxEvents = 1
    U64 = 16
    Slots = {1}
    Sizes = {1, 2}
    REQUEST_SIZE_MAXIMUM = 1
    RESPONSE_SIZE_MAXIMUM = 1
INVARIANTS
    BoundPeersConnected
    BindingsAuthentic
    MapsInverse
    QueriesAgree
    RefusedNeverOpen
    OnlyOperatorsHeard
    RequestsToHolders
    AnswersFromAsked
PROPERTIES
    BindingLostOnlyAtLastClose
    ImplementsRegistry
    RefusedEventuallyClosed
