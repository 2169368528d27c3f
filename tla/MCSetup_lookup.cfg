SPECIFICATION Spec
CONSTANTS
    t1 = t1  t2 = t2  A = A  X = X  c1 = c1  c2 = c2
    Local = Local  NoKey = NoKey  NoPeer = NoPeer
    Transports = {t1, t2}
    Apps = {A, X}
    ConnIds = {c1, c2}
    PeerOf <- PeerOfTwo
    KeyHolders <- KeysRestart
    AppPeerId <- AppPeerIdRestart
    Allowlist = {A}
    Seconds = {0, 1, 2, 3}
    EnvelopeMaxAge = 1500
    MaxClockSkew = 1000
    MaxEvents = 1
    U64 = 16
INVARIANT LookupComplete
