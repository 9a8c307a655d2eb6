\* Liveness is checked, so no symmetry.
CONSTANTS
    s1 = s1
    s2 = s2
    i1 = i1
    i2 = i2
    None = None
    Sockets <- MCSockets
    SessionIds <- MCSessionIds
    MaxMissed = 2
SPECIFICATION FairTransportSpec
INVARIANTS
    SessionsMatch
PROPERTIES
    RefusedStaysOut
    HandshakeEnds
    HungPeersLeave
CHECK_DEADLOCK FALSE
