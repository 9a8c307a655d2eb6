SPECIFICATION FairReconnectSpec
CONSTANTS
    m1 = m1
    m2 = m2
    Methods = {m1, m2}
    MaxConns = 4
    InitialDelay = 1
    MaxDelay = 5
    Multiplier = 2
INVARIANTS
    OneConnection
    HandlersFollow
PROPERTIES
    CloseIsTerminal
    ClosePromised
    LossNoticed
CHECK_DEADLOCK FALSE
