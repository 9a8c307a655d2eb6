SPECIFICATION OwnershipSpec
CONSTANTS
    p1 = p1
    p2 = p2
    p3 = p3
    Daemons = {p1, p2, p3}
    MAX_ACQUISITION_ATTEMPTS = 3
    MaxCrashes = 1
    NoProc = NoProc
SYMMETRY MCSymmetry
INVARIANT OneWinner
CHECK_DEADLOCK FALSE
