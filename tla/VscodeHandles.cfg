SPECIFICATION RoutesSpec
CONSTANTS
    d1 = d1
    d2 = d2
    r1 = r1
    r2 = r2
    t1 = t1
    t2 = t2
    Docs = {d1, d2}
    Requests = {r1}
    Texts = {t1}
    Gone = Gone
    FirstText = t1
    Ops = {"getSymbols", "resolveAt", "search"}
    MaxHandles = 3
    MAX_TRANSIENT_GENERATIONS = 2
    Ids = {1, 2, 3, 4, 5}
    MAX_LIVE_PLANS = 1
    MaxTree = 2
    MaxChanges = 1
    MaxSessions = 2
    MaxEpoch = 2
    MaxPlans = 0
SYMMETRY MCSymmetry
INVARIANTS
    CollectionsAgree
    HandlesBounded
    OutdatedOnlyByHash
PROPERTIES
    TreesSurviveMinting
CHECK_DEADLOCK FALSE
