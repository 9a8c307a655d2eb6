SPECIFICATION RoutesSpec
CONSTANTS
    d1 = d1
    d2 = d2
    r1 = r1
    r2 = r2
    t1 = t1
    t2 = t2
    Docs = {d1, d2}
    Requests = {r1, r2}
    Texts = {t2}
    Gone = Gone
    FirstText = t1
    Ops = {"rename", "prepare", "apply"}
    MaxHandles = 1
    MAX_TRANSIENT_GENERATIONS = 1
    Ids = {1, 2, 3, 4, 5}
    MAX_LIVE_PLANS = 2
    MaxTree = 0
    MaxChanges = 1
    MaxSessions = 2
    MaxEpoch = 2
    MaxPlans = 2
SYMMETRY MCSymmetry
INVARIANT PlansFollowDocuments
PROPERTIES
    StaleOnlyInWindow
    PlansAreOneShot
CHECK_DEADLOCK FALSE
