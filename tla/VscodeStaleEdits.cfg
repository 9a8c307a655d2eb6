SPECIFICATION RoutesSpec
CONSTANTS
    d1 = d1
    d2 = d2
    r1 = r1
    r2 = r2
    t1 = t1
    t2 = t2
    Docs = {d1, d2}
    Requests = {r1}
    Texts = {t2}
    Gone = Gone
    FirstText = t1
    Ops = {"rename", "apply"}
    MaxHandles = 1
    MAX_TRANSIENT_GENERATIONS = 1
    Ids = {1}
    MAX_LIVE_PLANS = 1
    MaxTree = 0
    MaxChanges = 1
    MaxSessions = 1
    MaxEpoch = 1
    MaxPlans = 1
PROPERTY EditsMeetGuards
CHECK_DEADLOCK FALSE
