SPECIFICATION RouterSpec
CONSTANTS
    c1 = c1
    c2 = c2
    s1 = s1
    s2 = s2
    a1 = a1
    a2 = a2
    w1 = w1
    d1 = d1
    d2 = d2
    k1 = k1
    k2 = k2
    u1 = u1
    i1 = i1
    i2 = i2
    i3 = i3
    None = None
    ConsumerSessions = {c1}
    AdapterSessions = {s1, s2}
    AdapterIds = {a1, a2}
    WorkspaceIds = {w1}
    Docs = {}
    MaxEpoch = 1
    ReadinessStates = {"initializing"}
    RootSets = {{}}
    TrustLevels = {TRUE}
    Offers = {TRUE}
    AdapterPlanIds = {k1}
    AdapterTokenIds = {u1}
    MaxPlans = 1
    MaxTokens = 0
    MaxTime = 0
    MaximumPlanLifetime = 1
    MaximumEntries = 1
    MaximumEntriesPerConsumer = 1
    MaxRememberedInvalidations = 1
    RequestIds = {i1, i2}
    RequestKinds = {"prepare", "apply", "discard"}
    MaxRoutes = 2
    MaxInFlight = 2
    MaxInFlightPerConsumer = 2
SYMMETRY MCSymmetry
INVARIANTS
    PlanOwnersAlive
    ForwardedToItsAdapter
    ActiveRoutesConnected
    IndexesAgree
    WorkspacesReachable
CHECK_DEADLOCK FALSE
