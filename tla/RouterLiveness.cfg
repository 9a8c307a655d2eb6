SPECIFICATION FairRouterSpec
CONSTANTS
    c1 = c1
    c2 = c2
    s1 = s1
    s2 = s2
    a1 = a1
    a2 = a2
    w1 = w1
    d1 = d1
    d2 = d2
    k1 = k1
    k2 = k2
    u1 = u1
    i1 = i1
    i2 = i2
    i3 = i3
    None = None
    ConsumerSessions = {c1}
    AdapterSessions = {s1}
    AdapterIds = {a1}
    WorkspaceIds = {w1}
    Docs = {d1}
    MaxEpoch = 0
    ReadinessStates = {"initializing"}
    RootSets = {{d1}}
    TrustLevels = {TRUE}
    Offers = {TRUE}
    AdapterPlanIds = {k1}
    AdapterTokenIds = {u1}
    MaxPlans = 1
    MaxTokens = 1
    MaxTime = 1
    MaximumPlanLifetime = 1
    MaximumEntries = 2
    MaximumEntriesPerConsumer = 2
    MaxRememberedInvalidations = 1
    RequestIds = {i1, i2}
    RequestKinds = {"prepare", "apply", "discard", "read"}
    MaxRoutes = 2
    MaxInFlight = 2
    MaxInFlightPerConsumer = 2
PROPERTIES
    RoutesDrain
    HeldDrains
CHECK_DEADLOCK FALSE
