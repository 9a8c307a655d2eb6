\* One slot and grace sets of one, so that both fill up.
CONSTANTS
    q1 = q1
    q2 = q2
    r1 = r1
    r2 = r2
    ReqIds <- MCReqIds
    RouteIds <- MCRouteIds
    MaxInbound = 1
    MaxLate = 1
SPECIFICATION EngineSpec
SYMMETRY MCSymmetry
INVARIANTS
    SingleSettlement
    CrossingsTolerated
    SlotsHeld
CHECK_DEADLOCK FALSE
