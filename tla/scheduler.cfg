SPECIFICATION LiveSpec
CONSTANTS
    t1 = t1  t2 = t2  e1 = e1  e2 = e2  e3 = e3  e4 = e4  r1 = r1  r2 = r2
    v1 = v1  v2 = v2  v3 = v3  v4 = v4  l1 = l1  l2 = l2  l3 = l3
    Task = {t1, t2}
    Envelope = {e1, e2, e3, e4}
    LeaseId = {l1, l2, l3}
    Route = {r1, r2}
    Evidence = {v1, v2, v3}
    Group = {"g1", "g2"}
    Reason = {"lost"}
    EnvelopeInfo <- MixEnvelopeInfo
    RouteInfo <- MCRouteInfo
    Offers <- MixOffers
    Policy <- MixPolicy
    Lag = 1
    MaxTime = 2
    MaxFence = 2
    MaxRows = 3
INVARIANTS CapacityRespected BudgetRespected WritersIsolated RecoveredOwnerFenced
PROPERTY EveryLeaseEnds
CHECK_DEADLOCK FALSE
