SPECIFICATION BoundSpec
CONSTANTS
    t1 = t1  e1 = e1  e2 = e2  r1 = r1  v1 = v1  v2 = v2  l1 = l1  l2 = l2  o1 = o1  o2 = o2
    Task = {t1}
    Envelope = {e1, e2}
    LeaseId = {l1, l2}
    Route = {r1}
    Evidence = {v1, v2}
    Group = {"g"}
    Reason = {"lost"}
    Owner = {o1, o2}
    Duration = {2}
    EnvelopeInfo <- BoundEnvelopeInfo
    RouteInfo <- BoundRouteInfo
    Offers <- BoundOffers
    Policy <- BoundPolicy
    Guard = 1
    Lag = 1
    MaxTime = 4
    MaxFence = 2
    MaxRows = 3
    MaxEvents = 2
SYMMETRY Symmetry
INVARIANTS BrokerHistoryExplains RecoveredHasNoProvider ProvidersIsolated GrantsRestOnFreshEvidence
CHECK_DEADLOCK FALSE
