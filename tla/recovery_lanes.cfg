SPECIFICATION Spec
CONSTANTS
    laneA = laneA  laneB = laneB  a1 = a1  a2 = a2  b1 = b1  b2 = b2
    Process = {"p"}
    Lane = {laneA, laneB}
    Assignment = {a1, a2, b1, b2}
    Event <- MCEvent
    Terms <- MCTerms
    Content <- LifeContent
    MaxWriters = 2
    Control = {"reconcile", "revise", "authorize", "acknowledge", "stop"}
    Order <- MCOrder
    SyncPaused = FALSE
    MaxRaces = 0
    MaxCrashes = 1
CHECK_DEADLOCK FALSE
INVARIANTS WritersApart DoneIsVerified
PROPERTIES NothingGivenBack
