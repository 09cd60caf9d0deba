SPECIFICATION LiveSpec
CONSTANTS
    laneA = laneA  laneB = laneB  a1 = a1  a2 = a2  b1 = b1  b2 = b2
    Process = {"p", "q"}
    Lane = {laneA, laneB}
    Assignment = {a1, a2, b1, b2}
    Event = {"assign", "route", "work"}
    Terms <- MCTerms
    Content <- ShortContent
    MaxWriters = 2
    Control = {"reconcile", "pause", "resume", "stop", "cursor"}
    Order <- MCOrder
    SyncPaused = FALSE
    MaxRaces = 1
    MaxCrashes = 1
INVARIANT StoreExplained
PROPERTIES LoopImplemented WrittenWhenPrepared PendingSettles
CHECK_DEADLOCK FALSE
