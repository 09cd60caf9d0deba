SPECIFICATION LiveSpec
CONSTANTS
    a1 = a1  r1 = r1  c1 = c1
    App = {a1, r1, c1}
    Packets = {r1, c1}
    Control = {c1}
    Events <- Sizes
    MaxLeases = 1
    MaxStops = 2
    MaxForeign = 1
INVARIANT StagesOnceInOrder
PROPERTIES RepairsOwnOnly ImplementsPromise PreparedIsReceipted
CHECK_DEADLOCK FALSE
