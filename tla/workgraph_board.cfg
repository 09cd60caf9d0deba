SPECIFICATION BoardLiveSpec
CONSTANTS
    u1 = u1  u2 = u2
    Update = {u1, u2}
    NoUpdate = NoUpdate
    ByHand <- MCByHand
    Journal = {"main"}
    Mark = {u1}
    Idle = Idle
    NoMigration = NoMigration
    MaxEdits = 1
    MaxKills = 1
INVARIANTS WrittenIsAccounted NoApplicationLost
PROPERTIES RecoverySettles
CHECK_DEADLOCK FALSE
