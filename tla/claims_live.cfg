SPECIFICATION LiveSpec
CONSTANTS
    i1 = i1  i2 = i2  q1 = q1  q2 = q2  q3 = q3  q4 = q4  h1 = h1  h2 = h2  b1 = b1
    Item = {i1, i2}
    Request = {q1, q2, q3}
    Holder = {h1, h2}
    Board = {b1}
    Artifact = {}
    Path <- Paths
    View <- TwoAttempts
    Duration = {1, 2}
    Lag = 1
    MaxTime = 3
    MaxClaims = 2
INVARIANTS VerificationNeverRefuses
PROPERTIES RecoverableClaimsEnd
CHECK_DEADLOCK FALSE
