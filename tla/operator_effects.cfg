SPECIFICATION Spec
CONSTANTS
    k1 = k1  k2 = k2  r1 = r1  r2 = r2  c1 = c1  c2 = c2
    go = go  halt = halt  halt2 = halt2
    Key = {k1, k2}
    Run = {r1, r2}
    Lease = {"lease"}
    Call = {c1, c2}
    Submission = {go, halt, halt2}
    Wants <- MCWants
    MaxCuts = 1
    Absent = Absent  NoReceipt = NoReceipt  NoRequest = NoRequest
    NoCall = NoCall  NoRecord = NoRecord  NoView = NoView  NoSubmission = NoSubmission
    Direct = Direct
SYMMETRY Symmetry
INVARIANTS EffectsAccounted RecordTrailsState EachSubmissionActsOnce
PROPERTIES RecordMovesOn
CHECK_DEADLOCK FALSE
