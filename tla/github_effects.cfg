SPECIFICATION LiveSpec
CONSTANTS
    c1 = c1  c2 = c2  p1 = p1  t1 = t1  t2 = t2
    Nobody = nobody
    Poster = {c1, c2}
    publisher = p1
    Task = {t1, t2}
    MaxCommits = 2
    MaxOpened = 1
    MaxStops = 1
    Audited <- FirstAudited
INVARIANTS IssueCreatedOnce PublishedAsRecorded MergedAsAudited
PROPERTIES UnknownMergeNotRetried PendingMergeSettles
CHECK_DEADLOCK FALSE
