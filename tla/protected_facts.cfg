SPECIFICATION FactsLiveSpec
CONSTANTS
    o1 = o1  o2 = o2
    Observation = {o1, o2}
    Reader = {"p", "q"}
    Life = 1
    MaxTime = 1
    MaxReads = 2
    MaxKills = 2
CHECK_DEADLOCK FALSE
INVARIANTS LogsAgree RecordsHaveSources
PROPERTIES ReadsEnd
