SPECIFICATION FairSpec
CONSTANTS
    w1 = w1  w2 = w2  w3 = w3
    Workers = {w1, w2, w3}
    Requests = {0, 1}
    DefaultMaxShared = 2
    Signallable = {w1}
    Killable = {w1}
INVARIANTS BenchRunsAlone LaneBounded LeaseCoversRun
PROPERTIES BenchNotStarved SignalEndsBaton
CHECK_DEADLOCK FALSE
