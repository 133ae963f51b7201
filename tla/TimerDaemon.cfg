SPECIFICATION FairSpec
CONSTANTS
    t1 = t1  t2 = t2  d1 = d1  d2 = d2
    Timers = {t1, t2}
    Daemons = {d1, d2}
    Delays <- MCDelays
    MaxTime = 2
    MaxGen = 2
    NoOne = NoOne
INVARIANTS OneServer ClosedOnceInTime 
PROPERTIES EveryTimeoutCloses
CHECK_DEADLOCK FALSE
