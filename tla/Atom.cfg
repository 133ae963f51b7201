SPECIFICATION FairSpec
CONSTANTS
    t1 = t1  t2 = t2  k1 = k1
    Threads = {t1, t2}
    Values = {0, 1, 2}
    Valid = {0, 1}
    Fns <- MCFns
    Uncomparable = {}
    Keys = {k1}
    MaxOps = 2
    Idle = Idle  Free = Free  Leaked = Leaked
 
PROPERTIES  UpdatesReturn
CHECK_DEADLOCK FALSE
