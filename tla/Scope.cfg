SPECIFICATION FairSpec
CONSTANTS
    root = root  outer = outer  inner = inner
    t1 = t1  b1 = b1  b2 = b2
    Root = root
    Scopes = {root, outer, inner}
    Parent <- MCParent
    Up <- MCUp
    Threads = {t1}
    Blocks = {b1, b2}
    Drainable = {root}
    MaxGen = 1
    Timeouts = TRUE
    None = None
  
PROPERTIES CloseTerminates
CHECK_DEADLOCK FALSE
