SPECIFICATION Spec
CONSTANTS
    t1 = t1  t2 = t2  a = a  b = b
    Threads = {t1, t2}
    Vars = {a, b}
    Redefs <- Both
    Watchable = {a}
    Bindable = {b}
    MaxOps = 2
    MaxDepth = 2
SYMMETRY Symmetry
INVARIANTS GuardTracksRoots RedefsRestore
CHECK_DEADLOCK FALSE
