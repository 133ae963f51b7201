SPECIFICATION Spec
CONSTANTS
    r1 = r1  r2 = r2  k1 = k1  k2 = k2  va = va  vb = vb
    Roots = {r1, r2}
    Kids = {k1, k2}
    Vars = {va, vb}
    Forms <- FormsOf
    MaxOps <- Budget
    Snapshots <- SnapshotsTaken
    MaxDepth = 2
    None = None
INVARIANTS RootBindingsHonest OwnBindingVisible
PROPERTIES BindingsConveyed Isolated
CHECK_DEADLOCK FALSE
