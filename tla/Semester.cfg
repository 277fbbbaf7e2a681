CONSTANTS
    s = s
    w = w
    Databases = {s, w}
    First = s
    c1 = c1
    c2 = c2
    DataColls = {c1, c2}
    x1 = x1
    Docs = {x1}
    g1 = g1
    g2 = g2
    Configs = {g1, g2}
    Empty = Empty
    None = None
    k1 = k1
    k2 = k2
    Clients = {k1, k2}
    MaxOps = 4
    MaxOverlaps = 1
    MaxFaults = 1
SYMMETRY ClientCollDocSymmetry
SPECIFICATION Spec
INVARIANTS FlagAgrees ActiveIsCurrent
PROPERTIES ProtectedUnchanged WritesHome SwitchLoads RestoreExact
CHECK_DEADLOCK FALSE
