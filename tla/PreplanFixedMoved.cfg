SPECIFICATION Spec
CHECK_DEADLOCK FALSE
CONSTANTS
    MaxId = 2
    Ancodes = {a1, a2}
    Times = {t1, t2}
    Clients = {c1}
    None = None
    MaxOps = 6
    MaxOverlaps = 0
PROPERTY FixedKeepSlot
