SPECIFICATION Spec
CHECK_DEADLOCK FALSE
CONSTANTS
    MaxId = 2
    Ancodes = {a1, a2}
    Times = {t1}
    Clients = {c1, c2}
    None = None
    MaxOps = 4
    MaxOverlaps = 1
SYMMETRY ClientAncodeSymmetry
INVARIANTS LinksSymmetric LinkedOnce GroupCarriedOver PinInSync
PROPERTY NoSecondLife
