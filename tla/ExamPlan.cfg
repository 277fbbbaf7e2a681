SPECIFICATION Spec
VIEW PlanView
SYMMETRY SlotSymmetry
CONSTANTS
    Ordinary = {o}
    Exahm = {x}
    Foreign = {f}
    NoRegs = {f}
    Slots = {s1, s2}
    Gens = {g}
    Planners = {p1}
    None = None
INVARIANTS GeneratedAsSolved EntriesBounded
PROPERTIES FixedEntriesKept
