SPECIFICATION Spec
CHECK_DEADLOCK FALSE
CONSTANTS
    Units <- MCUnits
    Slots <- MCSlots
    None = 99
    Start <- MCStart
    DayOf <- MCDayOf
    Fixed = {0}
    FixedSlot <- MCFixedSlot
    StartPlans <- MCStartPlans
    Allowed <- MCAllowed
    Seats <- MCSeats
    Exahm = {2, 4}
    Seb = {3}
    Foreign = {}
    Cap <- MCCap
    ExahmSeats <- MCExahmSeats
    SebSeats <- MCSebSeats
    Pairs <- MCPairs
    Sep <- MCSep
    Overrun <- MCOverrun
    AttractPairs <- MCAttract
    Closeness <- MCCloseness
    Farness <- MCFarness
    TimePenalty <- MCTimePenalty
    TargetLoad = 2
    Hole = 3
    Unplaced = 1000
INVARIANTS BookkeepingExact NoClash DomainKept CapacityKept BestKept
