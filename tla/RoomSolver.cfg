SPECIFICATION Spec
CHECK_DEADLOCK FALSE
CONSTANTS
    Seats <- MCSeats
    Exams <- MCExams
    Rooms <- MCRooms
    Slots <- MCSlots
    None = 99
    ExamOf <- MCExamOf
    Alone = {2}
    Fixed = {5}
    FixedRoom <- MCFixedRoom
    PrevPlans <- MCPrevPlans
    SlotOf <- MCSlotOf
    Duration <- MCDuration
    PreExtra <- MCPreExtra
    PostExtra <- MCPostExtra
    NormalCount <- MCNormalCount
    AllowedNormal <- MCAllowedNormal
    AllowedAlone <- MCAllowedAlone
    Capacity <- MCCapacity
    Own = {2}
    Start <- MCStart
    DayOf <- MCDayOf
    Lag = 15
    Summer = TRUE
    SeatCost <- MCSeatCost
    Unplaced = 1000
    Buffer = 5
    Split = 3
    Compaction = 2
    Churn = 1
INVARIANTS CountersExact PlacesKept GapsKept
