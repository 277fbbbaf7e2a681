CONSTANTS
    Positions <- MCPositions
    Invigilators <- MCInvigilators
    Unassigned = Unassigned
    Fixed <- MCFixed
    FixedTo <- MCFixedTo
    Start <- MCStart
    Block <- MCBlock
    DayOf <- MCDayOf
    Minutes <- MCMinutes
    Kind <- MCKind
    Target <- MCTarget
    ExcludedDays <- MCExcludedDays
    ExcludedSlots <- MCExcludedSlots
    Windows <- MCWindows
    OwnExamSlots <- MCOwnExamSlots
    OwnExamDays <- MCOwnExamDays
    OwnExams <- MCOwnExams
    Timelag = 15
    Tolerance = 30
    MaxSpan = 120
    MaxAttendanceDays = 1
    Weights <- MCWeights
SPECIFICATION Spec
INVARIANTS IndexExact HardKept GreedyComplete BestRestored
CHECK_DEADLOCK FALSE
