SPECIFICATION SchedulerFairSpec
CONSTANTS
    Day = 3
    MaxRestarts = 3
INVARIANTS OncePerDay
PROPERTIES DrainedBeforeExit ShutdownEnds FireTimeServed
