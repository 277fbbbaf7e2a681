------------------------------ MODULE Scheduler ------------------------------
(***************************************************************************)
(* The nightly auto-sync: the daily loop (plexams/scheduler/scheduler.go),  *)
(* the callback that records each fire in the database (graph/scheduler.go, *)
(* db/scheduler_state.go), and the server's life around it: start with a    *)
(* possible catch-up, graceful shutdown with a grace period, crash.         *)
(*                                                                         *)
(* The day has Day ticks and hh:mm is tick 0.  Instants are kept relative   *)
(* to now, so that time never ends: the catch-up anchor as its age, which   *)
(* matters up to Old, and the timer as the ticks that are left.             *)
(***************************************************************************)
EXTENDS Integers

CONSTANTS Day,          \* ticks between two scheduled fire times
          MaxRestarts   \* bound on how often the server goes down

ASSUME SchedulerAssumption == Day \in Nat \ {0} /\ MaxRestarts \in Nat

VARIABLES
    clock,      \* tick of the day
    loop,       \* where the loop goroutine is; "down" when no server runs
    left,       \* ticks until the timer expires
    anchor,     \* age of the persisted LastFireAt
    fireAt,     \* age of the start of the latest run
    stop,       \* Shutdown closed the stop channel
    expired,    \* the grace period of Shutdown is over
    cancelled,  \* the context of the run in flight is cancelled
    restarts,   \* how often the server went down
    recorded,   \* ghost: fires recorded since the last fire time, up to 2
    unserved    \* ghost: no run has begun since the last fire time

ghosts == <<recorded, unserved>>
time == <<clock, left, anchor, fireAt>>
server == <<stop, expired, cancelled>>
schedulerVars == <<time, loop, server, restarts, ghosts>>

NoFire == -1       \* the zero time: nothing recorded yet
Old == Day + 1     \* before the last fire time, however long ago
Ages == {NoFire} \cup 0..Old
InRun == {"record", "running"}

SchedulerTypeOK ==
    /\ clock \in 0..Day - 1 /\ left \in 0..Day
    /\ loop \in {"down", "arm", "waiting", "fire", "stopped"} \cup InRun
    /\ anchor \in Ages /\ fireAt \in Ages
    /\ stop \in BOOLEAN /\ expired \in BOOLEAN /\ cancelled \in BOOLEAN
    /\ restarts \in 0..MaxRestarts
    /\ recorded \in 0..2 /\ unserved \in BOOLEAN

SchedulerInit ==
    /\ clock = 0 /\ left = 0 /\ anchor = NoFire /\ fireAt = NoFire
    /\ loop = "down" /\ stop = FALSE /\ expired = FALSE /\ cancelled = FALSE
    /\ restarts = 0
    /\ recorded = 0 /\ unserved = FALSE

Older(age) == IF age \in {NoFire, Old} THEN age ELSE age + 1

Tick ==
    /\ clock' = IF clock = Day - 1 THEN 0 ELSE clock + 1
    /\ left' = IF left > 0 THEN left - 1 ELSE 0
    /\ anchor' = Older(anchor) /\ fireAt' = Older(fireAt)
    /\ recorded' = IF clock' = 0 THEN 0 ELSE recorded
    /\ unserved' = (unserved \/ clock' = 0)
    /\ UNCHANGED <<loop, server, restarts>>

-----------------------------------------------------------------------------
\* nextFire is strictly after now, prevFire strictly before: the distances.
nextFire == Day - clock
prevFire == IF clock = 0 THEN Day ELSE clock

\* shouldCatchUp: a fire time passed since the last recorded fire.
shouldCatchUp(lastFire) == lastFire # NoFire /\ lastFire > prevFire

\* startScheduledSync: a state that cannot be read counts as none.
Boot ==
    /\ loop = "down"
    /\ \E lastFire \in {anchor, NoFire} :
          loop' = IF shouldCatchUp(lastFire) THEN "fire" ELSE "arm"
    /\ UNCHANGED <<time, server, restarts, ghosts>>

\* loop: a timer for the next fire time.
Arm ==
    /\ loop = "arm"
    /\ left' = nextFire
    /\ loop' = "waiting"
    /\ UNCHANGED <<clock, anchor, fireAt, server, restarts, ghosts>>

\* select: with the timer expired and stop closed, either branch may be taken.
TimerFires ==
    /\ loop = "waiting" /\ left = 0
    /\ loop' = "fire"
    /\ UNCHANGED <<time, server, restarts, ghosts>>

LoopStops ==
    /\ loop = "waiting" /\ stop
    /\ loop' = "stopped"
    /\ UNCHANGED <<time, server, restarts, ghosts>>

\* fire: a fresh detached context, registered for Shutdown.
Fire ==
    /\ loop = "fire"
    /\ loop' = "record"
    /\ cancelled' = FALSE
    /\ UNCHANGED <<time, stop, expired, restarts, ghosts>>

Began == fireAt' = 0 /\ unserved' = FALSE
CountRecorded == recorded' = IF recorded < 2 THEN recorded + 1 ELSE 2

\* Mutant: the anchor is left to SaveSchedulerOutcome at the end of the run.
RecordSkipped ==
    /\ loop = "record"
    /\ loop' = "running"
    /\ Began /\ CountRecorded
    /\ UNCHANGED <<clock, left, anchor, server, restarts>>

\* RecordSchedulerFire, before the run; it fails with a cancelled context and
\* may fail otherwise, which is logged only.
RecordSchedulerFire ==
    /\ loop = "record"
    /\ loop' = "running"
    /\ Began
    /\ \/ ~cancelled /\ anchor' = 0 /\ CountRecorded
       \/ UNCHANGED <<anchor, recorded>>
    /\ UNCHANGED <<clock, left, server, restarts>>

\* Mutant: a panic of the run ends the loop.
PanicEndsLoop ==
    /\ loop = "running"
    /\ loop' = "stopped"
    /\ UNCHANGED <<time, server, restarts, ghosts>>

\* The run returns, with an error or a recovered panic included, and
\* SaveSchedulerOutcome stores it under its own fire time unless that write
\* fails, as it does once the context is cancelled.
RunEnds ==
    /\ loop = "running"
    /\ loop' = "arm"
    /\ anchor' \in (IF cancelled THEN {anchor} ELSE {anchor, fireAt})
    /\ UNCHANGED <<clock, left, fireAt, server, restarts, ghosts>>

-----------------------------------------------------------------------------
\* SIGTERM: Shutdown closes stop and waits for done or for the grace period.
Shutdown ==
    /\ loop # "down" /\ ~stop /\ restarts < MaxRestarts
    /\ stop' = TRUE
    /\ UNCHANGED <<time, loop, expired, cancelled, restarts, ghosts>>

GraceElapses ==
    /\ stop /\ ~expired
    /\ expired' = TRUE
    /\ cancelled' = (loop \in InRun)
    /\ UNCHANGED <<time, loop, stop, restarts, ghosts>>

GoDown ==
    /\ loop' = "down" /\ restarts' = restarts + 1
    /\ stop' = FALSE /\ expired' = FALSE /\ cancelled' = FALSE
    /\ UNCHANGED <<time, ghosts>>

\* Mutants of Exit: only a drained loop lets the server go; nobody waits.
ExitOnlyDrained == stop /\ loop = "stopped" /\ GoDown
ExitAtOnce == stop /\ GoDown

\* Shutdown has returned and main ends.
Exit == stop /\ (loop = "stopped" \/ expired) /\ GoDown

Crash == loop # "down" /\ ~stop /\ restarts < MaxRestarts /\ GoDown

SchedulerNext ==
    \/ Tick \/ Boot \/ Arm \/ TimerFires \/ LoopStops \/ Fire
    \/ RecordSchedulerFire \/ RunEnds
    \/ Shutdown \/ GraceElapses \/ Exit \/ Crash

SchedulerSpec == SchedulerInit /\ [][SchedulerNext]_schedulerVars

\* Time passes, timers expire, goroutines are scheduled and the service manager
\* starts the server again.  A run may outlast any grace period.
SchedulerFairSpec ==
    /\ SchedulerSpec
    /\ WF_schedulerVars(Tick) /\ WF_schedulerVars(Boot) /\ WF_schedulerVars(Arm) /\ WF_schedulerVars(TimerFires)
    /\ WF_schedulerVars(LoopStops) /\ WF_schedulerVars(Fire) /\ WF_schedulerVars(RecordSchedulerFire)
    /\ WF_schedulerVars(GraceElapses) /\ WF_schedulerVars(Exit)

-----------------------------------------------------------------------------
\* db/scheduler_state.go:45: the anchor is set before the run, so that "a crash
\* or several restarts within the same day do not re-trigger the catch-up":
\* between two fire times at most one run is recorded, whatever crashes,
\* restarts, late timers or failed outcome writes happen.
OncePerDay == recorded <= 1

\* scheduler.go:13 and 163: unless the grace period is over, the server does not
\* go down under a run it was asked to drain, also when the timer and the stop
\* signal arrive together or a catch-up has just begun.
DrainedBeforeExit ==
    [][stop /\ ~expired /\ loop' = "down" => loop = "stopped"]_schedulerVars

\* scheduler.go:163: Shutdown ends, however long the run in flight takes.
ShutdownEnds == stop ~> ~stop

\* scheduler.go:10: no fire time is lost for good: after each one a run begins,
\* as a late fire, a catch-up or the next night's, through panics, failed
\* database writes and any finite number of outages, unless a run never returns.
FireTimeServed == []<>(loop # "running") => (unserved ~> ~unserved)
=============================================================================
