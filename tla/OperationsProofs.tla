-------------------------- MODULE OperationsProofs --------------------------
(***************************************************************************)
(* Proofs about the operations of the server and the guard that keeps them  *)
(* apart, for any number of clients, retries, imports, emails and restarts. *)
(* The operation guard first, then the components that rely on it: the      *)
(* nightly scheduler, the derived collections, and publishing.              *)
(***************************************************************************)
EXTENDS OpGuard, Scheduler, DirtyCache, Publication, FiniteSetTheorems, TLAPS

-----------------------------------------------------------------------------
(***************************************************************************)
(* Proofs about the operation guard for any number of clients and retries:  *)
(* the counters are exact, exclusive operations are alone, writes are       *)
(* admitted only into quiet, and the guard implements Exclusion.            *)
(***************************************************************************)
\* The guard's counters and the operations' places keep their types.
THEOREM OpTypeCorrect == OpSpec => []OpTypeOK
<1>1. OpInit => OpTypeOK
  BY RetriesAssumption DEF OpInit, OpTypeOK, GuardInit, GuardTypeOK, Places
<1>2. OpTypeOK /\ [OpNext]_opVars => OpTypeOK'
  <2> SUFFICES ASSUME OpTypeOK, [OpNext]_opVars PROVE OpTypeOK'
    OBVIOUS
  <2> USE DEF OpTypeOK, GuardTypeOK, Goto, Places, gvars, Ops, Holders
  <2>1. ASSUME NEW v \in Validators, StartValidation(v) \/ FinishValidation(v)
        PROVE  OpTypeOK'
    BY <2>1 DEF StartValidation, FinishValidation, BeginValidation, EndValidation
  <2>2. ASSUME NEW e \in Exclusives, StartExclusiveOp(e) \/ FinishExclusiveOp(e)
        PROVE  OpTypeOK'
    BY <2>2 DEF StartExclusiveOp, FinishExclusiveOp, BeginExclusiveOp, EndExclusiveOp
  <2>3. ASSUME NEW s \in Syncs, SyncStart(s) PROVE OpTypeOK'
    BY <2>3, RetriesAssumption DEF SyncStart, BeginExclusiveOp
  <2>4. ASSUME NEW s \in Syncs, SyncRetry(s) PROVE OpTypeOK'
    BY <2>4, RetriesAssumption DEF SyncRetry, BeginExclusiveOp
  <2>5. ASSUME NEW s \in Syncs, SyncGiveUp(s) \/ SyncCancelled(s) \/ SyncFinish(s)
        PROVE  OpTypeOK'
    BY <2>5, RetriesAssumption DEF SyncGiveUp, SyncCancelled, SyncFinish, EndExclusiveOp
  <2>6. ASSUME NEW w \in Ops, AdmitWrite(w) \/ FinishWrite(w) PROVE OpTypeOK'
    BY <2>6 DEF AdmitWrite, FinishWrite
  <2>7. ASSUME NEW g \in InvigGens,
               InvigGenStart(g) \/ InvigGenSolve(g) \/ InvigGenWrite(g) \/ InvigGenStop(g)
        PROVE  OpTypeOK'
    BY <2>7 DEF InvigGenStart, InvigGenSolve, InvigGenWrite, InvigGenStop
  <2>8. ASSUME NEW g \in ExamGens, ExamGenStart(g) \/ ExamGenWrite(g) \/ ExamGenStop(g)
        PROVE  OpTypeOK'
    BY <2>8 DEF ExamGenStart, ExamGenWrite, ExamGenStop
  <2>9. CASE OpRestart
    BY <2>9, RetriesAssumption DEF OpRestart, GuardReset
  <2>10. CASE UNCHANGED opVars
    BY <2>10 DEF opVars
  <2>11. QED
    BY <2>1, <2>2, <2>3, <2>4, <2>5, <2>6, <2>7, <2>8, <2>9, <2>10 DEF OpNext
<1>3. QED
  BY <1>1, <1>2, PTL DEF OpSpec

-----------------------------------------------------------------------------
(***************************************************************************)
(* What one step of the server does to the guard and to the sets of running *)
(* operations.  Every later argument is about these six moves only.         *)
(***************************************************************************)
Same == UNCHANGED <<RunningValidations, RunningHolders>>

Move ==
    \/ UNCHANGED gvars /\ Same
    \/ \E v \in Validators \ RunningValidations :
          /\ BeginValidation
          /\ RunningValidations' = RunningValidations \cup {v}
          /\ RunningHolders' = RunningHolders
    \/ \E v \in RunningValidations :
          /\ EndValidation
          /\ RunningValidations' = RunningValidations \ {v}
          /\ RunningHolders' = RunningHolders
    \/ \E h \in Holders \ RunningHolders :
          /\ BeginExclusiveOp
          /\ RunningHolders' = RunningHolders \cup {h}
          /\ RunningValidations' = RunningValidations
    \/ \E h \in RunningHolders :
          /\ EndExclusiveOp
          /\ RunningHolders' = RunningHolders \ {h}
          /\ RunningValidations' = RunningValidations
    \/ GuardReset /\ RunningValidations' = {} /\ RunningHolders' = {}

\* Every step of the operations around the guard is one of the six moves: no
\* caller touches the counters without starting or ending a registered
\* operation, and no unregistered operation changes them.
LEMMA StepIsMove == OpTypeOK /\ [OpNext]_opVars => Move
<1> SUFFICES ASSUME OpTypeOK, [OpNext]_opVars PROVE Move
  OBVIOUS
<1> USE DisjointAssumption DEF OpTypeOK, Goto, gvars, Ops, Holders, Same,
        RunningValidations, RunningHolders
<1>1. ASSUME NEW v \in Validators, StartValidation(v) PROVE Move
  BY <1>1 DEF StartValidation, Move
<1>2. ASSUME NEW v \in Validators, FinishValidation(v) PROVE Move
  BY <1>2 DEF FinishValidation, Move
<1>3. ASSUME NEW e \in Exclusives, StartExclusiveOp(e) PROVE Move
  BY <1>3 DEF StartExclusiveOp, Move
<1>4. ASSUME NEW e \in Exclusives, FinishExclusiveOp(e) PROVE Move
  BY <1>4 DEF FinishExclusiveOp, Move
<1>5. ASSUME NEW s \in Syncs, SyncStart(s) PROVE Move
  BY <1>5 DEF SyncStart, Move
<1>6. ASSUME NEW s \in Syncs, SyncRetry(s) PROVE Move
  BY <1>6 DEF SyncRetry, Move
<1>7. ASSUME NEW s \in Syncs, SyncGiveUp(s) \/ SyncCancelled(s) PROVE Move
  BY <1>7 DEF SyncGiveUp, SyncCancelled, Move
<1>8. ASSUME NEW s \in Syncs, SyncFinish(s) PROVE Move
  BY <1>8 DEF SyncFinish, Move
<1>9. ASSUME NEW w \in Writers \cup InvigGens \cup ExamGens, AdmitWrite(w) \/ FinishWrite(w)
      PROVE  Move
  BY <1>9 DEF AdmitWrite, FinishWrite, Move
<1>10. ASSUME NEW g \in InvigGens,
              InvigGenStart(g) \/ InvigGenSolve(g) \/ InvigGenWrite(g) \/ InvigGenStop(g)
       PROVE  Move
  BY <1>10 DEF InvigGenStart, InvigGenSolve, InvigGenWrite, InvigGenStop, Move
<1>11. ASSUME NEW g \in ExamGens, ExamGenStart(g) \/ ExamGenWrite(g) \/ ExamGenStop(g)
       PROVE  Move
  BY <1>11 DEF ExamGenStart, ExamGenWrite, ExamGenStop, Move
<1>12. CASE OpRestart
  BY <1>12 DEF OpRestart, Move
<1>13. CASE UNCHANGED opVars
  BY <1>13 DEF opVars, Move
<1>14. QED
  BY <1>1, <1>2, <1>3, <1>4, <1>5, <1>6, <1>7, <1>8, <1>9, <1>10, <1>11, <1>12, <1>13
     DEF OpNext

\* The sets the counters count are finite.
LEMMA RunningFinite == IsFiniteSet(RunningValidations) /\ IsFiniteSet(RunningHolders)
<1>1. IsFiniteSet(Holders)
  BY FiniteAssumption, FS_Union DEF Holders
<1>2. RunningValidations \in SUBSET Validators /\ RunningHolders \in SUBSET Holders
  BY DEF RunningValidations, RunningHolders
<1>3. QED
  BY <1>1, <1>2, FiniteAssumption, FS_Subset

\* The inductive invariant: exclusion alone is not inductive, since only the
\* counters tell TryBegin... what is running.
OpInv == OpTypeOK /\ GuardCounts /\ ExclusiveAlone

\* Each of the six moves keeps the counters exact and an exclusive operation
\* alone: TryBegin... counts one more exactly when it lets one more run.
LEMMA MovePreserves == OpInv /\ OpTypeOK' /\ Move => (GuardCounts /\ ExclusiveAlone)'
<1> SUFFICES ASSUME OpInv, OpTypeOK', Move PROVE (GuardCounts /\ ExclusiveAlone)'
  OBVIOUS
<1> DEFINE V == RunningValidations
           H == RunningHolders
<1>1. /\ validations = Cardinality(V) /\ exclusiveOps = Cardinality(H)
      /\ validations \in Nat /\ exclusiveOps \in Nat
      /\ \A h \in H : H = {h} /\ V = {}
  BY DEF OpInv, GuardCounts, ExclusiveAlone, OpTypeOK, GuardTypeOK
<1>2. /\ exclusiveOps = 0 => H = {}
      /\ validations = 0 => V = {}
  BY <1>1, RunningFinite, FS_EmptySet
<1> SUFFICES /\ validations' = Cardinality(V')
             /\ exclusiveOps' = Cardinality(H')
             /\ \A h \in H' : H' = {h} /\ V' = {}
  BY DEF GuardCounts, ExclusiveAlone
<1> HIDE DEF V, H
<1>3. IsFiniteSet(V) /\ IsFiniteSet(H)
  BY RunningFinite DEF V, H
<1>4. CASE UNCHANGED gvars /\ Same
  BY <1>1, <1>4 DEF gvars, Same, V, H
<1>5. ASSUME NEW v \in Validators, v \notin V, BeginValidation, V' = V \cup {v}, H' = H
      PROVE  /\ validations' = Cardinality(V')
             /\ exclusiveOps' = Cardinality(H')
             /\ \A h \in H' : H' = {h} /\ V' = {}
  BY <1>1, <1>2, <1>3, <1>5, FS_AddElement DEF BeginValidation, MayBeginValidation
<1>6. ASSUME NEW v \in V, EndValidation, V' = V \ {v}, H' = H
      PROVE  /\ validations' = Cardinality(V')
             /\ exclusiveOps' = Cardinality(H')
             /\ \A h \in H' : H' = {h} /\ V' = {}
  <2>1. validations # 0
    BY <1>2, <1>6
  <2>2. Cardinality(V') = Cardinality(V) - 1
    BY <1>3, <1>6, FS_RemoveElement
  <2>3. QED
    BY <1>1, <1>6, <2>1, <2>2 DEF EndValidation
<1>7. ASSUME NEW h \in Holders, h \notin H, BeginExclusiveOp, H' = H \cup {h}, V' = V
      PROVE  /\ validations' = Cardinality(V')
             /\ exclusiveOps' = Cardinality(H')
             /\ \A k \in H' : H' = {k} /\ V' = {}
  BY <1>1, <1>2, <1>3, <1>7, FS_AddElement DEF BeginExclusiveOp, MayBeginExclusiveOp
<1>8. ASSUME NEW h \in H, EndExclusiveOp, H' = H \ {h}, V' = V
      PROVE  /\ validations' = Cardinality(V')
             /\ exclusiveOps' = Cardinality(H')
             /\ \A k \in H' : H' = {k} /\ V' = {}
  <2>1. exclusiveOps # 0
    BY <1>2, <1>8
  <2>2. Cardinality(H') = Cardinality(H) - 1
    BY <1>3, <1>8, FS_RemoveElement
  <2>3. QED
    BY <1>1, <1>8, <2>1, <2>2 DEF EndExclusiveOp
<1>9. CASE GuardReset /\ V' = {} /\ H' = {}
  BY <1>9, FS_EmptySet DEF GuardReset
<1>10. QED
  BY <1>4, <1>5, <1>6, <1>7, <1>8, <1>9 DEF Move, V, H

\* A started server runs nothing and has counted nothing.
LEMMA OpInvInit == OpInit => OpInv
<1> SUFFICES ASSUME OpInit PROVE OpInv
  OBVIOUS
<1>1. OpTypeOK
  BY RetriesAssumption DEF OpInit, OpTypeOK, GuardInit, GuardTypeOK, Places
<1>2. RunningValidations = {} /\ RunningHolders = {}
  BY DEF OpInit, RunningValidations, RunningHolders, Ops, Holders
<1>3. QED
  BY <1>1, <1>2, FS_EmptySet DEF OpInv, GuardCounts, ExclusiveAlone, OpInit, GuardInit

\* The counters equal the number of running operations, and an exclusive
\* operation is alone, in every reachable state of every instance.
THEOREM GuardInvariant == OpSpec => []OpInv
<1>1. OpTypeOK /\ OpTypeOK' /\ OpInv /\ [OpNext]_opVars => OpInv'
  BY StepIsMove, MovePreserves DEF OpInv
<1>2. QED
  BY OpInvInit, OpTypeCorrect, <1>1, PTL DEF OpSpec

\* The counters are exact: no operation leaks or loses a registration.
THEOREM CountsExact == OpSpec => []GuardCounts
  BY GuardInvariant, PTL DEF OpInv

\* Exclusive operations run alone (guard.go:11-13).
THEOREM Exclusive == OpSpec => []ExclusiveAlone
  BY GuardInvariant, PTL DEF OpInv

-----------------------------------------------------------------------------
\* A write is admitted only when nothing is running: WritesAllowed is exact at
\* the moment it is asked.
THEOREM WritesAdmitted == OpSpec => WriteAdmittedWhenQuiet
<1>1. OpInv /\ [OpNext]_opVars =>
        [\A w \in Writers \cup InvigGens :
            pc[w] # "writing" /\ pc'[w] = "writing"
              => RunningValidations = {} /\ RunningHolders = {}]_opVars
  <2> SUFFICES ASSUME OpInv, OpNext, NEW w \in Writers \cup InvigGens,
                      pc[w] # "writing", pc'[w] = "writing"
               PROVE  RunningValidations = {} /\ RunningHolders = {}
    BY DEF opVars
  <2>1. WritesAllowed
    BY DisjointAssumption
       DEF OpNext, OpInv, OpTypeOK, Goto, Ops, Holders, StartValidation, FinishValidation,
           StartExclusiveOp, FinishExclusiveOp, SyncStart, SyncRetry, SyncGiveUp,
           SyncCancelled, SyncFinish, AdmitWrite, FinishWrite, InvigGenStart,
           InvigGenSolve, InvigGenWrite, InvigGenStop, ExamGenStart, ExamGenWrite,
           ExamGenStop, OpRestart
  <2>2. QED
    BY <2>1, RunningFinite, FS_EmptySet DEF WritesAllowed, OpInv, GuardCounts
<1>2. QED
  BY GuardInvariant, <1>1, PTL DEF OpSpec, WriteAdmittedWhenQuiet

\* The guard and its callers implement the abstract exclusion.
THEOREM Refinement == OpSpec => ImplementsExclusion
<1> DEFINE R == RunningValidations \cup RunningHolders
<1>1. OpInit => Abstract!Init
  BY DEF OpInit, Abstract!Init, RunningValidations, RunningHolders, Ops, Holders
<1>2. OpInv /\ [OpNext]_opVars => [Abstract!Next]_R
  <2> SUFFICES ASSUME OpInv, [OpNext]_opVars PROVE [Abstract!Next]_R
    OBVIOUS
  <2>1. Move
    BY StepIsMove DEF OpInv
  <2>2. /\ exclusiveOps = 0 => RunningHolders = {}
        /\ validations = 0 => RunningValidations = {}
        /\ RunningValidations \subseteq Validators /\ RunningHolders \subseteq Holders
        /\ Validators \cap Holders = {}
    BY RunningFinite, FS_EmptySet, DisjointAssumption
       DEF OpInv, GuardCounts, RunningValidations, RunningHolders
  <2>3. CASE UNCHANGED gvars /\ Same
    BY <2>3 DEF Same
  <2>4. ASSUME NEW v \in Validators \ RunningValidations, BeginValidation,
               RunningValidations' = RunningValidations \cup {v},
               RunningHolders' = RunningHolders
        PROVE  Abstract!Begin(v)
    BY <2>2, <2>4 DEF Abstract!Begin, BeginValidation, MayBeginValidation
  <2>5. ASSUME NEW v \in RunningValidations,
               RunningValidations' = RunningValidations \ {v},
               RunningHolders' = RunningHolders
        PROVE  Abstract!End(v)
    BY <2>2, <2>5 DEF Abstract!End
  <2>6. ASSUME NEW h \in Holders \ RunningHolders, BeginExclusiveOp,
               RunningHolders' = RunningHolders \cup {h},
               RunningValidations' = RunningValidations
        PROVE  Abstract!Begin(h)
    BY <2>2, <2>6 DEF Abstract!Begin, BeginExclusiveOp, MayBeginExclusiveOp
  <2>7. ASSUME NEW h \in RunningHolders,
               RunningHolders' = RunningHolders \ {h},
               RunningValidations' = RunningValidations
        PROVE  Abstract!End(h)
    BY <2>2, <2>7 DEF Abstract!End
  <2>8. CASE GuardReset /\ RunningValidations' = {} /\ RunningHolders' = {}
    BY <2>8 DEF Abstract!Next, Abstract!Restart
  <2>9. QED
    BY <2>1, <2>2, <2>3, <2>4, <2>5, <2>6, <2>7, <2>8 DEF Move, Abstract!Next
<1>3. QED
  BY GuardInvariant, <1>1, <1>2, PTL DEF OpSpec, ImplementsExclusion, Abstract!Spec

-----------------------------------------------------------------------------
(***************************************************************************)
(* Proofs about the nightly scheduler for every length of the day and every *)
(* number of restarts: type correctness, at most one recorded run between   *)
(* two fire times, and no exit under a run that is still to be drained.     *)
(***************************************************************************)
\* The numbers and places of SchedulerTypeOK, and its flags: the two halves are proved by
\* different provers.  Only a running server is asked to stop, and it has
\* a restart left.
NumbersOK ==
    /\ clock \in 0..Day - 1 /\ left \in 0..Day
    /\ loop \in {"down", "arm", "waiting", "fire", "stopped"} \cup InRun
    /\ anchor \in Ages /\ fireAt \in Ages
    /\ restarts \in 0..MaxRestarts
    /\ recorded \in 0..2
    /\ stop => restarts < MaxRestarts /\ loop # "down"

FlagsOK ==
    /\ stop \in BOOLEAN /\ expired \in BOOLEAN /\ cancelled \in BOOLEAN
    /\ unserved \in BOOLEAN

\* A recorded fire of today keeps the loop away from a second one: the anchor is
\* younger than the last fire time (no catch-up), the timer does not expire
\* before the next one, a run in flight can only write back an anchor of today.
DayInv ==
    /\ recorded <= 1
    /\ recorded = 1 => anchor \in 0..clock
    /\ loop \in {"fire", "record"} => recorded = 0
    /\ loop = "waiting" /\ recorded = 1 => left >= Day - clock
    /\ loop = "running" /\ recorded = 1 => fireAt \in 0..clock

SchedulerInv == NumbersOK /\ FlagsOK /\ DayInv

\* Every step keeps the ages in their window, the timer within a day, the clock
\* within the day and the restarts within their bound.
LEMMA NumbersStep == NumbersOK /\ [SchedulerNext]_schedulerVars => NumbersOK'
<1> SUFFICES ASSUME NumbersOK, [SchedulerNext]_schedulerVars PROVE NumbersOK'
  OBVIOUS
<1> USE SchedulerAssumption DEF NumbersOK, Ages, NoFire, Old, InRun, time, server, ghosts
<1>1. CASE Tick
  BY <1>1 DEF Tick, Older
<1>2. CASE Boot
  BY <1>2 DEF Boot
<1>3. CASE Arm
  BY <1>3 DEF Arm, nextFire
<1>4. CASE TimerFires
  BY <1>4 DEF TimerFires
<1>5. CASE LoopStops
  BY <1>5 DEF LoopStops
<1>6. CASE Fire
  BY <1>6 DEF Fire
<1>7. CASE RecordSchedulerFire
  BY <1>7 DEF RecordSchedulerFire, Began, CountRecorded
<1>8. CASE RunEnds
  BY <1>8 DEF RunEnds
<1>9. CASE Shutdown
  BY <1>9 DEF Shutdown
<1>10. CASE GraceElapses
  BY <1>10 DEF GraceElapses
<1>11. CASE Exit
  BY <1>11 DEF Exit, GoDown
<1>12. CASE Crash
  BY <1>12 DEF Crash, GoDown
<1>13. CASE UNCHANGED schedulerVars
  BY <1>13 DEF schedulerVars
<1> QED
  BY <1>1, <1>2, <1>3, <1>4, <1>5, <1>6, <1>7, <1>8, <1>9, <1>10, <1>11,
     <1>12, <1>13 DEF SchedulerNext

\* Every step keeps the flags of the server and of the ghost history Boolean.
LEMMA FlagsStep == FlagsOK /\ [SchedulerNext]_schedulerVars => FlagsOK'
<1> SUFFICES ASSUME FlagsOK, [SchedulerNext]_schedulerVars PROVE FlagsOK'
  OBVIOUS
<1> USE DEF FlagsOK, time, server, ghosts
<1>1. CASE Tick
  BY <1>1, Zenon DEF Tick
<1>2. CASE Boot
  BY <1>2, Zenon DEF Boot
<1>3. CASE Arm
  BY <1>3, Zenon DEF Arm
<1>4. CASE TimerFires
  BY <1>4, Zenon DEF TimerFires
<1>5. CASE LoopStops
  BY <1>5, Zenon DEF LoopStops
<1>6. CASE Fire
  BY <1>6, Zenon DEF Fire
<1>7. CASE RecordSchedulerFire
  BY <1>7, Zenon DEF RecordSchedulerFire, Began
<1>8. CASE RunEnds
  BY <1>8, Zenon DEF RunEnds
<1>9. CASE Shutdown
  BY <1>9, Zenon DEF Shutdown
<1>10. CASE GraceElapses
  <2>1. cancelled' \in BOOLEAN
    BY <1>10, SMT DEF GraceElapses
  <2>2. QED
    BY <1>10, <2>1, Zenon DEF GraceElapses
<1>11. CASE Exit
  BY <1>11, Zenon DEF Exit, GoDown
<1>12. CASE Crash
  BY <1>12, Zenon DEF Crash, GoDown
<1>13. CASE UNCHANGED schedulerVars
  BY <1>13, Zenon DEF schedulerVars
<1> QED
  BY <1>1, <1>2, <1>3, <1>4, <1>5, <1>6, <1>7, <1>8, <1>9, <1>10, <1>11,
     <1>12, <1>13 DEF SchedulerNext

\* Every step keeps the day's invariant: the fire of today stays the only one.
LEMMA DayStep == NumbersOK /\ DayInv /\ [SchedulerNext]_schedulerVars => DayInv'
<1> SUFFICES ASSUME NumbersOK, DayInv, [SchedulerNext]_schedulerVars PROVE DayInv'
  OBVIOUS
<1> USE SchedulerAssumption DEF NumbersOK, DayInv, Ages, NoFire, Old, InRun, time, server, ghosts
<1>1. CASE Tick
  BY <1>1 DEF Tick, Older
<1>2. CASE Boot
  BY <1>2 DEF Boot, shouldCatchUp, prevFire
<1>3. CASE Arm
  BY <1>3 DEF Arm, nextFire
<1>4. CASE TimerFires
  BY <1>4 DEF TimerFires
<1>5. CASE LoopStops
  BY <1>5 DEF LoopStops
<1>6. CASE Fire
  BY <1>6 DEF Fire
<1>7. CASE RecordSchedulerFire
  BY <1>7 DEF RecordSchedulerFire, Began, CountRecorded
<1>8. CASE RunEnds
  BY <1>8 DEF RunEnds
<1>9. CASE Shutdown
  BY <1>9 DEF Shutdown
<1>10. CASE GraceElapses
  BY <1>10 DEF GraceElapses
<1>11. CASE Exit
  BY <1>11 DEF Exit, GoDown
<1>12. CASE Crash
  BY <1>12 DEF Crash, GoDown
<1>13. CASE UNCHANGED schedulerVars
  BY <1>13 DEF schedulerVars
<1> QED
  BY <1>1, <1>2, <1>3, <1>4, <1>5, <1>6, <1>7, <1>8, <1>9, <1>10, <1>11,
     <1>12, <1>13 DEF SchedulerNext

-----------------------------------------------------------------------------
\* The inductive invariant holds in every behaviour of the scheduler.
THEOREM SchedulerInvariant == SchedulerSpec => []SchedulerInv
<1>1. SchedulerInit => NumbersOK /\ DayInv
  BY SchedulerAssumption DEF SchedulerInit, NumbersOK, DayInv, Ages, NoFire, Old, InRun
<1>2. SchedulerInit => FlagsOK
  BY Zenon DEF SchedulerInit, FlagsOK
<1>3. SchedulerInv /\ [SchedulerNext]_schedulerVars => SchedulerInv'
  BY NumbersStep, FlagsStep, DayStep DEF SchedulerInv
<1>4. QED
  BY <1>1, <1>2, <1>3, PTL DEF SchedulerSpec, SchedulerInv

\* The scheduler's variables keep their types, the timer never beyond a day.
THEOREM SchedulerTypeCorrect == SchedulerSpec => []SchedulerTypeOK
<1>1. SchedulerInv => SchedulerTypeOK
  BY DEF SchedulerInv, NumbersOK, FlagsOK, SchedulerTypeOK
<1>2. QED
  BY <1>1, SchedulerInvariant, PTL

\* At most one run is recorded between two fire times, through any number of
\* crashes, restarts and catch-ups (TouchSchedulerFire runs before the sync).
THEOREM RecordedOncePerDay == SchedulerSpec => []OncePerDay
<1>1. SchedulerInv => OncePerDay
  BY DEF SchedulerInv, DayInv, OncePerDay
<1>2. QED
  BY <1>1, SchedulerInvariant, PTL

\* Within the grace period a server asked to stop goes down only after its loop
\* has drained the run in flight and stopped (Shutdown waits for done).
THEOREM Drained == SchedulerSpec => DrainedBeforeExit
<1>1. SchedulerInv /\ [SchedulerNext]_schedulerVars => [stop /\ ~expired /\ loop' = "down" => loop = "stopped"]_schedulerVars
  <2> SUFFICES ASSUME SchedulerInv, SchedulerNext, stop, ~expired, loop' = "down" PROVE loop = "stopped"
    BY Zenon
  <2> QED
    BY DEF SchedulerInv, NumbersOK, InRun, server, SchedulerNext, Tick, Boot, Arm, TimerFires, LoopStops, Fire,
           RecordSchedulerFire, RunEnds, Shutdown, GraceElapses, Exit, Crash, GoDown
<1>2. QED
  BY <1>1, SchedulerInvariant, PTL DEF SchedulerSpec, DrainedBeforeExit

-----------------------------------------------------------------------------
(***************************************************************************)
(* Proofs about a derived collection with a dirty flag, for any number of   *)
(* clients, imports, silent writers and input changes: a stale collection   *)
(* is flagged, and overlapping regenerations leave one copy per client.     *)
(***************************************************************************)
(***************************************************************************)
(* The inductive invariant.  StaleFlagged speaks of quiet states only; what *)
(* is kept while operations are under way is who will still set the flag,   *)
(* and why nobody who clears it does so over a stale collection.            *)
(***************************************************************************)
\* The guard is never held twice, and a free guard means that no import and no
\* nightly sync runs.
CacheHolderAlone ==
    /\ validations = 0 /\ exclusiveOps \in {0, 1}
    /\ exclusiveOps = 0 => /\ \A i \in Imports : import[i].op = "idle"
                           /\ \A s \in Silent : silent[s] # "sync"
    /\ \A i, j \in Imports : import[i].op = "begun" /\ import[j].op = "begun" => i = j
    /\ \A s, t \in Silent : silent[s] = "sync" /\ silent[t] = "sync" => s = t
    /\ \A i \in Imports, s \in Silent : import[i].op = "idle" \/ silent[s] # "sync"

\* Somebody is about to set the flag.
Pending ==
    \/ \E c \in Clients : client[c].pc \in {"count", "mark"}
    \/ \E i \in Imports : import[i].flag \in {"count", "mark"}

\* A regeneration that nothing excuses is the only one and works on the current
\* inputs; whoever clears the flag next leaves a collection that is in sync.
WritersInSync ==
    /\ \A c \in Clients : client[c].pc \in Regenerating => client[c].snap = input
    /\ \A c, d \in Clients : client[c].pc \in Regenerating /\ client[d].pc \in Regenerating => c = d
    /\ \A c \in Clients : client[c].pc = "insert" => cache = {}
    /\ \A c \in Clients : client[c].pc \in {"clear", "resetState"} => ~Stale

\* An import that still writes has flagged the collection, is about to, or
\* found none; and nobody clears the flag behind it.
ImportsFlagged ==
    \A i \in Imports : import[i].op = "begun" =>
        /\ import[i].flag \in {"count", "mark"} \/ dirty \/ cache = {}
        /\ ~UnderWriter

FlagInv == ~excused => WritersInSync /\ ImportsFlagged /\ (Stale => dirty \/ Pending)

\* A client about to insert has no result in the collection.
InsertFresh == \A c \in Clients : client[c].pc = "insert" => \A d \in cache : d.by # c

CacheInv == CacheTypeOK /\ CacheHolderAlone /\ FlagInv /\ InsertFresh /\ CopiesBounded

-----------------------------------------------------------------------------
\* Initially nothing is cached and nothing runs.
LEMMA CacheInvInit == CacheInit => CacheInv
<1> SUFFICES ASSUME CacheInit PROVE CacheInv
  OBVIOUS
<1> USE DEF CacheInit, GuardInit, CacheIdle, AtRest
<1>1. CacheTypeOK
  <2>1. 0 \in 0..MaxInput
    BY MaxInputAssumption
  <2>2. /\ client \in [Clients -> [pc : {"idle", "edit", "count", "mark", "read"} \cup Regenerating \cup Resetting,
                                    snap : 0..MaxInput, full : BOOLEAN]]
        /\ import \in [Imports -> [op : {"idle", "begun"}, flag : {"none", "count", "mark"}]]
    BY <2>1
  <2>3. QED
    BY <2>1, <2>2 DEF CacheTypeOK, GuardTypeOK
<1>2. CacheHolderAlone
  BY DEF CacheHolderAlone
<1>3. FlagInv
  BY DEF FlagInv, WritersInSync, ImportsFlagged, Stale, Regenerating
<1>4. InsertFresh /\ CopiesBounded
  BY DEF InsertFresh, CopiesBounded
<1>5. QED
  BY <1>1, <1>2, <1>3, <1>4 DEF CacheInv

\* Types survive every step.
LEMMA CacheTypeStep == CacheTypeOK /\ [CacheNext]_cacheVars => CacheTypeOK'
<1> SUFFICES ASSUME CacheTypeOK, [CacheNext]_cacheVars PROVE CacheTypeOK'
  OBVIOUS
<1> USE MaxInputAssumption
    DEF CacheTypeOK, GuardTypeOK, gvars, data, ClientGoto, Regenerating, Resetting, CacheIdle, AtRest
<1>1. ASSUME NEW c \in Clients, NEW to \in {"edit", "read", "resetCache"}, Admit(c, to) PROVE CacheTypeOK'
  BY <1>1 DEF Admit
<1>2. ASSUME NEW seen \in BOOLEAN, Change(seen) PROVE input' \in 0..MaxInput /\ excused' \in BOOLEAN
  <2>1. input' \in 0..MaxInput
    BY <1>2 DEF Change
  <2>2. excused' = (excused \/ UnderWriter \/ ~seen)
    BY <1>2 DEF Change
  <2>3. QED
    BY <2>1, <2>2, Zenon
<1>3. ASSUME NEW c \in Clients, Edit(c) PROVE CacheTypeOK'
  BY <1>2, <1>3, ZenonT(40) DEF Edit
<1>4. ASSUME NEW c \in Clients, EditFails(c) PROVE CacheTypeOK'
  BY <1>2, <1>4, ZenonT(40) DEF EditFails
<1>5. ASSUME NEW c \in Clients, CountCached(c) \/ SetDirty(c) PROVE CacheTypeOK'
  <2>1. client' \in [Clients -> [pc : {"idle", "edit", "count", "mark", "read"} \cup Regenerating \cup Resetting,
                                  snap : 0..MaxInput, full : BOOLEAN]]
    <3>1. CASE CountCached(c)
      BY <3>1 DEF CountCached
    <3>2. CASE SetDirty(c)
      BY <3>2 DEF SetDirty
    <3>3. QED
      BY <1>5, <3>1, <3>2
  <2>2. dirty' \in BOOLEAN /\ excused' \in BOOLEAN
    BY <1>5 DEF CountCached, SetDirty
  <2>3. UNCHANGED <<gvars, input, cache, import, silent>>
    BY <1>5 DEF CountCached, SetDirty
  <2>4. QED
    BY <2>1, <2>2, <2>3
<1>6. ASSUME NEW c \in Clients, ReadInputs(c) PROVE CacheTypeOK'
  BY <1>6 DEF ReadInputs, UnderWriter, Importing
<1>7. ASSUME NEW c \in Clients, DropCache(c) PROVE CacheTypeOK'
  BY <1>7 DEF DropCache
<1>8. ASSUME NEW c \in Clients, NEW b \in BOOLEAN
      PROVE  Result(c, client[c].snap, b) \in [by : Clients, version : 0..MaxInput, whole : BOOLEAN]
  BY DEF Result
<1>9. ASSUME NEW c \in Clients, InsertCache(c) PROVE CacheTypeOK'
  BY <1>8, <1>9, ZenonT(40) DEF InsertCache
<1>10. ASSUME NEW c \in Clients, GenerateFails(c) PROVE CacheTypeOK'
  <2>1. client' \in [Clients -> [pc : {"idle", "edit", "count", "mark", "read"} \cup Regenerating \cup Resetting,
                                  snap : 0..MaxInput, full : BOOLEAN]]
    BY <1>10 DEF GenerateFails
  <2>2. cache' \in SUBSET [by : Clients, version : 0..MaxInput, whole : BOOLEAN] /\ excused' \in BOOLEAN
    BY <1>8, <1>10 DEF GenerateFails
  <2>3. QED
    BY <1>10, <2>1, <2>2 DEF GenerateFails
<1>11. ASSUME NEW c \in Clients, ClearDirty(c) PROVE CacheTypeOK'
  <2>1. excused' \in BOOLEAN
    BY <1>11, Zenon DEF ClearDirty
  <2>2. dirty' \in BOOLEAN
    BY <1>11 DEF ClearDirty
  <2>3. client' \in [Clients -> [pc : {"idle", "edit", "count", "mark", "read"} \cup Regenerating \cup Resetting,
                                  snap : 0..MaxInput, full : BOOLEAN]]
    BY <1>11 DEF ClearDirty
  <2>4. QED
    BY <1>11, <2>1, <2>2, <2>3 DEF ClearDirty
<1>12. ASSUME NEW c \in Clients, ResetCache(c) \/ ResetFails(c) \/ ResetState(c) PROVE CacheTypeOK'
  <2>1. CASE ResetCache(c)
    BY <2>1 DEF ResetCache
  <2>2. CASE ResetFails(c)
    BY <2>2 DEF ResetFails
  <2>3. CASE ResetState(c)
    BY <2>3, ZenonT(40) DEF ResetState
  <2>4. QED
    BY <1>12, <2>1, <2>2, <2>3
<1>13. ASSUME NEW i \in Imports, StartImport(i) PROVE CacheTypeOK'
  BY <1>13 DEF StartImport, BeginExclusiveOp
<1>14. ASSUME NEW i \in Imports, MarkImport(i) PROVE CacheTypeOK'
  <2>1. import' \in [Imports -> [op : {"idle", "begun"}, flag : {"none", "count", "mark"}]]
    BY <1>14 DEF MarkImport
  <2>2. dirty' \in BOOLEAN /\ excused' \in BOOLEAN
    BY <1>14 DEF MarkImport
  <2>3. QED
    BY <1>14, <2>1, <2>2 DEF MarkImport
<1>15. ASSUME NEW i \in Imports, ImportChange(i) PROVE CacheTypeOK'
  BY <1>2, <1>15 DEF ImportChange
<1>16. ASSUME NEW i \in Imports, EndImport(i) PROVE CacheTypeOK'
  BY <1>16 DEF EndImport, EndExclusiveOp
<1>17. ASSUME NEW s \in Silent, StartSilent(s) PROVE CacheTypeOK'
  BY <1>17 DEF StartSilent, BeginExclusiveOp
<1>18. ASSUME NEW s \in Silent, SilentChange(s) PROVE CacheTypeOK'
  BY <1>2, <1>18 DEF SilentChange
<1>19. ASSUME NEW s \in Silent, EndSilent(s) PROVE CacheTypeOK'
  BY <1>19 DEF EndSilent, EndExclusiveOp
<1>20. CASE UNCHANGED cacheVars
  BY <1>20 DEF cacheVars
<1>21. QED
  BY <1>1, <1>3, <1>4, <1>5, <1>6, <1>7, <1>9, <1>10, <1>11, <1>12, <1>13, <1>14, <1>15, <1>16,
     <1>17, <1>18, <1>19, <1>20 DEF CacheNext

\* Imports and nightly syncs hold the guard one at a time.
LEMMA CacheHolderStep == CacheTypeOK /\ CacheHolderAlone /\ [CacheNext]_cacheVars => CacheHolderAlone'
<1> SUFFICES ASSUME CacheTypeOK, CacheHolderAlone, [CacheNext]_cacheVars PROVE CacheHolderAlone'
  OBVIOUS
<1> USE DEF CacheHolderAlone, gvars
<1>1. ASSUME UNCHANGED <<gvars, import, silent>> PROVE CacheHolderAlone'
  BY <1>1
<1>2. ASSUME NEW c \in Clients, NEW to, Admit(c, to) PROVE CacheHolderAlone'
  BY <1>1, <1>2 DEF Admit
<1>3. ASSUME NEW c \in Clients, Edit(c) \/ EditFails(c) \/ CountCached(c) \/ SetDirty(c)
      PROVE  CacheHolderAlone'
  BY <1>1, <1>3 DEF Edit, EditFails, CountCached, SetDirty
<1>4. ASSUME NEW c \in Clients,
             ReadInputs(c) \/ DropCache(c) \/ InsertCache(c) \/ GenerateFails(c) \/ ClearDirty(c)
      PROVE  CacheHolderAlone'
  BY <1>1, <1>4 DEF ReadInputs, DropCache, InsertCache, GenerateFails, ClearDirty
<1>5. ASSUME NEW c \in Clients, ResetCache(c) \/ ResetFails(c) \/ ResetState(c) PROVE CacheHolderAlone'
  BY <1>1, <1>5 DEF ResetCache, ResetFails, ResetState
<1>6. ASSUME NEW i \in Imports, StartImport(i) PROVE CacheHolderAlone'
  BY <1>6 DEF StartImport, BeginExclusiveOp, MayBeginExclusiveOp, CacheTypeOK, AtRest
<1>7. ASSUME NEW i \in Imports, MarkImport(i) PROVE CacheHolderAlone'
  <2>1. \A j \in Imports : import'[j].op = import[j].op
    BY <1>7 DEF MarkImport, CacheTypeOK
  <2>2. QED
    BY <1>7, <2>1 DEF MarkImport
<1>8. ASSUME NEW i \in Imports, ImportChange(i) PROVE CacheHolderAlone'
  BY <1>1, <1>8 DEF ImportChange
<1>9. ASSUME NEW i \in Imports, EndImport(i) PROVE CacheHolderAlone'
  BY <1>9 DEF EndImport, EndExclusiveOp, CacheTypeOK
<1>10. ASSUME NEW s \in Silent, StartSilent(s) PROVE CacheHolderAlone'
  BY <1>10 DEF StartSilent, BeginExclusiveOp, MayBeginExclusiveOp, CacheTypeOK
<1>11. ASSUME NEW s \in Silent, SilentChange(s) PROVE CacheHolderAlone'
  BY <1>1, <1>11 DEF SilentChange
<1>12. ASSUME NEW s \in Silent, EndSilent(s) PROVE CacheHolderAlone'
  BY <1>12 DEF EndSilent, EndExclusiveOp, CacheTypeOK
<1>13. CASE UNCHANGED cacheVars
  BY <1>1, <1>13 DEF cacheVars
<1>14. QED
  BY <1>2, <1>3, <1>4, <1>5, <1>6, <1>7, <1>8, <1>9, <1>10, <1>11, <1>12, <1>13 DEF CacheNext

-----------------------------------------------------------------------------
\* A client inserts only into a collection it has dropped since it last did.
LEMMA CopiesStep ==
    CacheTypeOK /\ InsertFresh /\ CopiesBounded /\ [CacheNext]_cacheVars => (InsertFresh /\ CopiesBounded)'
<1> SUFFICES ASSUME CacheTypeOK, InsertFresh, CopiesBounded, [CacheNext]_cacheVars
             PROVE  (InsertFresh /\ CopiesBounded)'
  OBVIOUS
<1> USE DEF CacheTypeOK, InsertFresh, CopiesBounded, data, ClientGoto
<1>1. ASSUME UNCHANGED cache, \A c \in Clients : client'[c].pc = "insert" => client[c].pc = "insert"
      PROVE  (InsertFresh /\ CopiesBounded)'
  BY <1>1
<1>2. ASSUME cache' = {} PROVE (InsertFresh /\ CopiesBounded)'
  BY <1>2
<1>3. ASSUME NEW c \in Clients, NEW b \in BOOLEAN, client[c].pc = "insert",
             cache' = cache \cup {Result(c, client[c].snap, b)},
             \A d \in Clients : client'[d].pc = "insert" => client[d].pc = "insert" /\ d # c
      PROVE  (InsertFresh /\ CopiesBounded)'
  BY <1>3 DEF Result
<1>4. ASSUME NEW c \in Clients, NEW to \in {"edit", "read", "resetCache"}, Admit(c, to)
      PROVE  (InsertFresh /\ CopiesBounded)'
  BY <1>1, <1>4 DEF Admit
<1>5. ASSUME NEW c \in Clients, Edit(c) \/ EditFails(c) \/ CountCached(c) \/ SetDirty(c)
      PROVE  (InsertFresh /\ CopiesBounded)'
  BY <1>1, <1>5, ZenonT(40) DEF Edit, EditFails, CountCached, SetDirty
<1>6. ASSUME NEW c \in Clients, ReadInputs(c) \/ ClearDirty(c) PROVE (InsertFresh /\ CopiesBounded)'
  <2>1. CASE ReadInputs(c)
    BY <1>1, <2>1 DEF ReadInputs
  <2>2. CASE ClearDirty(c)
    <3>1. client' = [client EXCEPT ![c] = CacheIdle] /\ UNCHANGED cache
      BY <2>2, Zenon DEF ClearDirty
    <3>2. QED
      BY <1>1, <3>1 DEF CacheIdle
  <2>3. QED
    BY <1>6, <2>1, <2>2
<1>7. ASSUME NEW c \in Clients, DropCache(c) \/ ResetCache(c) PROVE (InsertFresh /\ CopiesBounded)'
  BY <1>2, <1>7 DEF DropCache, ResetCache
<1>8. ASSUME NEW c \in Clients, InsertCache(c) PROVE (InsertFresh /\ CopiesBounded)'
  <2>1. /\ client[c].pc = "insert" /\ cache' = cache \cup {Result(c, client[c].snap, client[c].full)}
        /\ client[c].full \in BOOLEAN
        /\ \A d \in Clients : client'[d].pc = "insert" => client[d].pc = "insert" /\ d # c
    BY <1>8 DEF InsertCache, CacheTypeOK
  <2>2. QED
    BY <1>3, <2>1
<1>9. ASSUME NEW c \in Clients, GenerateFails(c) PROVE (InsertFresh /\ CopiesBounded)'
  BY <1>1, <1>3, <1>9 DEF GenerateFails, CacheIdle
<1>10. ASSUME NEW c \in Clients, ResetFails(c) \/ ResetState(c) PROVE (InsertFresh /\ CopiesBounded)'
  BY <1>1, <1>10 DEF ResetFails, ResetState
<1>11. ASSUME UNCHANGED <<cache, client>> PROVE (InsertFresh /\ CopiesBounded)'
  BY <1>1, <1>11
<1>12. ASSUME NEW i \in Imports, StartImport(i) \/ MarkImport(i) \/ ImportChange(i) \/ EndImport(i)
       PROVE  (InsertFresh /\ CopiesBounded)'
  BY <1>11, <1>12 DEF StartImport, MarkImport, ImportChange, EndImport
<1>13. ASSUME NEW s \in Silent, StartSilent(s) \/ SilentChange(s) \/ EndSilent(s)
       PROVE  (InsertFresh /\ CopiesBounded)'
  BY <1>11, <1>13 DEF StartSilent, SilentChange, EndSilent
<1>14. CASE UNCHANGED cacheVars
  BY <1>11, <1>14 DEF cacheVars
<1>15. QED
  BY <1>4, <1>5, <1>6, <1>7, <1>8, <1>9, <1>10, <1>12, <1>13, <1>14 DEF CacheNext

-----------------------------------------------------------------------------
\* A step that changes neither the inputs nor the collection nor the flag, and
\* moves no client into or out of the places that matter, keeps the flag honest.
LEMMA StillFlagged ==
    ASSUME FlagInv, UNCHANGED data, excused' = excused,
           \A c \in Clients : client'[c].pc \in Regenerating \cup {"resetState"} => client'[c] = client[c],
           Pending => Pending',
           \A i \in Imports : import'[i].op = "begun" =>
               import[i].op = "begun" /\ import'[i].flag = import[i].flag,
           UnderWriter' => UnderWriter \/ \A i \in Imports : import[i].op # "begun"
    PROVE  FlagInv'
<1> SUFFICES ASSUME ~excused' PROVE (WritersInSync /\ ImportsFlagged /\ (Stale => dirty \/ Pending))'
  BY DEF FlagInv
<1>1. WritersInSync /\ ImportsFlagged /\ (Stale => dirty \/ Pending)
  BY DEF FlagInv
<1>2. WritersInSync'
  BY <1>1 DEF WritersInSync, Stale, data, Regenerating
<1>3. ImportsFlagged'
  BY <1>1 DEF ImportsFlagged, data
<1>4. Stale' => dirty' \/ Pending'
  BY <1>1 DEF Stale, data
<1>5. QED
  BY <1>2, <1>3, <1>4

\* A change of the inputs that nothing excuses meets no writer, so it only has to
\* be followed or preceded by the flag.
LEMMA ChangeFlagged ==
    ASSUME FlagInv, NEW seen \in BOOLEAN, Change(seen), UNCHANGED <<cache, dirty>>,
           \A c \in Clients : client'[c].pc \in Regenerating \cup Resetting => client'[c] = client[c],
           UNCHANGED import,
           seen /\ ~excused => cache = {} \/ dirty \/ Pending'
    PROVE  FlagInv'
<1> SUFFICES ASSUME ~excused' PROVE (WritersInSync /\ ImportsFlagged /\ (Stale => dirty \/ Pending))'
  BY DEF FlagInv
<1>1. ~excused /\ ~UnderWriter /\ seen
  BY Zenon DEF Change
<1>2. WritersInSync /\ ImportsFlagged
  BY <1>1 DEF FlagInv
<1>3. \A c \in Clients : client'[c].pc \notin Regenerating \cup Resetting
  BY <1>1 DEF UnderWriter
<1>4. WritersInSync' /\ ~UnderWriter'
  BY <1>3 DEF WritersInSync, UnderWriter, Regenerating, Resetting
<1>5. ImportsFlagged'
  BY <1>2, <1>4 DEF ImportsFlagged
<1>6. Stale' => dirty' \/ Pending'
  BY <1>1 DEF Stale
<1>7. QED
  BY <1>4, <1>5, <1>6

\* Whoever makes the collection stale leaves somebody to flag it, and whoever
\* clears the flag leaves a collection that is in sync.
LEMMA FlagStep == CacheTypeOK /\ CacheHolderAlone /\ FlagInv /\ [CacheNext]_cacheVars => FlagInv'
<1> SUFFICES ASSUME CacheTypeOK, CacheHolderAlone, FlagInv, [CacheNext]_cacheVars PROVE FlagInv'
  OBVIOUS
<1>t. /\ client \in [Clients -> [pc : {"idle", "edit", "count", "mark", "read"} \cup Regenerating \cup Resetting,
                                 snap : 0..MaxInput, full : BOOLEAN]]
      /\ import \in [Imports -> [op : {"idle", "begun"}, flag : {"none", "count", "mark"}]]
      /\ dirty \in BOOLEAN /\ excused \in BOOLEAN
  BY DEF CacheTypeOK
<1>g. exclusiveOps = 0 => \A i \in Imports : import[i].op # "begun"
  BY DEF CacheHolderAlone
<1>1. ASSUME NEW c \in Clients, NEW to \in {"edit", "read", "resetCache"}, Admit(c, to) PROVE FlagInv'
  <2>1. /\ UNCHANGED <<data, import, excused>> /\ \A i \in Imports : import[i].op # "begun"
        /\ \A d \in Clients : d # c => client'[d] = client[d]
        /\ client[c].pc = "idle" /\ client'[c].pc = to
    BY <1>t, <1>g, <1>1 DEF Admit, ClientGoto, WritesAllowed
  <2>2. Pending => Pending'
    BY <2>1 DEF Pending
  <2>3. \A d \in Clients : client'[d].pc \in Regenerating \cup {"resetState"} => client'[d] = client[d]
    BY <2>1 DEF Regenerating
  <2>4. QED
    BY <2>1, <2>2, <2>3, StillFlagged
<1>2. ASSUME NEW c \in Clients, Edit(c) PROVE FlagInv'
  <2>1. /\ client' = [client EXCEPT ![c].pc = "count"] /\ Change(TRUE)
        /\ UNCHANGED <<cache, dirty, import>>
    BY <1>2 DEF Edit, ClientGoto
  <2>2. \A d \in Clients : client'[d].pc \in Regenerating \cup Resetting => client'[d] = client[d]
    BY <1>t, <2>1 DEF Regenerating, Resetting
  <2>3. Pending'
    BY <1>t, <2>1 DEF Pending
  <2>4. QED
    BY <2>1, <2>2, <2>3, ChangeFlagged
<1>3. ASSUME NEW c \in Clients, EditFails(c) PROVE FlagInv'
  <2>1. /\ client[c].pc = "edit" /\ client' = [client EXCEPT ![c].pc = "idle"]
        /\ UNCHANGED <<cache, dirty, import>>
    BY <1>3 DEF EditFails, ClientGoto
  <2>2. \A d \in Clients : client'[d].pc \in Regenerating \cup Resetting => client'[d] = client[d]
    BY <1>t, <2>1 DEF Regenerating, Resetting
  <2>3. Pending => Pending'
    BY <1>t, <2>1 DEF Pending
  <2>4. CASE Change(FALSE)
    BY <2>1, <2>2, <2>4, ChangeFlagged
  <2>5. CASE UNCHANGED <<input, excused>>
    <3>1. UnderWriter' => UnderWriter
      BY <2>2 DEF UnderWriter
    <3>2. QED
      BY <2>1, <2>2, <2>3, <2>5, <3>1, StillFlagged DEF data, Resetting
  <2>6. QED
    BY <1>3, <2>4, <2>5 DEF EditFails
<1>4. ASSUME NEW c \in Clients, CountCached(c) PROVE FlagInv'
  <2>1. /\ client' = [client EXCEPT ![c].pc = IF cache = {} THEN "idle" ELSE "mark"]
        /\ client[c].pc = "count" /\ UNCHANGED <<data, import, excused>>
    BY <1>4 DEF CountCached, ClientGoto
  <2>2. \A d \in Clients : client'[d].pc \in Regenerating \cup Resetting => client'[d] = client[d]
    BY <1>t, <2>1 DEF Regenerating, Resetting
  <2>3. UnderWriter' => UnderWriter
    BY <2>2 DEF UnderWriter
  <2>4. CASE cache = {}
    <3>1. ~Stale'
      BY <2>1, <2>4 DEF Stale, data
    <3>2. QED
      BY <2>1, <2>2, <2>3, <2>4, <3>1
         DEF FlagInv, WritersInSync, ImportsFlagged, Stale, data, Regenerating, Resetting
  <2>5. CASE cache # {}
    <3>1. Pending'
      BY <1>t, <2>1, <2>5 DEF Pending
    <3>2. QED
      BY <2>1, <2>2, <2>3, <3>1, StillFlagged DEF Resetting
  <2>6. QED
    BY <2>4, <2>5
<1>5. ASSUME NEW c \in Clients, SetDirty(c) PROVE FlagInv'
  <2>1. /\ client' = [client EXCEPT ![c].pc = "idle"]
        /\ client[c].pc = "mark" /\ UNCHANGED <<input, cache, import>>
        /\ excused' \/ (dirty' /\ ~excused)
    BY <1>t, <1>5 DEF SetDirty, ClientGoto, FlagInv
  <2>2. \A d \in Clients : client'[d].pc \in Regenerating \cup Resetting => client'[d] = client[d]
    BY <1>t, <2>1 DEF Regenerating, Resetting
  <2>3. UnderWriter' => UnderWriter
    BY <2>2 DEF UnderWriter
  <2>4. QED
    BY <2>1, <2>2, <2>3 DEF FlagInv, WritersInSync, ImportsFlagged, Stale, Regenerating, Resetting
<1>6. ASSUME NEW c \in Clients, ReadInputs(c) PROVE FlagInv'
  <2> SUFFICES ASSUME ~excused' PROVE (WritersInSync /\ ImportsFlagged /\ (Stale => dirty \/ Pending))'
    BY DEF FlagInv
  <2>1. ~excused /\ ~UnderWriter /\ ~Importing
    BY <1>6, Zenon DEF ReadInputs
  <2>2. PICK full \in BOOLEAN :
          /\ client' = [client EXCEPT ![c] = [pc |-> "drop", snap |-> input, full |-> full]]
          /\ client[c].pc = "read" /\ UNCHANGED <<input, cache, dirty, import>>
    BY <1>6 DEF ReadInputs, data
  <2>3. \A d \in Clients : d # c => client'[d].pc \notin Regenerating \cup Resetting
    BY <1>t, <2>1, <2>2 DEF UnderWriter
  <2>4. client'[c].pc = "drop" /\ client'[c].snap = input'
    BY <1>t, <2>2
  <2>5. WritersInSync'
    BY <2>3, <2>4 DEF WritersInSync, Regenerating, Resetting
  <2>6. ImportsFlagged'
    BY <2>1, <2>2 DEF ImportsFlagged, Importing, AtRest
  <2>7. Pending => Pending'
    BY <1>t, <2>2 DEF Pending
  <2>8. QED
    BY <2>1, <2>2, <2>5, <2>6, <2>7 DEF FlagInv, Stale
<1>7. ASSUME NEW c \in Clients, DropCache(c) PROVE FlagInv'
  <2>1. /\ client[c].pc = "drop" /\ client' = [client EXCEPT ![c].pc = "insert"] /\ cache' = {}
        /\ UNCHANGED <<input, dirty, import, excused>>
    BY <1>7 DEF DropCache, ClientGoto
  <2>2. ~Stale'
    BY <2>1 DEF Stale
  <2>3. /\ \A d \in Clients : client'[d].pc \in Regenerating <=> client[d].pc \in Regenerating
        /\ \A d \in Clients : client'[d].snap = client[d].snap
        /\ UnderWriter' => UnderWriter
    BY <1>t, <2>1 DEF UnderWriter, Regenerating
  <2>4. QED
    BY <2>1, <2>2, <2>3 DEF FlagInv, WritersInSync, ImportsFlagged
<1>8. ASSUME NEW c \in Clients, InsertCache(c) PROVE FlagInv'
  <2> SUFFICES ASSUME ~excused' PROVE (WritersInSync /\ ImportsFlagged /\ (Stale => dirty \/ Pending))'
    BY DEF FlagInv
  <2>1. /\ client[c].pc = "insert" /\ client' = [client EXCEPT ![c].pc = "clear"]
        /\ cache' = cache \cup {Result(c, client[c].snap, TRUE)} /\ ~excused
        /\ UNCHANGED <<input, dirty, import>>
    BY <1>t, <1>8 DEF InsertCache, ClientGoto
  <2>2. WritersInSync /\ ImportsFlagged
    BY <2>1 DEF FlagInv
  <2>3. cache = {} /\ client[c].snap = input
    BY <2>1, <2>2 DEF WritersInSync, Regenerating
  <2>4. ~Stale'
    BY <2>1, <2>3 DEF Stale, Result
  <2>5. /\ \A d \in Clients : client'[d].pc \in Regenerating <=> client[d].pc \in Regenerating
        /\ \A d \in Clients : client'[d].snap = client[d].snap
        /\ \A d \in Clients : client'[d].pc = "insert" => client[d].pc = "insert" /\ d # c
        /\ UnderWriter
    BY <1>t, <2>1 DEF UnderWriter, Regenerating
  <2>6. WritersInSync'
    BY <2>1, <2>2, <2>4, <2>5 DEF WritersInSync, Regenerating
  <2>7. ImportsFlagged'
    BY <2>1, <2>2, <2>5 DEF ImportsFlagged
  <2>8. QED
    BY <2>4, <2>6, <2>7
<1>9. ASSUME NEW c \in Clients, GenerateFails(c) PROVE FlagInv'
  <2> SUFFICES ASSUME ~excused' PROVE (WritersInSync /\ ImportsFlagged /\ (Stale => dirty \/ Pending))'
    BY DEF FlagInv
  <2>1. /\ client[c].pc \in {"read", "drop", "insert"} /\ client' = [client EXCEPT ![c] = CacheIdle]
        /\ UNCHANGED <<data, import, excused>>
    BY <1>9 DEF GenerateFails, data
  <2>2. \A d \in Clients : client'[d].pc \in Regenerating \cup Resetting => client'[d] = client[d]
    BY <1>t, <2>1 DEF CacheIdle, Regenerating, Resetting
  <2>3. UnderWriter' => UnderWriter
    BY <2>2 DEF UnderWriter
  <2>4. Pending => Pending'
    BY <1>t, <2>1 DEF Pending
  <2>5. FlagInv'
    BY <2>1, <2>2, <2>3, <2>4, StillFlagged DEF Resetting
  <2>6. QED
    BY <2>5 DEF FlagInv
<1>10. ASSUME NEW c \in Clients, ClearDirty(c) PROVE FlagInv'
  <2> SUFFICES ASSUME ~excused' PROVE (WritersInSync /\ ImportsFlagged /\ (Stale => dirty \/ Pending))'
    BY DEF FlagInv
  <2>1. /\ client[c].pc = "clear" /\ client' = [client EXCEPT ![c] = CacheIdle]
        /\ UNCHANGED <<input, cache, import>>
    BY <1>10 DEF ClearDirty, Result
  <2>2. /\ \A d \in Clients : client'[d].pc \in Regenerating \cup Resetting => client'[d] = client[d] /\ d # c
        /\ client'[c].pc = "idle"
    BY <1>t, <2>1 DEF CacheIdle, Regenerating, Resetting
  <2>3. CASE ~excused
    <3>1. WritersInSync /\ ImportsFlagged
      BY <2>3 DEF FlagInv
    <3>2. ~Stale /\ ~Stale'
      BY <2>1, <3>1 DEF WritersInSync, Stale
    <3>3. WritersInSync'
      BY <2>1, <2>2, <3>1, <3>2 DEF WritersInSync, Regenerating, Resetting
    <3>4. UnderWriter
      BY <2>1 DEF UnderWriter, Regenerating
    <3>5. ImportsFlagged'
      BY <2>1, <3>1, <3>4 DEF ImportsFlagged
    <3>6. QED
      BY <3>2, <3>3, <3>5
  <2>4. CASE excused
    <3>1. /\ \A d \in Clients \ {c} : client[d].pc \notin Regenerating \cup Resetting
          /\ ~Importing /\ cache = {Result(c, input, TRUE)}
      BY <1>10, <2>4, Zenon DEF ClearDirty
    <3>2. \A d \in Clients : client'[d].pc \notin Regenerating \cup Resetting
      BY <2>2, <3>1
    <3>3. WritersInSync'
      BY <3>2 DEF WritersInSync, Regenerating, Resetting
    <3>4. ImportsFlagged'
      BY <2>1, <3>1 DEF ImportsFlagged, Importing, AtRest
    <3>5. ~Stale'
      BY <2>1, <3>1 DEF Stale, Result
    <3>6. QED
      BY <3>3, <3>4, <3>5
  <2>5. QED
    BY <2>3, <2>4
<1>11. ASSUME NEW c \in Clients, ResetCache(c) PROVE FlagInv'
  <2>1. /\ client[c].pc = "resetCache" /\ client' = [client EXCEPT ![c].pc = "resetState"]
        /\ cache' = {} /\ UNCHANGED <<input, dirty, import, excused>>
    BY <1>11 DEF ResetCache, ClientGoto
  <2>2. ~Stale'
    BY <2>1 DEF Stale
  <2>3. /\ \A d \in Clients : client'[d].pc \in Regenerating => client'[d] = client[d]
        /\ UnderWriter
    BY <1>t, <2>1 DEF UnderWriter, Regenerating, Resetting
  <2>4. QED
    BY <2>1, <2>2, <2>3 DEF FlagInv, WritersInSync, ImportsFlagged
<1>12. ASSUME NEW c \in Clients, ResetFails(c) PROVE FlagInv'
  <2>1. /\ client[c].pc \in {"resetCache", "resetState"} /\ client' = [client EXCEPT ![c].pc = "idle"]
        /\ UNCHANGED <<data, import, excused>>
    BY <1>12 DEF ResetFails, ClientGoto
  <2>2. \A d \in Clients : client'[d].pc \in Regenerating \cup Resetting => client'[d] = client[d]
    BY <1>t, <2>1 DEF Regenerating, Resetting
  <2>3. UnderWriter' => UnderWriter
    BY <2>2 DEF UnderWriter
  <2>4. Pending => Pending'
    BY <1>t, <2>1 DEF Pending
  <2>5. QED
    BY <2>1, <2>2, <2>3, <2>4, StillFlagged DEF Resetting
<1>13. ASSUME NEW c \in Clients, ResetState(c) PROVE FlagInv'
  <2> SUFFICES ASSUME ~excused' PROVE (WritersInSync /\ ImportsFlagged /\ (Stale => dirty \/ Pending))'
    BY DEF FlagInv
  <2>1. /\ client[c].pc = "resetState" /\ client' = [client EXCEPT ![c].pc = "idle"]
        /\ UNCHANGED <<input, cache, import, excused>>
    BY <1>13 DEF ResetState, ClientGoto
  <2>2. WritersInSync /\ ImportsFlagged
    BY <2>1 DEF FlagInv
  <2>3. \A d \in Clients : client'[d].pc \in Regenerating \cup Resetting => client'[d] = client[d]
    BY <1>t, <2>1 DEF Regenerating, Resetting
  <2>4. ~Stale'
    BY <2>1, <2>2 DEF WritersInSync, Stale
  <2>5. WritersInSync'
    BY <2>1, <2>2, <2>3, <2>4 DEF WritersInSync, Regenerating, Resetting
  <2>6. UnderWriter
    BY <2>1 DEF UnderWriter, Resetting
  <2>7. ImportsFlagged'
    BY <2>1, <2>2, <2>6 DEF ImportsFlagged
  <2>8. QED
    BY <2>4, <2>5, <2>7
<1>14. ASSUME NEW i \in Imports, StartImport(i) PROVE FlagInv'
  <2> SUFFICES ASSUME ~excused' PROVE (WritersInSync /\ ImportsFlagged /\ (Stale => dirty \/ Pending))'
    BY DEF FlagInv
  <2>1. ~excused /\ ~UnderWriter
    BY <1>14, Zenon DEF StartImport
  <2>2. /\ UNCHANGED <<input, cache, dirty, client>> /\ import'[i].flag = "count"
        /\ \A j \in Imports : j # i => import'[j] = import[j]
    BY <1>t, <1>14 DEF StartImport, data
  <2>3. WritersInSync /\ ImportsFlagged
    BY <2>1 DEF FlagInv
  <2>4. WritersInSync' /\ ~UnderWriter'
    BY <2>1, <2>2, <2>3 DEF WritersInSync, UnderWriter, Stale
  <2>5. ImportsFlagged'
    BY <2>2, <2>3, <2>4 DEF ImportsFlagged
  <2>6. Pending'
    BY <2>2 DEF Pending
  <2>7. QED
    BY <2>4, <2>5, <2>6
<1>15. ASSUME NEW i \in Imports, MarkImport(i) PROVE FlagInv'
  <2> SUFFICES ASSUME ~excused' PROVE (WritersInSync /\ ImportsFlagged /\ (Stale => dirty \/ Pending))'
    BY DEF FlagInv
  <2>1. UNCHANGED <<input, cache, client>>
    BY <1>15 DEF MarkImport
  <2>2. /\ \A j \in Imports : import'[j].op = import[j].op
        /\ \A j \in Imports : j # i => import'[j] = import[j]
    BY <1>t, <1>15 DEF MarkImport
  <2>3. \/ dirty'
        \/ UNCHANGED dirty /\ (cache = {} \/ import'[i].flag = "mark")
    BY <1>t, <1>15 DEF MarkImport
  <2>4. (dirty => dirty') /\ ~excused
    BY <1>t, <1>15 DEF MarkImport
  <2>5. WritersInSync /\ ImportsFlagged
    BY <2>4 DEF FlagInv
  <2>6. WritersInSync' /\ (UnderWriter' => UnderWriter)
    BY <2>1, <2>5 DEF WritersInSync, UnderWriter, Stale
  <2>7. ImportsFlagged'
    BY <2>1, <2>2, <2>3, <2>4, <2>5, <2>6 DEF ImportsFlagged
  <2>8. Stale' => dirty' \/ Pending'
    BY <2>1, <2>3 DEF Stale, Pending
  <2>9. QED
    BY <2>6, <2>7, <2>8
<1>16. ASSUME NEW i \in Imports, ImportChange(i) PROVE FlagInv'
  <2>1. Change(TRUE) /\ UNCHANGED <<cache, dirty, client, import>> /\ import[i].op = "begun"
    BY <1>16 DEF ImportChange
  <2>2. ~excused => cache = {} \/ dirty \/ Pending'
    BY <2>1 DEF FlagInv, ImportsFlagged, Pending
  <2>3. QED
    BY <2>1, <2>2, ChangeFlagged
<1>17. ASSUME NEW i \in Imports, EndImport(i) PROVE FlagInv'
  <2>1. /\ UNCHANGED <<data, client, excused>>
        /\ \A j \in Imports : import'[j].flag = import[j].flag
        /\ \A j \in Imports : import'[j].op = "begun" => import[j].op = "begun"
    BY <1>t, <1>17 DEF EndImport
  <2>2. (Pending => Pending') /\ (UnderWriter' => UnderWriter)
    BY <2>1 DEF Pending, UnderWriter
  <2>3. QED
    BY <2>1, <2>2, StillFlagged
<1>18. ASSUME UNCHANGED <<data, client, import, excused>> PROVE FlagInv'
  BY <1>18, StillFlagged DEF Pending, UnderWriter
<1>19. ASSUME NEW s \in Silent, StartSilent(s) \/ EndSilent(s) PROVE FlagInv'
  BY <1>18, <1>19 DEF StartSilent, EndSilent
<1>20. ASSUME NEW s \in Silent, SilentChange(s) PROVE FlagInv'
  BY <1>20, ChangeFlagged DEF SilentChange
<1>21. CASE UNCHANGED cacheVars
  BY <1>18, <1>21 DEF cacheVars, data
<1>22. QED
  BY <1>1, <1>2, <1>3, <1>4, <1>5, <1>6, <1>7, <1>8, <1>9, <1>10, <1>11, <1>12, <1>13, <1>14, <1>15,
     <1>16, <1>17, <1>19, <1>20, <1>21 DEF CacheNext

-----------------------------------------------------------------------------
\* The parts together are an inductive invariant of the cached collection.
THEOREM DirtyCacheInvariant == CacheSpec => []CacheInv
<1>1. CacheInv /\ [CacheNext]_cacheVars => CacheInv'
  BY CacheTypeStep, CacheHolderStep, FlagStep, CopiesStep DEF CacheInv
<1>2. QED
  BY CacheInvInit, <1>1, PTL DEF CacheSpec

\* A stale collection is flagged whenever nothing is under way, unless one of the
\* named mishaps excuses it (assembled_exams_dirty.go).
THEOREM StaleIsFlagged == CacheSpec => []StaleFlagged
<1>1. CacheInv => StaleFlagged
  BY DEF CacheInv, FlagInv, StaleFlagged, Quiet, Pending, AtRest
<1>2. QED
  BY <1>1, DirtyCacheInvariant, PTL

\* However many regenerations overlap, the collection holds at most one result of
\* each client (db/assembledExams.go).
THEOREM CopiesAreBounded == CacheSpec => []CopiesBounded
<1>1. CacheInv => CopiesBounded
  BY DEF CacheInv
<1>2. QED
  BY <1>1, DirtyCacheInvariant, PTL

-----------------------------------------------------------------------------
(***************************************************************************)
(* Proofs about publishing for any number of clients, generators and        *)
(* planner mutations: the guard keeps email runs and room generations       *)
(* apart, so the collector has one owner, a send-once email reaches nobody  *)
(* twice, and no published room plan is regenerated.                        *)
(***************************************************************************)
(***************************************************************************)
(* The inductive invariant.  None of the three properties is inductive: each *)
(* rests on who holds the guard, and SendOnce on how far a run has come.     *)
(***************************************************************************)
\* The shape of jobs beyond their types.
JobsWellFormed ==
    /\ \A m \in Mailers :
          /\ mailer[m].pc # "idle" => mailer[m].kind \in Emails
          /\ mailer[m].pc = "begun" => mailer[m].next = 1
          /\ mailer[m].pc = "sending" => mailer[m].next \in 1..2
    /\ \A p \in Planners : planner[p].op \in {"set", "clear"} => planner[p].cond \in Conds

\* The guard is never held twice, and a free guard means that nothing runs.
HolderAlone ==
    /\ validations = 0 /\ exclusiveOps \in {0, 1}
    /\ exclusiveOps = 0 => /\ \A m \in Mailers : mailer[m].pc = "idle"
                           /\ \A g \in RoomGens : roomGen[g] = "idle"
    /\ \A m, n \in Mailers : mailer[m].pc # "idle" /\ mailer[n].pc # "idle" => m = n
    /\ \A g, h \in RoomGens : roomGen[g] # "idle" /\ roomGen[h] # "idle" => g = h
    /\ \A m \in Mailers, g \in RoomGens : mailer[m].pc = "idle" \/ roomGen[g] = "idle"

\* A collector is open only for a dry run that has opened it.
CollectorOpened ==
    /\ \A m \in Mailers :
          mailer[m].pc \in {"sending", "marking"} /\ ~mailer[m].run
             => collector # NoMail /\ collector \subseteq {mailer[m].kind} \X (1..mailer[m].next - 1)
    /\ collector # NoMail =>
          \E m \in Mailers : mailer[m].pc \in {"sending", "marking", "ending"} /\ ~mailer[m].run

\* Real run m of k is between its check and its mark.
Sending(m, k) == mailer[m].pc \in {"sending", "marking"} /\ mailer[m].run /\ mailer[m].kind = k

\* A run has mailed nobody it has still to mail; without a run and without the
\* condition nobody was mailed at all.
DeliveredSoFar ==
    \A k \in Emails : clean[k] =>
        /\ \A m \in Mailers : Sending(m, k) =>
              \A r \in 1..2 : delivered[k][r] <= (IF r < mailer[m].next THEN 1 ELSE 0)
        /\ (CondOf[k] \notin cond /\ \A m \in Mailers : ~Sending(m, k)) =>
              \A r \in 1..2 : delivered[k][r] = 0

PublicationInv ==
    /\ PublicationTypeOK /\ JobsWellFormed /\ HolderAlone
    /\ CollectorOpened /\ DeliveredSoFar /\ SendOnce /\ RoomGenerationLocked

-----------------------------------------------------------------------------
\* There are two recipients (the two mails of a draft, two examiners).
LEMMA TwoRecipients == Len(Recipients) = 2
  BY DEF Recipients

\* Each email has a condition of its own.
LEMMA OwnCondition ==
    /\ \A k \in Emails : CondOf[k] \in Conds
    /\ \A k, l \in Emails : CondOf[k] = CondOf[l] => k = l
  BY EmailsAssumption DEF CondOf, Conds

\* Initially nothing runs, nothing is set and nobody was mailed.
LEMMA PublicationInvInit == PublicationInit => PublicationInv
  BY TwoRecipients DEF PublicationInit, PublicationInv, PublicationTypeOK, GuardTypeOK, GuardInit, JobsWellFormed, HolderAlone,
     CollectorOpened, DeliveredSoFar, SendOnce, RoomGenerationLocked, Idle, Rest, Sending, MaxCount

AdvancedJob(m) ==
    [pc |-> IF mailer[m].next = 2 THEN "marking" ELSE "sending",
     kind |-> mailer[m].kind, run |-> mailer[m].run, next |-> mailer[m].next + 1]

\* What the step to the next recipient makes of the job.
LEMMA Advanced ==
    ASSUME PublicationTypeOK, NEW m \in Mailers, mailer[m].next \in 1..2, AdvanceMail(m)
    PROVE  mailer' = [mailer EXCEPT ![m] = AdvancedJob(m)]
<1>1. mailer \in [Mailers -> [pc : {"idle", "begun", "sending", "marking", "ending"},
                              kind : Emails \cup {"none"}, run : BOOLEAN, next : 1..3]]
  BY TwoRecipients DEF PublicationTypeOK
<1> DEFINE job == [mailer[m] EXCEPT !.next = mailer[m].next + 1]
           place == IF mailer[m].next = 2 THEN "marking" ELSE "sending"
<1>2. mailer' = [mailer EXCEPT ![m] = [job EXCEPT !.pc = place]]
  BY <1>1, TwoRecipients DEF AdvanceMail
<1>3. job = [pc |-> mailer[m].pc, kind |-> mailer[m].kind, run |-> mailer[m].run, next |-> mailer[m].next + 1]
  BY <1>1
<1> HIDE DEF job, place
<1>4. [job EXCEPT !.pc = place]
         = [pc |-> place, kind |-> mailer[m].kind, run |-> mailer[m].run, next |-> mailer[m].next + 1]
  BY <1>3
<1>5. QED
  BY <1>2, <1>4 DEF place, AdvancedJob

-----------------------------------------------------------------------------
\* A job that goes to its end keeps its kind and its recipient.
LEMMA EndingTyped ==
  ASSUME NEW m \in Mailers, mailer[m].kind \in Emails, mailer' = [mailer EXCEPT ![m].pc = "ending"],
         JobsWellFormed, UNCHANGED planner,
         mailer \in [Mailers -> [pc : {"idle", "begun", "sending", "marking", "ending"},
                                kind : Emails \cup {"none"}, run : BOOLEAN, next : 1..3]]
  PROVE  /\ mailer' \in [Mailers -> [pc : {"idle", "begun", "sending", "marking", "ending"},
                                     kind : Emails \cup {"none"}, run : BOOLEAN, next : 1..3]]
         /\ JobsWellFormed'
<1>1. mailer'[m] = [mailer[m] EXCEPT !.pc = "ending"]
  OBVIOUS
<1>2. \A n \in Mailers \ {m} : mailer'[n] = mailer[n]
  OBVIOUS
<1>3. JobsWellFormed'
  BY <1>1, <1>2 DEF JobsWellFormed
<1>4. QED
  BY <1>3

\* Whatever else it stores, a step that sends a job to its end keeps the types.
LEMMA EndingStep ==
  ASSUME PublicationTypeOK, JobsWellFormed,
         NEW m \in Mailers, mailer[m].kind \in Emails, mailer' = [mailer EXCEPT ![m].pc = "ending"],
         UNCHANGED <<gvars, delivered, collector, gens, planner>>,
         clean' \in [Emails -> BOOLEAN], byMail' \subseteq cond', cond' \subseteq Conds
  PROVE  (PublicationTypeOK /\ JobsWellFormed)'
<1>1. UNCHANGED planner /\ UNCHANGED collector /\ UNCHANGED delivered
  OBVIOUS
<1>2. UNCHANGED <<gvars, gens>>
  OBVIOUS
<1>3. mailer \in [Mailers -> [pc : {"idle", "begun", "sending", "marking", "ending"},
                             kind : Emails \cup {"none"}, run : BOOLEAN, next : 1..3]]
  BY TwoRecipients DEF PublicationTypeOK
<1>4. /\ mailer' \in [Mailers -> [pc : {"idle", "begun", "sending", "marking", "ending"},
                                  kind : Emails \cup {"none"}, run : BOOLEAN, next : 1..3]]
      /\ JobsWellFormed'
  BY EndingTyped, <1>1, <1>3
<1>5. PublicationTypeOK'
  BY TwoRecipients, <1>1, <1>2, <1>4 DEF PublicationTypeOK, GuardTypeOK, gvars, gens
<1>6. QED
  BY <1>4, <1>5

\* A failed mail that aborts the run, the mark and the failed mark all end so.
LEMMA EndingTypes ==
  ASSUME PublicationTypeOK, JobsWellFormed, NEW m \in Mailers,
         \/ SendFails(m) /\ mailer' = [mailer EXCEPT ![m].pc = "ending"]
         \/ MarkMail(m)
         \/ MarkFails(m)
  PROVE  (PublicationTypeOK /\ JobsWellFormed)'
<1>1. CASE SendFails(m) /\ mailer' = [mailer EXCEPT ![m].pc = "ending"]
  <2>1. /\ mailer[m].kind \in Emails
        /\ UNCHANGED <<gvars, stored, delivered, collector, gens, planner>>
    BY <1>1 DEF SendFails, JobsWellFormed
  <2>2. clean' \in [Emails -> BOOLEAN] /\ byMail' \subseteq cond' /\ cond' \subseteq Conds
    BY <1>1, <2>1 DEF SendFails, PublicationTypeOK, stored
  <2>3. QED
    BY <1>1, <2>1, <2>2, EndingStep
<1>2. CASE MarkMail(m)
  <2>1. /\ mailer[m].kind \in Emails /\ mailer' = [mailer EXCEPT ![m].pc = "ending"]
        /\ UNCHANGED <<gvars, delivered, clean, collector, gens, planner>>
    BY <1>2 DEF MarkMail, JobsWellFormed
  <2>2. CondOf[mailer[m].kind] \in Conds /\ byMail \subseteq cond /\ cond \subseteq Conds
    BY <2>1, OwnCondition DEF PublicationTypeOK
  <2>3. byMail' \subseteq cond' /\ cond' \subseteq Conds
    BY <1>2, <2>2 DEF MarkMail, stored
  <2>4. clean' \in [Emails -> BOOLEAN]
    BY <2>1 DEF PublicationTypeOK
  <2>5. QED
    BY <2>1, <2>3, <2>4, EndingStep
<1>3. CASE MarkFails(m)
  <2>1. /\ mailer[m].kind \in Emails /\ mailer' = [mailer EXCEPT ![m].pc = "ending"]
        /\ UNCHANGED <<gvars, stored, delivered, collector, gens, planner>>
    BY <1>3 DEF MarkFails, JobsWellFormed
  <2>2. clean' \in [Emails -> BOOLEAN] /\ byMail' \subseteq cond' /\ cond' \subseteq Conds
    BY <1>3, <2>1 DEF MarkFails, PublicationTypeOK, stored
  <2>3. QED
    BY <2>1, <2>2, EndingStep
<1>4. QED
  BY <1>1, <1>2, <1>3

\* Types and the shape of jobs survive every step.
LEMMA TypeStep == PublicationInv /\ [PublicationNext]_publicationVars => (PublicationTypeOK /\ JobsWellFormed)'
<1> SUFFICES ASSUME PublicationInv, [PublicationNext]_publicationVars PROVE (PublicationTypeOK /\ JobsWellFormed)'
  OBVIOUS
<1>i. PublicationTypeOK /\ JobsWellFormed
  BY DEF PublicationInv
<1> USE TwoRecipients, OwnCondition
    DEF PublicationInv, PublicationTypeOK, GuardTypeOK, JobsWellFormed, HolderAlone, stored, gens, gvars, MaxCount
<1>1. ASSUME NEW m \in Mailers, NEW k \in Emails, NEW run \in BOOLEAN, StartMail(m, k, run)
      PROVE  (PublicationTypeOK /\ JobsWellFormed)'
  BY <1>1 DEF StartMail, BeginExclusiveOp
<1>2. ASSUME NEW m \in Mailers, CheckMail(m) PROVE (PublicationTypeOK /\ JobsWellFormed)'
  BY <1>2 DEF CheckMail, BeginCollection
<1>3. ASSUME NEW m \in Mailers, SendNext(m) PROVE (PublicationTypeOK /\ JobsWellFormed)'
  <2>1. /\ mailer[m].kind \in Emails /\ mailer[m].next \in 1..2
        /\ UNCHANGED <<gvars, stored, clean, gens, planner>>
    BY <1>3 DEF SendNext
  <2>2. mailer' = [mailer EXCEPT ![m] = AdvancedJob(m)]
    BY <1>3, <2>1, Advanced DEF SendNext
  <2>3. mailer' \in [Mailers -> [pc : {"idle", "begun", "sending", "marking", "ending"},
                                 kind : Emails \cup {"none"}, run : BOOLEAN, next : 1..3]]
    BY <2>1, <2>2 DEF AdvancedJob
  <2>4. delivered' \in [Emails -> [1..2 -> 0..2]]
    BY <1>3, <2>1 DEF SendNext, Send
  <2>5. collector' \in {NoMail} \cup SUBSET (Emails \X (1..2))
    BY <1>3, <2>1 DEF SendNext, Send
  <2>6. JobsWellFormed'
    BY <2>1, <2>2 DEF AdvancedJob
  <2>7. QED
    BY <2>1, <2>3, <2>4, <2>5, <2>6
<1>4. ASSUME NEW m \in Mailers, SendFails(m) /\ AdvanceMail(m) PROVE (PublicationTypeOK /\ JobsWellFormed)'
  <2>1. /\ mailer[m].kind \in Emails /\ mailer[m].next \in 1..2
        /\ UNCHANGED <<gvars, stored, delivered, collector, gens, planner>>
    BY <1>4 DEF SendFails
  <2>2. clean' \in [Emails -> BOOLEAN]
    BY <1>4, <2>1, ZenonT(40) DEF SendFails
  <2>3. mailer' = [mailer EXCEPT ![m] = AdvancedJob(m)]
    BY <1>4, <2>1, Advanced
  <2>4. QED
    BY <2>1, <2>2, <2>3 DEF AdvancedJob
<1>5. ASSUME NEW m \in Mailers, SendFails(m) PROVE (PublicationTypeOK /\ JobsWellFormed)'
  <2>1. AdvanceMail(m) \/ mailer' = [mailer EXCEPT ![m].pc = "ending"]
    BY ONLY <1>5 DEF SendFails
  <2>2. QED
    BY ONLY <1>i, <1>4, <1>5, <2>1, EndingTypes
<1>6. ASSUME NEW m \in Mailers, MarkMail(m) \/ MarkFails(m) PROVE (PublicationTypeOK /\ JobsWellFormed)'
  BY ONLY <1>i, <1>6, EndingTypes
<1>7. ASSUME NEW m \in Mailers, EndMail(m) PROVE (PublicationTypeOK /\ JobsWellFormed)'
  BY <1>7 DEF EndMail, FlushCollection, EndExclusiveOp, Idle
<1>8. ASSUME NEW g \in RoomGens,
             RoomGenStart(g) \/ RoomGenCheck(g) \/ RoomGenWrite(g) \/ RoomGenEnd(g)
      PROVE  (PublicationTypeOK /\ JobsWellFormed)'
  BY <1>8 DEF RoomGenStart, RoomGenCheck, RoomGenWrite, RoomGenEnd, BeginExclusiveOp, EndExclusiveOp
<1>9. ASSUME NEW g \in InvigRuns, InvigRunStart(g) \/ InvigRunWrite(g) \/ InvigRunEnd(g)
      PROVE  (PublicationTypeOK /\ JobsWellFormed)'
  BY <1>9 DEF InvigRunStart, InvigRunWrite, InvigRunEnd
<1>10. ASSUME NEW p \in Planners, NEW op \in {"set", "clear"}, NEW c \in Conds, AdmitPlanner(p, op, c)
       PROVE  (PublicationTypeOK /\ JobsWellFormed)'
  BY <1>10 DEF AdmitPlanner
<1>11. ASSUME NEW p \in Planners, AdmitPlanner(p, "reset", "none") PROVE (PublicationTypeOK /\ JobsWellFormed)'
  BY <1>11 DEF AdmitPlanner
<1>12. ASSUME NEW p \in Planners, SetCondition(p) \/ ResetCheck(p) \/ ResetDrop(p)
       PROVE  (PublicationTypeOK /\ JobsWellFormed)'
  <2>1. CASE SetCondition(p)
    BY <2>1 DEF SetCondition, Rest
  <2>2. CASE ResetCheck(p)
    BY <2>2 DEF ResetCheck, Rest
  <2>3. CASE ResetDrop(p)
    BY <2>3 DEF ResetDrop, Rest
  <2>4. QED
    BY <1>12, <2>1, <2>2, <2>3
<1>13. ASSUME NEW p \in Planners, ClearCondition(p) PROVE (PublicationTypeOK /\ JobsWellFormed)'
  <2>1. delivered' \in [Emails -> [1..2 -> 0..2]]
    BY <1>13 DEF ClearCondition
  <2>2. clean' \in [Emails -> BOOLEAN]
    BY <1>13 DEF ClearCondition
  <2>3. planner' \in [Planners -> [op : {"rest", "set", "clear", "reset", "drop"}, cond : Conds \cup {"none"}]]
    BY <1>13 DEF ClearCondition, Rest
  <2>4. QED
    BY <1>13, <2>1, <2>2, <2>3 DEF ClearCondition, Rest
<1>14. CASE PublicationRestart
  BY <1>14 DEF PublicationRestart, GuardReset, Idle, Rest
<1>15. CASE UNCHANGED publicationVars
  BY <1>15 DEF publicationVars
<1>16. QED
  BY <1>1, <1>2, <1>3, <1>4, <1>5, <1>6, <1>7, <1>8, <1>9, <1>10, <1>11, <1>12, <1>13, <1>14, <1>15
     DEF PublicationNext

\* The guard lets one email run or one room generation in at a time, and what
\* leaves it ends the only one.
LEMMA HolderStep == PublicationInv /\ [PublicationNext]_publicationVars => HolderAlone'
<1> SUFFICES ASSUME PublicationInv, [PublicationNext]_publicationVars PROVE HolderAlone'
  OBVIOUS
<1>t. PublicationTypeOK /\ HolderAlone /\ JobsWellFormed
  BY DEF PublicationInv
<1> USE DEF HolderAlone, gens, gvars
<1>1. ASSUME NEW m \in Mailers, NEW k \in Emails, NEW run \in BOOLEAN, StartMail(m, k, run)
      PROVE  HolderAlone'
  BY <1>t, <1>1 DEF StartMail, BeginExclusiveOp, MayBeginExclusiveOp, PublicationTypeOK
<1>2. ASSUME NEW m \in Mailers, CheckMail(m) PROVE HolderAlone'
  BY <1>t, <1>2 DEF CheckMail, PublicationTypeOK
<1>3. ASSUME NEW m \in Mailers, AdvanceMail(m), mailer[m].pc = "sending",
             UNCHANGED <<gvars, gens>>
      PROVE  HolderAlone'
  <2>1. mailer' = [mailer EXCEPT ![m] = AdvancedJob(m)]
    BY <1>t, <1>3, Advanced DEF JobsWellFormed
  <2>2. QED
    BY <1>t, <1>3, <2>1 DEF AdvancedJob, PublicationTypeOK
<1>4. ASSUME NEW m \in Mailers, mailer' = [mailer EXCEPT ![m].pc = "ending"],
             mailer[m].pc # "idle", UNCHANGED <<gvars, gens>>
      PROVE  HolderAlone'
  BY <1>t, <1>4 DEF PublicationTypeOK
<1>5. ASSUME NEW m \in Mailers, SendNext(m) \/ SendFails(m) PROVE HolderAlone'
  BY <1>3, <1>4, <1>5 DEF SendNext, SendFails
<1>6. ASSUME NEW m \in Mailers, MarkMail(m) \/ MarkFails(m) PROVE HolderAlone'
  BY <1>4, <1>6 DEF MarkMail, MarkFails
<1>7. ASSUME NEW m \in Mailers, EndMail(m) PROVE HolderAlone'
  BY <1>t, <1>7 DEF EndMail, EndExclusiveOp, Idle, PublicationTypeOK
<1>8. ASSUME NEW g \in RoomGens, RoomGenStart(g) PROVE HolderAlone'
  BY <1>t, <1>8 DEF RoomGenStart, BeginExclusiveOp, MayBeginExclusiveOp, PublicationTypeOK
<1>9. ASSUME NEW g \in RoomGens, RoomGenCheck(g) \/ RoomGenWrite(g) PROVE HolderAlone'
  BY <1>t, <1>9 DEF RoomGenCheck, RoomGenWrite, PublicationTypeOK
<1>10. ASSUME NEW g \in RoomGens, RoomGenEnd(g) PROVE HolderAlone'
  BY <1>t, <1>10 DEF RoomGenEnd, EndExclusiveOp, PublicationTypeOK
<1>11. ASSUME UNCHANGED <<gvars, mailer, roomGen>> PROVE HolderAlone'
  BY <1>t, <1>11
<1>12. ASSUME NEW g \in InvigRuns, InvigRunStart(g) \/ InvigRunWrite(g) \/ InvigRunEnd(g)
       PROVE  HolderAlone'
  BY <1>11, <1>12 DEF InvigRunStart, InvigRunWrite, InvigRunEnd
<1>13. ASSUME NEW p \in Planners, NEW op, NEW c, AdmitPlanner(p, op, c) PROVE HolderAlone'
  BY <1>11, <1>13 DEF AdmitPlanner
<1>14. ASSUME NEW p \in Planners,
              SetCondition(p) \/ ClearCondition(p) \/ ResetCheck(p) \/ ResetDrop(p)
       PROVE  HolderAlone'
  BY <1>11, <1>14 DEF SetCondition, ClearCondition, ResetCheck, ResetDrop
<1>15. CASE PublicationRestart
  BY <1>15 DEF PublicationRestart, GuardReset, Idle
<1>16. CASE UNCHANGED publicationVars
  BY <1>11, <1>16 DEF publicationVars
<1>17. QED
  BY <1>1, <1>2, <1>5, <1>6, <1>7, <1>8, <1>9, <1>10, <1>12, <1>13, <1>14, <1>15, <1>16 DEF PublicationNext

\* Only the run that holds the guard opens, fills and flushes the collector.
LEMMA CollectorStep == PublicationInv /\ [PublicationNext]_publicationVars => CollectorOpened'
<1> SUFFICES ASSUME PublicationInv, [PublicationNext]_publicationVars PROVE CollectorOpened'
  OBVIOUS
<1>t. /\ PublicationTypeOK /\ HolderAlone /\ JobsWellFormed /\ CollectorOpened
      /\ mailer \in [Mailers -> [pc : {"idle", "begun", "sending", "marking", "ending"},
                                 kind : Emails \cup {"none"}, run : BOOLEAN, next : 1..3]]
  BY TwoRecipients DEF PublicationInv, PublicationTypeOK
<1>o. /\ \A m, n \in Mailers : mailer[m].pc # "idle" /\ mailer[n].pc # "idle" => m = n
      /\ {} # NoMail
      /\ \A mails \in SUBSET (Emails \X (1..2)) : mails # NoMail
  BY <1>t, NoMailAssumption, TwoRecipients DEF HolderAlone
<1> USE DEF CollectorOpened
<1>1. ASSUME NEW m \in Mailers, NEW k \in Emails, NEW run \in BOOLEAN, StartMail(m, k, run)
      PROVE  CollectorOpened'
  BY <1>t, <1>1 DEF StartMail
<1>2. ASSUME NEW m \in Mailers, CheckMail(m) PROVE CollectorOpened'
  <2>1. \A n \in Mailers : mailer[n].pc \notin {"sending", "marking", "ending"}
    BY <1>o, <1>2 DEF CheckMail
  <2>2. CASE mailer[m].run
    BY <1>t, <1>2, <2>1, <2>2, ZenonT(40) DEF CheckMail, BeginCollection
  <2>3. CASE ~mailer[m].run
    BY <1>t, <1>o, <1>2, <2>1, <2>3 DEF CheckMail, BeginCollection, EmailSendAllowed
  <2>4. QED
    BY <2>2, <2>3
<1>3. ASSUME NEW m \in Mailers, SendNext(m) PROVE CollectorOpened'
  <2>1. /\ mailer[m].pc = "sending" /\ mailer[m].next \in 1..2 /\ mailer[m].kind \in Emails
        /\ mailer' = [mailer EXCEPT ![m] = AdvancedJob(m)]
    BY <1>t, <1>3, Advanced DEF SendNext, JobsWellFormed
  <2>2. CASE mailer[m].run
    BY <1>t, <1>o, <1>3, <2>1, <2>2 DEF SendNext, Send, AdvancedJob
  <2>3. CASE ~mailer[m].run
    <3>1. /\ collector # NoMail /\ collector \subseteq {mailer[m].kind} \X (1..mailer[m].next - 1)
          /\ collector' = collector \cup {<<mailer[m].kind, mailer[m].next>>}
      BY <1>t, <1>3, <2>1, <2>3 DEF SendNext, Send
    <3>2. collector' \subseteq {mailer[m].kind} \X (1..mailer[m].next)
      BY <2>1, <3>1
    <3>3. collector' \in SUBSET (Emails \X (1..2))
      BY <2>1, <3>2
    <3>4. collector' # NoMail
      BY <1>o, <3>3
    <3>5. \A n \in Mailers : n # m => mailer'[n].pc = "idle"
      BY <1>t, <1>o, <2>1
    <3>6. /\ mailer'[m].kind = mailer[m].kind /\ mailer'[m].next - 1 = mailer[m].next
          /\ mailer'[m].pc \in {"sending", "marking"} /\ ~mailer'[m].run
      BY <1>t, <2>1, <2>3 DEF AdvancedJob
    <3>7. QED
      BY <3>2, <3>4, <3>5, <3>6
  <2>4. QED
    BY <2>2, <2>3
<1>4. ASSUME NEW m \in Mailers, SendFails(m) PROVE CollectorOpened'
  <2>1. mailer[m].pc = "sending" /\ mailer[m].next \in 1..2 /\ collector' = collector
    BY <1>t, <1>4 DEF SendFails, JobsWellFormed
  <2>2. CASE mailer' = [mailer EXCEPT ![m].pc = "ending"]
    BY <1>t, <2>1, <2>2
  <2>3. CASE AdvanceMail(m)
    <3>1. mailer' = [mailer EXCEPT ![m] = AdvancedJob(m)]
      BY <1>t, <2>1, <2>3, Advanced
    <3>2. QED
      BY <1>t, <2>1, <3>1 DEF AdvancedJob
  <2>4. QED
    BY <1>4, <2>2, <2>3 DEF SendFails
<1>5. ASSUME NEW m \in Mailers, MarkMail(m) \/ MarkFails(m) PROVE CollectorOpened'
  BY <1>t, <1>5 DEF MarkMail, MarkFails
<1>6. ASSUME NEW m \in Mailers, EndMail(m) PROVE CollectorOpened'
  <2>1. \A n \in Mailers : n # m => mailer[n].pc = "idle"
    BY <1>o, <1>6 DEF EndMail
  <2>2. collector' = NoMail
    BY <1>t, <1>6, <2>1 DEF EndMail, FlushCollection
  <2>3. QED
    BY <1>t, <1>6, <2>1, <2>2 DEF EndMail, Idle
<1>7. ASSUME UNCHANGED <<mailer, collector>> PROVE CollectorOpened'
  BY <1>t, <1>7
<1>8. ASSUME NEW g \in RoomGens,
             RoomGenStart(g) \/ RoomGenCheck(g) \/ RoomGenWrite(g) \/ RoomGenEnd(g)
      PROVE  CollectorOpened'
  BY <1>7, <1>8 DEF RoomGenStart, RoomGenCheck, RoomGenWrite, RoomGenEnd
<1>9. ASSUME NEW g \in InvigRuns, InvigRunStart(g) \/ InvigRunWrite(g) \/ InvigRunEnd(g)
      PROVE  CollectorOpened'
  BY <1>7, <1>9 DEF InvigRunStart, InvigRunWrite, InvigRunEnd
<1>10. ASSUME NEW p \in Planners, NEW op, NEW c, AdmitPlanner(p, op, c) PROVE CollectorOpened'
  BY <1>7, <1>10 DEF AdmitPlanner
<1>11. ASSUME NEW p \in Planners,
              SetCondition(p) \/ ClearCondition(p) \/ ResetCheck(p) \/ ResetDrop(p)
       PROVE  CollectorOpened'
  BY <1>7, <1>11 DEF SetCondition, ClearCondition, ResetCheck, ResetDrop
<1>12. CASE PublicationRestart
  BY <1>12 DEF PublicationRestart, Idle
<1>13. CASE UNCHANGED publicationVars
  BY <1>7, <1>13 DEF publicationVars
<1>14. QED
  BY <1>1, <1>2, <1>3, <1>4, <1>5, <1>6, <1>8, <1>9, <1>10, <1>11, <1>12, <1>13 DEF PublicationNext

\* A room generation past its gate check holds the guard, so no email run is
\* there to mark the rooms as published.
LEMMA RoomStep == PublicationInv /\ [PublicationNext]_publicationVars => RoomGenerationLocked'
<1> SUFFICES ASSUME PublicationInv, [PublicationNext]_publicationVars PROVE RoomGenerationLocked'
  OBVIOUS
<1> USE DEF RoomGenerationLocked
<1>t. PublicationTypeOK /\ HolderAlone /\ RoomGenerationLocked
  BY DEF PublicationInv
<1>1. ASSUME UNCHANGED roomGen, byMail' \subseteq byMail PROVE RoomGenerationLocked'
  BY <1>t, <1>1
<1>2. ASSUME NEW m \in Mailers, NEW k \in Emails, NEW run \in BOOLEAN, StartMail(m, k, run)
      PROVE  RoomGenerationLocked'
  BY <1>1, <1>2 DEF StartMail, stored, gens
<1>3. ASSUME NEW m \in Mailers, CheckMail(m) \/ SendNext(m) \/ SendFails(m) \/ MarkFails(m) \/ EndMail(m)
      PROVE  RoomGenerationLocked'
  BY <1>1, <1>3 DEF CheckMail, SendNext, SendFails, MarkFails, EndMail, stored, gens
<1>4. ASSUME NEW m \in Mailers, MarkMail(m) PROVE RoomGenerationLocked'
  BY <1>t, <1>4 DEF MarkMail, HolderAlone, gens
<1>5. ASSUME NEW g \in RoomGens, RoomGenCheck(g) PROVE RoomGenerationLocked'
  BY <1>t, <1>5 DEF RoomGenCheck, GenerationAllowed, PublicationTypeOK, stored
<1>6. ASSUME NEW g \in RoomGens, RoomGenStart(g) \/ RoomGenWrite(g) \/ RoomGenEnd(g)
      PROVE  RoomGenerationLocked'
  BY <1>t, <1>6 DEF RoomGenStart, RoomGenWrite, RoomGenEnd, PublicationTypeOK, stored
<1>7. ASSUME NEW g \in InvigRuns, InvigRunStart(g) \/ InvigRunWrite(g) \/ InvigRunEnd(g)
      PROVE  RoomGenerationLocked'
  BY <1>1, <1>7 DEF InvigRunStart, InvigRunWrite, InvigRunEnd, stored
<1>8. ASSUME NEW p \in Planners, NEW op, NEW c, AdmitPlanner(p, op, c) PROVE RoomGenerationLocked'
  BY <1>1, <1>8 DEF AdmitPlanner, stored, gens
<1>9. ASSUME NEW p \in Planners,
             SetCondition(p) \/ ClearCondition(p) \/ ResetCheck(p) \/ ResetDrop(p)
      PROVE  RoomGenerationLocked'
  BY <1>1, <1>9 DEF SetCondition, ClearCondition, ResetCheck, ResetDrop, stored, gens
<1>10. CASE PublicationRestart
  BY <1>10 DEF PublicationRestart
<1>11. CASE UNCHANGED publicationVars
  BY <1>1, <1>11 DEF publicationVars
<1>12. QED
  BY <1>2, <1>3, <1>4, <1>5, <1>6, <1>7, <1>8, <1>9, <1>10, <1>11 DEF PublicationNext

\* What no step but a send, a clear and the end of a run touches: nobody else
\* is mailed, no run of an email begins or ends, no condition is cleared.
LEMMA QuietStep ==
    ASSUME DeliveredSoFar, SendOnce, UNCHANGED delivered,
           \A k \in Emails : clean'[k] => clean[k],
           \A k \in Emails : CondOf[k] \in cond => CondOf[k] \in cond',
           \A k \in Emails : clean'[k] => \A m \in Mailers : Sending(m, k)' => Sending(m, k),
           \A m \in Mailers : mailer'[m].next = mailer[m].next \/ ~mailer'[m].run
                                \/ mailer'[m].pc \notin {"sending", "marking"},
           \A k \in Emails : clean'[k] /\ CondOf[k] \notin cond' =>
               \A m \in Mailers : Sending(m, k) => Sending(m, k)'
    PROVE  (DeliveredSoFar /\ SendOnce)'
<1>1. SendOnce'
  BY DEF SendOnce
<1>2. ASSUME NEW k \in Emails, clean'[k], NEW m \in Mailers, Sending(m, k)', NEW r \in 1..2
      PROVE  delivered'[k][r] <= (IF r < mailer'[m].next THEN 1 ELSE 0)
  <2>1. mailer'[m].next = mailer[m].next /\ Sending(m, k) /\ clean[k]
    BY <1>2 DEF Sending
  <2>2. QED
    BY <1>2, <2>1 DEF DeliveredSoFar
<1>3. ASSUME NEW k \in Emails, clean'[k], CondOf[k] \notin cond', \A m \in Mailers : ~Sending(m, k)',
             NEW r \in 1..2
      PROVE  delivered'[k][r] = 0
  BY <1>3 DEF DeliveredSoFar
<1>4. DeliveredSoFar'
  BY <1>2, <1>3 DEF DeliveredSoFar, Sending
<1>5. QED
  BY <1>1, <1>4

\* A real run starts sending only without its condition, alone, and mails each
\* recipient in turn; whatever ends it unmarked makes the email unclean.
LEMMA DeliveredStep == PublicationInv /\ [PublicationNext]_publicationVars => (DeliveredSoFar /\ SendOnce)'
<1> SUFFICES ASSUME PublicationInv, [PublicationNext]_publicationVars PROVE (DeliveredSoFar /\ SendOnce)'
  OBVIOUS
<1> DEFINE Goal == (DeliveredSoFar /\ SendOnce)'
<1>t. /\ PublicationTypeOK /\ HolderAlone /\ JobsWellFormed /\ DeliveredSoFar /\ SendOnce
      /\ mailer \in [Mailers -> [pc : {"idle", "begun", "sending", "marking", "ending"},
                                 kind : Emails \cup {"none"}, run : BOOLEAN, next : 1..3]]
      /\ delivered \in [Emails -> [1..2 -> 0..2]]
      /\ clean \in [Emails -> BOOLEAN]
      /\ \A m, n \in Mailers : mailer[m].pc # "idle" /\ mailer[n].pc # "idle" => m = n
  BY TwoRecipients DEF PublicationInv, PublicationTypeOK, HolderAlone, MaxCount
<1>1. ASSUME NEW m \in Mailers, NEW k \in Emails, NEW run \in BOOLEAN, StartMail(m, k, run)
      PROVE  Goal
  BY <1>t, <1>1, QuietStep DEF StartMail, stored, Sending
<1>2. ASSUME NEW m \in Mailers, CheckMail(m) PROVE Goal
  <2>1. /\ UNCHANGED <<cond, delivered, clean>>
        /\ mailer' = [mailer EXCEPT ![m].pc =
                         IF EmailSendAllowed(mailer[m].kind, mailer[m].run) THEN "sending" ELSE "ending"]
        /\ mailer[m].next = 1 /\ mailer[m].kind \in Emails
        /\ \A n \in Mailers : n # m => mailer[n].pc = "idle" /\ mailer'[n].pc = "idle"
    BY <1>t, <1>2 DEF CheckMail, stored, JobsWellFormed
  <2>2. \A n \in Mailers, k \in Emails : ~Sending(n, k)
    BY <1>t, <1>2, <2>1 DEF CheckMail, Sending
  <2>3. SendOnce'
    BY <1>t, <2>1 DEF SendOnce
  <2>4. ASSUME NEW k \in Emails, clean'[k], NEW n \in Mailers, Sending(n, k)', NEW r \in 1..2
        PROVE  delivered'[k][r] <= (IF r < mailer'[n].next THEN 1 ELSE 0)
    <3>1. n = m /\ mailer[m].kind = k /\ CondOf[k] \notin cond
      BY <1>t, <2>1, <2>4 DEF Sending, EmailSendAllowed
    <3>2. delivered'[k][r] = 0
      BY <1>t, <2>1, <2>2, <2>4, <3>1 DEF DeliveredSoFar
    <3>3. QED
      BY <3>2
  <2>5. ASSUME NEW k \in Emails, clean'[k], CondOf[k] \notin cond', NEW r \in 1..2
        PROVE  delivered'[k][r] = 0
    BY <1>t, <2>1, <2>2, <2>5 DEF DeliveredSoFar
  <2>6. DeliveredSoFar'
    BY <2>4, <2>5 DEF DeliveredSoFar, Sending
  <2>7. QED
    BY <2>3, <2>6
<1>3. ASSUME NEW m \in Mailers, SendNext(m) PROVE Goal
  <2>1. /\ mailer[m].pc = "sending" /\ mailer[m].next \in 1..2 /\ mailer[m].kind \in Emails
        /\ mailer' = [mailer EXCEPT ![m] = AdvancedJob(m)]
        /\ UNCHANGED <<cond, clean>>
    BY <1>t, <1>3, Advanced DEF SendNext, JobsWellFormed, stored
  <2>2. \A n \in Mailers, k \in Emails : Sending(n, k)' <=> Sending(n, k)
    BY <1>t, <2>1 DEF Sending, AdvancedJob
  <2>3. CASE ~mailer[m].run
    <3>1. UNCHANGED delivered
      BY <1>3, <2>3 DEF SendNext, Send
    <3>2. \A n \in Mailers : mailer'[n].next = mailer[n].next \/ ~mailer'[n].run
      BY <1>t, <2>1, <2>3 DEF AdvancedJob
    <3>3. QED
      BY <1>t, <2>1, <2>2, <3>1, <3>2, QuietStep
  <2>4. CASE mailer[m].run
    <3> DEFINE e == mailer[m].kind
               i == mailer[m].next
    <3>1. delivered' = [delivered EXCEPT ![e][i] = IF @ < 2 THEN @ + 1 ELSE @]
      BY <1>3, <2>4 DEF SendNext, Send, MaxCount
    <3>2. /\ Sending(m, e) /\ mailer'[m].next = i + 1
          /\ \A n \in Mailers, k \in Emails : Sending(n, k) => n = m /\ k = e
      BY <1>t, <2>1, <2>4 DEF Sending, AdvancedJob
    <3>3. clean[e] => \A r \in 1..2 : delivered[e][r] <= (IF r < i THEN 1 ELSE 0)
      BY <1>t, <2>1, <3>2 DEF DeliveredSoFar
    <3>4. clean[e] => \A r \in 1..2 : delivered'[e][r] <= (IF r < i + 1 THEN 1 ELSE 0)
      BY <1>t, <2>1, <3>1, <3>3
    <3>5. \A k \in Emails : k # e => delivered'[k] = delivered[k]
      BY <1>t, <3>1
    <3>6. SendOnce'
      <4>1. \A r \in 1..2 : delivered'[e][r] \in 0..2
        BY <1>t, <2>1, <3>1
      <4>2. clean[e] => \A r \in 1..2 : delivered'[e][r] <= 1
        BY <2>1, <3>4, <4>1
      <4>3. QED
        BY <1>t, <2>1, <3>5, <4>2, TwoRecipients DEF SendOnce
    <3>7. ASSUME NEW k \in Emails, clean'[k], NEW n \in Mailers, Sending(n, k)', NEW r \in 1..2
          PROVE  delivered'[k][r] <= (IF r < mailer'[n].next THEN 1 ELSE 0)
      BY <2>1, <2>2, <3>2, <3>4, <3>7
    <3>8. ASSUME NEW k \in Emails, clean'[k], CondOf[k] \notin cond',
                 \A n \in Mailers : ~Sending(n, k)', NEW r \in 1..2
          PROVE  delivered'[k][r] = 0
      <4>1. k # e /\ clean[k] /\ CondOf[k] \notin cond /\ \A n \in Mailers : ~Sending(n, k)
        BY <2>1, <2>2, <3>2, <3>8
      <4>2. QED
        BY <1>t, <3>5, <4>1 DEF DeliveredSoFar
    <3>9. DeliveredSoFar'
      BY <3>7, <3>8 DEF DeliveredSoFar, Sending
    <3>10. QED
      BY <3>6, <3>9
  <2>5. QED
    BY <2>3, <2>4
<1>4. ASSUME NEW m \in Mailers, SendFails(m) PROVE Goal
  <2>1. /\ mailer[m].pc = "sending" /\ mailer[m].next \in 1..2 /\ mailer[m].kind \in Emails
        /\ UNCHANGED <<cond, delivered>>
    BY <1>t, <1>4 DEF SendFails, JobsWellFormed, stored
  <2>2. CASE /\ mailer' = [mailer EXCEPT ![m].pc = "ending"]
             /\ clean' = [clean EXCEPT ![mailer[m].kind] = @ /\ ~mailer[m].run]
    <3>1. \A k \in Emails : clean'[k] => clean[k] /\ (mailer[m].run => k # mailer[m].kind)
      BY <1>t, <2>1, <2>2
    <3>2. QED
      BY <1>t, <2>1, <2>2, <3>1, QuietStep DEF Sending
  <2>3. CASE AdvanceMail(m) /\ UNCHANGED clean
    <3>1. mailer' = [mailer EXCEPT ![m] = AdvancedJob(m)]
      BY <1>t, <2>1, <2>3, Advanced
    <3>2. \A n \in Mailers, k \in Emails : Sending(n, k)' <=> Sending(n, k)
      BY <1>t, <2>1, <3>1 DEF Sending, AdvancedJob
    <3>3. \A n \in Mailers : /\ mailer[n].next <= mailer'[n].next
                            /\ mailer[n].next \in 1..3 /\ mailer'[n].next \in 1..3
      BY <1>t, <2>1, <3>1 DEF AdvancedJob
    <3>4. SendOnce'
      BY <1>t, <2>1, <2>3 DEF SendOnce
    <3>5. ASSUME NEW k \in Emails, clean'[k], NEW n \in Mailers, Sending(n, k)', NEW r \in 1..2
          PROVE  delivered'[k][r] <= (IF r < mailer'[n].next THEN 1 ELSE 0)
      <4>1. delivered[k][r] <= (IF r < mailer[n].next THEN 1 ELSE 0)
        BY <1>t, <2>3, <3>2, <3>5 DEF DeliveredSoFar
      <4>2. delivered[k][r] \in 0..2 /\ delivered'[k][r] = delivered[k][r]
        BY <1>t, <2>1
      <4>3. QED
        BY <3>3, <4>1, <4>2
    <3>6. ASSUME NEW k \in Emails, clean'[k], CondOf[k] \notin cond',
                 \A n \in Mailers : ~Sending(n, k)', NEW r \in 1..2
          PROVE  delivered'[k][r] = 0
      BY <1>t, <2>1, <2>3, <3>2, <3>6 DEF DeliveredSoFar
    <3>7. DeliveredSoFar'
      BY <3>5, <3>6 DEF DeliveredSoFar, Sending
    <3>8. QED
      BY <3>4, <3>7
  <2>4. QED
    BY <1>4, <2>2, <2>3 DEF SendFails
<1>5. ASSUME NEW m \in Mailers, MarkMail(m) PROVE Goal
  <2>1. /\ mailer[m].pc = "marking" /\ mailer' = [mailer EXCEPT ![m].pc = "ending"]
        /\ UNCHANGED <<delivered, clean>> /\ mailer[m].kind \in Emails /\ cond \subseteq cond'
        /\ mailer[m].run => CondOf[mailer[m].kind] \in cond'
    BY <1>t, <1>5 DEF MarkMail, stored, JobsWellFormed
  <2>2. QED
    BY <1>t, <2>1, QuietStep DEF Sending
<1>6. ASSUME NEW m \in Mailers, MarkFails(m) PROVE Goal
  <2>1. \A k \in Emails : clean'[k] => clean[k] /\ k # mailer[m].kind
    BY <1>t, <1>6 DEF MarkFails
  <2>2. QED
    BY <1>t, <1>6, <2>1, QuietStep DEF MarkFails, stored, Sending
<1>7. ASSUME NEW m \in Mailers, EndMail(m) PROVE Goal
  BY <1>t, <1>7, QuietStep DEF EndMail, stored, Sending, Idle
<1>8. ASSUME UNCHANGED <<mailer, delivered, clean>>, cond \subseteq cond' PROVE Goal
  BY <1>t, <1>8, QuietStep DEF Sending
<1>9. ASSUME NEW g \in RoomGens,
             RoomGenStart(g) \/ RoomGenCheck(g) \/ RoomGenWrite(g) \/ RoomGenEnd(g)
      PROVE  Goal
  BY <1>8, <1>9 DEF RoomGenStart, RoomGenCheck, RoomGenWrite, RoomGenEnd, stored
<1>10. ASSUME NEW g \in InvigRuns, InvigRunStart(g) \/ InvigRunWrite(g) \/ InvigRunEnd(g)
       PROVE  Goal
  BY <1>8, <1>10 DEF InvigRunStart, InvigRunWrite, InvigRunEnd, stored
<1>11. ASSUME NEW p \in Planners, NEW op, NEW c, AdmitPlanner(p, op, c) PROVE Goal
  BY <1>8, <1>11 DEF AdmitPlanner, stored
<1>12. ASSUME NEW p \in Planners, SetCondition(p) \/ ResetCheck(p) \/ ResetDrop(p) PROVE Goal
  BY <1>8, <1>12 DEF SetCondition, ResetCheck, ResetDrop, stored
<1>13. ASSUME NEW p \in Planners, ClearCondition(p) PROVE Goal
  <2> DEFINE c == planner[p].cond
  <2>1. UNCHANGED mailer /\ cond' = cond \ {c}
    BY <1>13 DEF ClearCondition
  <2>2. \A k \in Emails : CondOf[k] = c => \A r \in 1..2 : delivered'[k][r] = 0
    BY <1>13, TwoRecipients DEF ClearCondition
  <2>3. \A k \in Emails : CondOf[k] # c => clean'[k] = clean[k] /\ delivered'[k] = delivered[k]
    BY <1>13 DEF ClearCondition
  <2>4. \A n \in Mailers, k \in Emails : Sending(n, k)' <=> Sending(n, k)
    BY <2>1 DEF Sending
  <2> HIDE DEF c
  <2>5. SendOnce'
    BY <1>t, <2>2, <2>3, TwoRecipients DEF SendOnce
  <2>6. ASSUME NEW k \in Emails, clean'[k], NEW n \in Mailers, Sending(n, k)', NEW r \in 1..2
        PROVE  delivered'[k][r] <= (IF r < mailer'[n].next THEN 1 ELSE 0)
    BY <1>t, <2>1, <2>2, <2>3, <2>4, <2>6 DEF DeliveredSoFar
  <2>7. ASSUME NEW k \in Emails, clean'[k], CondOf[k] \notin cond',
               \A n \in Mailers : ~Sending(n, k)', NEW r \in 1..2
        PROVE  delivered'[k][r] = 0
    BY <1>t, <2>1, <2>2, <2>3, <2>4, <2>7 DEF DeliveredSoFar
  <2>8. DeliveredSoFar'
    BY <2>6, <2>7 DEF DeliveredSoFar, Sending
  <2>9. QED
    BY <2>5, <2>8
<1>14. CASE PublicationRestart
  <2>1. \A k \in Emails : clean'[k] => clean[k] /\ \A m \in Mailers : ~Sending(m, k)
    BY <1>t, <1>14 DEF PublicationRestart, Sending
  <2>2. \A k \in Emails, m \in Mailers : ~Sending(m, k)'
    BY <1>14 DEF PublicationRestart, Sending, Idle
  <2>3. QED
    BY <1>t, <1>14, <2>1, <2>2, QuietStep DEF PublicationRestart, stored, Idle
<1>15. CASE UNCHANGED publicationVars
  BY <1>8, <1>15 DEF publicationVars
<1>16. QED
  BY <1>1, <1>2, <1>3, <1>4, <1>5, <1>6, <1>7, <1>9, <1>10, <1>11, <1>12, <1>13, <1>14, <1>15 DEF PublicationNext

-----------------------------------------------------------------------------
\* The parts together are an inductive invariant of publishing.
THEOREM PublicationInvariant == PublicationSpec => []PublicationInv
<1>1. PublicationInv /\ [PublicationNext]_publicationVars => PublicationInv'
  BY TypeStep, HolderStep, CollectorStep, DeliveredStep, RoomStep DEF PublicationInv
<1>2. QED
  BY PublicationInvInit, <1>1, PTL DEF PublicationSpec

\* Conditions, jobs and counts keep their types; what a real run has set is
\* among the conditions that are set.
THEOREM PublicationTypeCorrect == PublicationSpec => []PublicationTypeOK
<1>1. PublicationInv => PublicationTypeOK
  BY DEF PublicationInv
<1>2. QED
  BY <1>1, PublicationInvariant, PTL

\* A send-once email reaches each recipient at most once between two clears of
\* its condition unless a real run was cut short, however many clients send
\* (planstate.go, email_published_rooms.go).
THEOREM SendsOnce == PublicationSpec => []SendOnce
<1>1. PublicationInv => SendOnce
  BY DEF PublicationInv
<1>2. QED
  BY <1>1, PublicationInvariant, PTL

\* The collector holds the mails of the one dry run in progress and nobody
\* else's (sender.go, exclusive_op.go).
THEOREM CollectorIsOwned == PublicationSpec => []CollectorOwned
<1>1. PublicationInv => CollectorOwned
  BY DEF PublicationInv, CollectorOpened, CollectorOwned
<1>2. QED
  BY <1>1, PublicationInvariant, PTL

\* No room plan is generated or written after an email run has published it
\* (roomplan_build.go, room.resolvers.go).
THEOREM RoomsLocked == PublicationSpec => []RoomGenerationLocked
<1>1. PublicationInv => RoomGenerationLocked
  BY DEF PublicationInv
<1>2. QED
  BY <1>1, PublicationInvariant, PTL
=============================================================================
