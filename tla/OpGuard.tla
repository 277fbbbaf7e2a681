------------------------------- MODULE OpGuard -------------------------------
(***************************************************************************)
(* The server's long-running operations around the guard:                   *)
(*                                                                         *)
(*   Validators  validate* subscriptions      (graph/validation_run.go)      *)
(*   Exclusives  ZPA/Anny transfers, emails, room generation                *)
(*               (graph/exclusive_op.go, graph/room.resolvers.go)            *)
(*   Syncs       scheduled and triggered syncs (plexams/autosync.go)         *)
(*   Writers     mutations and uploads         (graph/server.go)             *)
(*   InvigGens   assignInvigilations (plexams/invigilation_generate.go)      *)
(*   ExamGens    generateExamSchedule / generateExamRoomsPhase               *)
(*                                             (plexams/examplan_build.go)    *)
(*                                                                         *)
(* Each element is one client slot, which issues its operation any number   *)
(* of times.  pc says where its current operation is; "writing" is the      *)
(* stretch in which it changes the database.                                *)
(***************************************************************************)
EXTENDS Guard, FiniteSets

CONSTANTS Validators, Exclusives, Syncs, Writers, InvigGens, ExamGens,
          exclusiveOpRetries  \* 5 in the code (autosync.go:24)

Holders == Exclusives \cup Syncs
Ops == Validators \cup Holders \cup Writers \cup InvigGens \cup ExamGens

ASSUME FiniteAssumption ==
    IsFiniteSet(Validators) /\ IsFiniteSet(Exclusives) /\ IsFiniteSet(Syncs)
ASSUME DisjointAssumption ==
    /\ Validators \cap (Holders \cup Writers \cup InvigGens \cup ExamGens) = {}
    /\ Holders \cap (Writers \cup InvigGens \cup ExamGens) = {}
    /\ Exclusives \cap Syncs = {}
    /\ Writers \cap (InvigGens \cup ExamGens) = {}
    /\ InvigGens \cap ExamGens = {}
ASSUME RetriesAssumption == exclusiveOpRetries \in Nat

VARIABLES pc,     \* [Ops -> where the slot's operation is]
          tries   \* [Syncs -> retries left of acquireExclusiveOp]

opVars == <<validations, exclusiveOps, pc, tries>>

Places == {"idle", "waiting", "running", "refreshing", "solving", "writing"}

OpTypeOK ==
    /\ GuardTypeOK
    /\ pc \in [Ops -> Places]
    /\ tries \in [Syncs -> 0..exclusiveOpRetries]

OpInit ==
    /\ GuardInit
    /\ pc = [o \in Ops |-> "idle"]
    /\ tries = [s \in Syncs |-> 0]

Goto(o, from, to) == pc[o] = from /\ pc' = [pc EXCEPT ![o] = to]

-----------------------------------------------------------------------------
\* runValidation: TryBeginValidation before the goroutine starts, a deferred
\* EndValidation when it returns, with or without an error.
StartValidation(v) ==
    /\ Goto(v, "idle", "running")
    /\ BeginValidation
    /\ UNCHANGED tries

FinishValidation(v) ==
    /\ Goto(v, "running", "idle")
    /\ EndValidation
    /\ UNCHANGED tries

\* runExclusiveOp, runEmailOp and AssignRoomsForExams.
StartExclusiveOp(e) ==
    /\ Goto(e, "idle", "running")
    /\ BeginExclusiveOp
    /\ UNCHANGED tries

FinishExclusiveOp(e) ==
    /\ Goto(e, "running", "idle")
    /\ EndExclusiveOp
    /\ UNCHANGED tries

-----------------------------------------------------------------------------
\* RunScheduledSync: acquireExclusiveOp tries once, then waits and retries up
\* to exclusiveOpRetries times.  Giving up, or a cancelled context (Shutdown),
\* skips the run: the guard is not touched.

\* Mutant: the retries are not counted.
SyncRetryUncounted(s) ==
    \/ /\ Goto(s, "waiting", "running")
       /\ BeginExclusiveOp
       /\ UNCHANGED tries
    \/ /\ ~MayBeginExclusiveOp
       /\ pc[s] = "waiting"
       /\ UNCHANGED opVars

SyncStart(s) ==
    \/ /\ Goto(s, "idle", "running")
       /\ BeginExclusiveOp
       /\ UNCHANGED tries
    \/ /\ ~MayBeginExclusiveOp
       /\ Goto(s, "idle", "waiting")
       /\ tries' = [tries EXCEPT ![s] = exclusiveOpRetries]
       /\ UNCHANGED gvars

SyncRetry(s) ==
    /\ tries[s] > 0
    /\ tries' = [tries EXCEPT ![s] = @ - 1]
    /\ \/ /\ Goto(s, "waiting", "running")
          /\ BeginExclusiveOp
       \/ /\ ~MayBeginExclusiveOp
          /\ pc[s] = "waiting"
          /\ UNCHANGED <<gvars, pc>>

SyncGiveUp(s) ==
    /\ tries[s] = 0
    /\ Goto(s, "waiting", "idle")
    /\ UNCHANGED <<gvars, tries>>

SyncCancelled(s) ==
    /\ Goto(s, "waiting", "idle")
    /\ tries' = [tries EXCEPT ![s] = 0]
    /\ UNCHANGED gvars

SyncFinish(s) ==
    /\ Goto(s, "running", "idle")
    /\ EndExclusiveOp
    /\ tries' = [tries EXCEPT ![s] = 0]

-----------------------------------------------------------------------------
\* AroundOperations: a mutation is admitted when WritesAllowed answers true,
\* then its resolver runs and writes.  Uploads and SwitchSemester do the same.
AdmitWrite(w) ==
    /\ WritesAllowed
    /\ Goto(w, "idle", "writing")
    /\ UNCHANGED <<gvars, tries>>

FinishWrite(w) ==
    /\ Goto(w, "writing", "idle")
    /\ UNCHANGED <<gvars, tries>>

\* AssignInvigilations is a subscription: the server does not ask the guard.
\* It refreshes self-invigilations and todos in the database at once, solves,
\* and asks WritesAllowed only before it replaces invigilations_other.
InvigGenStart(g) ==
    /\ Goto(g, "idle", "refreshing")
    /\ UNCHANGED <<gvars, tries>>

InvigGenSolve(g) ==
    /\ Goto(g, "refreshing", "solving")
    /\ UNCHANGED <<gvars, tries>>

InvigGenWrite(g) ==
    /\ WritesAllowed
    /\ Goto(g, "solving", "writing")
    /\ UNCHANGED <<gvars, tries>>

\* A dry run ends here, and so does a run the guard refuses.
InvigGenStop(g) ==
    /\ Goto(g, "solving", "idle")
    /\ UNCHANGED <<gvars, tries>>

\* runExamGeneration never asks the guard.
ExamGenStart(g) ==
    /\ Goto(g, "idle", "solving")
    /\ UNCHANGED <<gvars, tries>>

ExamGenWrite(g) ==
    /\ Goto(g, "solving", "writing")
    /\ UNCHANGED <<gvars, tries>>

ExamGenStop(g) ==
    /\ Goto(g, "solving", "idle")
    /\ UNCHANGED <<gvars, tries>>

\* A panic in an operation's goroutine is not recovered: the process ends and
\* is restarted, with nothing running and an empty guard.
OpRestart ==
    /\ GuardReset
    /\ pc' = [o \in Ops |-> "idle"]
    /\ tries' = [s \in Syncs |-> 0]

OpNext ==
    \/ \E v \in Validators : StartValidation(v) \/ FinishValidation(v)
    \/ \E e \in Exclusives : StartExclusiveOp(e) \/ FinishExclusiveOp(e)
    \/ \E s \in Syncs : \/ SyncStart(s) \/ SyncRetry(s) \/ SyncGiveUp(s)
                        \/ SyncCancelled(s) \/ SyncFinish(s)
    \/ \E w \in Writers : AdmitWrite(w) \/ FinishWrite(w)
    \/ \E g \in InvigGens : \/ InvigGenStart(g) \/ InvigGenSolve(g)
                            \/ InvigGenWrite(g) \/ InvigGenStop(g) \/ FinishWrite(g)
    \/ \E g \in ExamGens : \/ ExamGenStart(g) \/ ExamGenWrite(g)
                           \/ ExamGenStop(g) \/ FinishWrite(g)
    \/ OpRestart

\* Goroutines make progress and timers expire; clients and crashes are the
\* environment and owe nothing.
Fairness ==
    /\ \A v \in Validators : WF_opVars(FinishValidation(v))
    /\ \A e \in Exclusives : WF_opVars(FinishExclusiveOp(e))
    /\ \A s \in Syncs : WF_opVars(SyncRetry(s) \/ SyncGiveUp(s)) /\ WF_opVars(SyncFinish(s))

OpSpec == OpInit /\ [][OpNext]_opVars
OpFairSpec == OpSpec /\ Fairness

-----------------------------------------------------------------------------
RunningValidations == {v \in Validators : pc[v] = "running"}
RunningHolders == {h \in Holders : pc[h] = "running"}

\* The counters say exactly what runs: no path through a refused, cancelled,
\* failed or retried operation leaks or loses a registration (guard.go and
\* every caller of Begin/End).
GuardCounts ==
    /\ validations = Cardinality(RunningValidations)
    /\ exclusiveOps = Cardinality(RunningHolders)

\* guard.go:8-13: an exclusive operation, the nightly sync included, runs alone:
\* no second one and no validation overlaps it.
ExclusiveAlone ==
    \A h \in RunningHolders : RunningHolders = {h} /\ RunningValidations = {}

\* guard.go:15: a mutation, and the invigilation generator's final write, is
\* let in only while no validation and no exclusive operation is running.
WriteAdmittedWhenQuiet ==
    [][\A w \in Writers \cup InvigGens :
          pc[w] # "writing" /\ pc'[w] = "writing"
             => RunningValidations = {} /\ RunningHolders = {}]_opVars

\* acquireExclusiveOp never waits for ever: a waiting sync gets the guard or
\* ends as skipped, however the other operations come and go.
SyncAnswered ==
    \A s \in Syncs : pc[s] = "waiting" ~> pc[s] # "waiting"

\* The counters implement the abstract exclusion of shared and exclusive
\* operations.
Abstract == INSTANCE Exclusion
    WITH Shared <- Validators, Exclusive <- Holders,
         running <- RunningValidations \cup RunningHolders
ImplementsExclusion == Abstract!Spec
=============================================================================
