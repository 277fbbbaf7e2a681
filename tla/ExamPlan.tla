------------------------------ MODULE ExamPlan ------------------------------
(***************************************************************************)
(* The exam plan: the collection "plan" (db/plan.go), the mutations that    *)
(* place, pin, freeze and reset entries (plexams/plan.go, preplan_*.go) and *)
(* the two-phase generator (plexams/examplan_build.go).                     *)
(*                                                                         *)
(* A plan entry is a document; nothing in the database makes the ancode     *)
(* unique.  Placing an exam is a DeleteMany followed by an InsertOne, so    *)
(* every writer is modelled as a job of single database writes.  Phase "A"  *)
(* schedules the EXaHM/SEB exams only, phase "B" everything that is left.   *)
(***************************************************************************)
EXTENDS Naturals, FiniteSets

CONSTANTS Ordinary,   \* own exams, neither EXaHM nor SEB
          Exahm,      \* own EXaHM/SEB exams
          Foreign,    \* exams of other faculties (not planned by me, external)
          NoRegs,     \* exams without registrations
          Slots,
          Gens,       \* slots running the generator
          Planners,   \* slots running mutations
          None

Exams == Ordinary \cup Exahm \cup Foreign
Writers == Gens \cup Planners

ASSUME ExamsAssumption ==
    /\ Ordinary \cap Exahm = {} /\ (Ordinary \cup Exahm) \cap Foreign = {}
    /\ NoRegs \subseteq Exams /\ None \notin Exams \cup Slots
ASSUME WritersAssumption ==
    IsFiniteSet(Gens) /\ IsFiniteSet(Planners) /\ Gens \cap Planners = {}

VARIABLES
    plan,       \* [Exams -> set of documents]; by (the inserting writer) tells equal ones apart
    cond,       \* planning conditions that are set
    job,        \* [Writers -> what the writer still has to do]
    disturbed   \* [Gens -> another writer changed the plan since this run's build]

vars == <<plan, cond, job, disturbed>>

Doc == [by : Writers, start : Slots, locked : BOOLEAN, external : BOOLEAN, phaseFixed : BOOLEAN]
Conds == {"exahmSebPlanned", "exahmSebFixed", "examScheduleGenerated", "draftSent"}
ExamsGate == "draftSent"
NoTarget == [a \in Exams |-> None]

\* kind: what the writer runs; todo: exams not written yet; pending: deleted,
\* to be inserted again; target: the new slots, None for "drop the entry";
\* locked and external: the flags of the documents it inserts.
Rest == [kind |-> "rest", todo |-> {}, pending |-> None, target |-> NoTarget,
         locked |-> FALSE, external |-> FALSE]
Kinds == {"rest", "solveA", "solveB", "generateA", "generateB", "place", "drop",
          "freeze", "unfreeze", "reset"}

TypeOK ==
    /\ plan \in [Exams -> SUBSET Doc]
    /\ cond \subseteq Conds
    /\ job \in [Writers -> [kind : Kinds, todo : SUBSET Exams, pending : Exams \cup {None},
                            target : [Exams -> Slots \cup {None}],
                            locked : BOOLEAN, external : BOOLEAN]]
    /\ disturbed \in [Gens -> BOOLEAN]

Init ==
    /\ plan = [a \in Exams |-> {}]
    /\ cond = {}
    /\ job = [w \in Writers |-> Rest]
    /\ disturbed = [g \in Gens |-> FALSE]

\* Ghost: w changes the plan under every other run that has read it.
Disturb(w) ==
    disturbed' = [g \in Gens |-> disturbed[g] \/ (g # w /\ job[g].kind # "rest")]

\* Ghost: w's operation is over.
Settle(w) == disturbed' = [g \in Gens |-> disturbed[g] /\ g # w]

Start(w, j) == job[w] = Rest /\ job' = [job EXCEPT ![w] = j]

-----------------------------------------------------------------------------
\* planEntry of an exam as a reader sees it: one of its documents.  A reader
\* that finds several keeps whichever the cursor returns last.
Seen(s) ==
    /\ DOMAIN s = Exams
    /\ \A a \in Exams : s[a] \in plan[a] \cup {None} /\ (s[a] = None <=> plan[a] = {})

\* buildExamPlanProblem: which entries are fixed in a phase.
FixedEntry(pe, phase) ==
    pe # None /\ (pe.external \/ pe.locked \/ (phase = "B" /\ pe.phaseFixed))

\* Mutant: phase B takes the frozen exams for movable ones.
MovableIgnoringFreeze(s, phase) ==
    {a \in Exams \ (Foreign \cup NoRegs) :
        ~FixedEntry(s[a], "A") /\ (phase = "A" => a \in Exahm)}

\* buildExamPlanProblem: the exams the solver places.
Movable(s, phase) ==
    {a \in Exams \ (Foreign \cup NoRegs) :
        ~FixedEntry(s[a], phase) /\ (phase = "A" => a \in Exahm)}

\* GenerateExamSchedule, GenerateExamRoomsPhase: the build reads the plan once.
Build(g, phase) ==
    /\ job[g] = Rest
    /\ \E s \in [Exams -> UNION {plan[a] : a \in Exams} \cup {None}] :
          /\ Seen(s)
          /\ Start(g, [Rest EXCEPT !.kind = IF phase = "A" THEN "solveA" ELSE "solveB",
                                   !.todo = Movable(s, phase)])
    /\ disturbed' = [disturbed EXCEPT ![g] = FALSE]
    /\ UNCHANGED <<plan, cond>>

\* The solver returns a slot, or none, for every movable exam; the run writes
\* when it is no dry run, the gate is open and no hard rule is broken.
Solve(g) ==
    /\ job[g].kind \in {"solveA", "solveB"}
    /\ ExamsGate \notin cond
    /\ \E t \in [job[g].todo -> Slots \cup {None}] :
          job' = [job EXCEPT ![g].kind = IF @ = "solveA" THEN "generateA" ELSE "generateB",
                             ![g].target = [a \in Exams |-> IF a \in job[g].todo THEN t[a] ELSE None]]
    /\ UNCHANGED <<plan, cond, disturbed>>

SolveStop(g) ==
    /\ job[g].kind \in {"solveA", "solveB"}
    /\ job' = [job EXCEPT ![g] = Rest]
    /\ Settle(g)
    /\ UNCHANGED <<plan, cond>>

-----------------------------------------------------------------------------
\* The mutations, as jobs.  SetExamTime checks neither locks nor the gate.
SetExamTime(p, a, s) ==
    /\ Start(p, [Rest EXCEPT !.kind = "place", !.todo = {a}, !.target[a] = s])
    /\ UNCHANGED <<plan, cond, disturbed>>

\* AddExamToSlottime (setExternalExamTime): foreign exams only.
AddExamToSlottime(p, a, s) ==
    /\ a \in Foreign
    /\ Start(p, [Rest EXCEPT !.kind = "place", !.todo = {a}, !.target[a] = s, !.external = TRUE])
    /\ UNCHANGED <<plan, cond, disturbed>>

\* ConnectPreplanExamToAncode and SetPreplanExamFixed: a fixed pre-exam pins
\* its ancode with a locked entry; un-fixing and disconnecting drop it.
PinPreplanned(p, a, s) ==
    /\ a \in Exahm
    /\ Start(p, [Rest EXCEPT !.kind = "place", !.todo = {a}, !.target[a] = s, !.locked = TRUE])
    /\ UNCHANGED <<plan, cond, disturbed>>

\* Also ImportJointExams, for an external exam that left the imported file.
DropEntry(p, a) ==
    /\ a \in Exahm \cup Foreign
    /\ Start(p, [Rest EXCEPT !.kind = "drop", !.todo = {a}])
    /\ UNCHANGED <<plan, cond, disturbed>>

\* FixExamRoomsPhase reads which EXaHM/SEB exams have an entry.
FixExamRoomsPhase(p) ==
    /\ Start(p, [Rest EXCEPT !.kind = "freeze", !.todo = {a \in Exahm : plan[a] # {}}])
    /\ UNCHANGED <<plan, cond, disturbed>>

UnfixExamRoomsPhase(p) ==
    /\ Start(p, [Rest EXCEPT !.kind = "unfreeze"])
    /\ plan' = [a \in Exams |-> {[d EXCEPT !.phaseFixed = FALSE] : d \in plan[a]}]
    /\ Disturb(p)
    /\ UNCHANGED cond

\* ResetExamSchedule: the gate, then one DeleteMany.
ResetExamSchedule(p) ==
    /\ ExamsGate \notin cond
    /\ Start(p, [Rest EXCEPT !.kind = "reset"])
    /\ UNCHANGED <<plan, cond, disturbed>>

ResetGeneratedPlanEntries(p) ==
    /\ job[p].kind = "reset" /\ job[p].todo = {}
    /\ plan' = [a \in Exams |-> {d \in plan[a] : d.external \/ d.locked \/ d.phaseFixed}]
    /\ cond' = cond \ {"examScheduleGenerated"}
    /\ job' = [job EXCEPT ![p] = Rest]
    /\ Disturb(p)

\* The draft email goes out, or the planner sets or clears its condition.
SetGate == cond' = cond \cup {ExamsGate} /\ UNCHANGED <<plan, job, disturbed>>
ClearGate == cond' = cond \ {ExamsGate} /\ UNCHANGED <<plan, job, disturbed>>

-----------------------------------------------------------------------------
Placing(w) == job[w].kind \in {"place", "generateA", "generateB"} /\ job[w].pending = None

\* Mutants of AddExamToSlot's two writes: an insert without the delete before
\* it, a forgotten insert.
InsertWithoutDelete(w, a) ==
    /\ Placing(w) /\ a \in job[w].todo /\ job[w].target[a] # None
    /\ job' = [job EXCEPT ![w].todo = @ \ {a}, ![w].pending = a]
    /\ Disturb(w)
    /\ UNCHANGED <<plan, cond>>
InsertForgotten(w) ==
    /\ job[w].pending # None
    /\ job' = [job EXCEPT ![w].pending = None]
    /\ Disturb(w)
    /\ UNCHANGED <<plan, cond>>

\* db.AddExamToSlot: DeleteMany on the ancode, then InsertOne.
DeleteEntries(w, a) ==
    /\ Placing(w) /\ a \in job[w].todo /\ job[w].target[a] # None
    /\ plan' = [plan EXCEPT ![a] = {}]
    /\ job' = [job EXCEPT ![w].todo = @ \ {a}, ![w].pending = a]
    /\ Disturb(w)
    /\ UNCHANGED cond

InsertEntry(w) ==
    LET a == job[w].pending IN
    /\ a # None
    /\ plan' = [plan EXCEPT ![a] = @ \cup
                  {[by |-> w, start |-> job[w].target[a], locked |-> job[w].locked,
                    external |-> job[w].external, phaseFixed |-> FALSE]}]
    /\ job' = [job EXCEPT ![w].pending = None]
    /\ Disturb(w)
    /\ UNCHANGED cond

\* db.RemovePlanEntry; every caller but the import logs an error and goes on.
RemovePlanEntry(w, a) ==
    /\ Placing(w) \/ job[w].kind = "drop"
    /\ a \in job[w].todo /\ job[w].target[a] = None
    /\ job' = [job EXCEPT ![w].todo = @ \ {a}]
    /\ \/ plan' = [plan EXCEPT ![a] = {}] /\ Disturb(w)
       \/ UNCHANGED <<plan, disturbed>>
    /\ UNCHANGED cond

\* db.SetPhaseFixed: an UpdateOne, so one document of the exam, if it still has any.
SetPhaseFixed(p, a) ==
    /\ job[p].kind = "freeze" /\ a \in job[p].todo
    /\ \/ plan[a] = {} /\ UNCHANGED plan
       \/ \E d \in plan[a] :
             plan' = [plan EXCEPT ![a] = (@ \ {d}) \cup {[d EXCEPT !.phaseFixed = TRUE]}]
    /\ job' = [job EXCEPT ![p].todo = @ \ {a}]
    /\ Disturb(p)
    /\ UNCHANGED cond

\* A delete, insert or update fails: the operation returns the error at once.
WriteFails(w) ==
    /\ job[w].kind \in {"place", "generateA", "generateB", "freeze"}
    /\ job[w].todo # {} \/ job[w].pending # None
    /\ job' = [job EXCEPT ![w] = Rest]
    /\ Settle(w)
    /\ UNCHANGED <<plan, cond>>

\* All writes done: the condition is marked (or, after unfreezing, unmarked).
Finish(w) ==
    /\ job[w].kind \in {"place", "drop", "generateA", "generateB", "freeze", "unfreeze"}
    /\ job[w].todo = {} /\ job[w].pending = None
    /\ cond' = CASE job[w].kind = "generateA" -> cond \cup {"exahmSebPlanned"}
                 [] job[w].kind = "generateB" -> cond \cup {"examScheduleGenerated"}
                 [] job[w].kind = "freeze"    -> cond \cup {"exahmSebFixed"}
                 [] job[w].kind = "unfreeze"  -> cond \ {"exahmSebFixed"}
                 [] OTHER                     -> cond
    /\ job' = [job EXCEPT ![w] = Rest]
    /\ Settle(w)
    /\ UNCHANGED plan

\* The server stops between two writes and is started again.
Restart ==
    /\ job' = [w \in Writers |-> Rest]
    /\ disturbed' = [g \in Gens |-> FALSE]
    /\ UNCHANGED <<plan, cond>>

Mutation(p) ==
    \/ \E a \in Exams, s \in Slots :
          SetExamTime(p, a, s) \/ AddExamToSlottime(p, a, s) \/ PinPreplanned(p, a, s)
    \/ \E a \in Exams : DropEntry(p, a) \/ SetPhaseFixed(p, a)
    \/ FixExamRoomsPhase(p) \/ UnfixExamRoomsPhase(p)
    \/ ResetExamSchedule(p) \/ ResetGeneratedPlanEntries(p)

Generation(g) ==
    \/ \E phase \in {"A", "B"} : Build(g, phase)
    \/ Solve(g) \/ SolveStop(g)

Write(w) ==
    \/ \E a \in Exams : DeleteEntries(w, a) \/ RemovePlanEntry(w, a)
    \/ InsertEntry(w) \/ WriteFails(w) \/ Finish(w)

Next ==
    \/ \E p \in Planners : Mutation(p)
    \/ \E g \in Gens : Generation(g)
    \/ \E w \in Writers : Write(w)
    \/ SetGate \/ ClearGate \/ Restart

Spec == Init /\ [][Next]_vars

-----------------------------------------------------------------------------
\* Nothing in the database keeps an ancode unique, but AddExamToSlot deletes
\* before it inserts: an exam never has more documents than there are writers
\* running at once, in particular one only when writers do not overlap, even
\* across failed writes and restarts (db/plan.go:22).
EntriesBounded == \A a \in Exams : Cardinality(plan[a]) <= Cardinality(Writers)

\* The step is one of writer w, which has not been disturbed since its build.
StepOfUndisturbed(w, kinds) ==
    /\ w \in Gens /\ job'[w] # job[w] /\ job[w].kind \in kinds /\ ~disturbed[w]

\* No document of a says after the step what d said before it.
Gone(a, d) == ~\E e \in plan'[a] : e.start = d.start /\ e.locked = d.locked /\ e.external = d.external

\* examplan_build.go:836 and db/plan.go:308: as long as nobody else writes
\* between its build and its last write, the generator takes a document away
\* only from an exam that has one it may move: no locked or external one and, in
\* phase B, no frozen one.  So an exam all of whose documents are fixed keeps
\* them; an exam that earlier overlapping writers left with a fixed document and
\* a movable one may lose both, although locked and external entries are said to
\* stay untouched (examplan_build.go:838).  Phase A leaves the ordinary
\* exams alone.  Freezing, unfreezing and the reset remove no locked or external
\* entry at all.
FixedEntriesKept ==
    [][\A a \in Exams : \A d \in plan[a] : Gone(a, d) =>
          /\ d.locked \/ d.external =>
                \E w \in Writers : job'[w] # job[w] /\ job[w].kind \in {"place", "drop", "generateA", "generateB"}
          /\ \A g \in Gens :
                /\ StepOfUndisturbed(g, {"generateA"}) => a \in Exahm /\ \E e \in plan[a] : ~FixedEntry(e, "A")
                /\ StepOfUndisturbed(g, {"generateB"}) => \E e \in plan[a] : ~FixedEntry(e, "B")]_vars

\* runExamGeneration's write loop is not atomic, yet an undisturbed run that
\* reaches the mark of its condition has written every placed exam: exactly
\* one entry each, at the solver's slot.
GeneratedAsSolved ==
    \A g \in Gens, a \in Exams :
        /\ job[g].kind \in {"generateA", "generateB"} /\ ~disturbed[g]
        /\ job[g].target[a] # None /\ a \notin job[g].todo /\ a # job[g].pending
        => \E d \in plan[a] : plan[a] = {d} /\ d.start = job[g].target[a]
=============================================================================
