--------------------------- MODULE ExamPlanProofs ---------------------------
(***************************************************************************)
(* Proofs about the writers of the exam plan, for any number of exams,      *)
(* slots, generators and clients: type correctness, and how many documents  *)
(* one exam can have although no unique index protects its ancode, and that  *)
(* an undisturbed generation writes what was solved and keeps what is fixed. *)
(***************************************************************************)
EXTENDS ExamPlan, FiniteSetTheorems, TLAPS

Job == [kind : Kinds, todo : SUBSET Exams, pending : Exams \cup {None},
        target : [Exams -> Slots \cup {None}], locked : BOOLEAN, external : BOOLEAN]

\* A job between its delete and its insert knows the slot it will insert.
JobOK(j) ==
    /\ j \in Job
    /\ j.pending # None => /\ j.kind \in {"place", "generateA", "generateB"}
                           /\ j.target[j.pending] \in Slots

JobsOK == job \in [Writers -> Job] /\ \A w \in Writers : JobOK(job[w])
PlanOK == plan \in [Exams -> SUBSET Doc]

\* One document of an exam per writer, and none of a writer that is about to
\* insert one.
OneEach ==
    /\ \A a \in Exams : \A d, e \in plan[a] : d.by = e.by => d = e
    /\ \A w \in Writers : \A a \in Exams :
          job[w].pending = a => \A d \in plan[a] : d.by # w

IInv == JobsOK /\ PlanOK /\ OneEach

\* A writer's place in JobsOK may be taken by any job of the right shape.
LEMMA OneJob ==
  ASSUME JobsOK, NEW w \in Writers, NEW j, JobOK(j), job' = [job EXCEPT ![w] = j]
  PROVE  JobsOK'
BY DEF JobsOK, JobOK

\* A writer at rest has nothing to do.
LEMMA RestOK == JobOK(Rest)
BY DEF JobOK, Job, Rest, NoTarget, Kinds

\* Every operation starts from a writer at rest with a job of the right shape,
\* and every database write takes that job one step further.
LEMMA JobsStep == JobsOK /\ [Next]_vars => JobsOK'
<1> SUFFICES ASSUME JobsOK, [Next]_vars PROVE JobsOK'
  OBVIOUS
<1> USE ExamsAssumption DEF Start, Writers
<1>1. ASSUME NEW p \in Planners, NEW a \in Exams, NEW s \in Slots, SetExamTime(p, a, s)
      PROVE  JobsOK'
  <2> DEFINE j == [Rest EXCEPT !.kind = "place", !.todo = {a}, !.target[a] = s]
  <2>1. JobOK(j)
    BY DEF JobOK, Job, Rest, NoTarget, Kinds, Exams
  <2>2. job' = [job EXCEPT ![p] = j]
    BY <1>1 DEF SetExamTime
  <2> QED
    BY <2>1, <2>2, OneJob
<1>2. ASSUME NEW p \in Planners, NEW a \in Exams, NEW s \in Slots, AddExamToSlottime(p, a, s)
      PROVE  JobsOK'
  <2> DEFINE j == [Rest EXCEPT !.kind = "place", !.todo = {a}, !.target[a] = s, !.external = TRUE]
  <2>1. JobOK(j)
    BY DEF JobOK, Job, Rest, NoTarget, Kinds, Exams
  <2>2. job' = [job EXCEPT ![p] = j]
    BY <1>2 DEF AddExamToSlottime
  <2> QED
    BY <2>1, <2>2, OneJob
<1>3. ASSUME NEW p \in Planners, NEW a \in Exams, NEW s \in Slots, PinPreplanned(p, a, s)
      PROVE  JobsOK'
  <2> DEFINE j == [Rest EXCEPT !.kind = "place", !.todo = {a}, !.target[a] = s, !.locked = TRUE]
  <2>1. JobOK(j)
    BY DEF JobOK, Job, Rest, NoTarget, Kinds, Exams
  <2>2. job' = [job EXCEPT ![p] = j]
    BY <1>3 DEF PinPreplanned
  <2> QED
    BY <2>1, <2>2, OneJob
<1>4. ASSUME NEW p \in Planners, NEW a \in Exams, DropEntry(p, a)
      PROVE  JobsOK'
  <2> DEFINE j == [Rest EXCEPT !.kind = "drop", !.todo = {a}]
  <2>1. JobOK(j)
    BY DEF JobOK, Job, Rest, NoTarget, Kinds, Exams
  <2>2. job' = [job EXCEPT ![p] = j]
    BY <1>4 DEF DropEntry
  <2> QED
    BY <2>1, <2>2, OneJob
<1>5. ASSUME NEW p \in Planners, NEW a \in Exams, SetPhaseFixed(p, a)
      PROVE  JobsOK'
  <2> DEFINE j == [job[p] EXCEPT !.todo = @ \ {a}]
  <2>1. JobOK(j)
    BY <1>5 DEF SetPhaseFixed, JobsOK, JobOK, Job
  <2>2. job' = [job EXCEPT ![p] = j]
    BY <1>5 DEF SetPhaseFixed, JobsOK, Job
  <2> QED
    BY <2>1, <2>2, OneJob
<1>6. ASSUME NEW p \in Planners, FixExamRoomsPhase(p)
      PROVE  JobsOK'
  <2> DEFINE j == [Rest EXCEPT !.kind = "freeze", !.todo = {a \in Exahm : plan[a] # {}}]
  <2>1. JobOK(j)
    BY DEF JobOK, Job, Rest, NoTarget, Kinds, Exams
  <2>2. job' = [job EXCEPT ![p] = j]
    BY <1>6 DEF FixExamRoomsPhase
  <2> QED
    BY <2>1, <2>2, OneJob
<1>7. ASSUME NEW p \in Planners, UnfixExamRoomsPhase(p)
      PROVE  JobsOK'
  <2> DEFINE j == [Rest EXCEPT !.kind = "unfreeze"]
  <2>1. JobOK(j)
    BY DEF JobOK, Job, Rest, NoTarget, Kinds, Exams
  <2>2. job' = [job EXCEPT ![p] = j]
    BY <1>7 DEF UnfixExamRoomsPhase
  <2> QED
    BY <2>1, <2>2, OneJob
<1>8. ASSUME NEW p \in Planners, ResetExamSchedule(p)
      PROVE  JobsOK'
  <2> DEFINE j == [Rest EXCEPT !.kind = "reset"]
  <2>1. JobOK(j)
    BY DEF JobOK, Job, Rest, NoTarget, Kinds, Exams
  <2>2. job' = [job EXCEPT ![p] = j]
    BY <1>8 DEF ResetExamSchedule
  <2> QED
    BY <2>1, <2>2, OneJob
<1>9. ASSUME NEW p \in Planners, ResetGeneratedPlanEntries(p)
      PROVE  JobsOK'
  BY <1>9, OneJob, RestOK DEF ResetGeneratedPlanEntries
<1>10. ASSUME NEW g \in Gens, NEW phase \in {"A", "B"}, Build(g, phase)
       PROVE  JobsOK'
  <2> DEFINE k == IF phase = "A" THEN "solveA" ELSE "solveB"
  <2>1. PICK m \in SUBSET Exams : job' = [job EXCEPT ![g] = [Rest EXCEPT !.kind = k, !.todo = m]]
    BY <1>10 DEF Build, Movable
  <2>2. JobOK([Rest EXCEPT !.kind = k, !.todo = m])
    BY DEF JobOK, Job, Rest, NoTarget, Kinds
  <2> QED
    BY <2>1, <2>2, OneJob
<1>11. ASSUME NEW g \in Gens, Solve(g)
       PROVE  JobsOK'
  <2> DEFINE k == IF job[g].kind = "solveA" THEN "generateA" ELSE "generateB"
  <2>1. PICK f \in [Exams -> Slots \cup {None}] :
            job' = [job EXCEPT ![g] = [job[g] EXCEPT !.kind = k, !.target = f]]
    <3>1. PICK t \in [job[g].todo -> Slots \cup {None}] :
             job' = [job EXCEPT ![g].kind = IF @ = "solveA" THEN "generateA" ELSE "generateB",
                                ![g].target = [a \in Exams |-> IF a \in job[g].todo THEN t[a] ELSE None]]
      BY <1>11 DEF Solve
    <3> DEFINE f == [a \in Exams |-> IF a \in job[g].todo THEN t[a] ELSE None]
    <3>2. f \in [Exams -> Slots \cup {None}]
      OBVIOUS
    <3> QED
      BY <3>1, <3>2 DEF JobsOK, Job
  <2>2. JobOK([job[g] EXCEPT !.kind = k, !.target = f])
    BY <1>11, <2>1 DEF Solve, JobsOK, JobOK, Job, Kinds
  <2> QED
    BY <2>1, <2>2, OneJob
<1>12. ASSUME NEW g \in Gens, SolveStop(g)
       PROVE  JobsOK'
  BY <1>12, OneJob, RestOK DEF SolveStop
<1>13. ASSUME NEW w \in Writers, NEW a \in Exams, DeleteEntries(w, a)
       PROVE  JobsOK'
  <2> DEFINE j == [job[w] EXCEPT !.todo = @ \ {a}, !.pending = a]
  <2>1. JobOK(j)
    BY <1>13 DEF DeleteEntries, Placing, JobsOK, JobOK, Job
  <2>2. job' = [job EXCEPT ![w] = j]
    BY <1>13 DEF DeleteEntries, JobsOK, Job
  <2> QED
    BY <2>1, <2>2, OneJob
<1>14. ASSUME NEW w \in Writers, NEW a \in Exams, RemovePlanEntry(w, a)
       PROVE  JobsOK'
  <2> DEFINE j == [job[w] EXCEPT !.todo = @ \ {a}]
  <2>1. JobOK(j)
    BY <1>14 DEF RemovePlanEntry, Placing, JobsOK, JobOK, Job
  <2>2. job' = [job EXCEPT ![w] = j]
    BY <1>14 DEF RemovePlanEntry, JobsOK, Job
  <2> QED
    BY <2>1, <2>2, OneJob
<1>15. ASSUME NEW w \in Writers, InsertEntry(w)
       PROVE  JobsOK'
  <2> DEFINE j == [job[w] EXCEPT !.pending = None]
  <2>1. JobOK(j)
    BY <1>15 DEF InsertEntry, JobsOK, JobOK, Job
  <2>2. job' = [job EXCEPT ![w] = j]
    BY <1>15 DEF InsertEntry, JobsOK, Job
  <2> QED
    BY <2>1, <2>2, OneJob
<1>16. ASSUME NEW w \in Writers, WriteFails(w)
       PROVE  JobsOK'
  BY <1>16, OneJob, RestOK DEF WriteFails
<1>17. ASSUME NEW w \in Writers, Finish(w)
       PROVE  JobsOK'
  BY <1>17, OneJob, RestOK DEF Finish
<1>18. CASE SetGate \/ ClearGate
  BY <1>18 DEF SetGate, ClearGate, JobsOK, JobOK
<1>19. CASE Restart
  BY <1>19, RestOK DEF Restart, JobsOK, JobOK
<1>20. CASE UNCHANGED vars
  BY <1>20 DEF vars, JobsOK, JobOK
<1> QED
  BY <1>1, <1>2, <1>3, <1>4, <1>5, <1>6, <1>7, <1>8, <1>9, <1>10,
     <1>11, <1>12, <1>13, <1>14, <1>15, <1>16, <1>17, <1>18, <1>19, <1>20
     DEF Next, Mutation, Generation, Write

-----------------------------------------------------------------------------
\* Freezing or unfreezing a document changes nothing else about it.
LEMMA Refreeze ==
  ASSUME NEW d \in Doc, NEW b \in BOOLEAN
  PROVE  [d EXCEPT !.phaseFixed = b] \in Doc /\ [d EXCEPT !.phaseFixed = b].by = d.by
BY DEF Doc

\* The plan only ever holds well-formed documents: an insert comes after a delete
\* of the same job, which had a slot for the exam.
LEMMA PlanStep == JobsOK /\ PlanOK /\ [Next]_vars => PlanOK'
<1> SUFFICES ASSUME JobsOK, PlanOK, [Next]_vars PROVE PlanOK'
  OBVIOUS
<1> USE DEF PlanOK
<1>1. ASSUME NEW p \in Planners, NEW a \in Exams, NEW s \in Slots, SetExamTime(p, a, s)
      PROVE  PlanOK'
  BY <1>1 DEF SetExamTime
<1>2. ASSUME NEW p \in Planners, NEW a \in Exams, NEW s \in Slots, AddExamToSlottime(p, a, s)
      PROVE  PlanOK'
  BY <1>2 DEF AddExamToSlottime
<1>3. ASSUME NEW p \in Planners, NEW a \in Exams, NEW s \in Slots, PinPreplanned(p, a, s)
      PROVE  PlanOK'
  BY <1>3 DEF PinPreplanned
<1>4. ASSUME NEW p \in Planners, NEW a \in Exams, DropEntry(p, a)
      PROVE  PlanOK'
  BY <1>4 DEF DropEntry
<1>5. ASSUME NEW p \in Planners, NEW a \in Exams, SetPhaseFixed(p, a)
      PROVE  PlanOK'
  <2>1. \A d \in plan[a] : [d EXCEPT !.phaseFixed = TRUE] \in Doc
    BY Refreeze
  <2> QED
    BY <1>5, <2>1 DEF SetPhaseFixed
<1>6. ASSUME NEW p \in Planners, FixExamRoomsPhase(p)
      PROVE  PlanOK'
  BY <1>6 DEF FixExamRoomsPhase
<1>7. ASSUME NEW p \in Planners, UnfixExamRoomsPhase(p)
      PROVE  PlanOK'
  <2> SUFFICES ASSUME NEW a \in Exams, NEW d \in plan[a]
               PROVE  [d EXCEPT !.phaseFixed = FALSE] \in Doc
    BY <1>7 DEF UnfixExamRoomsPhase
  <2> QED
    BY Refreeze
<1>8. ASSUME NEW p \in Planners, ResetExamSchedule(p)
      PROVE  PlanOK'
  BY <1>8 DEF ResetExamSchedule
<1>9. ASSUME NEW p \in Planners, ResetGeneratedPlanEntries(p)
      PROVE  PlanOK'
  BY <1>9 DEF ResetGeneratedPlanEntries
<1>10. ASSUME NEW g \in Gens, NEW phase \in {"A", "B"}, Build(g, phase)
       PROVE  PlanOK'
  BY <1>10 DEF Build
<1>11. ASSUME NEW g \in Gens, Solve(g)
       PROVE  PlanOK'
  BY <1>11 DEF Solve
<1>12. ASSUME NEW g \in Gens, SolveStop(g)
       PROVE  PlanOK'
  BY <1>12 DEF SolveStop
<1>13. ASSUME NEW w \in Writers, NEW a \in Exams, DeleteEntries(w, a)
       PROVE  PlanOK'
  BY <1>13 DEF DeleteEntries
<1>14. ASSUME NEW w \in Writers, NEW a \in Exams, RemovePlanEntry(w, a)
       PROVE  PlanOK'
  BY <1>14 DEF RemovePlanEntry
<1>15. ASSUME NEW w \in Writers, InsertEntry(w)
       PROVE  PlanOK'
  <2> DEFINE a == job[w].pending
             d == [by |-> w, start |-> job[w].target[a], locked |-> job[w].locked,
                   external |-> job[w].external, phaseFixed |-> FALSE]
  <2>1. a \in Exams /\ d \in Doc
    BY <1>15 DEF InsertEntry, JobsOK, JobOK, Job, Doc
  <2>2. plan' = [plan EXCEPT ![a] = @ \cup {d}]
    BY <1>15 DEF InsertEntry
  <2> QED
    BY <2>1, <2>2
<1>16. ASSUME NEW w \in Writers, WriteFails(w)
       PROVE  PlanOK'
  BY <1>16 DEF WriteFails
<1>17. ASSUME NEW w \in Writers, Finish(w)
       PROVE  PlanOK'
  BY <1>17 DEF Finish
<1>18. CASE SetGate \/ ClearGate
  BY <1>18 DEF SetGate, ClearGate
<1>19. CASE Restart
  BY <1>19 DEF Restart
<1>20. CASE UNCHANGED vars
  BY <1>20 DEF vars
<1> QED
  BY <1>1, <1>2, <1>3, <1>4, <1>5, <1>6, <1>7, <1>8, <1>9, <1>10,
     <1>11, <1>12, <1>13, <1>14, <1>15, <1>16, <1>17, <1>18, <1>19, <1>20
     DEF Next, Mutation, Generation, Write

\* The delete before the insert, and the names on the documents: what an exam can
\* gather is one document per writer.
LEMMA OneEachStep == JobsOK /\ PlanOK /\ OneEach /\ [Next]_vars => OneEach'
<1> SUFFICES ASSUME JobsOK, PlanOK, OneEach, [Next]_vars PROVE OneEach'
  OBVIOUS
<1> USE ExamsAssumption DEF Start, Writers
<1>1. ASSUME NEW p \in Planners, NEW a \in Exams, NEW s \in Slots, SetExamTime(p, a, s)
      PROVE  OneEach'
  BY <1>1 DEF SetExamTime, Rest, JobsOK, Job, OneEach, PlanOK
<1>2. ASSUME NEW p \in Planners, NEW a \in Exams, NEW s \in Slots, AddExamToSlottime(p, a, s)
      PROVE  OneEach'
  BY <1>2 DEF AddExamToSlottime, Rest, JobsOK, Job, OneEach, PlanOK
<1>3. ASSUME NEW p \in Planners, NEW a \in Exams, NEW s \in Slots, PinPreplanned(p, a, s)
      PROVE  OneEach'
  BY <1>3 DEF PinPreplanned, Rest, JobsOK, Job, OneEach, PlanOK
<1>4. ASSUME NEW p \in Planners, NEW a \in Exams, DropEntry(p, a)
      PROVE  OneEach'
  BY <1>4 DEF DropEntry, Rest, JobsOK, Job, OneEach, PlanOK
<1>5. ASSUME NEW p \in Planners, NEW a \in Exams, SetPhaseFixed(p, a)
      PROVE  OneEach'
  <2>1. \A b \in Exams : \A d \in plan'[b] : \E e \in plan[b] : d.by = e.by
    BY <1>5 DEF SetPhaseFixed, PlanOK, Doc
  <2>2. \A w \in Writers : job'[w].pending = job[w].pending
    BY <1>5 DEF SetPhaseFixed, JobsOK, Job
  <2>3. \A b \in Exams : \A d, e \in plan'[b] : d.by = e.by => d = e
    <3>1. CASE UNCHANGED plan
      BY <3>1 DEF OneEach
    <3>2. ASSUME NEW c \in plan[a],
                 plan' = [plan EXCEPT ![a] = (@ \ {c}) \cup {[c EXCEPT !.phaseFixed = TRUE]}]
          PROVE  \A b \in Exams : \A d, e \in plan'[b] : d.by = e.by => d = e
      <4> DEFINE c2 == [c EXCEPT !.phaseFixed = TRUE]
      <4>1. c2.by = c.by
        BY Refreeze DEF PlanOK
      <4>2. plan' = [plan EXCEPT ![a] = (@ \ {c}) \cup {c2}]
        BY <3>2
      <4> HIDE DEF c2
      <4> QED
        BY <4>1, <4>2 DEF OneEach, PlanOK
    <3> QED
      BY <1>5, <3>1, <3>2 DEF SetPhaseFixed
  <2> QED
    BY <2>1, <2>2, <2>3 DEF OneEach
<1>6. ASSUME NEW p \in Planners, FixExamRoomsPhase(p)
      PROVE  OneEach'
  BY <1>6 DEF FixExamRoomsPhase, Rest, JobsOK, Job, OneEach, PlanOK
<1>7. ASSUME NEW p \in Planners, UnfixExamRoomsPhase(p)
      PROVE  OneEach'
  <2> DEFINE Thaw(e) == [e EXCEPT !.phaseFixed = FALSE]
  <2>1. \A a \in Exams : \A d \in plan'[a] : \E e \in plan[a] : d = Thaw(e) /\ d.by = e.by
    <3> SUFFICES ASSUME NEW a \in Exams, NEW d \in plan'[a]
                 PROVE  \E e \in plan[a] : d = Thaw(e) /\ d.by = e.by
      OBVIOUS
    <3>1. PICK e \in plan[a] : d = Thaw(e)
      BY <1>7 DEF UnfixExamRoomsPhase
    <3> QED
      BY <3>1, Refreeze DEF PlanOK
  <2>2. \A w \in Writers : job'[w].pending # None => job'[w].pending = job[w].pending
    BY <1>7 DEF UnfixExamRoomsPhase, Rest, JobsOK, Job
  <2> HIDE DEF Thaw
  <2>3. \A a \in Exams : \A d, e \in plan'[a] : d.by = e.by => d = e
    BY <2>1 DEF OneEach
  <2>4. \A w \in Writers : \A a \in Exams : job'[w].pending = a => \A d \in plan'[a] : d.by # w
    BY <2>1, <2>2 DEF OneEach
  <2> QED
    BY <2>3, <2>4 DEF OneEach
<1>8. ASSUME NEW p \in Planners, ResetExamSchedule(p)
      PROVE  OneEach'
  BY <1>8 DEF ResetExamSchedule, Rest, JobsOK, Job, OneEach, PlanOK
<1>9. ASSUME NEW p \in Planners, ResetGeneratedPlanEntries(p)
      PROVE  OneEach'
  BY <1>9 DEF ResetGeneratedPlanEntries, Rest, JobsOK, Job, OneEach, PlanOK
<1>10. ASSUME NEW g \in Gens, NEW phase \in {"A", "B"}, Build(g, phase)
       PROVE  OneEach'
  BY <1>10 DEF Build, Rest, JobsOK, Job, OneEach, PlanOK
<1>11. ASSUME NEW g \in Gens, Solve(g)
       PROVE  OneEach'
  BY <1>11 DEF Solve, Rest, JobsOK, Job, OneEach, PlanOK
<1>12. ASSUME NEW g \in Gens, SolveStop(g)
       PROVE  OneEach'
  BY <1>12 DEF SolveStop, Rest, JobsOK, Job, OneEach, PlanOK
<1>13. ASSUME NEW w \in Writers, NEW a \in Exams, DeleteEntries(w, a)
       PROVE  OneEach'
  BY <1>13 DEF DeleteEntries, Rest, JobsOK, Job, OneEach, PlanOK
<1>14. ASSUME NEW w \in Writers, NEW a \in Exams, RemovePlanEntry(w, a)
       PROVE  OneEach'
  BY <1>14 DEF RemovePlanEntry, Rest, JobsOK, Job, OneEach, PlanOK
<1>15. ASSUME NEW w \in Writers, InsertEntry(w)
       PROVE  OneEach'
  <2> DEFINE a == job[w].pending
             d == [by |-> w, start |-> job[w].target[a], locked |-> job[w].locked,
                   external |-> job[w].external, phaseFixed |-> FALSE]
  <2>1. a \in Exams /\ plan' = [plan EXCEPT ![a] = @ \cup {d}] /\ d.by = w
    BY <1>15 DEF InsertEntry, JobsOK, Job
  <2>2. \A v \in Writers : job'[v].pending = IF v = w THEN None ELSE job[v].pending
    BY <1>15 DEF InsertEntry, JobsOK, Job
  <2>3. \A e \in plan[a] : e.by # w
    BY <2>1 DEF OneEach
  <2> HIDE DEF d
  <2> QED
    BY <2>1, <2>2, <2>3 DEF OneEach, PlanOK
<1>16. ASSUME NEW w \in Writers, WriteFails(w)
       PROVE  OneEach'
  BY <1>16 DEF WriteFails, Rest, JobsOK, Job, OneEach, PlanOK
<1>17. ASSUME NEW w \in Writers, Finish(w)
       PROVE  OneEach'
  BY <1>17 DEF Finish, Rest, JobsOK, Job, OneEach, PlanOK
<1>18. CASE SetGate \/ ClearGate
  BY <1>18 DEF SetGate, ClearGate, OneEach
<1>19. CASE Restart
  BY <1>19 DEF Restart, Rest, OneEach
<1>20. CASE UNCHANGED vars
  BY <1>20 DEF vars, OneEach
<1> QED
  BY <1>1, <1>2, <1>3, <1>4, <1>5, <1>6, <1>7, <1>8, <1>9, <1>10,
     <1>11, <1>12, <1>13, <1>14, <1>15, <1>16, <1>17, <1>18, <1>19, <1>20
     DEF Next, Mutation, Generation, Write

-----------------------------------------------------------------------------
\* The inductive invariant holds in every behaviour of the plan's writers.
THEOREM PlanInvariant == Spec => []IInv
<1>1. Init => IInv
  BY RestOK DEF Init, IInv, JobsOK, JobOK, PlanOK, OneEach
<1>2. IInv /\ [Next]_vars => IInv'
  BY JobsStep, PlanStep, OneEachStep DEF IInv
<1>3. QED
  BY <1>1, <1>2, PTL DEF Spec

\* An exam never has more documents than writers can run at once, whatever
\* overlaps, fails or is cut off by a restart (AddExamToSlot deletes first).
THEOREM Bounded == Spec => []EntriesBounded
<1>1. IInv => EntriesBounded
  <2> SUFFICES ASSUME IInv, NEW a \in Exams
               PROVE  Cardinality(plan[a]) <= Cardinality(Writers)
    BY DEF EntriesBounded
  <2> DEFINE writer == [d \in plan[a] |-> d.by]
  <2>1. writer \in Injection(plan[a], Writers)
    <3>1. writer \in [plan[a] -> Writers]
      BY DEF IInv, PlanOK, Doc
    <3>2. \A d, e \in plan[a] : writer[d] = writer[e] => d = e
      BY DEF IInv, OneEach
    <3> QED
      BY <3>1, <3>2 DEF Injection, IsInjective
  <2>2. IsFiniteSet(Writers)
    BY WritersAssumption, FS_Union DEF Writers
  <2> QED
    BY <2>1, <2>2, FS_Injection
<1>2. QED
  BY <1>1, PlanInvariant, PTL

\* The plan, the conditions and the jobs keep their types: every document has a
\* slot, and no writer is left with an insert it has no slot for.
THEOREM TypeCorrect == Spec => []TypeOK
<1>1. Init => cond \subseteq Conds /\ disturbed \in [Gens -> BOOLEAN]
  BY DEF Init
<1>2. cond \subseteq Conds /\ [Next]_vars => (cond \subseteq Conds)'
  <2> SUFFICES ASSUME cond \subseteq Conds, [Next]_vars PROVE (cond \subseteq Conds)'
    OBVIOUS
  <2> USE DEF Conds
  <2>1. ASSUME NEW p \in Planners, Mutation(p) PROVE (cond \subseteq Conds)'
    BY <2>1 DEF Mutation, SetExamTime, AddExamToSlottime, PinPreplanned, DropEntry, SetPhaseFixed,
                FixExamRoomsPhase, UnfixExamRoomsPhase, ResetExamSchedule, ResetGeneratedPlanEntries
  <2>2. ASSUME NEW g \in Gens, Generation(g) PROVE (cond \subseteq Conds)'
    BY <2>2 DEF Generation, Build, Solve, SolveStop
  <2>3. ASSUME NEW w \in Writers, Write(w) PROVE (cond \subseteq Conds)'
    BY <2>3 DEF Write, DeleteEntries, RemovePlanEntry, InsertEntry, WriteFails, Finish
  <2>4. CASE SetGate \/ ClearGate \/ Restart \/ UNCHANGED vars
    BY <2>4 DEF SetGate, ClearGate, ExamsGate, Restart, vars
  <2> QED
    BY <2>1, <2>2, <2>3, <2>4 DEF Next
<1>3. disturbed \in [Gens -> BOOLEAN] /\ [Next]_vars => (disturbed \in [Gens -> BOOLEAN])'
  <2> SUFFICES ASSUME disturbed \in [Gens -> BOOLEAN], [Next]_vars
               PROVE  (disturbed \in [Gens -> BOOLEAN])'
    OBVIOUS
  <2> USE DEF Disturb, Settle
  <2>1. ASSUME NEW p \in Planners, Mutation(p) PROVE (disturbed \in [Gens -> BOOLEAN])'
    BY <2>1 DEF Mutation, SetExamTime, AddExamToSlottime, PinPreplanned, DropEntry, SetPhaseFixed,
                FixExamRoomsPhase, UnfixExamRoomsPhase, ResetExamSchedule, ResetGeneratedPlanEntries
  <2>2. ASSUME NEW g \in Gens, Generation(g) PROVE (disturbed \in [Gens -> BOOLEAN])'
    BY <2>2 DEF Generation, Build, Solve, SolveStop
  <2>3. ASSUME NEW w \in Writers, Write(w) PROVE (disturbed \in [Gens -> BOOLEAN])'
    BY <2>3 DEF Write, DeleteEntries, RemovePlanEntry, InsertEntry, WriteFails, Finish
  <2>4. CASE SetGate \/ ClearGate \/ Restart \/ UNCHANGED vars
    BY <2>4 DEF SetGate, ClearGate, Restart, vars
  <2> QED
    BY <2>1, <2>2, <2>3, <2>4 DEF Next
<1>4. IInv /\ cond \subseteq Conds /\ disturbed \in [Gens -> BOOLEAN] => TypeOK
  BY DEF IInv, JobsOK, PlanOK, TypeOK, Job
<1>5. QED
  BY <1>1, <1>2, <1>3, <1>4, PlanInvariant, PTL DEF Spec

-----------------------------------------------------------------------------
(* What an undisturbed generator relies on. *)

Solving == {"solveA", "solveB"}
Generating == {"generateA", "generateB"}
PhaseOf(kind) == IF kind \in {"solveA", "generateA"} THEN "A" ELSE "B"

\* An exam g still has to write has a document that is not fixed, or none; the one between
\* its delete and its insert has no document, and the ones written have the solver's.
ReadStill(g) ==
    /\ \A a \in job[g].todo : plan[a] # {} => \E d \in plan[a] : ~FixedEntry(d, PhaseOf(job[g].kind))
    /\ job[g].pending # None => plan[job[g].pending] = {}
    /\ job[g].kind \in Generating =>
          \A a \in Exams : job[g].target[a] # None /\ a \notin job[g].todo /\ a # job[g].pending =>
              \E d \in plan[a] : plan[a] = {d} /\ d.start = job[g].target[a]

RunOK(g) ==
    job[g].kind \in Solving \cup Generating =>
        /\ job[g].pending \notin job[g].todo
        /\ job[g].kind \in Solving => job[g].pending = None
        /\ job[g].kind \in {"solveA", "generateA"} => job[g].todo \subseteq Exahm
        /\ disturbed[g] \/ ReadStill(g)

RunsOK == \A g \in Gens : RunOK(g)

\* A step of somebody else: the run has nothing of it, or is marked as disturbed.
Bystander(g) ==
    /\ job'[g] = job[g]
    /\ job[g].kind # "rest" => (plan' = plan /\ disturbed'[g] = disturbed[g]) \/ disturbed'[g]

LEMMA BystanderOK == ASSUME NEW g \in Gens, RunOK(g), Bystander(g) PROVE RunOK(g)'
<1> SUFFICES ASSUME job'[g].kind \in Solving \cup Generating PROVE RunOK(g)'
  BY DEF RunOK
<1>1. job'[g] = job[g] /\ job[g].kind # "rest"
  BY DEF Bystander, Solving, Generating
<1>2. CASE disturbed'[g]
  BY <1>1, <1>2 DEF RunOK
<1>3. CASE plan' = plan /\ disturbed'[g] = disturbed[g]
  <2>1. ReadStill(g)' <=> ReadStill(g)
    BY <1>1, <1>3 DEF ReadStill, FixedEntry, PhaseOf
  <2> QED
    BY <1>1, <1>3, <2>1 DEF RunOK
<1> QED
  BY <1>1, <1>2, <1>3 DEF Bystander

\* The steps of w that change the plan mark every other run; the rest leave it alone.
LEMMA OthersBystand ==
  ASSUME JobsOK, disturbed \in [Gens -> BOOLEAN], NEW w \in Writers, \A v \in Writers \ {w} : job'[v] = job[v],
         \/ Disturb(w) \/ (UNCHANGED plan /\ (Settle(w) \/ UNCHANGED disturbed))
         \/ UNCHANGED plan /\ disturbed' = [disturbed EXCEPT ![w] = FALSE],
         NEW g \in Gens \ {w}
  PROVE  Bystander(g)
BY DEF Bystander, Disturb, Settle, JobsOK, Writers

\* The steps of a run of g that leave it running.
OwnStep(g) ==
    \/ \E phase \in {"A", "B"} : Build(g, phase)
    \/ Solve(g) \/ InsertEntry(g)
    \/ \E a \in Exams : DeleteEntries(g, a) \/ RemovePlanEntry(g, a)

LEMMA StepsByWriter ==
  ASSUME JobsOK, disturbed \in [Gens -> BOOLEAN], [Next]_vars, NEW g \in Gens
  PROVE  Bystander(g) \/ job'[g].kind = "rest" \/ OwnStep(g)
<1> USE DEF Writers
<1>1. ASSUME NEW p \in Planners, Mutation(p) PROVE Bystander(g)
  <2>1. p # g
    BY WritersAssumption
  <2>2. \A v \in Writers \ {p} : job'[v] = job[v]
    BY <1>1 DEF Mutation, SetExamTime, AddExamToSlottime, PinPreplanned, DropEntry, SetPhaseFixed, Start, JobsOK,
                FixExamRoomsPhase, UnfixExamRoomsPhase, ResetExamSchedule, ResetGeneratedPlanEntries
  <2>3. Disturb(p) \/ (UNCHANGED plan /\ UNCHANGED disturbed)
    BY <1>1 DEF Mutation, SetExamTime, AddExamToSlottime, PinPreplanned, DropEntry, SetPhaseFixed,
                FixExamRoomsPhase, UnfixExamRoomsPhase, ResetExamSchedule, ResetGeneratedPlanEntries
  <2> QED
    BY <2>1, <2>2, <2>3, OthersBystand
<1>2. ASSUME NEW h \in Gens, Generation(h) PROVE Bystander(g) \/ job'[g].kind = "rest" \/ OwnStep(g)
  <2>1. \A v \in Writers \ {h} : job'[v] = job[v]
    BY <1>2 DEF Generation, Build, Solve, SolveStop, Start, JobsOK
  <2>2. \/ UNCHANGED plan /\ (Settle(h) \/ UNCHANGED disturbed)
        \/ UNCHANGED plan /\ disturbed' = [disturbed EXCEPT ![h] = FALSE]
    BY <1>2 DEF Generation, Build, Solve, SolveStop
  <2>3. h # g => Bystander(g)
    BY <2>1, <2>2, OthersBystand
  <2>4. SolveStop(g) => job'[g].kind = "rest"
    BY DEF SolveStop, JobsOK, Rest
  <2> QED
    BY <1>2, <2>3, <2>4 DEF Generation, OwnStep
<1>3. ASSUME NEW w \in Writers, Write(w) PROVE Bystander(g) \/ job'[g].kind = "rest" \/ OwnStep(g)
  <2>1. \A v \in Writers \ {w} : job'[v] = job[v]
    BY <1>3 DEF Write, DeleteEntries, RemovePlanEntry, InsertEntry, WriteFails, Finish, JobsOK
  <2>2. Disturb(w) \/ (UNCHANGED plan /\ (Settle(w) \/ UNCHANGED disturbed))
    BY <1>3 DEF Write, DeleteEntries, RemovePlanEntry, InsertEntry, WriteFails, Finish
  <2>3. w # g => Bystander(g)
    BY <2>1, <2>2, OthersBystand
  <2>4. WriteFails(g) \/ Finish(g) => job'[g].kind = "rest"
    BY DEF WriteFails, Finish, JobsOK, Rest
  <2> QED
    BY <1>3, <2>3, <2>4 DEF Write, OwnStep
<1>4. CASE SetGate \/ ClearGate \/ UNCHANGED vars
  BY <1>4 DEF SetGate, ClearGate, vars, Bystander
<1>5. CASE Restart
  BY <1>5 DEF Restart, Rest
<1> QED
  BY <1>1, <1>2, <1>3, <1>4, <1>5 DEF Next

\* The build: what one document says of an exam is what the reader saw of it.
LEMMA BuildOK ==
  ASSUME JobsOK, PlanOK, disturbed \in [Gens -> BOOLEAN], NEW g \in Gens, NEW phase \in {"A", "B"}, Build(g, phase)
  PROVE  RunOK(g)'
<1> DEFINE k == IF phase = "A" THEN "solveA" ELSE "solveB"
<1>1. PICK s : /\ Seen(s)
               /\ job' = [job EXCEPT ![g] = [Rest EXCEPT !.kind = k, !.todo = Movable(s, phase)]]
  BY DEF Build, Start
<1> DEFINE m == Movable(s, phase)
<1>2. /\ job'[g].kind = k /\ job'[g].todo = m /\ job'[g].pending = None /\ plan' = plan
  BY <1>1 DEF Rest, JobsOK, Build, Writers
<1>3. m \subseteq Exams /\ (phase = "A" => m \subseteq Exahm) /\ \A a \in m : ~FixedEntry(s[a], phase)
  BY DEF Movable
<1>4. \A a \in Exams : s[a] \in plan[a] \cup {None} /\ (s[a] = None <=> plan[a] = {})
  BY <1>1 DEF Seen
<1>5. None \notin Exams /\ PhaseOf(k) = phase /\ k \in Solving /\ (phase = "B" => k \notin {"solveA", "generateA"})
      /\ k \notin Generating
  BY ExamsAssumption DEF PhaseOf, Solving, Generating
<1> HIDE DEF k, m
<1>6. \A a \in m : plan[a] # {} => \E d \in plan[a] : ~FixedEntry(d, phase)
  BY <1>3, <1>4
<1>7. \A d : FixedEntry(d, phase)' <=> FixedEntry(d, phase)
  BY DEF FixedEntry
<1>8. PhaseOf(job'[g].kind) = phase
  BY <1>2, <1>5
<1>9. ReadStill(g)'
  BY <1>2, <1>5, <1>6, <1>7, <1>8 DEF ReadStill
<1>10. phase \in {"A", "B"}
  OBVIOUS
<1>11. QED
  BY <1>2, <1>3, <1>5, <1>9, <1>10 DEF RunOK

\* The solver's slots are for the exams still to write.
LEMMA SolveOK ==
  ASSUME JobsOK, NEW g \in Gens, RunOK(g), Solve(g)
  PROVE  RunOK(g)'
<1>1. PICK t : job' = [job EXCEPT ![g].kind = IF @ = "solveA" THEN "generateA" ELSE "generateB",
                                  ![g].target = [a \in Exams |-> IF a \in job[g].todo THEN t[a] ELSE None]]
  BY DEF Solve
<1>2. /\ job'[g].kind = (IF job[g].kind = "solveA" THEN "generateA" ELSE "generateB")
      /\ job'[g].target = [a \in Exams |-> IF a \in job[g].todo THEN t[a] ELSE None]
      /\ job'[g].todo = job[g].todo /\ job'[g].pending = job[g].pending
  BY <1>1 DEF JobsOK, Job, Writers
<1>3. job[g].kind \in Solving /\ UNCHANGED <<plan, disturbed>>
  BY DEF Solve, Solving
<1>4. PhaseOf(job'[g].kind) = PhaseOf(job[g].kind)
  BY <1>2, <1>3 DEF PhaseOf, Solving
<1>5. \A a \in Exams : job'[g].target[a] # None => a \in job'[g].todo
  BY <1>2
<1>6. \A d, p : FixedEntry(d, p)' <=> FixedEntry(d, p)
  BY DEF FixedEntry
<1>7. ReadStill(g) => ReadStill(g)'
  BY <1>2, <1>3, <1>4, <1>5, <1>6 DEF ReadStill
<1>8. QED
  BY <1>2, <1>3, <1>7 DEF RunOK, Solving, Generating

\* A writer does not disturb its own run.
LEMMA OwnUndisturbed ==
  ASSUME disturbed \in [Gens -> BOOLEAN], NEW g \in Gens, Disturb(g) \/ UNCHANGED disturbed
  PROVE  disturbed'[g] = disturbed[g]
BY DEF Disturb

\* The deleted exam has no document until its insert.
LEMMA DeleteOK ==
  ASSUME JobsOK, PlanOK, disturbed \in [Gens -> BOOLEAN], NEW g \in Gens, RunOK(g), NEW a \in Exams, DeleteEntries(g, a)
  PROVE  RunOK(g)'
<1> SUFFICES ASSUME job'[g].kind \in Solving \cup Generating PROVE RunOK(g)'
  BY DEF RunOK
<1>1. /\ job'[g].kind = job[g].kind /\ job'[g].target = job[g].target
      /\ job'[g].todo = job[g].todo \ {a} /\ job'[g].pending = a /\ job[g].pending = None
      /\ job[g].target[a] # None /\ a \in job[g].todo
      /\ plan' = [plan EXCEPT ![a] = {}]
  BY DEF DeleteEntries, Placing, JobsOK, Job, Writers
<1>2. job[g].kind \in Generating /\ job[g].kind \notin Solving
  BY <1>1 DEF DeleteEntries, Placing, Generating, Solving
<1>3. disturbed'[g] = disturbed[g]
  BY OwnUndisturbed DEF DeleteEntries
<1>4. plan'[a] = {} /\ \A b \in Exams \ {a} : plan'[b] = plan[b]
  BY <1>1 DEF PlanOK
<1>5. \A d, p : FixedEntry(d, p)' <=> FixedEntry(d, p)
  BY DEF FixedEntry
<1>6. job[g].todo \subseteq Exams
  BY DEF JobsOK, Job, Writers
<1>7. PhaseOf(job'[g].kind) = PhaseOf(job[g].kind)
  BY <1>1
<1>8. ASSUME ReadStill(g) PROVE ReadStill(g)'
  <2>1. \A b \in job'[g].todo : plan'[b] # {} => \E d \in plan'[b] : ~FixedEntry(d, PhaseOf(job'[g].kind))
    BY <1>1, <1>4, <1>6, <1>7, <1>8 DEF ReadStill
  <2>2. \A b \in Exams : job'[g].target[b] # None /\ b \notin job'[g].todo /\ b # job'[g].pending =>
            \E d \in plan'[b] : plan'[b] = {d} /\ d.start = job'[g].target[b]
    <3> SUFFICES ASSUME NEW b \in Exams, job[g].target[b] # None, b \notin job[g].todo, b # a
                 PROVE  \E d \in plan'[b] : plan'[b] = {d} /\ d.start = job[g].target[b]
      BY <1>1
    <3>1. b # job[g].pending /\ plan'[b] = plan[b]
      BY <1>1, <1>4, ExamsAssumption
    <3> QED
      BY <1>2, <1>8, <3>1 DEF ReadStill
  <2> QED
    BY <1>1, <1>4, <1>5, <2>1, <2>2 DEF ReadStill
<1>9. QED
  BY <1>1, <1>2, <1>3, <1>8 DEF RunOK

\* What is inserted is the only document, at the solver's slot.
LEMMA InsertOK ==
  ASSUME JobsOK, PlanOK, disturbed \in [Gens -> BOOLEAN], NEW g \in Gens, RunOK(g), InsertEntry(g)
  PROVE  RunOK(g)'
<1> SUFFICES ASSUME job'[g].kind \in Solving \cup Generating PROVE RunOK(g)'
  BY DEF RunOK
<1>1. PICK a \in Exams : a = job[g].pending /\ a # None
  BY DEF InsertEntry, JobsOK, Job, Writers
<1> DEFINE d == [by |-> g, start |-> job[g].target[a], locked |-> job[g].locked,
                 external |-> job[g].external, phaseFixed |-> FALSE]
<1>2. /\ job'[g].kind = job[g].kind /\ job'[g].target = job[g].target
      /\ job'[g].todo = job[g].todo /\ job'[g].pending = None
      /\ plan' = [plan EXCEPT ![a] = @ \cup {d}]
  BY <1>1 DEF InsertEntry, JobsOK, Job, Writers
<1>3. d.start = job[g].target[a]
  OBVIOUS
<1> HIDE DEF d
<1>4. disturbed'[g] = disturbed[g]
  BY OwnUndisturbed DEF InsertEntry
<1>5. plan'[a] = plan[a] \cup {d} /\ \A b \in Exams \ {a} : plan'[b] = plan[b]
  BY <1>2 DEF PlanOK
<1>6. \A e, p : FixedEntry(e, p)' <=> FixedEntry(e, p)
  BY DEF FixedEntry
<1>7. job[g].todo \subseteq Exams /\ a \notin job[g].todo /\ None \notin job[g].todo
  BY <1>1, <1>2, ExamsAssumption DEF JobsOK, Job, Writers, RunOK
<1>8. ReadStill(g) => ReadStill(g)'
  <2> SUFFICES ASSUME ReadStill(g) PROVE ReadStill(g)'
    OBVIOUS
  <2>1. plan'[a] = {d}
    BY <1>1, <1>5 DEF ReadStill
  <2>2. \A b \in job'[g].todo : plan'[b] # {} => \E e \in plan'[b] : ~FixedEntry(e, PhaseOf(job'[g].kind))
    <3>1. \A b \in job'[g].todo : plan'[b] = plan[b] /\ b \in job[g].todo
      BY <1>2, <1>5, <1>7
    <3>2. PhaseOf(job'[g].kind) = PhaseOf(job[g].kind)
      BY <1>2
    <3> QED
      BY <3>1, <3>2 DEF ReadStill
  <2>3. ASSUME NEW b \in Exams, job'[g].kind \in Generating, job'[g].target[b] # None, b \notin job'[g].todo
        PROVE  \E e \in plan'[b] : plan'[b] = {e} /\ e.start = job'[g].target[b]
    <3>1. CASE b = a
      BY <1>2, <1>3, <2>1, <3>1
    <3>2. CASE b # a
      BY <1>1, <1>2, <1>5, <2>3, <3>2 DEF ReadStill
    <3> QED
      BY <3>1, <3>2
  <2> QED
    BY <1>2, <1>6, <2>2, <2>3 DEF ReadStill
<1>9. QED
  BY <1>2, <1>4, <1>7, <1>8 DEF RunOK

\* An exam without a slot is no longer among those to write.
LEMMA RemoveOK ==
  ASSUME JobsOK, PlanOK, disturbed \in [Gens -> BOOLEAN], NEW g \in Gens, RunOK(g), NEW a \in Exams, RemovePlanEntry(g, a)
  PROVE  RunOK(g)'
<1> SUFFICES ASSUME job'[g].kind \in Solving \cup Generating PROVE RunOK(g)'
  BY DEF RunOK
<1>1. /\ job'[g].kind = job[g].kind /\ job'[g].target = job[g].target
      /\ job'[g].todo = job[g].todo \ {a} /\ job'[g].pending = job[g].pending
      /\ job[g].target[a] = None
      /\ plan' = [plan EXCEPT ![a] = {}] \/ plan' = plan
  BY DEF RemovePlanEntry, JobsOK, Job, Writers
<1>2. job[g].pending = None
  BY <1>1 DEF RemovePlanEntry, Placing, Solving, Generating
<1>3. disturbed'[g] = disturbed[g]
  BY OwnUndisturbed DEF RemovePlanEntry
<1>4. \A b \in Exams \ {a} : plan'[b] = plan[b]
  BY <1>1 DEF PlanOK
<1>5. \A e, p : FixedEntry(e, p)' <=> FixedEntry(e, p)
  BY DEF FixedEntry
<1>6. job[g].todo \subseteq Exams
  BY DEF JobsOK, Job, Writers
<1>7. ReadStill(g) => ReadStill(g)'
  BY <1>1, <1>2, <1>4, <1>5, <1>6 DEF ReadStill, PhaseOf
<1>8. QED
  BY <1>1, <1>2, <1>3, <1>7 DEF RunOK

LEMMA RunsStep ==
  ASSUME JobsOK, PlanOK, disturbed \in [Gens -> BOOLEAN], RunsOK, [Next]_vars
  PROVE  RunsOK'
<1> SUFFICES ASSUME NEW g \in Gens PROVE RunOK(g)'
  BY DEF RunsOK
<1>1. CASE Bystander(g)
  BY <1>1, BystanderOK DEF RunsOK
<1>2. CASE job'[g].kind = "rest"
  BY <1>2 DEF RunOK, Solving, Generating
<1>3. CASE OwnStep(g)
  BY <1>3, BuildOK, SolveOK, DeleteOK, InsertOK, RemoveOK DEF OwnStep, RunsOK
<1>4. QED
  BY <1>1, <1>2, <1>3, StepsByWriter

\* The invariant of the generator's runs, beside other writers, failed writes and restarts.
THEOREM RunsInvariant == Spec => []RunsOK
<1>1. Init => RunsOK
  BY DEF Init, RunsOK, RunOK, Rest, Solving, Generating, Writers
<1>2. IInv /\ TypeOK /\ RunsOK /\ [Next]_vars => RunsOK'
  BY RunsStep DEF IInv, TypeOK
<1>3. QED
  BY <1>1, <1>2, PlanInvariant, TypeCorrect, PTL DEF Spec

\* runExamGeneration's write loop: whatever an undisturbed run has written stands as solved.
THEOREM Generated == Spec => []GeneratedAsSolved
<1>1. IInv /\ RunsOK => GeneratedAsSolved
  BY DEF RunsOK, RunOK, ReadStill, GeneratedAsSolved, Generating
<1>2. QED
  BY <1>1, PlanInvariant, RunsInvariant, PTL

-----------------------------------------------------------------------------
(* What a step may take away. *)

\* Only the two deletes of a writer take a document away, and the reset, which spares the
\* locked and the external ones.
LEMMA GoneBy ==
  ASSUME JobsOK, PlanOK, [Next]_vars, NEW a \in Exams, NEW d \in plan[a], Gone(a, d)
  PROVE  \/ \E w \in Writers : DeleteEntries(w, a) \/ RemovePlanEntry(w, a)
         \/ \E p \in Planners : ResetGeneratedPlanEntries(p) /\ ~d.locked /\ ~d.external
<1> USE DEF Writers
<1>1. d \notin plan'[a] /\ d \in Doc
  BY DEF Gone, PlanOK
<1>2. plan' # plan
  BY <1>1
<1>3. ASSUME NEW p \in Planners, Mutation(p)
      PROVE  ResetGeneratedPlanEntries(p) /\ ~d.locked /\ ~d.external
  <2>1. CASE \E b \in Exams : SetPhaseFixed(p, b)
    <3>1. PICK b \in Exams : SetPhaseFixed(p, b)
      BY <2>1
    <3>2. PICK c \in plan[b] : plan' = [plan EXCEPT ![b] = (@ \ {c}) \cup {[c EXCEPT !.phaseFixed = TRUE]}]
      BY <1>2, <3>1 DEF SetPhaseFixed
    <3> DEFINE e == [c EXCEPT !.phaseFixed = TRUE]
    <3>3. c \in Doc
      BY <3>2 DEF PlanOK
    <3>4. e.start = c.start /\ e.locked = c.locked /\ e.external = c.external
      BY <3>3 DEF Doc
    <3>5. plan' = [plan EXCEPT ![b] = (@ \ {c}) \cup {e}]
      BY <3>2
    <3> HIDE DEF e
    <3>6. a = b /\ c = d /\ e \in plan'[a]
      BY <1>1, <3>5 DEF PlanOK
    <3> QED
      BY <3>4, <3>6 DEF Gone
  <2>2. CASE UnfixExamRoomsPhase(p)
    <3> DEFINE e == [d EXCEPT !.phaseFixed = FALSE]
    <3>1. e \in plan'[a]
      BY <2>2 DEF UnfixExamRoomsPhase
    <3>2. e.start = d.start /\ e.locked = d.locked /\ e.external = d.external
      BY <1>1 DEF Doc
    <3> QED
      BY <3>1, <3>2 DEF Gone
  <2>3. CASE ResetGeneratedPlanEntries(p)
    BY <1>1, <2>3 DEF ResetGeneratedPlanEntries
  <2> QED
    BY <1>2, <1>3, <2>1, <2>2, <2>3 DEF Mutation, SetExamTime, AddExamToSlottime, PinPreplanned, DropEntry,
                FixExamRoomsPhase, ResetExamSchedule
<1>4. ASSUME NEW g \in Gens, Generation(g) PROVE FALSE
  BY <1>2, <1>4 DEF Generation, Build, Solve, SolveStop
<1>5. ASSUME NEW w \in Writers, Write(w) PROVE DeleteEntries(w, a) \/ RemovePlanEntry(w, a)
  <2>1. ASSUME NEW b \in Exams, DeleteEntries(w, b) \/ RemovePlanEntry(w, b) PROVE b = a
    BY <1>1, <1>2, <2>1 DEF DeleteEntries, RemovePlanEntry, PlanOK
  <2>2. ~InsertEntry(w)
    BY <1>1 DEF InsertEntry, PlanOK
  <2>3. ~WriteFails(w) /\ ~Finish(w)
    BY <1>2 DEF WriteFails, Finish
  <2> QED
    BY <1>5, <2>1, <2>2, <2>3 DEF Write
<1>6. ~(SetGate \/ ClearGate \/ Restart \/ UNCHANGED vars)
  BY <1>2 DEF SetGate, ClearGate, Restart, vars
<1> QED
  BY <1>3, <1>4, <1>5, <1>6 DEF Next

\* The writer that takes a document of a away had a on its list.
LEMMA DeletedBy ==
  ASSUME JobsOK, NEW w \in Writers, NEW a \in Exams, DeleteEntries(w, a) \/ RemovePlanEntry(w, a)
  PROVE  /\ a \in job[w].todo /\ job'[w] # job[w]
         /\ job[w].kind \in {"place", "drop", "generateA", "generateB"}
         /\ \A v \in Writers \ {w} : job'[v] = job[v]
<1>1. a \in job[w].todo /\ a \notin job'[w].todo
  BY DEF DeleteEntries, RemovePlanEntry, JobsOK, Job
<1>2. job[w].kind \in {"place", "drop", "generateA", "generateB"}
  BY DEF DeleteEntries, RemovePlanEntry, Placing
<1>3. \A v \in Writers \ {w} : job'[v] = job[v]
  BY DEF DeleteEntries, RemovePlanEntry, JobsOK
<1>4. QED
  BY <1>1, <1>2, <1>3

\* As long as nobody else writes between its build and its last write, the generator takes
\* a document only from an exam with one it may move, so that an exam keeps its documents
\* when all of them are fixed, and in phase A nothing of an ordinary exam; what is locked or
\* external goes only with a writer that places or drops it.
THEOREM FixedStay == Spec => FixedEntriesKept
<1> DEFINE Kept(a, d) == Gone(a, d) =>
       /\ d.locked \/ d.external =>
             \E w \in Writers : job'[w] # job[w] /\ job[w].kind \in {"place", "drop", "generateA", "generateB"}
       /\ \A g \in Gens :
             /\ StepOfUndisturbed(g, {"generateA"}) => a \in Exahm /\ \E e \in plan[a] : ~FixedEntry(e, "A")
             /\ StepOfUndisturbed(g, {"generateB"}) => \E e \in plan[a] : ~FixedEntry(e, "B")
<1>1. ASSUME IInv, RunsOK, [Next]_vars, NEW a \in Exams, NEW d \in plan[a] PROVE Kept(a, d)
  <2> USE DEF Writers
  <2> SUFFICES ASSUME Gone(a, d) PROVE Kept(a, d)
    OBVIOUS
  <2>1. \/ \E w \in Writers : DeleteEntries(w, a) \/ RemovePlanEntry(w, a)
        \/ \E p \in Planners : ResetGeneratedPlanEntries(p) /\ ~d.locked /\ ~d.external
    BY <1>1, GoneBy DEF IInv
  <2>2. CASE \E w \in Writers : DeleteEntries(w, a) \/ RemovePlanEntry(w, a)
    <3>1. PICK w \in Writers : DeleteEntries(w, a) \/ RemovePlanEntry(w, a)
      BY <2>2
    <3>2. /\ a \in job[w].todo /\ job'[w] # job[w]
          /\ job[w].kind \in {"place", "drop", "generateA", "generateB"}
          /\ \A v \in Writers \ {w} : job'[v] = job[v]
      BY <1>1, <3>1, DeletedBy DEF IInv
    <3>3. ASSUME NEW g \in Gens, job'[g] # job[g], job[g].kind \in Generating, ~disturbed[g]
          PROVE  /\ \E e \in plan[a] : ~FixedEntry(e, PhaseOf(job[g].kind))
                 /\ job[g].kind = "generateA" => a \in Exahm
      <4>1. g = w
        BY <3>2, <3>3
      <4>2. RunOK(g)
        BY <1>1 DEF RunsOK
      <4>3. ReadStill(g) /\ (job[g].kind = "generateA" => job[g].todo \subseteq Exahm)
        BY <3>3, <4>2 DEF RunOK, Generating
      <4> QED
        BY <3>2, <4>1, <4>3 DEF ReadStill
    <3>4. PhaseOf("generateA") = "A" /\ PhaseOf("generateB") = "B" /\ {"generateA", "generateB"} = Generating
      BY DEF PhaseOf, Generating
    <3> QED
      BY <3>2, <3>3, <3>4 DEF StepOfUndisturbed
  <2>3. CASE \E p \in Planners : ResetGeneratedPlanEntries(p) /\ ~d.locked /\ ~d.external
    <3>1. PICK p \in Planners : ResetGeneratedPlanEntries(p) /\ ~d.locked /\ ~d.external
      BY <2>3
    <3>2. \A g \in Gens : job'[g] = job[g]
      BY <1>1, <3>1, WritersAssumption DEF ResetGeneratedPlanEntries, IInv, JobsOK
    <3> QED
      BY <3>1, <3>2 DEF StepOfUndisturbed
  <2> QED
    BY <2>1, <2>2, <2>3
<1>2. IInv /\ RunsOK /\ [Next]_vars => [\A a \in Exams : \A d \in plan[a] : Kept(a, d)]_vars
  BY <1>1
<1>3. QED
  BY <1>2, PlanInvariant, RunsInvariant, PTL DEF Spec, FixedEntriesKept
=============================================================================
