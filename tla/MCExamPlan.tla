----------------------------- MODULE MCExamPlan -----------------------------
\* One exam of each kind, the foreign one without registrations, and two
\* slots; the generator beside one client.
EXTENDS ExamPlan, TLC

\* What the future of a state depends on.  Of the planning conditions only the
\* gate is ever read, by an action or by a property.  The inserting writer of
\* a document only tells equal documents apart, and no exam has two documents of
\* one writer (OneEach, ExamPlanProofs): with two writers it has at most two,
\* and their contents and their number say everything.
\* The slots a writer has already written are read only by GeneratedAsSolved,
\* of an undisturbed generator.
Content(d) == <<d.start, d.locked, d.external, d.phaseFixed>>
Unread(w, a) ==
    a \notin job[w].todo \cup {job[w].pending} /\ (w \in Gens => disturbed[w])
PlanView ==
    <<[a \in Exams |-> <<{Content(d) : d \in plan[a]}, Cardinality(plan[a])>>],
      ExamsGate \in cond, disturbed,
      [w \in Writers |-> [job[w] EXCEPT !.target =
          [a \in Exams |-> IF Unread(w, a) THEN None ELSE job[w].target[a]]]]>>

\* Slots are only compared for equality: they are interchangeable.
SlotSymmetry == Permutations(Slots)
=============================================================================
