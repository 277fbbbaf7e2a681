---------------------------- MODULE MCExamSolver ----------------------------
\* A fixed exam (0) and four movable ones over three slots of one day and one
\* slot of the next.  Unit 2 is an EXaHM exam whose rooms stay occupied in the
\* slot after its own, 4 an EXaHM exam on the ordinary turnaround; unit 3 is
\* larger than the cap of a slot; 1 shares a student with 3 and one with 0.
EXTENDS ExamSolver

MCUnits == 0..4
MCSlots == 0..3
MCStart == [s \in MCSlots |-> <<0, 120, 240, 1440>>[s + 1]]
MCDayOf == [s \in MCSlots |-> IF s = 3 THEN 1 ELSE 0]
MCFixedSlot == [u \in {0} |-> 2]
MCAllowed == [u \in MCUnits |-> CASE u \in {2, 4} -> {0, 1, 2} [] u = 3 -> {0, 1} [] OTHER -> MCSlots]
MCSeats == [u \in MCUnits |-> <<1, 2, 1, 4, 1>>[u + 1]]
MCCap == [s \in MCSlots |-> CASE s = 0 -> 5 [] s = 1 -> 0 [] OTHER -> 3]
MCExahmSeats == [s \in MCSlots |-> CASE s = 0 -> 2 [] s = 3 -> 0 [] OTHER -> 1]
MCSebSeats == [s \in MCSlots |-> IF s = 0 THEN 2 ELSE 0]
MCPairs == [st \in {"s1", "s2"} |-> IF st = "s1" THEN {<<1, 3>>} ELSE {<<0, 1>>}]
MCSep == [p \in MCUnits \X MCUnits |-> IF {p[1], p[2]} = {1, 3} THEN 150 ELSE 90]
\* Unit 3 takes longer than unit 1.
MCSepLong == [p \in MCUnits \X MCUnits |-> IF p[1] = 3 THEN 150 ELSE 90]
MCOverrun == [u \in MCUnits |-> [s \in MCSlots |-> IF u = 2 /\ s \in {0, 1} THEN {s + 1} ELSE {}]]
MCAttract == {<<2, 3>>}
Distance(a, b) == IF a > b THEN a - b ELSE b - a
MCCloseness == [a \in MCSlots |-> [b \in MCSlots |-> 4 - Distance(a, b)]]
MCFarness == [a \in MCSlots |-> [b \in MCSlots |-> Distance(a, b)]]
MCTimePenalty == [u \in MCUnits |-> [s \in MCSlots |-> IF s = 0 THEN MCSeats[u] ELSE 0]]
\* Nothing planned, a plan that is feasible, one that no longer is.
MCStartPlans ==
    {[u \in MCUnits |-> 99],
     [u \in MCUnits |-> <<2, 3, 1, 0, 0>>[u + 1]],
     [u \in MCUnits |-> <<2, 2, 2, 0, 99>>[u + 1]]}

\* What the theorem about the capacity assumes holds here.
ASSUME MCHypotheses == FixedFits
=============================================================================
