---------------------------- MODULE MCRoomSolver ----------------------------
\* Three slots of one day, three rooms.  Exam 0 has two seats and one for an NTA alone,
\* exam 1 runs beside it and is short with a long teardown, exam 2 follows, exam 3 has one
\* pre-planned seat in the third slot and one to place.  Room 2 is an own room.
EXTENDS RoomSolver

MCSeats == 0..6
MCExams == 0..3
MCRooms == 0..2
MCSlots == 0..2
MCExamOf == [i \in MCSeats |-> <<0, 0, 0, 1, 2, 3, 3>>[i + 1]]
MCFixedRoom == [i \in {5} |-> 1]
MCSlotOf == [e \in MCExams |-> <<0, 0, 1, 2>>[e + 1]]
MCDuration == [e \in MCExams |-> <<90, 60, 60, 60>>[e + 1]]
MCPreExtra == [e \in MCExams |-> IF e = 3 THEN 45 ELSE 0]
MCPostExtra == [e \in MCExams |-> IF e = 1 THEN 30 ELSE 0]
MCNormalCount == [e \in MCExams |-> <<2, 41, 1, 2>>[e + 1]]
MCAllowedNormal == [e \in MCExams |-> IF e = 3 THEN {1, 2} ELSE MCRooms]
MCAllowedAlone == [e \in MCExams |-> {1, 2}]
MCCapacity == [r \in MCRooms |-> <<4, 2, 1>>[r + 1]]
MCStart == [s \in MCSlots |-> <<0, 120, 210>>[s + 1]]
MCDayOf == [s \in MCSlots |-> 0]
MCSeatCost == [i \in MCSeats |-> [r \in MCRooms |-> IF r = 2 /\ i = 4 THEN 5 ELSE r]]
\* Nothing planned, a feasible plan, one that no longer is.
MCPrevPlans ==
    {[i \in MCSeats |-> 99],
     [i \in MCSeats |-> <<0, 0, 2, 0, 0, 1, 1>>[i + 1]],
     [i \in MCSeats |-> <<1, 1, 1, 1, 1, 1, 1>>[i + 1]]}
=============================================================================
