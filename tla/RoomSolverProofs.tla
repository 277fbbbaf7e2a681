-------------------------- MODULE RoomSolverProofs --------------------------
(***************************************************************************)
(* The room solver's counters and cost totals are at every step what a       *)
(* rebuild from the assignment gives, so that a rejected proposal leaves     *)
(* nothing behind; and every state it passes through keeps the hard rules.   *)
(***************************************************************************)
EXTENDS RoomSolver, SetFolds, SequenceTheorems

-----------------------------------------------------------------------------
(* The counters of an assignment *)

Assignments == [Seats -> Places]
In(a, r, s) == {i \in Seats : a[i] = r /\ SlotOfSeat(i) = s}
OfExam(a, e, r) == {i \in Seats : a[i] = r /\ ExamOf[i] = e}
InRoom(a, r) == {i \in Seats : a[i] = r}
RoomsOf(a, e) == {r \in Rooms : OfExam(a, e, r) # {}}
RoomsUsed(a) == {r \in Rooms : InRoom(a, r) # {}}

CellsOf(a) ==
  [used  |-> [r \in Rooms |-> [s \in Slots |-> Cardinality(In(a, r, s))]],
   alone |-> [r \in Rooms |-> [s \in Slots |-> Cardinality(In(a, r, s) \cap Alone)]],
   exam  |-> [e \in Exams |-> [r \in Rooms |-> Cardinality(OfExam(a, e, r))]],
   rooms |-> [e \in Exams |-> Cardinality(RoomsOf(a, e))],
   any   |-> [r \in Rooms |-> Cardinality(InRoom(a, r))],
   distinct |-> Cardinality(RoomsUsed(a))]

LEMMA Finiteness ==
  /\ IsFiniteSet(Seats) /\ IsFiniteSet(Rooms) /\ IsFiniteSet(Exams) /\ IsFiniteSet(Movable)
  /\ Movable \subseteq Seats /\ Fixed \subseteq Seats
BY RoomProblemAssumption, FS_Subset DEF Movable

LEMMA SeatData ==
  ASSUME NEW i \in Seats
  PROVE  ExamOf[i] \in Exams /\ SlotOfSeat(i) \in Slots
BY RoomProblemAssumption DEF SlotOfSeat

\* Adding an element, or taking one out, moves a count by one.
LEMMA CountAdd ==
  ASSUME NEW S, IsFiniteSet(S), NEW T \in SUBSET S, NEW x \in S, x \notin T
  PROVE  /\ Cardinality(T) \in Nat /\ Cardinality(T \cup {x}) = Cardinality(T) + 1
         /\ IsFiniteSet(T) /\ IsFiniteSet(T \cup {x})
<1>1. IsFiniteSet(T)
  BY FS_Subset
<1> QED BY <1>1, FS_AddElement, FS_CardinalityType

LEMMA CountRemove ==
  ASSUME NEW S, IsFiniteSet(S), NEW T \in SUBSET S, NEW x \in T
  PROVE  /\ Cardinality(T) \in Nat /\ Cardinality(T \ {x}) = Cardinality(T) - 1
         /\ IsFiniteSet(T) /\ IsFiniteSet(T \ {x})
<1>1. IsFiniteSet(T)
  BY FS_Subset
<1> QED BY <1>1, FS_RemoveElement, FS_CardinalityType

LEMMA CountZero ==
  ASSUME NEW S, IsFiniteSet(S), NEW T \in SUBSET S
  PROVE  Cardinality(T) \in Nat /\ (Cardinality(T) = 0 <=> T = {})
<1>1. IsFiniteSet(T)
  BY FS_Subset
<1> QED BY <1>1, FS_EmptySet, FS_CardinalityType

\* Seat i sits in room r in b, nowhere in a, and nothing else differs: its cell, its exam in
\* the room and the room count one more seat.
Takes(a, b, i, r) ==
  /\ \A q \in Rooms, t \in Slots :
        In(b, q, t) = IF q = r /\ t = SlotOfSeat(i) THEN In(a, q, t) \cup {i} ELSE In(a, q, t)
  /\ \A f \in Exams, q \in Rooms :
        OfExam(b, f, q) = IF f = ExamOf[i] /\ q = r THEN OfExam(a, f, q) \cup {i} ELSE OfExam(a, f, q)
  /\ \A q \in Rooms : InRoom(b, q) = IF q = r THEN InRoom(a, q) \cup {i} ELSE InRoom(a, q)
  /\ i \notin In(a, r, SlotOfSeat(i)) /\ i \notin OfExam(a, ExamOf[i], r) /\ i \notin InRoom(a, r)

LEMMA SeatTakes ==
  ASSUME NEW a \in Assignments, NEW i \in Seats, a[i] = None, NEW r \in Rooms
  PROVE  [a EXCEPT ![i] = r] \in Assignments /\ Takes(a, [a EXCEPT ![i] = r], i, r)
<1> DEFINE b == [a EXCEPT ![i] = r]
<1>1. a \in [Seats -> Places] /\ r # None /\ r \in Places
  BY RoomProblemAssumption DEF Assignments, Places
<1>2. b \in Assignments /\ \A k \in Seats : b[k] = IF k = i THEN r ELSE a[k]
  BY <1>1 DEF Assignments
<1> HIDE DEF b
<1>3. \A q \in Rooms : q # None
  BY RoomProblemAssumption
<1>4. \A q \in Rooms, t \in Slots :
         In(b, q, t) = IF q = r /\ t = SlotOfSeat(i) THEN In(a, q, t) \cup {i} ELSE In(a, q, t)
  BY <1>2, <1>3 DEF In
<1>5. \A f \in Exams, q \in Rooms :
         OfExam(b, f, q) = IF f = ExamOf[i] /\ q = r THEN OfExam(a, f, q) \cup {i} ELSE OfExam(a, f, q)
  BY <1>2, <1>3 DEF OfExam
<1>6. \A q \in Rooms : InRoom(b, q) = IF q = r THEN InRoom(a, q) \cup {i} ELSE InRoom(a, q)
  BY <1>2, <1>3 DEF InRoom
<1>7. i \notin In(a, r, SlotOfSeat(i)) /\ i \notin OfExam(a, ExamOf[i], r) /\ i \notin InRoom(a, r)
  BY <1>1 DEF In, OfExam, InRoom
<1>8. Takes(a, b, i, r)
  BY <1>4, <1>5, <1>6, <1>7 DEF Takes
<1> QED BY <1>2, <1>8 DEF b

\* The rooms of an exam, and of the plan, grow when the first seat comes.
LEMMA RoomsTaken ==
  ASSUME NEW a, NEW b, NEW i, NEW r \in Rooms, Takes(a, b, i, r)
  PROVE  /\ \A f \in Exams : RoomsOf(b, f) = IF f = ExamOf[i] THEN RoomsOf(a, f) \cup {r} ELSE RoomsOf(a, f)
         /\ RoomsUsed(b) = RoomsUsed(a) \cup {r}
<1>1. \A f \in Exams : RoomsOf(b, f) = IF f = ExamOf[i] THEN RoomsOf(a, f) \cup {r} ELSE RoomsOf(a, f)
  BY DEF RoomsOf, Takes
<1>2. RoomsUsed(b) = RoomsUsed(a) \cup {r}
  BY DEF RoomsUsed, Takes
<1> QED BY <1>1, <1>2

\* structuralAdd
LEMMA AddedExact ==
  ASSUME NEW a \in Assignments, NEW i \in Seats, a[i] = None, NEW r \in Rooms
  PROVE  Added(CellsOf(a), i, r) = CellsOf([a EXCEPT ![i] = r])
<1> DEFINE b == [a EXCEPT ![i] = r]
           e == ExamOf[i]
           s == SlotOfSeat(i)
           c == CellsOf(a)
           d == CellsOf(b)
<1>1. e \in Exams /\ s \in Slots
  BY SeatData
<1>0. Takes(a, b, i, r)
  BY SeatTakes
<1> HIDE DEF b
<1>2. /\ \A q \in Rooms, t \in Slots :
            In(b, q, t) = IF q = r /\ t = s THEN In(a, q, t) \cup {i} ELSE In(a, q, t)
      /\ \A f \in Exams, q \in Rooms :
            OfExam(b, f, q) = IF f = e /\ q = r THEN OfExam(a, f, q) \cup {i} ELSE OfExam(a, f, q)
      /\ \A q \in Rooms : InRoom(b, q) = IF q = r THEN InRoom(a, q) \cup {i} ELSE InRoom(a, q)
      /\ i \notin In(a, r, s) /\ i \notin OfExam(a, e, r) /\ i \notin InRoom(a, r)
  BY <1>0 DEF Takes
<1>3. /\ \A f \in Exams : RoomsOf(b, f) = IF f = e THEN RoomsOf(a, f) \cup {r} ELSE RoomsOf(a, f)
      /\ RoomsUsed(b) = RoomsUsed(a) \cup {r}
  BY <1>0, RoomsTaken
<1> HIDE DEF e, s
<1>4. d.used = [c.used EXCEPT ![r][s] = @ + 1]
  <2>1. Cardinality(In(b, r, s)) = Cardinality(In(a, r, s)) + 1
    <3>1. In(a, r, s) \in SUBSET Seats
      BY DEF In
    <3> QED BY <1>1, <1>2, <3>1, CountAdd, Finiteness
  <2>2. \A q \in Rooms, t \in Slots : ~(q = r /\ t = s) => In(b, q, t) = In(a, q, t)
    BY <1>2
  <2> QED BY <1>1, <2>1, <2>2 DEF CellsOf
<1>5. d.alone = IF i \in Alone THEN [c.alone EXCEPT ![r][s] = @ + 1] ELSE c.alone
  <2>1. i \in Alone => Cardinality(In(b, r, s) \cap Alone) = Cardinality(In(a, r, s) \cap Alone) + 1
    <3> HAVE i \in Alone
    <3> DEFINE T == In(a, r, s) \cap Alone
    <3>1. T \in SUBSET Seats /\ i \notin T
      BY <1>2 DEF In
    <3>2. In(b, r, s) \cap Alone = T \cup {i}
      <4>1. In(b, r, s) = In(a, r, s) \cup {i} /\ i \in Alone
        BY <1>1, <1>2
      <4> QED BY <4>1
    <3> HIDE DEF T
    <3>3. Cardinality(T \cup {i}) = Cardinality(T) + 1
      BY <3>1, CountAdd, Finiteness
    <3> QED BY <3>2, <3>3 DEF T
  <2>2. i \notin Alone => In(b, r, s) \cap Alone = In(a, r, s) \cap Alone
    BY <1>1, <1>2
  <2>3. \A q \in Rooms, t \in Slots : ~(q = r /\ t = s) => In(b, q, t) = In(a, q, t)
    BY <1>2
  <2>4. CASE i \in Alone
    BY <1>1, <2>1, <2>3, <2>4 DEF CellsOf
  <2>5. CASE i \notin Alone
    <3>1. \A q \in Rooms, t \in Slots : In(b, q, t) \cap Alone = In(a, q, t) \cap Alone
      BY <2>2, <2>3, <2>5
    <3> QED BY <2>5, <3>1 DEF CellsOf
  <2> QED BY <2>4, <2>5
<1>6. d.exam = [c.exam EXCEPT ![e][r] = @ + 1]
  <2>1. Cardinality(OfExam(b, e, r)) = Cardinality(OfExam(a, e, r)) + 1
    <3>1. OfExam(a, e, r) \in SUBSET Seats
      BY DEF OfExam
    <3> QED BY <1>1, <1>2, <3>1, CountAdd, Finiteness
  <2>2. \A f \in Exams, q \in Rooms : ~(f = e /\ q = r) => OfExam(b, f, q) = OfExam(a, f, q)
    BY <1>2
  <2> QED BY <1>1, <2>1, <2>2 DEF CellsOf
<1>7. d.any = [c.any EXCEPT ![r] = @ + 1]
  <2>1. Cardinality(InRoom(b, r)) = Cardinality(InRoom(a, r)) + 1
    <3>1. InRoom(a, r) \in SUBSET Seats
      BY DEF InRoom
    <3> QED BY <1>1, <1>2, <3>1, CountAdd, Finiteness
  <2>2. \A q \in Rooms : q # r => InRoom(b, q) = InRoom(a, q)
    BY <1>2
  <2> QED BY <1>1, <2>1, <2>2 DEF CellsOf
<1>8. d.rooms = IF c.exam[e][r] = 0 THEN [c.rooms EXCEPT ![e] = @ + 1] ELSE c.rooms
  <2>1. c.exam[e][r] = 0 <=> r \notin RoomsOf(a, e)
    <3>1. OfExam(a, e, r) \in SUBSET Seats
      BY DEF OfExam
    <3>2. Cardinality(OfExam(a, e, r)) = 0 <=> OfExam(a, e, r) = {}
      BY <3>1, CountZero, Finiteness
    <3> QED BY <1>1, <3>2 DEF CellsOf, RoomsOf
  <2>2. r \notin RoomsOf(a, e) => Cardinality(RoomsOf(b, e)) = Cardinality(RoomsOf(a, e)) + 1
    <3>1. RoomsOf(a, e) \in SUBSET Rooms
      BY DEF RoomsOf
    <3> QED BY <1>1, <1>3, <3>1, CountAdd, Finiteness
  <2>3. r \in RoomsOf(a, e) => RoomsOf(b, e) = RoomsOf(a, e)
    BY <1>1, <1>3
  <2>4. \A f \in Exams : f # e => RoomsOf(b, f) = RoomsOf(a, f)
    BY <1>3
  <2>5. CASE r \notin RoomsOf(a, e)
    <3>1. d.rooms = [c.rooms EXCEPT ![e] = @ + 1]
      BY <1>1, <2>2, <2>4, <2>5 DEF CellsOf
    <3> QED BY <2>1, <2>5, <3>1
  <2>6. CASE r \in RoomsOf(a, e)
    <3>1. \A f \in Exams : RoomsOf(b, f) = RoomsOf(a, f)
      BY <2>3, <2>4, <2>6
    <3>2. d.rooms = c.rooms
      BY <3>1 DEF CellsOf
    <3> QED BY <2>1, <2>6, <3>2
  <2> QED BY <2>5, <2>6
<1>9. d.distinct = IF c.any[r] = 0 THEN c.distinct + 1 ELSE c.distinct
  <2>1. c.any[r] = 0 <=> r \notin RoomsUsed(a)
    <3>1. InRoom(a, r) \in SUBSET Seats
      BY DEF InRoom
    <3>2. Cardinality(InRoom(a, r)) = 0 <=> InRoom(a, r) = {}
      BY <3>1, CountZero, Finiteness
    <3> QED BY <3>2 DEF CellsOf, RoomsUsed
  <2>2. r \notin RoomsUsed(a) => Cardinality(RoomsUsed(b)) = Cardinality(RoomsUsed(a)) + 1
    <3>1. RoomsUsed(a) \in SUBSET Rooms
      BY DEF RoomsUsed
    <3> QED BY <1>3, <3>1, CountAdd, Finiteness, SMTT(30)
  <2>3. r \in RoomsUsed(a) => RoomsUsed(b) = RoomsUsed(a)
    BY <1>3
  <2> QED BY <2>1, <2>2, <2>3 DEF CellsOf
<1>10. Added(c, i, r) = [used |-> d.used, alone |-> d.alone, exam |-> d.exam, rooms |-> d.rooms,
                         any |-> d.any, distinct |-> d.distinct]
  BY <1>4, <1>5, <1>6, <1>7, <1>8, <1>9 DEF Added, e, s
<1>11. d = [used |-> d.used, alone |-> d.alone, exam |-> d.exam, rooms |-> d.rooms,
            any |-> d.any, distinct |-> d.distinct]
  BY DEF CellsOf
<1> QED BY <1>10, <1>11 DEF b

Counters == [used: [Rooms -> [Slots -> Int]], alone: [Rooms -> [Slots -> Int]],
             exam: [Exams -> [Rooms -> Int]], rooms: [Exams -> Int],
             any: [Rooms -> Int], distinct: Int]

\* Counting gives naturals.
LEMMA CellsCount ==
  ASSUME NEW a
  PROVE  /\ CellsOf(a) \in Counters
         /\ CellsOf(a).used \in [Rooms -> [Slots -> Nat]] /\ CellsOf(a).alone \in [Rooms -> [Slots -> Nat]]
         /\ CellsOf(a).exam \in [Exams -> [Rooms -> Nat]] /\ CellsOf(a).rooms \in [Exams -> Nat]
         /\ CellsOf(a).any \in [Rooms -> Nat] /\ CellsOf(a).distinct \in Nat
<1>1. \A r, s : Cardinality(In(a, r, s)) \in Nat
  <2> TAKE r, s
  <2>1. In(a, r, s) \in SUBSET Seats
    BY DEF In
  <2> QED BY <2>1, CountZero, Finiteness
<1>2. \A r, s : Cardinality(In(a, r, s) \cap Alone) \in Nat
  <2> TAKE r, s
  <2>1. In(a, r, s) \cap Alone \in SUBSET Seats
    BY DEF In
  <2> QED BY <2>1, CountZero, Finiteness
<1>3. \A e, r : Cardinality(OfExam(a, e, r)) \in Nat
  <2> TAKE e, r
  <2>1. OfExam(a, e, r) \in SUBSET Seats
    BY DEF OfExam
  <2> QED BY <2>1, CountZero, Finiteness
<1>4. \A r : Cardinality(InRoom(a, r)) \in Nat
  <2> TAKE r
  <2>1. InRoom(a, r) \in SUBSET Seats
    BY DEF InRoom
  <2> QED BY <2>1, CountZero, Finiteness
<1>5. \A e : Cardinality(RoomsOf(a, e)) \in Nat
  <2> TAKE e
  <2>1. RoomsOf(a, e) \in SUBSET Rooms
    BY DEF RoomsOf
  <2> QED BY <2>1, CountZero, Finiteness
<1>6. Cardinality(RoomsUsed(a)) \in Nat
  <2>1. RoomsUsed(a) \in SUBSET Rooms
    BY DEF RoomsUsed
  <2> QED BY <2>1, CountZero, Finiteness
<1>7. /\ CellsOf(a).used \in [Rooms -> [Slots -> Nat]] /\ CellsOf(a).alone \in [Rooms -> [Slots -> Nat]]
      /\ CellsOf(a).exam \in [Exams -> [Rooms -> Nat]] /\ CellsOf(a).rooms \in [Exams -> Nat]
      /\ CellsOf(a).any \in [Rooms -> Nat] /\ CellsOf(a).distinct \in Nat
  BY <1>1, <1>2, <1>3, <1>4, <1>5, <1>6 DEF CellsOf
<1>8. CellsOf(a) = [used |-> CellsOf(a).used, alone |-> CellsOf(a).alone, exam |-> CellsOf(a).exam,
                    rooms |-> CellsOf(a).rooms, any |-> CellsOf(a).any, distinct |-> CellsOf(a).distinct]
  BY DEF CellsOf
<1>9. /\ CellsOf(a).used \in [Rooms -> [Slots -> Int]] /\ CellsOf(a).alone \in [Rooms -> [Slots -> Int]]
      /\ CellsOf(a).exam \in [Exams -> [Rooms -> Int]] /\ CellsOf(a).rooms \in [Exams -> Int]
      /\ CellsOf(a).any \in [Rooms -> Int] /\ CellsOf(a).distinct \in Int
  BY <1>7
<1>10. CellsOf(a) \in Counters
  BY <1>8, <1>9 DEF Counters
<1> QED BY <1>7, <1>10

\* structuralRemove takes back what structuralAdd did.
LEMMA RemovedUndoesAdded ==
  ASSUME NEW c \in Counters, NEW i \in Seats, NEW r \in Rooms
  PROVE  Added(c, i, r) \in Counters /\ Removed(Added(c, i, r), i, r) = c
<1> DEFINE e == ExamOf[i]
           s == SlotOfSeat(i)
           d == Added(c, i, r)
           x == Removed(d, i, r)
<1>1. e \in Exams /\ s \in Slots
  BY SeatData
<1>2. /\ c.used \in [Rooms -> [Slots -> Int]] /\ c.alone \in [Rooms -> [Slots -> Int]]
      /\ c.exam \in [Exams -> [Rooms -> Int]] /\ c.rooms \in [Exams -> Int]
      /\ c.any \in [Rooms -> Int] /\ c.distinct \in Int
      /\ c = [used |-> c.used, alone |-> c.alone, exam |-> c.exam, rooms |-> c.rooms,
              any |-> c.any, distinct |-> c.distinct]
  BY DEF Counters
<1>3. /\ d.used = [c.used EXCEPT ![r][s] = @ + 1]
      /\ d.alone = (IF i \in Alone THEN [c.alone EXCEPT ![r][s] = @ + 1] ELSE c.alone)
      /\ d.exam = [c.exam EXCEPT ![e][r] = @ + 1]
      /\ d.rooms = (IF c.exam[e][r] = 0 THEN [c.rooms EXCEPT ![e] = @ + 1] ELSE c.rooms)
      /\ d.any = [c.any EXCEPT ![r] = @ + 1]
      /\ d.distinct = (IF c.any[r] = 0 THEN c.distinct + 1 ELSE c.distinct)
      /\ d = [used |-> d.used, alone |-> d.alone, exam |-> d.exam, rooms |-> d.rooms,
              any |-> d.any, distinct |-> d.distinct]
  BY DEF Added
<1>4. /\ x.used = [d.used EXCEPT ![r][s] = @ - 1]
      /\ x.alone = (IF i \in Alone THEN [d.alone EXCEPT ![r][s] = @ - 1] ELSE d.alone)
      /\ x.exam = [d.exam EXCEPT ![e][r] = @ - 1]
      /\ x.rooms = (IF d.exam[e][r] = 1 THEN [d.rooms EXCEPT ![e] = @ - 1] ELSE d.rooms)
      /\ x.any = [d.any EXCEPT ![r] = @ - 1]
      /\ x.distinct = (IF d.any[r] = 1 THEN d.distinct - 1 ELSE d.distinct)
      /\ x = [used |-> x.used, alone |-> x.alone, exam |-> x.exam, rooms |-> x.rooms,
              any |-> x.any, distinct |-> x.distinct]
  BY DEF Removed
<1> HIDE DEF e, s, d, x
<1>5. d.used \in [Rooms -> [Slots -> Int]] /\ x.used = c.used
  BY <1>1, <1>2, <1>3, <1>4
<1>6. d.alone \in [Rooms -> [Slots -> Int]] /\ x.alone = c.alone
  <2>1. CASE i \in Alone
    BY <1>1, <1>2, <1>3, <1>4, <2>1
  <2>2. CASE i \notin Alone
    BY <1>2, <1>3, <1>4, <2>2
  <2> QED BY <2>1, <2>2
<1>7. d.exam \in [Exams -> [Rooms -> Int]] /\ x.exam = c.exam /\ d.exam[e][r] = c.exam[e][r] + 1
      /\ c.exam[e][r] \in Int
  BY <1>1, <1>2, <1>3, <1>4
<1>8. d.rooms \in [Exams -> Int] /\ x.rooms = c.rooms
  <2>1. CASE c.exam[e][r] = 0
    BY <1>1, <1>2, <1>3, <1>4, <1>7, <2>1
  <2>2. CASE c.exam[e][r] # 0
    BY <1>2, <1>3, <1>4, <1>7, <2>2
  <2> QED BY <2>1, <2>2
<1>9. d.any \in [Rooms -> Int] /\ x.any = c.any /\ d.any[r] = c.any[r] + 1 /\ c.any[r] \in Int
  BY <1>2, <1>3, <1>4
<1>10. d.distinct \in Int /\ x.distinct = c.distinct
  BY <1>2, <1>3, <1>4, <1>9
<1>11. d \in Counters
  BY <1>3, <1>5, <1>6, <1>7, <1>8, <1>9, <1>10 DEF Counters
<1>12. x = c
  BY <1>2, <1>4, <1>5, <1>6, <1>7, <1>8, <1>9, <1>10
<1> QED BY <1>11, <1>12 DEF d, x

\* structuralRemove
LEMMA RemovedExact ==
  ASSUME NEW a \in Assignments, NEW i \in Seats, a[i] \in Rooms
  PROVE  /\ [a EXCEPT ![i] = None] \in Assignments
         /\ Removed(CellsOf(a), i, a[i]) = CellsOf([a EXCEPT ![i] = None])
<1> DEFINE b == [a EXCEPT ![i] = None]
<1>1. b \in Assignments /\ b[i] = None /\ [b EXCEPT ![i] = a[i]] = a
  BY DEF Assignments, Places
<1> HIDE DEF b
<1>2. Added(CellsOf(b), i, a[i]) = CellsOf(a)
  BY <1>1, AddedExact
<1>3. Removed(Added(CellsOf(b), i, a[i]), i, a[i]) = CellsOf(b)
  BY CellsCount, RemovedUndoesAdded
<1> QED BY <1>1, <1>2, <1>3 DEF b

\* Out of the room the seat has, into another or into none.
LEMMA ReseatedExact ==
  ASSUME NEW a \in Assignments, NEW i \in Seats, NEW r \in Places
  PROVE  /\ [a EXCEPT ![i] = r] \in Assignments
         /\ Reseated(CellsOf(a), i, a[i], r) = CellsOf([a EXCEPT ![i] = r])
<1> DEFINE b == [a EXCEPT ![i] = None]
<1>1. /\ a[i] \in Places /\ b \in Assignments /\ b[i] = None /\ [b EXCEPT ![i] = r] = [a EXCEPT ![i] = r]
      /\ [a EXCEPT ![i] = r] \in Assignments /\ [b EXCEPT ![i] = None] = b
      /\ a[i] = None => b = a
  BY DEF Assignments, Places
<1>2. (IF a[i] # None THEN Removed(CellsOf(a), i, a[i]) ELSE CellsOf(a)) = CellsOf(b)
  <2>1. CASE a[i] # None
    BY <1>1, <2>1, RemovedExact DEF Places
  <2>2. CASE a[i] = None
    BY <1>1, <2>2
  <2> QED BY <2>1, <2>2
<1> HIDE DEF b
<1>3. (IF r # None THEN Added(CellsOf(b), i, r) ELSE CellsOf(b)) = CellsOf([b EXCEPT ![i] = r])
  <2>1. CASE r # None
    BY <1>1, <2>1, AddedExact DEF Places
  <2>2. CASE r = None
    BY <1>1, <2>2
  <2> QED BY <2>1, <2>2
<1> QED BY <1>1, <1>2, <1>3 DEF Reseated

-----------------------------------------------------------------------------
(* The cost totals of an assignment *)

Fresh(a) == [room |-> a, cells |-> CellsOf(a), total |-> FreshTotal(a, CellsOf(a))]

LEMMA DataInt ==
  /\ \A e \in Exams : NormalCount[e] \in Nat /\ Duration[e] \in Nat /\ PreExtra[e] \in Nat /\ PostExtra[e] \in Nat
  /\ \A r \in Rooms : Capacity[r] \in Nat
  /\ \A s \in Slots : Start[s] \in Nat
  /\ Buffer \in Int /\ Split \in Int /\ Compaction \in Int /\ Churn \in Int /\ Lag \in Int
  /\ \A i \in Seats, r \in Places : SeatCostOf(i, r) \in Int
  /\ \A i \in Seats, r \in Places : ChurnCostOf(i, r) \in Int
<1>1. /\ {Duration, PreExtra, PostExtra, NormalCount} \subseteq [Exams -> Nat]
      /\ Capacity \in [Rooms -> Nat] /\ Start \in [Slots -> Nat]
      /\ SeatCost \in [Seats -> [Rooms -> Nat]]
      /\ {Lag, Unplaced, Buffer, Split, Compaction, Churn} \subseteq Nat
  BY RoomProblemAssumption
<1>2. /\ Duration \in [Exams -> Nat] /\ PreExtra \in [Exams -> Nat] /\ PostExtra \in [Exams -> Nat]
      /\ NormalCount \in [Exams -> Nat]
  BY <1>1
<1>3. Buffer \in Int /\ Split \in Int /\ Compaction \in Int /\ Churn \in Int /\ Lag \in Int
  BY <1>1
<1>4. \A i \in Seats, r \in Places : SeatCostOf(i, r) \in Int
  BY <1>1 DEF SeatCostOf, Places
<1>5. \A i \in Seats, r \in Places : ChurnCostOf(i, r) \in Int
  BY <1>3 DEF ChurnCostOf
<1> QED BY <1>1, <1>2, <1>3, <1>4, <1>5

\* freeSeatsBuffer
LEMMA NeedInt ==
  ASSUME NEW e \in Exams
  PROVE  Need(e) \in Int
<1> DEFINE n == (NormalCount[e] * 5 + 99) \div 100
<1>1. n \in Int
  BY DataInt
<1> HIDE DEF n
<1>2. Max({2, n}) \in {2, n}
  <2>1. 2 \in Int
    OBVIOUS
  <2> QED BY <1>1, <2>1, ExtremeOfPair
<1> QED BY <1>1, <1>2 DEF Need, n

LEMMA BufferInt ==
  ASSUME NEW a, NEW e \in Exams
  PROVE  BufferPenalty(CellsOf(a), e) \in Int
<1> DEFINE c == CellsOf(a)
           s == SlotOf[e]
           mine == {r \in Rooms : c.exam[e][r] > 0 /\ c.alone[r][s] = 0}
           f == [r \in mine |-> Max({0, Capacity[r] - c.used[r][s]})]
           free == SumFunction(f)
<1>1. s \in Slots
  BY RoomProblemAssumption
<1>2. mine \in SUBSET Rooms /\ IsFiniteSet(mine)
  BY Finiteness, FS_Subset
<1>3. \A r \in Rooms : Capacity[r] - c.used[r][s] \in Int
  BY <1>1, CellsCount, DataInt
<1>4. \A r \in mine : f[r] \in Int
  <2> HIDE DEF c, s
  <2> TAKE r \in mine
  <2> DEFINE seats == Capacity[r] - c.used[r][s]
  <2>1. 0 \in Int /\ seats \in Int
    BY <1>2, <1>3
  <2> HIDE DEF seats
  <2>2. Max({0, seats}) \in {0, seats}
    BY <2>1, ExtremeOfPair
  <2> QED BY <2>1, <2>2 DEF seats
<1>5. free = SumFunctionOnSet(f, mine)
  BY DEF SumFunction
<1> HIDE DEF f, mine
<1>6. free \in Int
  BY <1>2, <1>4, <1>5, SumInt
<1> HIDE DEF free
<1>7. Buffer * (Need(e) - free) \in Int
  BY <1>6, NeedInt, DataInt, ProductInt
<1>8. BufferPenalty(c, e) = IF mine = {} \/ free >= Need(e) THEN 0 ELSE Buffer * (Need(e) - free)
  BY DEF BufferPenalty, mine, free, f, s
<1> QED BY <1>7, <1>8 DEF c

\* A seat that moves changes the cells of its own slot, and its own exam, only.
LEMMA OtherSlots ==
  ASSUME NEW a \in Assignments, NEW i \in Seats, NEW r \in Places
  PROVE  LET b == [a EXCEPT ![i] = r]
         IN  /\ \A q \in Rooms, t \in Slots : t # SlotOfSeat(i) => In(b, q, t) = In(a, q, t)
             /\ \A f \in Exams : f # ExamOf[i] =>
                   /\ \A q \in Rooms : OfExam(b, f, q) = OfExam(a, f, q)
                   /\ RoomsOf(b, f) = RoomsOf(a, f)
<1> DEFINE b == [a EXCEPT ![i] = r]
<1>1. \A k \in Seats : k # i => b[k] = a[k]
  BY DEF Assignments
<1> HIDE DEF b
<1>2. \A q \in Rooms, t \in Slots : t # SlotOfSeat(i) => In(b, q, t) = In(a, q, t)
  BY <1>1 DEF In
<1>3. \A f \in Exams, q \in Rooms : f # ExamOf[i] => OfExam(b, f, q) = OfExam(a, f, q)
  BY <1>1 DEF OfExam
<1>4. \A f \in Exams : f # ExamOf[i] => RoomsOf(b, f) = RoomsOf(a, f)
  BY <1>3 DEF RoomsOf
<1> QED BY <1>2, <1>3, <1>4 DEF b

\* recomputeBufferSlot: the buffers of the exams in other slots stay.
LEMMA OtherBuffers ==
  ASSUME NEW a \in Assignments, NEW i \in Seats, NEW r \in Places,
         NEW f \in Exams, f \notin Affected(ExamOf[i])
  PROVE  BufferPenalty(CellsOf([a EXCEPT ![i] = r]), f) = BufferPenalty(CellsOf(a), f)
<1> DEFINE b == [a EXCEPT ![i] = r]
           c == CellsOf(a)
           d == CellsOf(b)
           s == SlotOf[f]
           mine(x) == {q \in Rooms : x.exam[f][q] > 0 /\ x.alone[q][s] = 0}
           seats(x) == [q \in mine(x) |-> Max({0, Capacity[q] - x.used[q][s]})]
<1>1. s \in Slots /\ s # SlotOfSeat(i) /\ f # ExamOf[i]
  BY SeatData, RoomProblemAssumption DEF Affected, ExamsIn, SlotOfSeat
<1>2. \A q \in Rooms : In(b, q, s) = In(a, q, s) /\ OfExam(b, f, q) = OfExam(a, f, q)
  BY <1>1, OtherSlots
<1> HIDE DEF b, s
<1>3. \A q \in Rooms : d.exam[f][q] = c.exam[f][q] /\ d.alone[q][s] = c.alone[q][s]
                       /\ d.used[q][s] = c.used[q][s]
  BY <1>1, <1>2 DEF CellsOf
<1> HIDE DEF c, d
<1>4. mine(d) = mine(c)
  BY <1>3
<1>5. seats(d) = seats(c)
  BY <1>3, <1>4
<1>6. \A x : BufferPenalty(x, f) = IF mine(x) = {} \/ SumFunction(seats(x)) >= Need(f)
                                   THEN 0 ELSE Buffer * (Need(f) - SumFunction(seats(x)))
  BY DEF BufferPenalty, s
<1> HIDE DEF mine, seats
<1>7. BufferPenalty(d, f) = BufferPenalty(c, f)
  BY <1>4, <1>5, <1>6
<1> QED BY <1>7 DEF b, c, d

LEMMA SumIsOnDomain ==
  ASSUME NEW f, NEW S, DOMAIN f = S
  PROVE  SumFunction(f) = SumFunctionOnSet(f, S)
BY DEF SumFunction

\* buffer: the differences of the exams in the slot.
LEMMA BufferMoved ==
  ASSUME NEW a \in Assignments, NEW i \in Seats, NEW r \in Places
  PROVE  LET b == [a EXCEPT ![i] = r]
             t == FreshTotal(a, CellsOf(a))
             u == FreshTotal(b, CellsOf(b))
             near == Affected(ExamOf[i])
             by == [f \in Exams |-> IF f \in near THEN BufferPenalty(CellsOf(b), f) ELSE t.byExam[f]]
         IN  /\ u.byExam = by
             /\ u.buffer = t.buffer + SumFunction([f \in near |-> by[f] - t.byExam[f]])
<1> DEFINE b == [a EXCEPT ![i] = r]
           near == Affected(ExamOf[i])
           tb == [f \in Exams |-> BufferPenalty(CellsOf(a), f)]
           ub == [f \in Exams |-> BufferPenalty(CellsOf(b), f)]
           by == [f \in Exams |-> IF f \in near THEN BufferPenalty(CellsOf(b), f) ELSE tb[f]]
           d == [f \in near |-> by[f] - tb[f]]
<1>1. near \in SUBSET Exams
  BY DEF Affected, ExamsIn
<1>2. \A f \in Exams \ near : BufferPenalty(CellsOf(b), f) = BufferPenalty(CellsOf(a), f)
  BY OtherBuffers
<1>3. \A f \in Exams : BufferPenalty(CellsOf(a), f) \in Int /\ BufferPenalty(CellsOf(b), f) \in Int
  BY BufferInt
<1> HIDE DEF b, near
<1>4. ub = by
  BY <1>2
<1>5. /\ \A f \in Exams : ub[f] \in Int /\ tb[f] \in Int
      /\ \A f \in Exams \ near : ub[f] = tb[f]
      /\ \A f \in near : d[f] = ub[f] - tb[f]
      /\ DOMAIN ub = Exams /\ DOMAIN tb = Exams /\ DOMAIN d = near
  BY <1>1, <1>2, <1>3, <1>4
<1>6. d = [f \in near |-> by[f] - tb[f]]
  OBVIOUS
<1> HIDE DEF tb, ub, by, d
<1>7. SumFunctionOnSet(ub, Exams) = SumFunctionOnSet(tb, Exams) + SumFunctionOnSet(d, near)
  BY <1>1, <1>5, SumUpdate, Finiteness
<1>8. /\ SumFunction(ub) = SumFunctionOnSet(ub, Exams) /\ SumFunction(tb) = SumFunctionOnSet(tb, Exams)
      /\ SumFunction(d) = SumFunctionOnSet(d, near)
  BY <1>5, SumIsOnDomain
<1>9. SumFunction(ub) = SumFunction(tb) + SumFunction([f \in near |-> by[f] - tb[f]])
  BY <1>6, <1>7, <1>8
<1>10. /\ FreshTotal(a, CellsOf(a)).byExam = tb /\ FreshTotal(a, CellsOf(a)).buffer = SumFunction(tb)
       /\ FreshTotal(b, CellsOf(b)).byExam = ub /\ FreshTotal(b, CellsOf(b)).buffer = SumFunction(ub)
  BY DEF FreshTotal, tb, ub
<1> QED BY <1>4, <1>9, <1>10 DEF b, near, by

\* seat and churn: what the moved seat costs.
LEMMA SeatMoved ==
  ASSUME NEW a \in Assignments, NEW i \in Seats, NEW r \in Places
  PROVE  LET b == [a EXCEPT ![i] = r]
             t == FreshTotal(a, CellsOf(a))
             u == FreshTotal(b, CellsOf(b))
         IN  /\ u.seat = t.seat + SeatCostOf(i, r) - SeatCostOf(i, a[i])
             /\ u.churn = t.churn + ChurnCostOf(i, r) - ChurnCostOf(i, a[i])
<1> DEFINE b == [a EXCEPT ![i] = r]
           ts == [k \in Seats |-> SeatCostOf(k, a[k])]
           us == [k \in Seats |-> SeatCostOf(k, b[k])]
           tc == [k \in Seats |-> ChurnCostOf(k, a[k])]
           uc == [k \in Seats |-> ChurnCostOf(k, b[k])]
<1>1. (\A k \in Seats : a[k] \in Places /\ b[k] \in Places) /\ b[i] = r
      /\ \A k \in Seats \ {i} : b[k] = a[k]
  BY DEF Assignments
<1> HIDE DEF b
<1>2. /\ \A k \in Seats : SeatCostOf(k, a[k]) \in Int /\ SeatCostOf(k, b[k]) \in Int
      /\ \A k \in Seats : ChurnCostOf(k, a[k]) \in Int /\ ChurnCostOf(k, b[k]) \in Int
  BY <1>1, DataInt
<1>3. /\ \A k \in Seats : us[k] \in Int /\ ts[k] \in Int
      /\ \A k \in Seats \ {i} : us[k] = ts[k]
      /\ us[i] = SeatCostOf(i, r) /\ ts[i] = SeatCostOf(i, a[i])
      /\ DOMAIN us = Seats /\ DOMAIN ts = Seats
  BY <1>1, <1>2
<1>4. /\ \A k \in Seats : uc[k] \in Int /\ tc[k] \in Int
      /\ \A k \in Seats \ {i} : uc[k] = tc[k]
      /\ uc[i] = ChurnCostOf(i, r) /\ tc[i] = ChurnCostOf(i, a[i])
      /\ DOMAIN uc = Seats /\ DOMAIN tc = Seats
  BY <1>1, <1>2
<1> HIDE DEF ts, us, tc, uc
<1>5. SumFunctionOnSet(us, Seats) = SumFunctionOnSet(ts, Seats) + us[i] - ts[i]
  BY <1>3, SumUpdateOne, Finiteness
<1>6. SumFunctionOnSet(uc, Seats) = SumFunctionOnSet(tc, Seats) + uc[i] - tc[i]
  BY <1>4, SumUpdateOne, Finiteness
<1>7. /\ SumFunction(us) = SumFunctionOnSet(us, Seats) /\ SumFunction(ts) = SumFunctionOnSet(ts, Seats)
      /\ SumFunction(uc) = SumFunctionOnSet(uc, Seats) /\ SumFunction(tc) = SumFunctionOnSet(tc, Seats)
  BY <1>3, <1>4, SumIsOnDomain
<1>8. /\ FreshTotal(a, CellsOf(a)).seat = SumFunction(ts) /\ FreshTotal(a, CellsOf(a)).churn = SumFunction(tc)
      /\ FreshTotal(b, CellsOf(b)).seat = SumFunction(us) /\ FreshTotal(b, CellsOf(b)).churn = SumFunction(uc)
  BY DEF FreshTotal, ts, us, tc, uc
<1> QED BY <1>3, <1>4, <1>5, <1>6, <1>7, <1>8 DEF b

\* split: the rooms of the moved seat's exam.
LEMMA SplitMoved ==
  ASSUME NEW a \in Assignments, NEW i \in Seats, NEW r \in Places
  PROVE  LET b == [a EXCEPT ![i] = r]
             e == ExamOf[i]
         IN  FreshTotal(b, CellsOf(b)).split
               = FreshTotal(a, CellsOf(a)).split
                 + Split * (ExtraRooms(CellsOf(b).rooms[e]) - ExtraRooms(CellsOf(a).rooms[e]))
<1> DEFINE b == [a EXCEPT ![i] = r]
           e == ExamOf[i]
           x(c, f) == ExtraRooms(c.rooms[f])
           t == [f \in Exams |-> Split * x(CellsOf(a), f)]
           u == [f \in Exams |-> Split * x(CellsOf(b), f)]
<1>1. \A n \in Int : ExtraRooms(n) \in Int
  <2> TAKE n \in Int
  <2> DEFINE m == n - 1
  <2>1. 0 \in Int /\ m \in Int
    OBVIOUS
  <2> HIDE DEF m
  <2>2. Max({0, m}) \in {0, m}
    BY <2>1, ExtremeOfPair
  <2> QED BY <2>1, <2>2 DEF ExtraRooms, m
<1>2. e \in Exams
  BY SeatData
<1>3. \A f \in Exams \ {e} : RoomsOf(b, f) = RoomsOf(a, f)
  BY OtherSlots
<1> HIDE DEF b, e
<1>4. \A f \in Exams \ {e} : CellsOf(b).rooms[f] = CellsOf(a).rooms[f]
  BY <1>3 DEF CellsOf
<1>5. \A f \in Exams : x(CellsOf(a), f) \in Int /\ x(CellsOf(b), f) \in Int
  <2>1. \A f \in Exams : CellsOf(a).rooms[f] \in Int /\ CellsOf(b).rooms[f] \in Int
    BY CellsCount
  <2> QED BY <1>1, <2>1
<1>6. \A f \in Exams \ {e} : x(CellsOf(b), f) = x(CellsOf(a), f)
  BY <1>4
<1> HIDE DEF x
<1>7. /\ \A f \in Exams : u[f] \in Int /\ t[f] \in Int
      /\ \A f \in Exams \ {e} : u[f] = t[f]
      /\ DOMAIN u = Exams /\ DOMAIN t = Exams
  BY <1>5, <1>6, DataInt, ProductInt
<1>8. u[e] - t[e] = Split * (x(CellsOf(b), e) - x(CellsOf(a), e)) /\ u[e] \in Int /\ t[e] \in Int
  <2>1. \A p, m, n \in Int : p * m - p * n = p * (m - n)
    OBVIOUS
  <2>2. u[e] = Split * x(CellsOf(b), e) /\ t[e] = Split * x(CellsOf(a), e) /\ Split \in Int
    BY <1>2, DataInt
  <2> QED BY <1>2, <1>5, <1>7, <2>1, <2>2
<1>9. FreshTotal(a, CellsOf(a)).split = SumFunction(t) /\ FreshTotal(b, CellsOf(b)).split = SumFunction(u)
  BY DEF FreshTotal, t, u, x
<1> HIDE DEF t, u
<1>10. /\ SumFunctionOnSet(u, Exams) = SumFunctionOnSet(t, Exams) + u[e] - t[e]
       /\ SumFunctionOnSet(t, Exams) \in Int
  BY <1>2, <1>7, SumUpdateOne, Finiteness
<1>11. SumFunction(u) = SumFunctionOnSet(u, Exams) /\ SumFunction(t) = SumFunctionOnSet(t, Exams)
  BY <1>7, SumIsOnDomain
<1>12. SumFunction(u) = SumFunction(t) + (u[e] - t[e])
  BY <1>8, <1>10, <1>11
<1> QED BY <1>8, <1>9, <1>12 DEF b, e, x

\* unplaced: the movable seats without a room.
LEMMA UnplacedMoved ==
  ASSUME NEW a \in Assignments, NEW i \in Movable, NEW r \in Places
  PROVE  LET b == [a EXCEPT ![i] = r]
             t == FreshTotal(a, CellsOf(a))
             u == FreshTotal(b, CellsOf(b))
         IN  u.unplaced = t.unplaced + (IF r = None THEN 1 ELSE 0) - (IF a[i] = None THEN 1 ELSE 0)
<1> DEFINE b == [a EXCEPT ![i] = r]
           T == {k \in Movable : a[k] = None}
           U == {k \in Movable : b[k] = None}
<1>1. b[i] = r /\ (\A k \in Movable : k # i => b[k] = a[k])
  BY Finiteness DEF Assignments
<1> HIDE DEF b
<1>2. T \in SUBSET Movable /\ U \in SUBSET Movable /\ Cardinality(T) \in Nat /\ Cardinality(U) \in Nat
  BY CountZero, Finiteness
<1>3. Cardinality(U) = Cardinality(T) + (IF r = None THEN 1 ELSE 0) - (IF a[i] = None THEN 1 ELSE 0)
  <2>1. CASE r = None /\ a[i] # None
    <3>1. U = T \cup {i} /\ i \notin T
      BY <1>1, <2>1
    <3> HIDE DEF T, U
    <3>2. Cardinality(T \cup {i}) = Cardinality(T) + 1
      BY <1>2, <3>1, CountAdd, Finiteness
    <3> QED BY <1>2, <2>1, <3>1, <3>2
  <2>2. CASE r # None /\ a[i] = None
    <3>1. U = T \ {i} /\ i \in T
      BY <1>1, <2>2
    <3> HIDE DEF T, U
    <3>2. Cardinality(T \ {i}) = Cardinality(T) - 1
      BY <1>2, <3>1, CountRemove, Finiteness
    <3> QED BY <1>2, <2>2, <3>1, <3>2
  <2>3. CASE (r = None) <=> (a[i] = None)
    <3>1. U = T
      BY <1>1, <2>3
    <3> HIDE DEF T, U
    <3> QED BY <1>2, <2>3, <3>1
  <2> QED BY <2>1, <2>2, <2>3
<1>4. FreshTotal(a, CellsOf(a)).unplaced = Cardinality(T) /\ FreshTotal(b, CellsOf(b)).unplaced = Cardinality(U)
  BY DEF FreshTotal
<1> HIDE DEF T, U
<1> QED BY <1>3, <1>4 DEF b

\* moveSeat: after a single-seat move everything is as a rebuild would give it.
LEMMA MovedExact ==
  ASSUME NEW a \in Assignments, NEW i \in Movable, NEW r \in Places
  PROVE  /\ [a EXCEPT ![i] = r] \in Assignments
         /\ MoveSeat(Fresh(a), i, r) = Fresh([a EXCEPT ![i] = r])
<1> DEFINE b == [a EXCEPT ![i] = r]
           c == CellsOf(a)
           d == CellsOf(b)
           e == ExamOf[i]
           t == FreshTotal(a, c)
           u == FreshTotal(b, d)
           x == Fresh(a)
           y == MoveSeat(x, i, r)
<1>1. i \in Seats /\ b \in Assignments
  BY Finiteness, ReseatedExact
<1>2. x.room = a /\ x.cells = c /\ x.total = t
  BY DEF Fresh
<1>3. Reseated(c, i, a[i], r) = d
  BY <1>1, ReseatedExact
<1> DEFINE by == Rebuffered(t.byExam, d, e)
<1>4. u.byExam = by /\ u.buffer = t.buffer + Growth(by, t.byExam, e)
  BY <1>1, BufferMoved DEF Rebuffered, Growth
<1>5. /\ u.seat = t.seat + SeatCostOf(i, r) - SeatCostOf(i, a[i])
      /\ u.churn = t.churn + ChurnCostOf(i, r) - ChurnCostOf(i, a[i])
  BY <1>1, SeatMoved
<1>6. u.split = t.split + Split * (ExtraRooms(d.rooms[e]) - ExtraRooms(c.rooms[e]))
  BY <1>1, SplitMoved
<1>7. u.unplaced = t.unplaced + (IF r = None THEN 1 ELSE 0) - (IF a[i] = None THEN 1 ELSE 0)
  BY UnplacedMoved
<1>8. u.compact = Compaction * d.distinct
  BY DEF FreshTotal
<1>9. u = [byExam |-> u.byExam, buffer |-> u.buffer, seat |-> u.seat, churn |-> u.churn,
           split |-> u.split, compact |-> u.compact, unplaced |-> u.unplaced]
  BY DEF FreshTotal
<1> HIDE DEF x, b, c, d, e, t, u
<1>10. y = [room |-> b, cells |-> d,
            total |-> [byExam |-> by, buffer |-> t.buffer + Growth(by, t.byExam, e),
                       seat |-> t.seat + SeatCostOf(i, r) - SeatCostOf(i, a[i]),
                       churn |-> t.churn + ChurnCostOf(i, r) - ChurnCostOf(i, a[i]),
                       split |-> t.split + Split * (ExtraRooms(d.rooms[e]) - ExtraRooms(c.rooms[e])),
                       compact |-> Compaction * d.distinct,
                       unplaced |-> t.unplaced + (IF r = None THEN 1 ELSE 0) - (IF a[i] = None THEN 1 ELSE 0)]]
  <2> DEFINE n == Reseated(x.cells, i, x.room[i], r)
             w == Rebuffered(x.total.byExam, n, e)
  <2>1. y = [room |-> [x.room EXCEPT ![i] = r], cells |-> n,
             total |-> [byExam |-> w, buffer |-> x.total.buffer + Growth(w, x.total.byExam, e),
                        seat |-> x.total.seat + SeatCostOf(i, r) - SeatCostOf(i, x.room[i]),
                        churn |-> x.total.churn + ChurnCostOf(i, r) - ChurnCostOf(i, x.room[i]),
                        split |-> x.total.split + Split * (ExtraRooms(n.rooms[e]) - ExtraRooms(x.cells.rooms[e])),
                        compact |-> Compaction * n.distinct,
                        unplaced |-> x.total.unplaced + (IF r = None THEN 1 ELSE 0) - (IF x.room[i] = None THEN 1 ELSE 0)]]
    BY SMTT(60), ZenonT(60) DEF MoveSeat, e
  <2>2. n = d /\ [x.room EXCEPT ![i] = r] = b /\ x.room[i] = a[i]
    BY <1>2, <1>3 DEF b
  <2> HIDE DEF n
  <2>3. w = by
    BY <1>2, <2>2
  <2> HIDE DEF w, by, y
  <2> QED BY <1>2, <2>1, <2>2, <2>3
<1> HIDE DEF by, y
<1>11. y = [room |-> b, cells |-> d, total |-> u]
  BY <1>4, <1>5, <1>6, <1>7, <1>8, <1>9, <1>10
<1>12. Fresh(b) = [room |-> b, cells |-> d, total |-> u]
  BY DEF Fresh, d, u
<1> QED BY <1>1, <1>11, <1>12 DEF b, x, y

-----------------------------------------------------------------------------
(* What a rejected proposal undoes *)

\* The undo closure of a move puts the seat back and the saved totals with it.
LEMMA UndoneExact ==
  ASSUME NEW a \in Assignments, NEW i \in Seats, NEW r \in Places
  PROVE  UndoMove(Saved(Fresh(a), i), Fresh([a EXCEPT ![i] = r])) = Fresh(a)
<1> DEFINE b == [a EXCEPT ![i] = r]
           m == Saved(Fresh(a), i)
<1>1. b \in Assignments /\ b[i] = r /\ a[i] \in Places /\ [b EXCEPT ![i] = a[i]] = a
  BY DEF Assignments
<1>2. m.seat = i /\ m.room = a[i] /\ m.total = FreshTotal(a, CellsOf(a))
  BY DEF Saved, Fresh
<1> HIDE DEF b, m
<1>3. Reseated(CellsOf(b), i, b[i], a[i]) = CellsOf(a)
  BY <1>1, ReseatedExact
<1>4. Fresh(b).room = b /\ Fresh(b).cells = CellsOf(b)
  BY DEF Fresh
<1>5. UndoMove(m, Fresh(b)) = [room |-> a, cells |-> CellsOf(a), total |-> FreshTotal(a, CellsOf(a))]
  BY <1>1, <1>2, <1>3, <1>4 DEF UndoMove
<1> QED BY <1>5 DEF b, m, Fresh

Reverted(u, x) == FoldRight(UndoMove, u, x)
UndoSteps(u, x, iter) ==
  iter = [s \in SUBSET DOMAIN u |-> IF s = {} THEN x ELSE UndoMove(u[Min(s)], iter[s \ {Min(s)}])]

LEMMA FoldIsChosen ==
  ASSUME NEW u, NEW x
  PROVE  Reverted(u, x) = (CHOOSE iter : UndoSteps(u, x, iter))[DOMAIN u]
BY DEF Reverted, FoldRight, MapThenFoldSet, UndoSteps

\* The least of some of the first four positions.
LEMMA LeastOfSome ==
  ASSUME NEW s \in SUBSET {1, 2, 3, 4}, s # {}
  PROVE  Min(s) \in s /\ \A y \in s : Min(s) <= y
<1>1. s \subseteq Int /\ IsFiniteSet(s)
  <2> DEFINE one == 1
             four == 4
  <2>1. s \in SUBSET (one..four) /\ one \in Int /\ four \in Int
    OBVIOUS
  <2> HIDE DEF one, four
  <2>2. IsFiniteSet(one..four)
    BY <2>1, FS_Interval
  <2>3. IsFiniteSet(s)
    BY <2>1, <2>2, FS_Subset
  <2> QED BY <2>3
<1> QED BY <1>1, ExtremeInSet

LEMMA LeastOfFour ==
  /\ Min({4}) = 4 /\ Min({3, 4}) = 3 /\ Min({2, 3, 4}) = 2 /\ Min({1, 2, 3, 4}) = 1 /\ Min({1}) = 1
<1>1. {{4}, {3, 4}, {2, 3, 4}, {1, 2, 3, 4}, {1}} \subseteq (SUBSET {1, 2, 3, 4}) \ {{}}
  OBVIOUS
<1>2. \A s \in {{4}, {3, 4}, {2, 3, 4}, {1, 2, 3, 4}, {1}} : Min(s) \in s /\ \A y \in s : Min(s) <= y
  BY <1>1, LeastOfSome
<1> DEFINE m4 == Min({4})
           m3 == Min({3, 4})
           m2 == Min({2, 3, 4})
           m1 == Min({1, 2, 3, 4})
           m == Min({1})
<1>3. /\ m4 \in {4} /\ m \in {1} /\ m3 \in {3, 4} /\ m3 <= 3
      /\ m2 \in {2, 3, 4} /\ m2 <= 2 /\ m1 \in {1, 2, 3, 4} /\ m1 <= 1
  BY <1>2
<1> HIDE DEF m4, m3, m2, m1, m
<1>4. m4 = 4 /\ m3 = 3 /\ m2 = 2 /\ m1 = 1 /\ m = 1
  BY <1>3
<1> QED BY <1>4 DEF m4, m3, m2, m1, m

\* One move, and four: the last of them first.
LEMMA UndoneOne ==
  ASSUME NEW m, NEW x
  PROVE  Reverted(<<m>>, x) = UndoMove(m, x)
<1> DEFINE u == <<m>>
           D == {1}
           g == [s \in SUBSET D |-> IF s = {} THEN x ELSE UndoMove(m, x)]
           f == CHOOSE iter : UndoSteps(u, x, iter)
<1>1. DOMAIN u = D /\ u[1] = m
  OBVIOUS
<1>2. D \in SUBSET D /\ {} \in SUBSET D /\ Min(D) = 1 /\ D \ {1} = {} /\ D # {}
  BY LeastOfFour
<1>3. \A s \in SUBSET D : s = {} \/ s = D
  OBVIOUS
<1> HIDE DEF u, D
<1>4. UndoSteps(u, x, g)
  <2>1. \A s \in SUBSET D : g[s] = IF s = {} THEN x ELSE UndoMove(u[Min(s)], g[s \ {Min(s)}])
    <3> TAKE s \in SUBSET D
    <3>1. CASE s = {}
      BY <1>2, <3>1
    <3>2. CASE s = D
      BY <1>1, <1>2, <3>2
    <3> QED BY <1>3, <3>1, <3>2
  <2>2. g = [s \in SUBSET D |-> g[s]]
    OBVIOUS
  <2> HIDE DEF g
  <2> QED BY <1>1, <2>1, <2>2 DEF UndoSteps
<1>5. UndoSteps(u, x, f)
  BY <1>4
<1> HIDE DEF f
<1>6. f[{}] = x /\ f[D] = UndoMove(m, f[{}])
  BY <1>1, <1>2, <1>5 DEF UndoSteps
<1>7. Reverted(u, x) = f[D]
  BY <1>1, FoldIsChosen DEF f
<1> QED BY <1>6, <1>7 DEF u

LEMMA UndoneFour ==
  ASSUME NEW m1, NEW m2, NEW m3, NEW m4, NEW x
  PROVE  Reverted(<<m1, m2, m3, m4>>, x)
           = UndoMove(m1, UndoMove(m2, UndoMove(m3, UndoMove(m4, x))))
<1> DEFINE u == <<m1, m2, m3, m4>>
           D == {1, 2, 3, 4}
           g4(s) == IF 4 \in s THEN UndoMove(m4, x) ELSE x
           g3(s) == IF 3 \in s THEN UndoMove(m3, g4(s)) ELSE g4(s)
           g2(s) == IF 2 \in s THEN UndoMove(m2, g3(s)) ELSE g3(s)
           g1(s) == IF 1 \in s THEN UndoMove(m1, g2(s)) ELSE g2(s)
           g == [s \in SUBSET D |-> g1(s)]
           f == CHOOSE iter : UndoSteps(u, x, iter)
<1>1. DOMAIN u = D /\ u[1] = m1 /\ u[2] = m2 /\ u[3] = m3 /\ u[4] = m4
  <2>1. DOMAIN u = 1..4
    OBVIOUS
  <2> QED BY <2>1
<1> HIDE DEF u
<1>2. ASSUME NEW s \in SUBSET D
      PROVE  g1(s) = IF s = {} THEN x ELSE UndoMove(u[Min(s)], g1(s \ {Min(s)}))
  <2>1. CASE s = {}
    BY <2>1
  <2>2. CASE s # {}
    <3>1. Min(s) \in s /\ \A y \in s : Min(s) <= y
      BY <2>2, LeastOfSome
    <3>2. CASE Min(s) = 1
      <4>1. 1 \in s /\ \A k \in 2..4 : k \in s <=> k \in s \ {1}
        BY <3>1, <3>2
      <4>2. g2(s \ {1}) = g2(s) /\ g1(s) = UndoMove(m1, g2(s)) /\ g1(s \ {1}) = g2(s \ {1})
        BY <4>1
      <4> QED BY <1>1, <2>2, <3>2, <4>2
    <3>3. CASE Min(s) = 2
      <4>1. 1 \notin s /\ 2 \in s /\ \A k \in 3..4 : k \in s <=> k \in s \ {2}
        BY <3>1, <3>3
      <4>2. g3(s \ {2}) = g3(s) /\ g1(s) = UndoMove(m2, g3(s)) /\ g1(s \ {2}) = g3(s \ {2})
        BY <4>1
      <4> QED BY <1>1, <2>2, <3>3, <4>2
    <3>4. CASE Min(s) = 3
      <4>1. 1 \notin s /\ 2 \notin s /\ 3 \in s /\ (4 \in s <=> 4 \in s \ {3})
        BY <3>1, <3>4
      <4>2. g4(s \ {3}) = g4(s) /\ g1(s) = UndoMove(m3, g4(s)) /\ g1(s \ {3}) = g4(s \ {3})
        BY <4>1
      <4> QED BY <1>1, <2>2, <3>4, <4>2
    <3>5. CASE Min(s) = 4
      <4>1. 1 \notin s /\ 2 \notin s /\ 3 \notin s /\ 4 \in s
        BY <3>1, <3>5
      <4>2. g1(s) = UndoMove(m4, x) /\ g1(s \ {4}) = x
        BY <4>1
      <4> QED BY <1>1, <2>2, <3>5, <4>2
    <3> QED BY <3>1, <3>2, <3>3, <3>4, <3>5
  <2> QED BY <2>1, <2>2
<1> HIDE DEF g1
<1>3. UndoSteps(u, x, g)
  <2>1. \A s \in SUBSET D : g[s] = IF s = {} THEN x ELSE UndoMove(u[Min(s)], g[s \ {Min(s)}])
    <3> TAKE s \in SUBSET D
    <3>1. s \ {Min(s)} \in SUBSET D
      OBVIOUS
    <3>2. g[s] = g1(s) /\ g[s \ {Min(s)}] = g1(s \ {Min(s)})
      BY <3>1
    <3> QED BY <1>2, <3>2
  <2>2. g = [s \in SUBSET D |-> g[s]]
    OBVIOUS
  <2> HIDE DEF g
  <2> QED BY <1>1, <2>1, <2>2 DEF UndoSteps
<1>4. UndoSteps(u, x, f)
  BY <1>3
<1> HIDE DEF f, g
<1>5. \A s \in SUBSET D : f[s] = IF s = {} THEN x ELSE UndoMove(u[Min(s)], f[s \ {Min(s)}])
  BY <1>1, <1>4 DEF UndoSteps
<1>6. /\ {1, 2, 3, 4} \ {1} = {2, 3, 4} /\ {2, 3, 4} \ {2} = {3, 4} /\ {3, 4} \ {3} = {4} /\ {4} \ {4} = {}
      /\ {{}, {4}, {3, 4}, {2, 3, 4}, {1, 2, 3, 4}} \subseteq SUBSET D
  OBVIOUS
<1>7. f[{}] = x
  BY <1>5, <1>6
<1>8. f[{4}] = UndoMove(m4, f[{}])
  BY <1>1, <1>5, <1>6, LeastOfFour
<1>9. f[{3, 4}] = UndoMove(m3, f[{4}])
  BY <1>1, <1>5, <1>6, LeastOfFour
<1>10. f[{2, 3, 4}] = UndoMove(m2, f[{3, 4}])
  BY <1>1, <1>5, <1>6, LeastOfFour, SMTT(30)
<1>11. f[{1, 2, 3, 4}] = UndoMove(m1, f[{2, 3, 4}])
  BY <1>1, <1>5, <1>6, LeastOfFour
<1>12. Reverted(u, x) = f[{1, 2, 3, 4}]
  BY <1>1, FoldIsChosen DEF f
<1> QED BY <1>7, <1>8, <1>9, <1>10, <1>11, <1>12 DEF u

-----------------------------------------------------------------------------
(* rebuild: seat after seat into the empty counters *)

Partly(a, s) == [k \in Seats |-> IF k \in s THEN a[k] ELSE None]

LEMMA NoneSeated == \A a : CellsOf(Partly(a, {})) = NoCells
<1> SUFFICES ASSUME NEW a PROVE CellsOf(Partly(a, {})) = NoCells
  OBVIOUS
<1> DEFINE b == Partly(a, {})
<1>1. (\A k \in Seats : b[k] = None) /\ None \notin Rooms
  BY RoomProblemAssumption DEF Partly
<1> HIDE DEF b
<1>2. \A r \in Rooms : InRoom(b, r) = {} /\ (\A s \in Slots : In(b, r, s) = {})
                       /\ (\A e \in Exams : OfExam(b, e, r) = {})
  BY <1>1 DEF In, OfExam, InRoom
<1>3. (\A e \in Exams : RoomsOf(b, e) = {}) /\ RoomsUsed(b) = {}
  BY <1>2 DEF RoomsOf, RoomsUsed
<1>4. Cardinality({}) = 0 /\ \A T : {} \cap T = {}
  BY FS_EmptySet
<1>5. \A r \in Rooms, s \in Slots : Cardinality(In(b, r, s)) = 0 /\ Cardinality(In(b, r, s) \cap Alone) = 0
  BY <1>2, <1>4
<1>6. \A r \in Rooms : Cardinality(InRoom(b, r)) = 0 /\ \A e \in Exams : Cardinality(OfExam(b, e, r)) = 0
  BY <1>2, <1>4
<1>7. (\A e \in Exams : Cardinality(RoomsOf(b, e)) = 0) /\ Cardinality(RoomsUsed(b)) = 0
  BY <1>3, <1>4
<1>8. CellsOf(b) = NoCells
  BY <1>5, <1>6, <1>7 DEF CellsOf, NoCells
<1> QED BY <1>8 DEF b

LEMMA NoCellsTyped == NoCells \in Counters
BY DEF NoCells, Counters

\* The fold of rebuild, as the library states it.
Seating(a, S, iter) ==
  iter = [s \in SUBSET S |-> IF s = {} THEN NoCells
                             ELSE Added(iter[s \ {Chosen(s)}], Chosen(s), a[Chosen(s)])]

LEMMA RebuiltIsChosen ==
  ASSUME NEW a
  PROVE  LET S == {i \in Seats : a[i] # None}
             c == (CHOOSE iter : Seating(a, S, iter))[S]
         IN  Rebuilt(a) = [room |-> a, cells |-> c, total |-> FreshTotal(a, c)]
BY DEF Rebuilt, FoldSet, MapThenFoldSet, Seating, Chosen

LEMMA SeatingExists ==
  ASSUME NEW a \in Assignments
  PROVE  \E iter : Seating(a, {i \in Seats : a[i] # None}, iter)
<1> DEFINE S == {i \in Seats : a[i] # None}
           G == [p \in S \X Counters |-> Added(p[2], p[1], a[p[1]])]
<1>1. IsFiniteSet(S) /\ S \in SUBSET Seats /\ \A i \in S : a[i] \in Rooms
  BY Finiteness, FS_Subset DEF Assignments, Places
<1>2. G \in [S \X Counters -> Counters]
  <2>1. \A i \in S, c \in Counters : Added(c, i, a[i]) \in Counters
    BY <1>1, RemovedUndoesAdded
  <2> QED BY <2>1
<1> HIDE DEF S
<1>3. PICK iter \in [SUBSET S -> Counters] : Folded(S, NoCells, G, iter)
  <2> HIDE DEF G
  <2> QED BY <1>1, <1>2, FoldExists, NoCellsTyped
<1>4. \A s \in SUBSET S : s # {} => Chosen(s) \in S /\ s \ {Chosen(s)} \in SUBSET S
                                    /\ iter[s \ {Chosen(s)}] \in Counters
  BY <1>3 DEF Chosen
<1>5. \A s \in SUBSET S : s # {} =>
         G[<<Chosen(s), iter[s \ {Chosen(s)}]>>] = Added(iter[s \ {Chosen(s)}], Chosen(s), a[Chosen(s)])
  BY <1>4
<1>6. Seating(a, S, iter)
  <2> HIDE DEF G
  <2> QED BY <1>3, <1>5 DEF Seating, Folded
<1> QED BY <1>6 DEF S

LEMMA RebuiltExact ==
  ASSUME NEW a \in Assignments
  PROVE  Rebuilt(a) = Fresh(a)
<1> DEFINE S == {i \in Seats : a[i] # None}
           f == CHOOSE iter : Seating(a, S, iter)
           Q == {s \in SUBSET S : f[s] = CellsOf(Partly(a, s))}
<1>1. IsFiniteSet(S) /\ S \in SUBSET Seats /\ \A i \in S : a[i] \in Rooms
  BY Finiteness, FS_Subset DEF Assignments, Places
<1>2. Seating(a, S, f)
  BY SeatingExists
<1>3. Partly(a, S) = a
  BY DEF Partly, Assignments
<1>4. Rebuilt(a) = [room |-> a, cells |-> f[S], total |-> FreshTotal(a, f[S])]
  BY RebuiltIsChosen
<1> HIDE DEF S, f
<1>5. \A s \in SUBSET S : f[s] = IF s = {} THEN NoCells
                                 ELSE Added(f[s \ {Chosen(s)}], Chosen(s), a[Chosen(s)])
  BY <1>2 DEF Seating
<1>6. {} \in Q
  BY <1>5, NoneSeated
<1>7. ASSUME NEW s \in SUBSET S, s # {}, s \ {Chosen(s)} \in Q PROVE s \in Q
  <2> DEFINE i == Chosen(s)
             b == Partly(a, s \ {i})
  <2>1. i \in s /\ i \in Seats /\ a[i] \in Rooms
    BY <1>1, <1>7 DEF Chosen
  <2>2. f[s] = Added(CellsOf(b), i, a[i])
    BY <1>5, <1>7
  <2> HIDE DEF i
  <2>3. b \in Assignments /\ b[i] = None /\ [b EXCEPT ![i] = a[i]] = Partly(a, s)
    BY <1>1, <2>1 DEF Partly, Assignments, Places
  <2> HIDE DEF b
  <2>4. Added(CellsOf(b), i, a[i]) = CellsOf(Partly(a, s))
    BY <2>1, <2>3, AddedExact
  <2> QED BY <2>2, <2>4
<1>8. \A s \in SUBSET S : s \in Q
  <2> HIDE DEF Q
  <2> QED BY <1>1, <1>6, <1>7, ChosenInduction
<1>9. f[S] = CellsOf(a)
  BY <1>3, <1>8
<1> QED BY <1>4, <1>9 DEF Fresh

-----------------------------------------------------------------------------
(* The hard rules of an assignment *)

PlacesOK(a) ==
  /\ \A i \in Fixed : a[i] = FixedRoom[i]
  /\ \A i \in Movable : a[i] # None =>
        LET there == In(a, a[i], SlotOfSeat(i))
        IN  /\ Allows(i, a[i])
            /\ i \notin Alone => Cardinality(there) <= Capacity[a[i]] /\ there \cap Alone = {}
            /\ i \in Alone => there = {i}

\* The use of a room by e, and the one by f that starts later.
FarEnough(e, f) ==
  Start[SlotOf[f]] - Start[SlotOf[e]] >= Duration[e] + Lag + PostExtra[e] + PreExtra[f]

GapsOK(a) ==
  \A i, j \in Seats :
      /\ {i, j} \cap Movable # {} /\ a[i] # None /\ a[i] = a[j]
      /\ DayOf[SlotOfSeat(i)] = DayOf[SlotOfSeat(j)] /\ Start[SlotOfSeat(i)] < Start[SlotOfSeat(j)]
      => /\ FarEnough(ExamOf[i], ExamOf[j])
         /\ ~(Summer /\ a[i] \in Own /\ Adjacent(SlotOfSeat(i), SlotOfSeat(j)))

HardOK(a) == a \in Assignments /\ PlacesOK(a) /\ GapsOK(a)

\* The start: the pre-planned seats alone.
LEMMA StartHard ==
  HardOK([i \in Seats |-> IF i \in Fixed THEN FixedRoom[i] ELSE None])
<1> DEFINE a == [i \in Seats |-> IF i \in Fixed THEN FixedRoom[i] ELSE None]
<1>1. Fixed \subseteq Seats /\ FixedRoom \in [Fixed -> Rooms]
  BY RoomProblemAssumption
<1>2. a \in Assignments
  BY <1>1 DEF Assignments, Places
<1>3. (\A i \in Fixed : a[i] = FixedRoom[i]) /\ \A i \in Movable : a[i] = None
  BY <1>1 DEF Movable
<1> HIDE DEF a
<1>4. PlacesOK(a)
  BY <1>3 DEF PlacesOK
<1>5. GapsOK(a)
  BY <1>3 DEF GapsOK
<1> QED BY <1>2, <1>4, <1>5 DEF HardOK, a

\* A seat that leaves its room breaks nothing.
LEMMA OutKeepsHard ==
  ASSUME NEW a, HardOK(a), NEW i \in Movable
  PROVE  HardOK([a EXCEPT ![i] = None])
<1> DEFINE b == [a EXCEPT ![i] = None]
<1>1. /\ i \in Seats /\ i \notin Fixed /\ b[i] = None /\ (\A k \in Seats : k # i => b[k] = a[k])
      /\ b \in Assignments /\ Movable \subseteq Seats /\ Fixed \subseteq Seats
  BY Finiteness DEF HardOK, Assignments, Movable, Places
<1> HIDE DEF b
<1>2. PlacesOK(b)
  <2>1. \A k \in Fixed : b[k] = FixedRoom[k]
    BY <1>1 DEF HardOK, PlacesOK
  <2>2. ASSUME NEW k \in Movable, b[k] # None
        PROVE  LET there == In(b, b[k], SlotOfSeat(k))
               IN  /\ Allows(k, b[k])
                   /\ k \notin Alone => Cardinality(there) <= Capacity[b[k]] /\ there \cap Alone = {}
                   /\ k \in Alone => there = {k}
    <3> DEFINE r == a[k]
               s == SlotOfSeat(k)
               B == In(b, r, s)
               A == In(a, r, s)
    <3>1. k # i /\ b[k] = r /\ k \in Seats /\ r # None /\ r \in Rooms
      BY <1>1, <2>2 DEF HardOK, Assignments, Places
    <3>2. B \subseteq A /\ k \in B /\ A \in SUBSET Seats
      BY <1>1, <3>1 DEF In
    <3>3. /\ Allows(k, r)
          /\ k \notin Alone => Cardinality(A) <= Capacity[r] /\ A \cap Alone = {}
          /\ k \in Alone => A = {k}
      BY <3>1 DEF HardOK, PlacesOK
    <3> HIDE DEF A, B, r, s
    <3>4. Cardinality(B) <= Cardinality(A) /\ Cardinality(A) \in Nat /\ Cardinality(B) \in Nat
      <4>1. IsFiniteSet(A) /\ IsFiniteSet(B)
        BY <3>2, Finiteness, FS_Subset
      <4> QED BY <3>2, <4>1, FS_Subset, FS_CardinalityType
    <3>5. /\ k \notin Alone => Cardinality(B) <= Capacity[r] /\ B \cap Alone = {}
          /\ k \in Alone => B = {k}
      <4>1. Capacity[r] \in Nat
        BY <3>1, DataInt
      <4> QED BY <3>2, <3>3, <3>4, <4>1
    <3> QED BY <3>1, <3>3, <3>5 DEF B, s
  <2> QED BY <2>1, <2>2 DEF PlacesOK
<1>3. GapsOK(b)
  <2>1. \A k \in Seats : b[k] # None => b[k] = a[k]
    BY <1>1
  <2> QED BY <2>1 DEF GapsOK, HardOK
<1> QED BY <1>1, <1>2, <1>3 DEF HardOK, b

\* cellUseAt: the widest use is at least that of every exam in the cell.
LEMMA WidestCovers ==
  ASSUME NEW f \in [Exams -> Nat], NEW es \in SUBSET Exams, NEW e \in es
  PROVE  Widest(f, es) \in Nat /\ Widest(f, es) >= f[e]
<1> DEFINE D == {f[x] : x \in es} \cup {0}
<1>1. IsFiniteSet({f[x] : x \in es})
  <2>1. IsFiniteSet(es)
    BY Finiteness, FS_Subset
  <2> QED BY <2>1, ImageFinite
<1>2. IsFiniteSet(D) /\ D \subseteq Nat /\ D \subseteq Int /\ D # {} /\ f[e] \in D
  BY <1>1, FS_AddElement
<1> HIDE DEF D
<1>3. Max(D) \in D /\ Max(D) >= f[e]
  BY <1>2, ExtremeInSet
<1> QED BY <1>2, <1>3 DEF Widest, D

LEMMA AdjacentBothWays ==
  ASSUME NEW s \in Slots, NEW t \in Slots, Adjacent(s, t)
  PROVE  Adjacent(t, s)
<1>1. t \in SameDay(s) /\ s \in SameDay(t) /\ SameDay(s) \ {t} = SameDay(t) \ {s}
  BY DEF Adjacent, SameDay
<1>2. {Start[s], Start[t]} = {Start[t], Start[s]}
  OBVIOUS
<1> QED BY <1>1, <1>2 DEF Adjacent

\* feasible, against a seat that is in the room on that day.
LEMMA FeasibleApart ==
  ASSUME NEW a \in Assignments, NEW i \in Seats, NEW j \in Seats, NEW r \in Rooms,
         Feasible(CellsOf(a), i, r), a[j] = r,
         DayOf[SlotOfSeat(i)] = DayOf[SlotOfSeat(j)]
  PROVE  /\ Start[SlotOfSeat(j)] < Start[SlotOfSeat(i)] => FarEnough(ExamOf[j], ExamOf[i])
         /\ Start[SlotOfSeat(i)] < Start[SlotOfSeat(j)] => FarEnough(ExamOf[i], ExamOf[j])
         /\ SlotOfSeat(i) # SlotOfSeat(j) =>
              /\ ~(Summer /\ r \in Own /\ Adjacent(SlotOfSeat(i), SlotOfSeat(j)))
              /\ ~(Summer /\ r \in Own /\ Adjacent(SlotOfSeat(j), SlotOfSeat(i)))
<1> DEFINE c == CellsOf(a)
           s == SlotOfSeat(i)
           t == SlotOfSeat(j)
           e == ExamOf[i]
           f == ExamOf[j]
           es == Users(c, r, t)
           d == Start[t] - Start[s]
<1>1. /\ e \in Exams /\ f \in Exams /\ s \in Slots /\ t \in Slots /\ s = SlotOf[e] /\ t = SlotOf[f]
      /\ Start[s] \in Nat /\ Start[t] \in Nat
  BY SeatData, DataInt DEF SlotOfSeat
<1>2. c.used[r][t] > 0 /\ c.used[r][t] \in Nat
  <2>1. j \in In(a, r, t) /\ In(a, r, t) \in SUBSET Seats
    BY DEF In
  <2>2. Cardinality(In(a, r, t)) # 0 /\ Cardinality(In(a, r, t)) \in Nat
    BY <2>1, CountZero, Finiteness
  <2> QED BY <1>1, <2>2 DEF CellsOf
<1>3. f \in es /\ es \in SUBSET Exams
  <2>1. j \in OfExam(a, f, r) /\ OfExam(a, f, r) \in SUBSET Seats
    BY DEF OfExam
  <2>2. Cardinality(OfExam(a, f, r)) # 0 /\ Cardinality(OfExam(a, f, r)) \in Nat
    BY <2>1, CountZero, Finiteness
  <2>3. c.exam[f][r] > 0
    BY <1>1, <2>2 DEF CellsOf
  <2> QED BY <1>1, <2>3 DEF Users, ExamsIn
<1>4. ~TurnaroundConflict(c, e, r) /\ (Summer /\ r \in Own => \A x \in Slots : Adjacent(s, x) => c.used[r][x] = 0)
  BY DEF Feasible
<1> HIDE DEF c, s, t, e, f
<1>5. s # t => t \in SameDay(s)
  BY <1>1 DEF SameDay, s, t
<1>6. /\ Widest(Duration, es) \in Nat /\ Widest(Duration, es) >= Duration[f]
      /\ Widest(PostExtra, es) \in Nat /\ Widest(PostExtra, es) >= PostExtra[f]
      /\ Widest(PreExtra, es) \in Nat /\ Widest(PreExtra, es) >= PreExtra[f]
  <2>1. Duration \in [Exams -> Nat] /\ PostExtra \in [Exams -> Nat] /\ PreExtra \in [Exams -> Nat]
    BY RoomProblemAssumption
  <2> HIDE DEF es
  <2> QED BY <1>3, <2>1, WidestCovers
<1>7. s # t => IF d < 0 THEN ~(-d < Widest(Duration, es) + Lag + Widest(PostExtra, es) + PreExtra[e])
                        ELSE ~(d < Duration[e] + Lag + PostExtra[e] + Widest(PreExtra, es))
  BY <1>1, <1>2, <1>4, <1>5 DEF TurnaroundConflict
<1> HIDE DEF es
<1>8. /\ Duration[f] \in Nat /\ PostExtra[f] \in Nat /\ PreExtra[f] \in Nat
      /\ Duration[e] \in Nat /\ PostExtra[e] \in Nat /\ PreExtra[e] \in Nat /\ Lag \in Int
  BY <1>1, DataInt
<1>9. Start[t] < Start[s] => Start[s] - Start[t] >= Duration[f] + Lag + PostExtra[f] + PreExtra[e]
  BY <1>1, <1>6, <1>7, <1>8
<1>10. Start[s] < Start[t] => Start[t] - Start[s] >= Duration[e] + Lag + PostExtra[e] + PreExtra[f]
  BY <1>1, <1>6, <1>7, <1>8
<1>11. Summer /\ r \in Own => ~Adjacent(s, t) /\ ~Adjacent(t, s)
  <2>1. Summer /\ r \in Own => ~Adjacent(s, t)
    BY <1>1, <1>2, <1>4
  <2> QED BY <1>1, <2>1, AdjacentBothWays
<1> QED BY <1>1, <1>9, <1>10, <1>11 DEF FarEnough, s, t, e, f

\* A seat that is not in a room and may take it leaves everything within the rules.
LEMMA InKeepsHard ==
  ASSUME NEW a, HardOK(a), NEW i \in Movable, NEW r \in Rooms, a[i] # r, Feasible(CellsOf(a), i, r)
  PROVE  HardOK([a EXCEPT ![i] = r])
<1> DEFINE b == [a EXCEPT ![i] = r]
           c == CellsOf(a)
           s == SlotOfSeat(i)
<1>1. /\ i \in Seats /\ i \notin Fixed /\ b[i] = r /\ (\A k \in Seats : k # i => b[k] = a[k])
      /\ b \in Assignments /\ a \in Assignments /\ Movable \subseteq Seats /\ Fixed \subseteq Seats
  BY Finiteness DEF HardOK, Assignments, Movable, Places
<1>2. s \in Slots /\ r # None
  BY <1>1, SeatData, RoomProblemAssumption
<1> HIDE DEF b, s
<1>3. In(b, r, s) = In(a, r, s) \cup {i} /\ i \notin In(a, r, s) /\ In(a, r, s) \in SUBSET Seats
  BY <1>1 DEF In, s
<1>4. \A q \in Rooms, t \in Slots : ~(q = r /\ t = s) => In(b, q, t) \subseteq In(a, q, t)
  BY <1>1 DEF In, s
<1>5. /\ Allows(i, r)
      /\ i \in Alone => In(a, r, s) = {}
      /\ i \notin Alone => In(a, r, s) \cap Alone = {} /\ Cardinality(In(a, r, s)) + 1 <= Capacity[r]
  <2>1. Allows(i, r) /\ CellFree(c, i, r)
    BY DEF Feasible
  <2>2. c.used[r][s] = Cardinality(In(a, r, s)) /\ c.alone[r][s] = Cardinality(In(a, r, s) \cap Alone)
    BY <1>2 DEF CellsOf
  <2>3. Cardinality(In(a, r, s)) = 0 => In(a, r, s) = {}
    BY <1>3, CountZero, Finiteness
  <2>4. Cardinality(In(a, r, s) \cap Alone) = 0 => In(a, r, s) \cap Alone = {}
    <3>1. In(a, r, s) \cap Alone \in SUBSET Seats
      BY <1>3
    <3> QED BY <3>1, CountZero, Finiteness
  <2> HIDE DEF c
  <2> QED BY <2>1, <2>2, <2>3, <2>4 DEF CellFree, s
<1>6. PlacesOK(b)
  <2>1. \A k \in Fixed : b[k] = FixedRoom[k]
    BY <1>1 DEF HardOK, PlacesOK
  <2>2. ASSUME NEW k \in Movable, b[k] # None
        PROVE  LET there == In(b, b[k], SlotOfSeat(k))
               IN  /\ Allows(k, b[k])
                   /\ k \notin Alone => Cardinality(there) <= Capacity[b[k]] /\ there \cap Alone = {}
                   /\ k \in Alone => there = {k}
    <3> DEFINE q == b[k]
               t == SlotOfSeat(k)
               B == In(b, q, t)
               A == In(a, q, t)
    <3>1. k \in Seats /\ q \in Rooms /\ t \in Slots /\ Capacity[q] \in Nat /\ k \in B /\ A \in SUBSET Seats
      BY <1>1, <2>2, SeatData, DataInt DEF Assignments, Places, In
    <3>2. k # i => /\ a[k] = q /\ k \in A /\ Allows(k, q)
                   /\ k \notin Alone => Cardinality(A) <= Capacity[q] /\ A \cap Alone = {}
                   /\ k \in Alone => A = {k}
      BY <1>1, <2>2, <3>1 DEF HardOK, PlacesOK, In
    <3>3. Allows(k, q)
      BY <1>1, <1>5, <3>2
    <3>4. CASE q = r /\ t = s
      <4>1. B = In(a, r, s) \cup {i} /\ A = In(a, r, s)
        BY <1>3, <3>4
      <4>2. Cardinality(B) = Cardinality(A) + 1
        <5> HIDE DEF A, B
        <5>1. A \in SUBSET Seats /\ i \in Seats /\ i \notin A /\ B = A \cup {i}
          BY <1>1, <1>3, <4>1
        <5> QED BY <5>1, CountAdd, Finiteness
      <4>3. CASE k = i
        BY <1>5, <3>3, <3>4, <4>1, <4>2, <4>3
      <4>4. CASE k # i
        <5>1. k \in A /\ A # {}
          BY <3>2, <4>4
        <5>2. i \notin Alone /\ A \cap Alone = {} /\ Cardinality(A) + 1 <= Capacity[r]
          BY <1>5, <4>1, <5>1
        <5>3. k \notin Alone /\ B \cap Alone = {} /\ Cardinality(B) <= Capacity[q]
          BY <3>4, <4>1, <4>2, <5>1, <5>2
        <5> QED BY <3>3, <5>3
      <4> QED BY <4>3, <4>4
    <3>5. CASE ~(q = r /\ t = s)
      <4>1. B \subseteq A /\ k # i
        BY <1>1, <1>4, <3>1, <3>5 DEF s
      <4>2. Cardinality(B) <= Cardinality(A) /\ Cardinality(A) \in Nat /\ Cardinality(B) \in Nat
        <5> HIDE DEF A, B
        <5>1. IsFiniteSet(A)
          BY <3>1, Finiteness, FS_Subset
        <5> QED BY <4>1, <5>1, FS_Subset, FS_CardinalityType
      <4>3. /\ k \notin Alone => Cardinality(B) <= Capacity[q] /\ B \cap Alone = {}
            /\ k \in Alone => B = {k}
        <5> HIDE DEF A, B, q
        <5> QED BY <3>1, <3>2, <4>1, <4>2
      <4> QED BY <3>3, <4>3
    <3> QED BY <3>4, <3>5
  <2> QED BY <2>1, <2>2 DEF PlacesOK
<1>7. GapsOK(b)
  <2> SUFFICES ASSUME NEW k \in Seats, NEW j \in Seats,
                      {k, j} \cap Movable # {}, b[k] # None, b[k] = b[j],
                      DayOf[SlotOfSeat(k)] = DayOf[SlotOfSeat(j)], Start[SlotOfSeat(k)] < Start[SlotOfSeat(j)]
               PROVE  /\ FarEnough(ExamOf[k], ExamOf[j])
                      /\ ~(Summer /\ b[k] \in Own /\ Adjacent(SlotOfSeat(k), SlotOfSeat(j)))
    BY DEF GapsOK
  <2>1. /\ Start[SlotOfSeat(k)] \in Nat /\ Start[SlotOfSeat(j)] \in Nat
        /\ SlotOfSeat(k) # SlotOfSeat(j) /\ k # j
    BY SeatData, DataInt
  <2>2. CASE k # i /\ j # i
    BY <1>1, <2>2 DEF HardOK, GapsOK
  <2>3. CASE k = i
    <3>1. a[j] = r /\ b[k] = r
      BY <1>1, <2>1, <2>3
    <3> QED BY <1>1, <2>1, <2>3, <3>1, FeasibleApart
  <2>4. CASE j = i
    <3>1. a[k] = r /\ b[k] = r
      BY <1>1, <2>1, <2>4
    <3> QED BY <1>1, <2>1, <2>4, <3>1, FeasibleApart
  <2> QED BY <2>2, <2>3, <2>4
<1> QED BY <1>1, <1>6, <1>7 DEF HardOK, b

\* feasible looks at the one room only.
LEMMA FeasibleLocal ==
  ASSUME NEW a \in Assignments, NEW b \in Assignments, NEW i \in Seats, NEW r \in Rooms,
         \A k \in Seats : a[k] = r <=> b[k] = r, Feasible(CellsOf(a), i, r)
  PROVE  Feasible(CellsOf(b), i, r)
<1> DEFINE c == CellsOf(a)
           d == CellsOf(b)
<1>1. \A t : In(a, r, t) = In(b, r, t) /\ \A e : OfExam(a, e, r) = OfExam(b, e, r)
  BY DEF In, OfExam
<1>2. /\ \A t \in Slots : c.used[r][t] = d.used[r][t] /\ c.alone[r][t] = d.alone[r][t]
      /\ \A e \in Exams : c.exam[e][r] = d.exam[e][r]
  BY <1>1 DEF CellsOf
<1>3. SlotOfSeat(i) \in Slots /\ ExamOf[i] \in Exams
  BY SeatData
<1>4. Allows(i, r) /\ CellFree(c, i, r) /\ ~TurnaroundConflict(c, ExamOf[i], r)
      /\ (Summer /\ r \in Own => \A t \in Slots : Adjacent(SlotOfSeat(i), t) => c.used[r][t] = 0)
  BY DEF Feasible
<1> HIDE DEF c, d
<1>5. CellFree(d, i, r)
  BY <1>2, <1>3, <1>4 DEF CellFree
<1>6. ~TurnaroundConflict(d, ExamOf[i], r)
  <2>1. \A t \in Slots : Users(c, r, t) = Users(d, r, t)
    BY <1>2 DEF Users, ExamsIn
  <2>2. \A t \in SameDay(SlotOf[ExamOf[i]]) : t \in Slots
    BY DEF SameDay
  <2> QED BY <1>2, <1>4, <2>1, <2>2 DEF TurnaroundConflict
<1> QED BY <1>2, <1>4, <1>5, <1>6 DEF Feasible, d

-----------------------------------------------------------------------------
(* The inductive invariant: whatever the search holds, or would go back to, is a state that *)
(* a rebuild of its assignment gives, and its assignment keeps the hard rules. *)

Canonical(x) == x = Fresh(x.room) /\ HardOK(x.room)

IInv ==
  /\ prev \in PrevPlans
  /\ Canonical(st)
  /\ HardOK(best.room)
  /\ todo \subseteq Movable
  /\ phase \in {"warm", "fill", "anneal", "proposed", "done"}
  /\ phase \in {"warm", "fill"} => \A i \in todo : st.room[i] = None
  /\ phase = "proposed" => Len(undo) \in {1, 4} /\ Canonical(Reverted(undo, st))
  /\ phase # "proposed" => undo = <<>>

LEMMA CanonicalTypes ==
  ASSUME NEW x, Canonical(x)
  PROVE  x.room \in Assignments /\ x.cells = CellsOf(x.room) /\ \A i \in Seats : x.room[i] \in Places
BY DEF Canonical, Fresh, HardOK, Assignments

LEMMA TakesRoom ==
  ASSUME NEW x, Canonical(x), NEW i \in Movable, NEW r \in Rooms, x.room[i] # r, Feasible(x.cells, i, r)
  PROVE  /\ Canonical(MoveSeat(x, i, r))
         /\ \A k \in Seats : MoveSeat(x, i, r).room[k] = IF k = i THEN r ELSE x.room[k]
         /\ UndoMove(Saved(x, i), MoveSeat(x, i, r)) = x
<1> DEFINE a == x.room
           b == [a EXCEPT ![i] = r]
<1>1. a \in Assignments /\ x = Fresh(a) /\ HardOK(a) /\ x.cells = CellsOf(a) /\ r \in Places /\ i \in Seats
  BY CanonicalTypes, Finiteness DEF Canonical, Places
<1>2. MoveSeat(x, i, r) = Fresh(b)
  BY <1>1, MovedExact
<1>3. HardOK(b)
  BY <1>1, InKeepsHard
<1>4. UndoMove(Saved(x, i), Fresh(b)) = x
  BY <1>1, UndoneExact
<1>5. Fresh(b).room = b /\ \A k \in Seats : b[k] = IF k = i THEN r ELSE a[k]
  BY <1>1 DEF Fresh, Assignments
<1> HIDE DEF b
<1>6. Canonical(Fresh(b))
  BY <1>3, <1>5 DEF Canonical
<1> QED BY <1>2, <1>4, <1>5, <1>6 DEF b

LEMMA LeavesRoom ==
  ASSUME NEW x, Canonical(x), NEW i \in Movable
  PROVE  /\ Canonical(MoveSeat(x, i, None)) /\ MoveSeat(x, i, None).room = [x.room EXCEPT ![i] = None]
         /\ UndoMove(Saved(x, i), MoveSeat(x, i, None)) = x
<1> DEFINE a == x.room
           b == [a EXCEPT ![i] = None]
<1>1. a \in Assignments /\ x = Fresh(a) /\ HardOK(a) /\ None \in Places /\ i \in Seats
  BY CanonicalTypes, Finiteness DEF Canonical, Places
<1>2. MoveSeat(x, i, None) = Fresh(b)
  BY <1>1, MovedExact
<1>3. HardOK(b)
  BY <1>1, OutKeepsHard
<1>4. UndoMove(Saved(x, i), Fresh(b)) = x
  BY <1>1, UndoneExact
<1>5. Fresh(b).room = b
  BY DEF Fresh
<1> HIDE DEF b
<1>6. Canonical(Fresh(b))
  BY <1>3, <1>5 DEF Canonical
<1> QED BY <1>2, <1>4, <1>5, <1>6 DEF b

\* The exchange: what was feasible for the second seat before the first was placed still is,
\* and undoing the four moves gives back the state before.
LEMMA Exchanged ==
  ASSUME NEW x, Canonical(x), NEW i \in Movable, NEW j \in Movable, i # j,
         NEW ri, NEW rj, ri = x.room[i], rj = x.room[j], ri # rj, ri # None, rj # None,
         MayExchange(MoveSeat(MoveSeat(x, i, None), j, None), i, j, ri, rj)
  PROVE  LET out1 == MoveSeat(x, i, None)
             out2 == MoveSeat(out1, j, None)
             in1  == MoveSeat(out2, i, rj)
             y    == MoveSeat(in1, j, ri)
         IN  /\ Canonical(y)
             /\ Reverted(<<Saved(x, i), Saved(out1, j), Saved(out2, i), Saved(in1, j)>>, y) = x
<1> DEFINE out1 == MoveSeat(x, i, None)
           out2 == MoveSeat(out1, j, None)
           in1  == MoveSeat(out2, i, rj)
           y    == MoveSeat(in1, j, ri)
<1>1. i \in Seats /\ j \in Seats /\ ri \in Rooms /\ rj \in Rooms /\ x.room \in Assignments
  BY CanonicalTypes, Finiteness DEF Places
<1>2. /\ Canonical(out1) /\ out1.room = [x.room EXCEPT ![i] = None] /\ UndoMove(Saved(x, i), out1) = x
  BY LeavesRoom
<1>5. Feasible(out2.cells, i, rj) /\ Feasible(out2.cells, j, ri)
  BY DEF MayExchange
<1> HIDE DEF out1
<1>3. /\ Canonical(out2) /\ out2.room = [out1.room EXCEPT ![j] = None] /\ UndoMove(Saved(out1, j), out2) = out1
  BY <1>2, LeavesRoom
<1> HIDE DEF out2
<1>4. out2.room[i] = None /\ out2.room[j] = None /\ out2.room \in Assignments /\ out2.cells = CellsOf(out2.room)
  <2>1. out1.room \in Assignments /\ out2.room \in Assignments /\ out2.cells = CellsOf(out2.room)
    BY <1>2, <1>3, CanonicalTypes
  <2>2. out1.room[i] = None
    BY <1>1, <1>2 DEF Assignments
  <2>3. out2.room[j] = None /\ out2.room[i] = None
    BY <1>1, <1>3, <2>1, <2>2 DEF Assignments
  <2> QED BY <2>1, <2>3
<1>6. /\ Canonical(in1) /\ UndoMove(Saved(out2, i), in1) = out2
      /\ \A k \in Seats : in1.room[k] = IF k = i THEN rj ELSE out2.room[k]
  <2>1. out2.room[i] # rj
    <3>1. rj # None
      OBVIOUS
    <3> QED BY <1>4, <3>1
  <2>2. Canonical(out2) /\ rj \in Rooms /\ Feasible(out2.cells, i, rj)
    BY <1>1, <1>3, <1>5
  <2>3. /\ Canonical(MoveSeat(out2, i, rj)) /\ UndoMove(Saved(out2, i), MoveSeat(out2, i, rj)) = out2
        /\ \A k \in Seats : MoveSeat(out2, i, rj).room[k] = IF k = i THEN rj ELSE out2.room[k]
    BY <2>1, <2>2, TakesRoom
  <2> QED BY <2>3
<1> HIDE DEF in1
<1>7. /\ in1.room \in Assignments /\ in1.cells = CellsOf(in1.room) /\ in1.room[j] = None
      /\ \A k \in Seats : out2.room[k] = ri <=> in1.room[k] = ri
  <2>1. in1.room \in Assignments /\ in1.cells = CellsOf(in1.room)
    BY <1>6, CanonicalTypes
  <2>2. \A k \in Seats : in1.room[k] = IF k = i THEN rj ELSE out2.room[k]
    BY <1>6
  <2>3. in1.room[j] = None
    BY <1>1, <1>4, <2>2
  <2>4. ASSUME NEW k \in Seats PROVE out2.room[k] = ri <=> in1.room[k] = ri
    <3>1. CASE k = i
      BY <1>4, <2>2, <3>1
    <3>2. CASE k # i
      BY <2>2, <3>2
    <3> QED BY <3>1, <3>2
  <2> QED BY <2>1, <2>3, <2>4
<1>8. Feasible(in1.cells, j, ri)
  BY <1>1, <1>4, <1>5, <1>7, FeasibleLocal
<1>9. Canonical(y) /\ UndoMove(Saved(in1, j), y) = in1
  <2>1. in1.room[j] # ri
    BY <1>7
  <2> QED BY <1>1, <1>6, <1>8, <2>1, TakesRoom
<1> HIDE DEF y
<1> DEFINE m1 == Saved(x, i)
           m2 == Saved(out1, j)
           m3 == Saved(out2, i)
           m4 == Saved(in1, j)
<1> HIDE DEF m1, m2, m3, m4
<1>10. Reverted(<<m1, m2, m3, m4>>, y) = UndoMove(m1, UndoMove(m2, UndoMove(m3, UndoMove(m4, y))))
  BY UndoneFour
<1>11. UndoMove(m4, y) = in1 /\ UndoMove(m3, in1) = out2 /\ UndoMove(m2, out2) = out1 /\ UndoMove(m1, out1) = x
  BY <1>2, <1>3, <1>6, <1>9 DEF m1, m2, m3, m4
<1> QED BY <1>9, <1>10, <1>11 DEF m1, m2, m3, m4, y, in1, out2, out1

\* The totals depend on the saved plan, which no step changes.
LEMMA CanonicalStays ==
  ASSUME prev' = prev, NEW x
  PROVE  Canonical(x)' <=> Canonical(x)
<1>1. \A i, r : ChurnCostOf(i, r)' = ChurnCostOf(i, r)
  BY DEF ChurnCostOf
<1>2. \A a, c : FreshTotal(a, c)' = FreshTotal(a, c)
  <2> TAKE a, c
  <2> DEFINE f == [i \in Seats |-> ChurnCostOf(i, a[i])]
  <2>1. f' = f
    BY <1>1
  <2> QED BY <2>1 DEF FreshTotal
<1>3. Fresh(x.room)' = Fresh(x.room)
  BY <1>2 DEF Fresh
<1> QED BY <1>3 DEF Canonical

LEMMA InitInv == ASSUME Init PROVE IInv
<1> DEFINE a == [i \in Seats |-> IF i \in Fixed THEN FixedRoom[i] ELSE None]
<1>1. HardOK(a)
  BY StartHard
<1>2. \A i \in Movable : a[i] = None
  BY Finiteness DEF Movable
<1> HIDE DEF a
<1>3. st = Fresh(a)
  <2>1. st = Rebuilt(a)
    BY DEF Init, a
  <2> QED BY <1>1, <2>1, RebuiltExact DEF HardOK
<1>4. st.room = a
  BY <1>3 DEF Fresh
<1>5. Canonical(st) /\ HardOK(best.room)
  BY <1>1, <1>3, <1>4 DEF Canonical, Init
<1> QED BY <1>2, <1>4, <1>5 DEF Init, IInv

\* A step of the construction: the seat takes a room, or the step leaves it out.
LEMMA ConstructionKeeps ==
  ASSUME IInv, phase \in {"warm", "fill"}, NEW i \in todo, todo' = todo \ {i},
         st' = st \/ \E r \in Rooms : Feasible(st.cells, i, r) /\ st' = MoveSeat(st, i, r),
         UNCHANGED <<opts, prev, phase, undo, best>>
  PROVE  IInv'
<1>1. Canonical(st) /\ i \in Movable /\ todo \subseteq Movable /\ Movable \subseteq Seats
      /\ \A k \in todo : st.room[k] = None
  BY Finiteness DEF IInv
<1>2. Canonical(st') /\ \A k \in todo \ {i} : st'.room[k] = None
  <2>1. CASE st' = st
    BY <1>1, <2>1
  <2>2. ASSUME NEW r \in Rooms, Feasible(st.cells, i, r), st' = MoveSeat(st, i, r)
        PROVE  Canonical(st') /\ \A k \in todo \ {i} : st'.room[k] = None
    <3>1. st.room[i] # r
      BY <1>1, RoomProblemAssumption
    <3>2. Canonical(st') /\ \A k \in Seats : st'.room[k] = IF k = i THEN r ELSE st.room[k]
      BY <1>1, <2>2, <3>1, TakesRoom
    <3> QED BY <1>1, <3>2
  <2> QED BY <2>1, <2>2
<1>3. Canonical(st)'
  BY <1>2, CanonicalStays
<1> QED BY <1>1, <1>2, <1>3 DEF IInv

LEMMA StepInv == ASSUME IInv, [Next]_vars PROVE IInv'
<1>0. /\ Canonical(st) /\ prev \in PrevPlans /\ prev \in [Seats -> Places] /\ todo \subseteq Movable
      /\ HardOK(best.room) /\ HardOK(st.room) /\ Movable \subseteq Seats
  BY RoomProblemAssumption, Finiteness DEF IInv, Canonical
<1>1. CASE ConstructWarm
  <2> DEFINE i == Min(todo)
  <2>1. phase = "warm" /\ todo # {} /\ todo' = todo \ {i} /\ UNCHANGED <<opts, prev, phase, undo, best>>
    BY <1>1 DEF ConstructWarm
  <2>2. i \in todo
    <3>1. IsFiniteSet(todo)
      BY <1>0, Finiteness, FS_Subset
    <3>2. todo \subseteq Int
      BY <1>0, RoomProblemAssumption
    <3> QED BY <2>1, <3>1, <3>2, ExtremeInSet
  <2>3. st' = st \/ \E r \in Rooms : Feasible(st.cells, i, r) /\ st' = MoveSeat(st, i, r)
    <3>1. prev[i] \in Places
      BY <1>0, <2>2
    <3>2. st' = IF prev[i] # None /\ Feasible(st.cells, i, prev[i]) THEN MoveSeat(st, i, prev[i]) ELSE st
      BY <1>1 DEF ConstructWarm
    <3> QED BY <3>1, <3>2 DEF Places
  <2> HIDE DEF i
  <2> QED BY <2>1, <2>2, <2>3, ConstructionKeeps
<1>2. CASE WarmDone
  <2>1. Canonical(st)'
    BY <1>0, <1>2, CanonicalStays DEF WarmDone
  <2> QED BY <1>0, <1>2, <2>1 DEF WarmDone, IInv
<1>3. CASE FillRemaining
  <2>1. PICK i \in todo : /\ todo' = todo \ {i}
                          /\ \/ \E r \in BestRooms(i) : st' = MoveSeat(st, i, r)
                             \/ FeasibleRooms(i) = {} /\ UNCHANGED st
    BY <1>3 DEF FillRemaining
  <2>2. phase = "fill" /\ UNCHANGED <<opts, prev, phase, undo, best>>
    BY <1>3 DEF FillRemaining
  <2>3. \A r \in BestRooms(i) : r \in Rooms /\ Feasible(st.cells, i, r)
    BY DEF BestRooms, FeasibleRooms
  <2>4. st' = st \/ \E r \in Rooms : Feasible(st.cells, i, r) /\ st' = MoveSeat(st, i, r)
    BY <2>1, <2>3
  <2> QED BY <2>1, <2>2, <2>4, ConstructionKeeps
<1>4. CASE StartAnneal
  <2>1. Canonical(st)'
    BY <1>0, <1>4, CanonicalStays DEF StartAnneal
  <2>2. best'.room = st.room
    BY <1>4 DEF StartAnneal, Kept
  <2>3. HardOK(best'.room)
    BY <1>0, <2>2
  <2> QED BY <1>0, <1>4, <2>1, <2>3 DEF StartAnneal, IInv
<1>5. ASSUME NEW i \in Movable, NEW r \in Rooms, Relocate(i, r) PROVE IInv'
  <2>1. /\ phase = "anneal" /\ r # st.room[i] /\ Feasible(st.cells, i, r) /\ st' = MoveSeat(st, i, r)
        /\ undo' = <<Saved(st, i)>> /\ phase' = "proposed" /\ UNCHANGED <<opts, prev, todo, best>>
    BY <1>5 DEF Relocate
  <2>2. Canonical(st') /\ UndoMove(Saved(st, i), st') = st
    BY <1>0, <2>1, TakesRoom
  <2>3. Canonical(st)'
    BY <2>1, <2>2, CanonicalStays
  <2> DEFINE m == Saved(st, i)
  <2>4. Reverted(<<m>>, st') = st /\ Len(<<m>>) = 1
    <3> HIDE DEF m
    <3>1. Reverted(<<m>>, st') = UndoMove(m, st')
      BY UndoneOne
    <3> QED BY <2>2, <3>1 DEF m
  <2>5. Reverted(undo, st)' = st /\ Len(undo') = 1
    BY <2>1, <2>4
  <2>6. Canonical(Reverted(undo, st))'
    BY <1>0, <2>1, <2>5, CanonicalStays DEF Canonical
  <2> QED BY <1>0, <2>1, <2>3, <2>5, <2>6 DEF IInv
<1>6. ASSUME NEW i \in Movable, NEW j \in Movable, Swap(i, j) PROVE IInv'
  <2> DEFINE ri == st.room[i]
             rj == st.room[j]
             out1 == MoveSeat(st, i, None)
             out2 == MoveSeat(out1, j, None)
             in1 == MoveSeat(out2, i, rj)
             u == <<Saved(st, i), Saved(out1, j), Saved(out2, i), Saved(in1, j)>>
  <2>1. /\ phase = "anneal" /\ i # j /\ phase' = "proposed" /\ UNCHANGED <<opts, prev, todo, best>>
        /\ ri # rj /\ ri # None /\ rj # None /\ MayExchange(out2, i, j, ri, rj)
        /\ st' = MoveSeat(in1, j, ri) /\ undo' = u
    BY <1>6 DEF Swap
  <2>2. Canonical(st') /\ Reverted(u, st') = st
    BY <1>0, <2>1, Exchanged
  <2>3. Len(u) = 4
    OBVIOUS
  <2> HIDE DEF u
  <2>4. Canonical(st)'
    BY <2>1, <2>2, CanonicalStays
  <2>5. Reverted(undo, st)' = st /\ Len(undo') = 4
    BY <2>1, <2>2, <2>3
  <2>6. Canonical(Reverted(undo, st))'
    BY <1>0, <2>1, <2>5, CanonicalStays DEF Canonical
  <2> QED BY <1>0, <2>1, <2>4, <2>5, <2>6 DEF IInv
<1>7. CASE Accept
  <2>1. Canonical(st)'
    BY <1>0, <1>7, CanonicalStays DEF Accept
  <2>2. best'.room = st.room \/ best'.room = best.room
    BY <1>7 DEF Accept, KeptBest, Kept
  <2>3. HardOK(best'.room)
    BY <1>0, <2>2
  <2> QED BY <1>0, <1>7, <2>1, <2>3 DEF Accept, IInv
<1>8. CASE Reject
  <2>1. st' = Reverted(undo, st) /\ Canonical(Reverted(undo, st))
    BY <1>8 DEF Reject, IInv, Reverted
  <2>2. Canonical(st)'
    BY <1>8, <2>1, CanonicalStays DEF Reject
  <2> QED BY <1>0, <1>8, <2>2 DEF Reject, IInv
<1>9. CASE Finish
  <2> DEFINE a == best.room
  <2>1. st' = Fresh(a) /\ HardOK(a)
    BY <1>0, <1>9, RebuiltExact DEF Finish, HardOK
  <2>2. st'.room = a
    BY <2>1 DEF Fresh
  <2>3. Canonical(st')
    BY <2>1, <2>2 DEF Canonical
  <2>4. Canonical(st)'
    BY <1>9, <2>3, CanonicalStays DEF Finish
  <2> QED BY <1>0, <1>9, <2>4 DEF Finish, IInv
<1>10. CASE UNCHANGED vars
  <2>1. Canonical(st)'
    BY <1>0, <1>10, CanonicalStays DEF vars
  <2>2. Canonical(Reverted(undo, st)) <=> Canonical(Reverted(undo, st))'
    BY <1>10, CanonicalStays DEF vars
  <2> QED BY <1>0, <1>10, <2>1, <2>2 DEF vars, IInv
<1> QED BY <1>1, <1>2, <1>3, <1>4, <1>5, <1>6, <1>7, <1>8, <1>9, <1>10 DEF Next

LEMMA Invariance == Spec => []IInv
<1>1. Init => IInv
  BY InitInv
<1>2. IInv /\ [Next]_vars => IInv'
  BY StepInv
<1> QED BY <1>1, <1>2, PTL DEF Spec

\* The counters and cost totals that moveSeat and its undo maintain are at every step what
\* rebuild would count: no sequence of moves, exchanges and rejected proposals makes them drift.
THEOREM CountersAreExact == Spec => []CountersExact
<1>1. IInv => CountersExact
  <2> SUFFICES ASSUME IInv PROVE CountersExact
    OBVIOUS
  <2> DEFINE a == st.room
  <2>1. st.cells = CellsOf(a) /\ st.total = FreshTotal(a, CellsOf(a)) /\ a \in Assignments
    BY DEF IInv, Canonical, Fresh, HardOK
  <2>2. \A r \in Rooms, s \in Slots : Sitting(r, s) = In(a, r, s)
    BY DEF Sitting, In
  <2>3. None \notin Rooms /\ \A i \in Seats : a[i] \in Rooms \cup {None}
    BY <2>1, RoomProblemAssumption DEF Assignments, Places
  <2>4. \A e \in Exams : {a[i] : i \in {k \in Seats : ExamOf[k] = e}} \ {None} = RoomsOf(a, e)
    BY <2>3 DEF RoomsOf, OfExam
  <2>5. {a[i] : i \in Seats} \ {None} = RoomsUsed(a)
    BY <2>3 DEF RoomsUsed, InRoom
  <2> HIDE DEF a
  <2>6. \A r \in Rooms, s \in Slots :
           /\ st.cells.used[r][s] = Cardinality(Sitting(r, s))
           /\ st.cells.alone[r][s] = Cardinality(Sitting(r, s) \cap Alone)
    <3> TAKE r \in Rooms, s \in Slots
    <3>1. Sitting(r, s) = In(a, r, s)
      BY <2>2
    <3>2. /\ st.cells.used[r][s] = Cardinality(In(a, r, s))
          /\ st.cells.alone[r][s] = Cardinality(In(a, r, s) \cap Alone)
      BY <2>1 DEF CellsOf
    <3> QED BY <3>1, <3>2
  <2>7. \A e \in Exams : st.cells.rooms[e] = Cardinality(RoomsOf(a, e))
    BY <2>1 DEF CellsOf
  <2>8. st.cells.distinct = Cardinality(RoomsUsed(a))
    BY <2>1 DEF CellsOf
  <2> QED BY <2>1, <2>4, <2>5, <2>6, <2>7, <2>8 DEF CountersExact, a
<1> QED BY <1>1, Invariance, PTL

\* allowedRoomC, capacityC, ntaAloneC, prePlannedC: whatever the search does, a seat it placed is
\* in a room allowed for it and within its capacity, an NTA who needs it has the room alone, and
\* what was pre-planned stays.
THEOREM PlacesAreKept == Spec => []PlacesKept
<1>1. IInv => PlacesKept
  <2>1. \A r, s : Sitting(r, s) = In(st.room, r, s)
    BY DEF Sitting, In
  <2> QED BY <2>1 DEF IInv, Canonical, HardOK, PlacesOK, PlacesKept
<1> QED BY <1>1, Invariance, PTL

\* turnaroundConflict, summerCooldownC: two uses of a room on a day are far enough apart, in
\* whatever order the seats came into the room.
THEOREM GapsAreKept == Spec => []GapsKept
<1>1. IInv => GapsKept
  <2> SUFFICES ASSUME IInv PROVE GapsKept
    OBVIOUS
  <2>1. GapsOK(st.room)
    BY DEF IInv, Canonical, HardOK
  <2> QED BY <2>1 DEF GapsOK, GapsKept, FarEnough, SlotOfSeat
<1> QED BY <1>1, Invariance, PTL

\* Rooms, counters and the undo list keep their types; the counts of seats, rooms and unplaced
\* seats never go below zero.
THEOREM TypeCorrect == Spec => []TypeOK
<1>1. IInv => TypeOK
  <2> SUFFICES ASSUME IInv PROVE TypeOK
    OBVIOUS
  <2> DEFINE a == st.room
             open == {i \in Movable : a[i] = None}
  <2>1. a \in Assignments /\ st.cells = CellsOf(a) /\ st = Fresh(a)
    BY CanonicalTypes DEF IInv, Canonical
  <2>2. /\ st.cells.used \in [Rooms -> [Slots -> Nat]] /\ st.cells.exam \in [Exams -> [Rooms -> Nat]]
        /\ st.cells.rooms \in [Exams -> Nat] /\ st.cells.any \in [Rooms -> Nat]
    BY <2>1, CellsCount
  <2>3. IsFiniteSet(open)
    <3>1. open \in SUBSET Movable
      OBVIOUS
    <3> QED BY <3>1, Finiteness, FS_Subset
  <2>4. Cardinality(open) \in Nat
    BY <2>3, FS_CardinalityType
  <2>5. st.total.unplaced = Cardinality(open)
    BY <2>1 DEF Fresh, FreshTotal
  <2>6. Len(undo) \in {0, 1, 4}
    BY DEF IInv
  <2> HIDE DEF a, open
  <2>7. st.room \in [Seats -> Places]
    BY <2>1 DEF a, Assignments
  <2> QED BY <2>2, <2>4, <2>5, <2>6, <2>7 DEF IInv, TypeOK
<1> QED BY <1>1, Invariance, PTL
=============================================================================
