----------------------------- MODULE RoomSolver -----------------------------
(***************************************************************************)
(* The room solver: the assignment of single seats to rooms with its        *)
(* incrementally maintained counters and cost totals (roomplan/model.go,    *)
(* problem.go), the constructive start and the reported hard rules          *)
(* (roomplan/solve.go), under the annealing engine (optimize/anneal.go).    *)
(* The time of every exam is given; what is decided is the room of a seat.  *)
(*                                                                          *)
(* Random choices and the acceptance of an uphill move are nondeterministic; *)
(* the number of iterations is arbitrary.  What a seat costs in a room       *)
(* (heat, EXaHM and SEB preferences) is a table of naturals.                 *)
(***************************************************************************)
EXTENDS Integers, FiniteSets, FiniteSetsExt, SequencesExt

CONSTANTS
    Seats, Exams, Rooms, Slots,     \* sets of indices
    None,                           \* no room (-1)
    ExamOf,                         \* [Seats -> Exams]
    Alone,                          \* the seats of NTAs that need a room alone
    Fixed, FixedRoom,               \* pre-planned seats and their rooms
    PrevPlans,                      \* the saved plans to start from, [Seats -> room or None]
    SlotOf,                         \* [Exams -> Slots]
    Duration, PreExtra, PostExtra,  \* [Exams -> minutes]
    NormalCount,                    \* [Exams -> Nat]
    AllowedNormal, AllowedAlone,    \* [Exams -> rooms]
    Capacity, Own,                  \* [Rooms -> Nat], the rooms subject to heat
    Start, DayOf,                   \* [Slots -> minutes], [Slots -> day]
    Lag, Summer,                    \* the ordinary turnaround; heat rules apply
    SeatCost,                       \* [Seats -> [Rooms -> Nat]]
    Unplaced, Buffer, Split, Compaction, Churn  \* weights

Movable == Seats \ Fixed
Places == Rooms \cup {None}
SlotOfSeat(i) == SlotOf[ExamOf[i]]

ASSUME RoomProblemAssumption ==
    /\ Seats \subseteq Nat /\ Rooms \subseteq Nat /\ Slots \subseteq Nat /\ None \notin Rooms
    /\ IsFiniteSet(Seats) /\ IsFiniteSet(Rooms) /\ IsFiniteSet(Exams)
    /\ ExamOf \in [Seats -> Exams] /\ SlotOf \in [Exams -> Slots] /\ Alone \subseteq Seats
    /\ Fixed \subseteq Seats /\ FixedRoom \in [Fixed -> Rooms]
    /\ PrevPlans \subseteq [Seats -> Places]
    /\ {Duration, PreExtra, PostExtra, NormalCount} \subseteq [Exams -> Nat]
    /\ Capacity \in [Rooms -> Nat] /\ Start \in [Slots -> Nat]
    /\ SeatCost \in [Seats -> [Rooms -> Nat]]
    /\ {Lag, Unplaced, Buffer, Split, Compaction, Churn} \subseteq Nat
    /\ Summer \in BOOLEAN

VARIABLES
    st,     \* [room, cells, total]: roomOf, the counters, the cost totals
    opts,   \* warm: start from prev and only improve
    prev,   \* the saved plan
    phase,  \* "warm", "fill", "anneal", "proposed", "done"
    todo,   \* seats the current pass of the construction has not looked at yet
    undo,   \* the moves of the proposal, first to last
    best    \* the assignment and the cost of the best state seen

vars == <<st, opts, prev, phase, todo, undo, best>>

-----------------------------------------------------------------------------
(* problem.go *)

Allows(i, r) == r \in IF i \in Alone THEN AllowedAlone[ExamOf[i]] ELSE AllowedNormal[ExamOf[i]]
SameDay(s) == {t \in Slots \ {s} : DayOf[t] = DayOf[s]}
\* nextInDay, prevInDay: no slot of the day lies between the two.
Adjacent(s, t) ==
    /\ t \in SameDay(s)
    /\ \A x \in SameDay(s) \ {t} :
          ~(Start[x] > Min({Start[s], Start[t]}) /\ Start[x] < Max({Start[s], Start[t]}))
ExamsIn(s) == {e \in Exams : SlotOf[e] = s}

-----------------------------------------------------------------------------
(* model.go: the counters *)

NoCells == [used  |-> [r \in Rooms |-> [s \in Slots |-> 0]],
            alone |-> [r \in Rooms |-> [s \in Slots |-> 0]],
            exam  |-> [e \in Exams |-> [r \in Rooms |-> 0]],
            rooms |-> [e \in Exams |-> 0],
            any   |-> [r \in Rooms |-> 0],
            distinct |-> 0]

\* structuralAdd
Added(c, i, r) ==
    LET e == ExamOf[i]  s == SlotOfSeat(i) IN
    [used  |-> [c.used EXCEPT ![r][s] = @ + 1],
     alone |-> IF i \in Alone THEN [c.alone EXCEPT ![r][s] = @ + 1] ELSE c.alone,
     exam  |-> [c.exam EXCEPT ![e][r] = @ + 1],
     rooms |-> IF c.exam[e][r] = 0 THEN [c.rooms EXCEPT ![e] = @ + 1] ELSE c.rooms,
     any   |-> [c.any EXCEPT ![r] = @ + 1],
     distinct |-> IF c.any[r] = 0 THEN c.distinct + 1 ELSE c.distinct]

\* structuralRemove
Removed(c, i, r) ==
    LET e == ExamOf[i]  s == SlotOfSeat(i) IN
    [used  |-> [c.used EXCEPT ![r][s] = @ - 1],
     alone |-> IF i \in Alone THEN [c.alone EXCEPT ![r][s] = @ - 1] ELSE c.alone,
     exam  |-> [c.exam EXCEPT ![e][r] = @ - 1],
     rooms |-> IF c.exam[e][r] = 1 THEN [c.rooms EXCEPT ![e] = @ - 1] ELSE c.rooms,
     any   |-> [c.any EXCEPT ![r] = @ - 1],
     distinct |-> IF c.any[r] = 1 THEN c.distinct - 1 ELSE c.distinct]

Reseated(c, i, old, r) ==
    LET without == IF old # None THEN Removed(c, i, old) ELSE c
    IN IF r # None THEN Added(without, i, r) ELSE without

-----------------------------------------------------------------------------
(* model.go: feasible *)

\* The rooms of exams in a cell, and the widest of a quantity among them (cellUseAt).
Users(c, r, t) == {e \in ExamsIn(t) : c.exam[e][r] > 0}
Widest(f, es) == Max({f[e] : e \in es} \cup {0})

\* Mutants: a room taken alone is not looked at; only earlier uses of the room are.
CellFreeIgnoringAlone(c, i, r) ==
    IF i \in Alone THEN c.used[r][SlotOfSeat(i)] = 0
                   ELSE c.used[r][SlotOfSeat(i)] + 1 <= Capacity[r]
TurnaroundEarlierOnly(c, e, r) ==
    \E t \in SameDay(SlotOf[e]) :
       /\ c.used[r][t] > 0 /\ Start[t] < Start[SlotOf[e]]
       /\ LET es == Users(c, r, t)
          IN Start[SlotOf[e]] - Start[t] < Widest(Duration, es) + Lag + Widest(PostExtra, es) + PreExtra[e]

\* turnaroundConflict: the new use against every other use of the room that day.
TurnaroundConflict(c, e, r) ==
    \E t \in SameDay(SlotOf[e]) :
       /\ c.used[r][t] > 0
       /\ LET es == Users(c, r, t)
              d == Start[t] - Start[SlotOf[e]]
          IN IF d < 0 THEN -d < Widest(Duration, es) + Lag + Widest(PostExtra, es) + PreExtra[e]
                      ELSE d < Duration[e] + Lag + PostExtra[e] + Widest(PreExtra, es)

CellFree(c, i, r) ==
    LET s == SlotOfSeat(i) IN
    IF i \in Alone THEN c.used[r][s] = 0
                   ELSE c.alone[r][s] = 0 /\ c.used[r][s] + 1 <= Capacity[r]

\* feasible, for a seat that is not in r
Feasible(c, i, r) ==
    /\ Allows(i, r)
    /\ CellFree(c, i, r)
    /\ ~TurnaroundConflict(c, ExamOf[i], r)
    /\ Summer /\ r \in Own => \A t \in Slots : Adjacent(SlotOfSeat(i), t) => c.used[r][t] = 0

-----------------------------------------------------------------------------
(* model.go: the cost *)

\* freeSeatsBuffer: 5 percent, rounded up, and at least two
Need(e) == Max({2, (NormalCount[e] * 5 + 99) \div 100})

\* bufferPenaltyOf: the free seats of the exam's rooms that no NTA holds alone
BufferPenalty(c, e) ==
    LET s == SlotOf[e]
        mine == {r \in Rooms : c.exam[e][r] > 0 /\ c.alone[r][s] = 0}
        free == SumFunction([r \in mine |-> Max({0, Capacity[r] - c.used[r][s]})])
    IN IF mine = {} \/ free >= Need(e) THEN 0 ELSE Buffer * (Need(e) - free)

SeatCostOf(i, r) == IF r = None THEN 0 ELSE SeatCost[i][r]
ChurnCostOf(i, r) == IF prev[i] # None /\ prev[i] # r THEN Churn ELSE 0
ExtraRooms(n) == Max({0, n - 1})

\* rebuild: every total from the assignment
FreshTotal(a, c) ==
    LET buffer == [e \in Exams |-> BufferPenalty(c, e)] IN
    [byExam   |-> buffer,
     buffer   |-> SumFunction(buffer),
     seat     |-> SumFunction([i \in Seats |-> SeatCostOf(i, a[i])]),
     churn    |-> SumFunction([i \in Seats |-> ChurnCostOf(i, a[i])]),
     split    |-> SumFunction([e \in Exams |-> Split * ExtraRooms(c.rooms[e])]),
     compact  |-> Compaction * c.distinct,
     unplaced |-> Cardinality({i \in Movable : a[i] = None})]
Rebuilt(a) ==
    LET c == FoldSet(LAMBDA i, acc : Added(acc, i, a[i]), NoCells, {i \in Seats : a[i] # None})
    IN [room |-> a, cells |-> c, total |-> FreshTotal(a, c)]

\* Mutant: only the exam that moves has its buffer recomputed.
AffectedItself(e) == {e}
\* The exams whose buffer a move can change: they share the slot.
Affected(e) == ExamsIn(SlotOf[e])

\* The buffers recomputed after a move of a seat of e, and what they changed.
Rebuffered(by, c, e) == [f \in Exams |-> IF f \in Affected(e) THEN BufferPenalty(c, f) ELSE by[f]]
Growth(new, by, e) == SumFunction([f \in Affected(e) |-> new[f] - by[f]])

\* moveSeat: seat i to room r, or out of its room
MoveSeat(x, i, r) ==
    LET old == x.room[i]
        e == ExamOf[i]
        c == Reseated(x.cells, i, old, r)
        byExam == Rebuffered(x.total.byExam, c, e)
    IN [room  |-> [x.room EXCEPT ![i] = r],
        cells |-> c,
        total |-> [byExam   |-> byExam,
                   buffer   |-> x.total.buffer + Growth(byExam, x.total.byExam, e),
                   seat     |-> x.total.seat + SeatCostOf(i, r) - SeatCostOf(i, old),
                   churn    |-> x.total.churn + ChurnCostOf(i, r) - ChurnCostOf(i, old),
                   split    |-> x.total.split + Split * (ExtraRooms(c.rooms[e])
                                                         - ExtraRooms(x.cells.rooms[e])),
                   compact  |-> Compaction * c.distinct,
                   unplaced |-> x.total.unplaced + (IF r = None THEN 1 ELSE 0)
                                                 - (IF old = None THEN 1 ELSE 0)]]

\* What the undo closure of moving i holds, and what it does.
Saved(x, i) == [seat |-> i, room |-> x.room[i], total |-> x.total]
UndoMove(m, x) ==
    [room  |-> [x.room EXCEPT ![m.seat] = m.room],
     cells |-> Reseated(x.cells, m.seat, x.room[m.seat], m.room),
     total |-> m.total]

Cost(t) == Unplaced * t.unplaced + t.buffer + t.split + t.compact + t.seat + t.churn

-----------------------------------------------------------------------------
(* solve.go: the construction *)

Init ==
    /\ opts \in [warm : BOOLEAN]
    /\ prev \in PrevPlans
    /\ st = Rebuilt([i \in Seats |-> IF i \in Fixed THEN FixedRoom[i] ELSE None])
    /\ todo = Movable
    /\ phase = IF opts.warm THEN "warm" ELSE "fill"
    /\ undo = <<>>
    /\ best = [room |-> st.room, cost |-> Cost(st.total)]

\* constructWarm: seat after seat into its previous room while that is feasible.
ConstructWarm ==
    /\ phase = "warm" /\ todo # {}
    /\ LET i == Min(todo) IN
       /\ st' = IF prev[i] # None /\ Feasible(st.cells, i, prev[i])
                THEN MoveSeat(st, i, prev[i]) ELSE st
       /\ todo' = todo \ {i}
    /\ UNCHANGED <<opts, prev, phase, undo, best>>

WarmDone ==
    /\ phase = "warm" /\ todo = {}
    /\ phase' = "fill" /\ todo' = {i \in Movable : st.room[i] = None}
    /\ UNCHANGED <<st, opts, prev, undo, best>>

\* The order of fillRemaining: by slot, and within it one seat of each exam after the other.
Rank(i) == Cardinality({j \in Seats : ExamOf[j] = ExamOf[i] /\ j < i})
Before(i, j) ==
    \/ SlotOfSeat(i) < SlotOfSeat(j)
    \/ SlotOfSeat(i) = SlotOfSeat(j) /\ Rank(i) < Rank(j)
    \/ SlotOfSeat(i) = SlotOfSeat(j) /\ Rank(i) = Rank(j) /\ i < j

\* chooseRoom: the fullest feasible room, the largest of those (here any of them).
FeasibleRooms(i) == {r \in Rooms : Feasible(st.cells, i, r)}
BestRooms(i) ==
    LET s == SlotOfSeat(i)
        Better(q, r) == \/ st.cells.used[q][s] > st.cells.used[r][s]
                        \/ st.cells.used[q][s] = st.cells.used[r][s] /\ Capacity[q] > Capacity[r]
    IN {r \in FeasibleRooms(i) : \A q \in FeasibleRooms(i) : ~Better(q, r)}

FillRemaining ==
    /\ phase = "fill"
    /\ \E i \in todo :
          /\ \A j \in todo \ {i} : Before(i, j)
          /\ todo' = todo \ {i}
          /\ \/ \E r \in BestRooms(i) : st' = MoveSeat(st, i, r)
             \/ FeasibleRooms(i) = {} /\ UNCHANGED st
    /\ UNCHANGED <<opts, prev, phase, undo, best>>

-----------------------------------------------------------------------------
(* anneal.go, and Propose of model.go *)

Kept(x) == [room |-> x.room, cost |-> Cost(x.total)]

StartAnneal ==
    /\ phase = "fill" /\ todo = {}
    /\ best' = Kept(st)
    /\ phase' = "anneal"
    /\ UNCHANGED <<st, opts, prev, todo, undo>>

Relocate(i, r) ==
    /\ phase = "anneal"
    /\ r # st.room[i] /\ Feasible(st.cells, i, r)
    /\ st' = MoveSeat(st, i, r)
    /\ undo' = <<Saved(st, i)>>
    /\ phase' = "proposed"
    /\ UNCHANGED <<opts, prev, todo, best>>

MayExchange(x, i, j, ri, rj) == Feasible(x.cells, i, rj) /\ Feasible(x.cells, j, ri)

\* Two seats exchange their rooms: both leave, both are tried, both are placed.
Swap(i, j) ==
    /\ phase = "anneal" /\ i # j
    /\ LET ri == st.room[i]
           rj == st.room[j]
           out1 == MoveSeat(st, i, None)
           out2 == MoveSeat(out1, j, None)
           in1  == MoveSeat(out2, i, rj)
       IN /\ ri # rj /\ ri # None /\ rj # None
          /\ MayExchange(out2, i, j, ri, rj)
          /\ st' = MoveSeat(in1, j, ri)
          /\ undo' = <<Saved(st, i), Saved(out1, j), Saved(out2, i), Saved(in1, j)>>
    /\ phase' = "proposed"
    /\ UNCHANGED <<opts, prev, todo, best>>

CostBefore == Cost(undo[1].total)

KeptBest(x) == IF Cost(x.total) < best.cost THEN Kept(x) ELSE best

Accept ==
    /\ phase = "proposed"
    /\ opts.warm => Cost(st.total) < CostBefore
    /\ best' = KeptBest(st)
    /\ undo' = <<>>
    /\ phase' = "anneal"
    /\ UNCHANGED <<st, opts, prev, todo>>

Reject ==
    /\ phase = "proposed"
    /\ Cost(st.total) > CostBefore \/ (opts.warm /\ Cost(st.total) = CostBefore)
    /\ st' = FoldRight(UndoMove, undo, st)
    /\ undo' = <<>>
    /\ phase' = "anneal"
    /\ UNCHANGED <<opts, prev, todo, best>>

\* Restore keeps only the assignment and rebuilds the rest from it.
Finish ==
    /\ phase = "anneal"
    /\ st' = Rebuilt(best.room)
    /\ phase' = "done"
    /\ UNCHANGED <<opts, prev, todo, undo, best>>

Next ==
    \/ ConstructWarm \/ WarmDone \/ FillRemaining \/ StartAnneal
    \/ \E i \in Movable, r \in Rooms : Relocate(i, r)
    \/ \E i, j \in Movable : Swap(i, j)
    \/ Accept \/ Reject \/ Finish

Spec == Init /\ [][Next]_vars

-----------------------------------------------------------------------------
(* Properties *)

Sitting(r, s) == {i \in Seats : st.room[i] = r /\ SlotOfSeat(i) = s}

\* The counters never go below zero and every seat has a room of the problem, or none.
TypeOK ==
    /\ st.room \in [Seats -> Places]
    /\ st.cells.used \in [Rooms -> [Slots -> Nat]] /\ st.cells.exam \in [Exams -> [Rooms -> Nat]]
    /\ st.cells.rooms \in [Exams -> Nat] /\ st.cells.any \in [Rooms -> Nat]
    /\ st.total.unplaced \in Nat
    /\ todo \subseteq Movable /\ Len(undo) \in {0, 1, 4}
    /\ phase \in {"warm", "fill", "anneal", "proposed", "done"}

\* model.go:11-16: the counters and totals kept per single-seat move are what counting the
\* assignment gives, after any moves, exchanges, undone proposals and the restore.
CountersExact ==
    /\ \A r \in Rooms, s \in Slots :
          /\ st.cells.used[r][s] = Cardinality(Sitting(r, s))
          /\ st.cells.alone[r][s] = Cardinality(Sitting(r, s) \cap Alone)
    /\ \A e \in Exams :
          LET rooms == {st.room[i] : i \in {k \in Seats : ExamOf[k] = e}} \ {None}
          IN st.cells.rooms[e] = Cardinality(rooms)
    /\ st.cells.distinct = Cardinality({st.room[i] : i \in Seats} \ {None})
    /\ st.total = FreshTotal(st.room, st.cells)

\* allowedRoomC, capacityC, ntaAloneC, prePlannedC (anneal.go:85, every visited state stays
\* hard-feasible): a seat that was not pre-planned has a room allowed for it, within its
\* capacity, and nobody shares a room with an NTA who needs it alone; what the planner
\* pre-planned is not moved, and is exempt only against other pre-planned seats.
PlacesKept ==
    /\ \A i \in Fixed : st.room[i] = FixedRoom[i]
    /\ \A i \in Movable : st.room[i] # None =>
          LET r == st.room[i]  there == Sitting(r, SlotOfSeat(i)) IN
          /\ Allows(i, r)
          /\ i \notin Alone => Cardinality(there) <= Capacity[r] /\ there \cap Alone = {}
          /\ i \in Alone => there = {i}

\* turnaroundConflict, summerCooldownC: of two exams in one room on a day the later one
\* starts when the room has been cleared and set up, and in summer an own room is not used
\* in two consecutive slots, in whatever order their seats came into the room.
GapsKept ==
    \A i, j \in Seats :
        /\ {i, j} \cap Movable # {} /\ st.room[i] # None /\ st.room[i] = st.room[j]
        /\ DayOf[SlotOfSeat(i)] = DayOf[SlotOfSeat(j)] /\ Start[SlotOfSeat(i)] < Start[SlotOfSeat(j)]
        => /\ Start[SlotOfSeat(j)] - Start[SlotOfSeat(i)]
                >= Duration[ExamOf[i]] + Lag + PostExtra[ExamOf[i]] + PreExtra[ExamOf[j]]
           /\ ~(Summer /\ st.room[i] \in Own /\ Adjacent(SlotOfSeat(i), SlotOfSeat(j)))
=============================================================================
