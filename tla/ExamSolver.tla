----------------------------- MODULE ExamSolver -----------------------------
(***************************************************************************)
(* The exam schedule solver: the assignment of units to slots with its      *)
(* incrementally maintained seat counts and cost totals (examplan/model.go, *)
(* problem.go), the constructive start (examplan/solve.go) and the          *)
(* simulated annealing engine that drives it (optimize/anneal.go).          *)
(*                                                                         *)
(* The random choices, and the acceptance of an uphill move, are            *)
(* nondeterministic; the number of iterations is arbitrary.  Penalties of   *)
(* pairs of slots are tables of naturals (Closeness, Farness); floating     *)
(* point rounding is not modelled.                                          *)
(***************************************************************************)
EXTENDS Integers, Sequences, FiniteSets, FiniteSetsExt, Functions

CONSTANTS
    Units, Slots,       \* both sets of indices
    None,               \* no slot (-1)
    Start,              \* [Slots -> minutes]
    DayOf,              \* [Slots -> the calendar day]
    Fixed, FixedSlot,   \* units that keep their slot, and that slot
    StartPlans,         \* the current plans to start from, each [Units -> slot or None]
    Allowed,            \* [Units -> the slots of the unit's domain]
    Seats,              \* [Units -> Nat]
    Exahm, Seb, Foreign,\* sets of units
    Cap, ExahmSeats, SebSeats,  \* [Slots -> Nat], a Cap of 0 is no cap
    Pairs,              \* [students -> pairs of units the student sits]
    Sep,                \* [Units \X Units -> minutes the first needs before the second]
    Overrun,            \* [Units -> [Slots -> later slots the unit's rooms stay occupied in]]
    AttractPairs,       \* pairs of units that should sit close
    Closeness, Farness, \* [Slots -> [Slots -> Nat]]
    TimePenalty,        \* [Units -> [Slots -> Nat]]
    TargetLoad, Hole, Unplaced  \* weights

Movable == Units \ Fixed
Students == DOMAIN Pairs
Places == Slots \cup {None}

\* NewProblem: two units of one student conflict unless both are fixed.
Conflict(u, v) ==
    /\ u # v /\ ~(u \in Fixed /\ v \in Fixed)
    /\ \E s \in Students : <<u, v>> \in Pairs[s] \/ <<v, u>> \in Pairs[s]

ASSUME ProblemAssumption ==
    /\ Units \subseteq Nat /\ Slots \subseteq Nat /\ None \notin Slots
    /\ Fixed \subseteq Units /\ FixedSlot \in [Fixed -> Slots]
    /\ StartPlans \subseteq [Units -> Places] /\ Allowed \in [Units -> SUBSET Slots]
    /\ Start \in [Slots -> Int] /\ Sep \in [Units \X Units -> Nat \ {0}]
    /\ IsFiniteSet(Units) /\ IsFiniteSet(Slots) /\ IsFiniteSet(Students) /\ IsFiniteSet(AttractPairs)
    /\ \A st \in Students : IsFiniteSet(Pairs[st]) /\ Pairs[st] \subseteq Units \X Units
    /\ AttractPairs \subseteq Units \X Units
    /\ Exahm \subseteq Units /\ Seb \subseteq Units /\ Foreign \subseteq Units
    /\ Seats \in [Units -> Nat]
    /\ {Cap, ExahmSeats, SebSeats} \subseteq [Slots -> Nat]
    \* The slots an exam overruns into are later ones.
    /\ \A u \in Units, s \in Slots : Overrun[u][s] \subseteq Slots \ {s}
    /\ {Closeness, Farness} \subseteq [Slots -> [Slots -> Nat]]
    /\ TimePenalty \in [Units -> [Slots -> Nat]]
    /\ TargetLoad \in Nat /\ Hole \in Nat /\ Unplaced \in Nat

VARIABLES
    slotOf,     \* [Units -> slot or None]
    load,       \* seats per slot: all, own, EXaHM, SEB, and EXaHM seats overrunning into it
    total,      \* the running cost totals, and the penalty of each student
    opts,       \* warm: start from startSlot and only improve; room: phase A
    startSlot,  \* the current plan
    phase,      \* "warm", "fill", "anneal", "proposed", "done"
    todo,       \* units the constructive start has not looked at yet
    left,       \* units it has not placed yet
    undo,       \* what takes back the proposed move
    best        \* the best state seen and its cost

input == <<opts, startSlot>>
vars == <<slotOf, load, total, input, phase, todo, left, undo, best>>

NoLoad == [x \in Slots |-> 0]
Zero == [seats |-> NoLoad, own |-> NoLoad, exahm |-> NoLoad, seb |-> NoLoad, over |-> NoLoad]

-----------------------------------------------------------------------------
(* problem.go *)

\* sepMinutes, overlaps: too little time between the two exams.
Overlaps(u, su, v, sv) ==
    IF Start[sv] >= Start[su] THEN Start[sv] - Start[su] < Sep[<<u, v>>]
                              ELSE Start[su] - Start[sv] < Sep[<<v, u>>]

OverrunTargets(u, s) == IF u \in Exahm /\ s # None THEN Overrun[u][s] ELSE {}
MayOverrun(u) == u \in Exahm /\ \E s \in Slots : Overrun[u][s] # {}

LoadPenalty(n) == (n - TargetLoad) * (n - TargetLoad)
TbauPenalty(l, s) ==
    Max({0, ExahmSeats[s] - l.exahm[s]}) + Max({0, SebSeats[s] - l.seb[s]})

-----------------------------------------------------------------------------
(* model.go: the seats *)

\* A seat count after u went from the slots old to the slots new.
Moved(f, u, old, new) == [x \in Slots |-> f[x] + (IF x \in new THEN Seats[u] ELSE 0)
                                              - (IF x \in old THEN Seats[u] ELSE 0)]

\* Mutant: an exam that leaves a slot keeps its overrun there.
SetPhysicalKeepsOverrun(l, u, old, s) ==
    [seats |-> Moved(l.seats, u, {old}, {s}),
     own   |-> IF u \in Foreign THEN l.own ELSE Moved(l.own, u, {old}, {s}),
     exahm |-> IF u \in Exahm THEN Moved(l.exahm, u, {old}, {s}) ELSE l.exahm,
     seb   |-> IF u \in Seb THEN Moved(l.seb, u, {old}, {s}) ELSE l.seb,
     over  |-> Moved(l.over, u, {}, OverrunTargets(u, s))]

\* setPhysical: the seats after u went from old to s, either may be None.
SetPhysical(l, u, old, s) ==
    [seats |-> Moved(l.seats, u, {old}, {s}),
     own   |-> IF u \in Foreign THEN l.own ELSE Moved(l.own, u, {old}, {s}),
     exahm |-> IF u \in Exahm THEN Moved(l.exahm, u, {old}, {s}) ELSE l.exahm,
     seb   |-> IF u \in Seb THEN Moved(l.seb, u, {old}, {s}) ELSE l.seb,
     over  |-> Moved(l.over, u, OverrunTargets(u, old), OverrunTargets(u, s))]

\* Mutants of feasible: overlaps and overrunning exams are not looked at.
FeasibleSameStartOnly(a, l, u, s) ==
    /\ s \in Allowed[u]
    /\ \A v \in Units : Conflict(u, v) /\ a[v] # None => Start[a[v]] # Start[s]
FeasibleIgnoringOverrun(a, l, u, s) ==
    /\ s \in Allowed[u]
    /\ \A v \in Units : Conflict(u, v) /\ a[v] # None => ~Overlaps(u, s, v, a[v])
    /\ Cap[s] = 0 \/ l.seats[s] = 0 \/ l.seats[s] + Seats[u] <= Cap[s]
    /\ u \in Exahm => l.exahm[s] + Seats[u] <= ExahmSeats[s]

\* feasible: may u, which is not in s, go there?
Feasible(a, l, u, s) ==
    /\ s \in Allowed[u]
    /\ \A v \in Units : Conflict(u, v) /\ a[v] # None => ~Overlaps(u, s, v, a[v])
    /\ Cap[s] = 0 \/ l.seats[s] = 0 \/ l.seats[s] + Seats[u] <= Cap[s]
    /\ u \in Exahm => \A t \in {s} \cup OverrunTargets(u, s) :
                          l.exahm[t] + l.over[t] + Seats[u] <= ExahmSeats[t]

\* Mutant: the domain of the unit is not looked at.
MayTakeAnyPlace(a, l, u, v) ==
    LET s == a[v] IN
    /\ \A w \in Units \ {v} : Conflict(u, w) /\ a[w] # None => ~Overlaps(u, s, w, a[w])
    /\ Cap[s] = 0 \/ l.seats[s] = Seats[v] \/ l.seats[s] - Seats[v] + Seats[u] <= Cap[s]

\* One half of canSwap: u goes to the slot of v, which leaves it.
MayTakePlaceOf(a, l, u, v) ==
    LET s == a[v] IN
    /\ s \in Allowed[u]
    /\ \A w \in Units \ {v} : Conflict(u, w) /\ a[w] # None => ~Overlaps(u, s, w, a[w])
    /\ Cap[s] = 0 \/ l.seats[s] = Seats[v] \/ l.seats[s] - Seats[v] + Seats[u] <= Cap[s]
    /\ u \in Exahm => l.exahm[s] + l.over[s] - (IF v \in Exahm THEN Seats[v] ELSE 0) + Seats[u]
                         <= ExahmSeats[s]

CanSwap(a, l, u, v) ==
    /\ a[u] # None /\ a[v] # None /\ a[u] # a[v]
    /\ ~MayOverrun(u) /\ ~MayOverrun(v)
    /\ MayTakePlaceOf(a, l, u, v) /\ MayTakePlaceOf(a, l, v, u)

-----------------------------------------------------------------------------
(* model.go: the cost *)

\* studentPenalty: how close the exams of one student are.  The weight of a
\* pair and the surcharge for two campuses are left out.
PairPenalty(a, p) ==
    IF a[p[1]] # None /\ a[p[2]] # None /\ a[p[1]] # a[p[2]] THEN Closeness[a[p[1]]][a[p[2]]] ELSE 0
StudentPenalty(a, st) == SumFunction([p \in Pairs[st] |-> PairPenalty(a, p)])
Penalties(a) == [st \in Students |-> StudentPenalty(a, st)]
Convex(n) == n + n * n
SpreadCost(pS) == SumFunction([st \in Students |-> Convex(pS[st])])

\* dayHoleCount: slots without own exams between two with own exams.
DayHoleCount(l, d) ==
    LET day == {x \in Slots : DayOf[x] = d}
        used == {x \in day : l.own[x] > 0}
    IN Cardinality({x \in day \ used : \E y, z \in used : Start[y] < Start[x] /\ Start[x] < Start[z]})

PairDistance(a, p) == IF a[p[1]] # None /\ a[p[2]] # None THEN Farness[a[p[1]]][a[p[2]]] ELSE 0
AttractCost(a, ps) == SumFunction([p \in ps |-> PairDistance(a, p)])
LoadCost(l, xs) == SumFunction([x \in xs |-> LoadPenalty(l.seats[x])])
FillCost(l, xs) == SumFunction([x \in xs |-> TbauPenalty(l, x)])
HoleCost(l, ds) == SumFunction([d \in ds |-> Hole * DayHoleCount(l, d)])
TimeOf(u, s) == IF s = None \/ u \in Exahm \cup Seb THEN 0 ELSE TimePenalty[u][s]
TimeCost(a) == SumFunction([u \in Units |-> TimeOf(u, a[u])])
Open(a) == {u \in Movable : a[u] = None}

\* initCost, and the terms of the constraint registry: everything from scratch.
InitCost(a, l) ==
    [pS       |-> Penalties(a),
     spread   |-> SpreadCost(Penalties(a)),
     attract  |-> AttractCost(a, AttractPairs),
     load     |-> LoadCost(l, Slots),
     fill     |-> FillCost(l, Slots),
     hole     |-> HoleCost(l, {DayOf[x] : x \in Slots}),
     time     |-> TimeCost(a),
     unplaced |-> Cardinality(Open(a))]

SoftCost(t) == t.spread + t.attract + t.load + t.fill + t.hole + t.time
Cost(t) == SoftCost(t) + Unplaced * t.unplaced

\* recomputeStudentSpread, for the students with a pair of u.
Affected(u) == {st \in Students : \E p \in Pairs[st] : u \in {p[1], p[2]}}
Recomputed(pS, b, u) == [st \in Students |-> IF st \in Affected(u) THEN StudentPenalty(b, st) ELSE pS[st]]
SpreadGrowth(new, pS, u) == SumFunction([st \in Affected(u) |-> Convex(new[st]) - Convex(pS[st])])

\* moveUnit: the totals when u has moved, from assignment a with seats l to b
\* with seats m, as differences over what the move touches.
MoveTotal(a, b, l, m, t, u) ==
    LET touched == {a[u], b[u]} \ {None}
        days == {DayOf[x] : x \in touched}
        mine == {p \in AttractPairs : u \in {p[1], p[2]}}
    IN [pS       |-> Recomputed(t.pS, b, u),
        spread   |-> t.spread + SpreadGrowth(Recomputed(t.pS, b, u), t.pS, u),
        attract  |-> t.attract + AttractCost(b, mine) - AttractCost(a, mine),
        load     |-> t.load + LoadCost(m, touched) - LoadCost(l, touched),
        fill     |-> t.fill + FillCost(m, touched) - FillCost(l, touched),
        hole     |-> t.hole + HoleCost(m, days) - HoleCost(l, days),
        time     |-> t.time + TimeOf(u, b[u]) - TimeOf(u, a[u]),
        unplaced |-> t.unplaced + (IF a[u] = None THEN -1 ELSE 0)]

-----------------------------------------------------------------------------
(* solve.go: the start *)

\* newState: the fixed units are placed.
OnlyFixed == [u \in Units |-> IF u \in Fixed THEN FixedSlot[u] ELSE None]
Init ==
    /\ slotOf = OnlyFixed
    /\ load = FoldSet(LAMBDA u, l : SetPhysical(l, u, None, FixedSlot[u]), Zero, Fixed)
    /\ total = InitCost(slotOf, load)
    /\ opts \in [warm : BOOLEAN, room : BOOLEAN] /\ startSlot \in StartPlans
    /\ phase = IF opts.warm THEN "warm" ELSE "fill"
    /\ todo = Movable
    /\ left = Movable
    /\ undo = <<>>
    /\ best = [slotOf |-> slotOf, load |-> load, total |-> total]

Place(u, s) ==
    /\ slotOf' = [slotOf EXCEPT ![u] = s]
    /\ load' = SetPhysical(load, u, slotOf[u], s)

\* constructWarm: the units in order, each at its current slot if that is
\* still feasible.
ConstructWarm ==
    /\ phase = "warm"
    /\ \E u \in todo :
          /\ \A v \in todo : u <= v
          /\ todo' = todo \ {u}
          /\ IF startSlot[u] # None /\ Feasible(slotOf, load, u, startSlot[u])
             THEN Place(u, startSlot[u]) /\ left' = left \ {u}
             ELSE UNCHANGED <<slotOf, load, left>>
    /\ UNCHANGED <<input, total, phase, undo, best>>

FeasibleSlots(u) == {s \in Slots \ {slotOf[u]} : Feasible(slotOf, load, u, s)}

\* bookedFeasCount, in phase A.
Options(u) ==
    Cardinality(IF ~opts.room THEN FeasibleSlots(u)
                ELSE {s \in FeasibleSlots(u) : \/ u \in Exahm /\ ExahmSeats[s] > 0
                                               \/ u \in Seb /\ SebSeats[s] > 0})

\* moreConstrained, moreConstrainedForPhase: fewer options, then more seats,
\* then the smaller index.
MoreConstrained(u, v) ==
    \/ Options(u) < Options(v)
    \/ Options(u) = Options(v) /\ Seats[u] > Seats[v]
    \/ Options(u) = Options(v) /\ Seats[u] = Seats[v] /\ u < v

\* fillRemaining: the most constrained unit goes to the cheapest feasible slot
\* (here to any of them), or stays without one.
FillRemaining ==
    /\ phase = "fill" \/ (phase = "warm" /\ todo = {})
    /\ left # {}
    /\ \E u \in left :
          /\ \A v \in left \ {u} : MoreConstrained(u, v)
          /\ left' = left \ {u}
          /\ \/ \E s \in FeasibleSlots(u) : Place(u, s)
             \/ FeasibleSlots(u) = {} /\ UNCHANGED <<slotOf, load>>
    /\ phase' = "fill"
    /\ UNCHANGED <<input, total, todo, undo, best>>

-----------------------------------------------------------------------------
(* anneal.go *)

\* initCost, then Anneal takes its first snapshot.
StartAnneal ==
    /\ phase \in {"warm", "fill"} /\ left = {} /\ (phase = "warm" => todo = {})
    /\ total' = InitCost(slotOf, load)
    /\ best' = [slotOf |-> slotOf, load |-> load, total |-> total']
    /\ todo' = {}
    /\ phase' = "anneal"
    /\ UNCHANGED <<input, slotOf, load, left, undo>>

\* What the undo closure of moving u holds.
Saved(u, a, t) == [unit |-> u, slot |-> a[u], total |-> t]

\* Propose, 70%: relocate one unit.
Relocate(u, s) ==
    /\ phase = "anneal"
    /\ s # slotOf[u] /\ Feasible(slotOf, load, u, s)
    /\ Place(u, s)
    /\ total' = MoveTotal(slotOf, slotOf', load, load', total, u)
    /\ undo' = <<Saved(u, slotOf, total)>>
    /\ phase' = "proposed"
    /\ UNCHANGED <<input, todo, left, best>>

\* Propose, 30%: two units exchange their slots, one move after the other.
Swap(u, v) ==
    /\ phase = "anneal"
    /\ u # v /\ CanSwap(slotOf, load, u, v)
    /\ LET mid == [slotOf EXCEPT ![u] = slotOf[v]]
           midLoad == SetPhysical(load, u, slotOf[u], slotOf[v])
           midTotal == MoveTotal(slotOf, mid, load, midLoad, total, u)
       IN /\ slotOf' = [mid EXCEPT ![v] = slotOf[u]]
          /\ load' = SetPhysical(midLoad, v, slotOf[v], slotOf[u])
          /\ total' = MoveTotal(mid, slotOf', midLoad, load', midTotal, v)
          /\ undo' = <<Saved(u, slotOf, total), Saved(v, mid, midTotal)>>
    /\ phase' = "proposed"
    /\ UNCHANGED <<input, todo, left, best>>

\* The cost before the proposed move.
CostBefore == Cost(undo[1].total)

\* Mutant: only the cost of the best state is kept.
AcceptCostOnly ==
    /\ phase = "proposed"
    /\ opts.warm => Cost(total) < CostBefore
    /\ best' = IF Cost(total) < Cost(best.total) THEN [best EXCEPT !.total = total] ELSE best
    /\ undo' = <<>>
    /\ phase' = "anneal"
    /\ UNCHANGED <<input, slotOf, load, total, todo, left>>

\* Anneal keeps the move: always when it is cheaper, by chance when it is not
\* (never, with StrictImprove), and keeps the best state seen.
Accept ==
    /\ phase = "proposed"
    /\ opts.warm => Cost(total) < CostBefore
    /\ best' = IF Cost(total) < Cost(best.total)
               THEN [slotOf |-> slotOf, load |-> load, total |-> total] ELSE best
    /\ undo' = <<>>
    /\ phase' = "anneal"
    /\ UNCHANGED <<input, slotOf, load, total, todo, left>>

\* The undo closures: of one move, and of the moves of a proposal, last first.
UndoMove(x, m) ==
    [slotOf |-> [x.slotOf EXCEPT ![m.unit] = m.slot],
     load   |-> SetPhysical(x.load, m.unit, x.slotOf[m.unit], m.slot),
     total  |-> m.total]
UndoAll(x) ==
    IF Len(undo) = 1 THEN UndoMove(x, undo[1]) ELSE UndoMove(UndoMove(x, undo[2]), undo[1])

\* Anneal takes the move back.
Reject ==
    /\ phase = "proposed"
    /\ Cost(total) > CostBefore \/ (opts.warm /\ Cost(total) = CostBefore)
    /\ LET x == UndoAll([slotOf |-> slotOf, load |-> load, total |-> total])
       IN slotOf' = x.slotOf /\ load' = x.load /\ total' = x.total
    /\ undo' = <<>>
    /\ phase' = "anneal"
    /\ UNCHANGED <<input, todo, left, best>>

\* Out of iterations, or converged: the best state is restored.
Finish ==
    /\ phase = "anneal"
    /\ slotOf' = best.slotOf /\ load' = best.load /\ total' = best.total
    /\ phase' = "done"
    /\ UNCHANGED <<input, todo, left, undo, best>>

Next ==
    \/ ConstructWarm \/ FillRemaining \/ StartAnneal
    \/ \E u \in Movable, s \in Slots : Relocate(u, s)
    \/ \E u, v \in Movable : Swap(u, v)
    \/ Accept \/ Reject \/ Finish

Spec == Init /\ [][Next]_vars

-----------------------------------------------------------------------------
TypeOK ==
    /\ slotOf \in [Units -> Places]
    /\ \A f \in {load.seats, load.own, load.exahm, load.seb, load.over} : f \in [Slots -> Nat]
    /\ phase \in {"warm", "fill", "anneal", "proposed", "done"}
    /\ todo \subseteq Movable /\ left \subseteq Movable
    /\ Len(undo) \in 0..2
    /\ best.slotOf \in [Units -> Places]

\* The seats of the units of a group that sit in slot x, and of the exams that
\* overrun into it; the seat counts of an assignment by counting.
Counted(a, group, x) == SumFunction([u \in group |-> IF a[u] = x THEN Seats[u] ELSE 0])
Overrunning(a, x) == SumFunction([u \in Exahm |-> IF x \in OverrunTargets(u, a[u]) THEN Seats[u] ELSE 0])
Physical(a) ==
    [seats |-> [x \in Slots |-> Counted(a, Units, x)],
     own   |-> [x \in Slots |-> Counted(a, Units \ Foreign, x)],
     exahm |-> [x \in Slots |-> Counted(a, Exahm, x)],
     seb   |-> [x \in Slots |-> Counted(a, Seb, x)],
     over  |-> [x \in Slots |-> Overrunning(a, x)]]

\* model.go:13-16: "the soft objective is maintained incrementally".  After any
\* sequence of moves, swaps, undos and the final restore the seat counts are
\* what counting gives, and the totals are what initCost would compute.
BookkeepingExact ==
    /\ load = Physical(slotOf)
    /\ phase \in {"anneal", "proposed", "done"} => total = InitCost(slotOf, load)

\* What the hard rules say of an assignment: sameStudentC, fixedC and allowedC.
ClashFree(a) ==
    \A u, v \in Units : Conflict(u, v) /\ a[u] # None /\ a[v] # None
        => ~Overlaps(u, a[u], v, a[v])
InDomain(a) ==
    \A u \in Units : IF u \in Fixed THEN a[u] = FixedSlot[u] ELSE a[u] \in Allowed[u] \cup {None}

\* sameStudentC: no two exams of a student overlap in time, unless both are
\* fixed (anneal.go:85, every visited state stays hard-feasible).  It holds when
\* two conflicting exams need the same time before each other; canSwap leaves
\* out the pair it exchanges, and exchanging them turns their order around.
NoClash == \A a \in {slotOf, best.slotOf} : ClashFree(a)
SymmetricSep == \A u, v \in Units : Sep[<<u, v>>] = Sep[<<v, u>>]

\* fixedC, allowedC: fixed units stay where they are, the others within their
\* domain, in the current and in the best state (anneal.go:110-112).
DomainKept == \A a \in {slotOf, best.slotOf} : InDomain(a)

\* capacityC: several exams share a slot only within its cap, and the booked
\* EXaHM seats of a slot cover the exams in it and the ones overrunning into it.
Fits(a, l) ==
    \A x \in Slots :
        /\ Cap[x] > 0 /\ l.seats[x] > Cap[x]
              => Cardinality({u \in Units : a[u] = x /\ Seats[u] > 0}) = 1
        /\ l.exahm[x] + l.over[x] > 0 => l.exahm[x] + l.over[x] <= ExahmSeats[x]

\* Whatever the solver places fits, if the fixed units alone do.
CapacityKept == Fits(slotOf, load)
FixedFits == Fits(OnlyFixed, Physical(OnlyFixed))

\* anneal.go:110: the engine leaves the model at the best state found.  The kept
\* state is never worse than the current one, its cost is its own, and a unit it
\* places stays placed from then on: in the current state, in every later best
\* state and so in the result, whatever moves, exchanges and undos follow.  A unit
\* placed later need not be: with the default weights the load of a large slot may cost
\* more than an unplaced unit (problem.go:135 says that Unplaced dominates everything).
BestKept ==
    /\ phase = "anneal" => Cost(best.total) <= Cost(total)
    /\ phase \in {"anneal", "proposed"} => Open(slotOf) \subseteq Open(best.slotOf)
    /\ phase \in {"anneal", "proposed", "done"} => best.total = InitCost(best.slotOf, best.load)
=============================================================================
