---------------------------- MODULE InvigSolver ----------------------------
(***************************************************************************)
(* The invigilation solver: which person invigilates which room or reserve   *)
(* (invigplan/plan.go, hard.go, soft.go, constraints.go), the greedy start   *)
(* and the proposals (invigplan/optimizer.go) under the annealing engine     *)
(* (optimize/anneal.go).  The position of an examiner in the own exam and    *)
(* the pre-planned ones are fixed.                                           *)
(*                                                                          *)
(* Random choices and the acceptance of an uphill move are nondeterministic; *)
(* the number of iterations is arbitrary.                                    *)
(***************************************************************************)
EXTENDS Integers, FiniteSets, FiniteSetsExt, SequencesExt

CONSTANTS
    Positions,          \* indices of the positions to fill
    Invigilators,
    Unassigned,         \* nobody (-1)
    Fixed, FixedTo,     \* the fixed positions and the person of each
    Start, Block, DayOf,\* [Positions -> absolute minutes], the occupied minutes, the day
    Minutes, Kind,      \* what counts for the contingent; "room", "nta", "reserve"
    Target,             \* [Invigilators -> minutes]
    ExcludedDays, ExcludedSlots,    \* per person: days, starting times
    Windows,            \* per person: [day, from, until] records, absolute minutes
    OwnExamSlots, OwnExamDays,      \* per person: starting times, days of own exams
    OwnExams,           \* per person: [day, from, until] of own exams
    Timelag, Tolerance, MaxSpan, MaxAttendanceDays,
    Weights             \* [coverage, beyond, balance, over, days, ownDays, spread, span]

Movable == Positions \ Fixed
People == Invigilators \cup {Unassigned}

\* FixedTo: a person taken out of the pool (invigilation_generate.go:566) keeps the own and
\* pre-planned positions; here that is one who is excluded on every day, with positions that
\* are constant and add a constant to the cost.
ASSUME InvigProblemAssumption ==
    /\ Positions \subseteq Nat /\ IsFiniteSet(Positions)
    /\ IsFiniteSet(Invigilators) /\ Unassigned \notin Invigilators
    /\ Fixed \subseteq Positions /\ FixedTo \in [Fixed -> Invigilators]
    /\ {Start, Block, Minutes} \subseteq [Positions -> Nat]
    /\ \A v \in Invigilators :
          /\ Target[v] \in Nat
          /\ IsFiniteSet(OwnExamDays[v]) /\ IsFiniteSet(OwnExams[v])
          /\ \A w \in Windows[v] \cup OwnExams[v] : {w.from, w.until} \subseteq Nat
    /\ {Timelag, MaxSpan, MaxAttendanceDays} \subseteq Nat /\ Tolerance \in Nat \ {0}
    /\ Weights \in [{"coverage", "beyond", "balance", "over", "days", "ownDays", "spread", "span"} -> Nat]

VARIABLES
    plan,       \* [assign, by]: Assign and its inverse byInvig
    phase,      \* "greedy", "anneal", "proposed", "done"
    todo,       \* positions the greedy pass has not looked at yet
    changes,    \* the proposed reassignments, [pos, old, new]
    best        \* the best plan and its cost

vars == <<plan, phase, todo, changes, best>>

-----------------------------------------------------------------------------
(* plan.go *)

\* sort.SearchInts: where p is, or belongs, in the sorted list s
SearchInts(s, p) == 1 + Cardinality({k \in DOMAIN s : s[k] < p})

\* clear
Cleared(pl, p) ==
    LET v == pl.assign[p]
        k == SearchInts(pl.by[v], p)
    IN IF v = Unassigned THEN pl
       ELSE [assign |-> [pl.assign EXCEPT ![p] = Unassigned],
             by |-> IF k \in DOMAIN pl.by[v] /\ pl.by[v][k] = p
                    THEN [pl.by EXCEPT ![v] = RemoveAt(@, k)] ELSE pl.by]

\* Mutant: the position stays in the list of the person who had it.
AssignedOnTop(pl, p, v) ==
    [assign |-> [pl.assign EXCEPT ![p] = v],
     by |-> [pl.by EXCEPT ![v] = InsertAt(@, SearchInts(@, p), p)]]
\* set
Assigned(pl, p, v) ==
    LET free == Cleared(pl, p) IN
    [assign |-> [free.assign EXCEPT ![p] = v],
     by |-> [free.by EXCEPT ![v] = InsertAt(@, SearchInts(@, p), p)]]

\* Set and Clear: a fixed position is left alone.
Put(pl, p, v) ==
    IF p \in Fixed THEN pl
    ELSE IF v = Unassigned THEN Cleared(pl, p) ELSE Assigned(pl, p, v)

NewPlan ==
    FoldSet(LAMBDA p, pl : Assigned(pl, p, FixedTo[p]),
            [assign |-> [p \in Positions |-> Unassigned], by |-> [v \in Invigilators |-> <<>>]],
            Fixed)

Of(pl, v) == Range(pl.by[v])
Days(pl, v) == {DayOf[p] : p \in Of(pl, v)}
DoingMinutes(pl, v) == SumFunctionOnSet(Minutes, Of(pl, v))
Unfilled(pl) == {p \in Positions : pl.assign[p] = Unassigned}
End(p) == Start[p] + Block[p]

-----------------------------------------------------------------------------
(* model.go, hard.go *)

Available(v, p) == DayOf[p] \notin ExcludedDays[v] /\ Start[p] \notin ExcludedSlots[v]
\* The windows of a date are alternatives; a date without one is free.
AllowsTime(v, p) ==
    LET today == {w \in Windows[v] : w.day = DayOf[p]}
    IN today = {} \/ \E w \in today : w.from <= Start[p] /\ End(p) <= w.until

GapOK(p, q) ==
    \/ DayOf[p] # DayOf[q]
    \/ IF Start[q] < Start[p] THEN Start[p] >= End(q) + Timelag ELSE Start[q] >= End(p) + Timelag

Allows(pl, p, v) ==
    IF p \in Fixed THEN FixedTo[p] = v
    ELSE /\ Available(v, p) /\ AllowsTime(v, p) /\ Start[p] \notin OwnExamSlots[v]
         /\ \A q \in Of(pl, v) \ {p} : Start[q] # Start[p]          \* one invigilation per slot
         /\ \A q \in Of(pl, v) \ {p} : GapOK(p, q)                  \* time gap

-----------------------------------------------------------------------------
(* soft.go *)

Dist(a, b) == IF a < b THEN b - a ELSE a - b

MinuteBalance(pl) ==
    LET Of1(v) ==
          LET off == Dist(DoingMinutes(pl, v), Target[v])
              rel == (Weights.balance * Min({off, Tolerance})) \div Max({Target[v], Tolerance})
          IN (IF DoingMinutes(pl, v) > Target[v] THEN Weights.over * rel ELSE rel)
             + Weights.beyond * Max({0, off - Tolerance})
    IN SumFunction([v \in Invigilators |-> Of1(v)])
Coverage(pl) == Weights.coverage * Cardinality(Unfilled(pl))
MaxDaysCost(pl) ==
    LET examDays(v) == OwnExamDays[v] \ ExcludedDays[v]
        Extra(v) == Max({0, Cardinality(Days(pl, v) \cup examDays(v))
                            - Max({MaxAttendanceDays, Cardinality(examDays(v))})})
    IN SumFunction([v \in Invigilators |-> Weights.days * Extra(v) * Extra(v)])
PreferOwnExamDays(pl) ==
    SumFunction([v \in Invigilators |->
        IF OwnExamDays[v] = {} THEN 0
        ELSE Weights.ownDays * Cardinality(Days(pl, v) \ OwnExamDays[v])])
CountKind(pl, v, kind) == Cardinality({p \in Of(pl, v) : Kind[p] = kind})
Distribution(pl, kind) ==
    SumFunction([v \in Invigilators |->
        Weights.spread * CountKind(pl, v, kind) * CountKind(pl, v, kind)])
\* From the first start to the last end of a day with an invigilation, own exams included.
OnDay(pl, v, d) == {[from |-> Start[p], until |-> End(p)] : p \in {q \in Of(pl, v) : DayOf[q] = d}}
                   \cup {[from |-> x.from, until |-> x.until] : x \in {y \in OwnExams[v] : y.day = d}}
Over(pl, v, d) == Max({0, Max({x.until : x \in OnDay(pl, v, d)})
                          - Min({x.from : x \in OnDay(pl, v, d)}) - MaxSpan})
DaySpan(pl) ==
    LET Of1(v) == SumFunction([d \in Days(pl, v) |-> Weights.span * Over(pl, v, d) * Over(pl, v, d)])
    IN SumFunction([v \in Invigilators |-> Of1(v)])

Cost(pl) == MinuteBalance(pl) + Coverage(pl) + MaxDaysCost(pl) + PreferOwnExamDays(pl)
            + Distribution(pl, "reserve") + Distribution(pl, "nta") + DaySpan(pl)

-----------------------------------------------------------------------------
(* optimizer.go *)

Init ==
    /\ plan = NewPlan
    /\ phase = "greedy"
    /\ todo = Movable
    /\ changes = <<>>
    /\ best = [plan |-> plan, cost |-> Cost(plan)]

\* staticEligibleCount, and the order of Greedy: the most constrained position first
EligibleCount(p) == 
    Cardinality({v \in Invigilators : Available(v, p) /\ Start[p] \notin OwnExamSlots[v]})
Before(p, q) == \/ EligibleCount(p) < EligibleCount(q)
                \/ EligibleCount(p) = EligibleCount(q) /\ p < q

\* The allowed person furthest below the target; a random draw decides between equals.
Candidates(p) == {v \in Invigilators : Allows(plan, p, v)}
Neediest(p) ==
    {v \in Candidates(p) : \A w \in Candidates(p) :
        Target[v] - DoingMinutes(plan, v) >= Target[w] - DoingMinutes(plan, w)}

\* Mutant: a position is left open when the neediest person of all may not take it.
GreedyOneTry ==
    /\ phase = "greedy"
    /\ \E p \in todo :
          /\ \A q \in todo \ {p} : Before(p, q)
          /\ todo' = todo \ {p}
          /\ \E v \in Invigilators :
                /\ \A w \in Invigilators : Target[v] - DoingMinutes(plan, v) >= Target[w] - DoingMinutes(plan, w)
                /\ plan' = IF Allows(plan, p, v) THEN Put(plan, p, v) ELSE plan
    /\ UNCHANGED <<phase, changes, best>>
Greedy ==
    /\ phase = "greedy"
    /\ \E p \in todo :
          /\ \A q \in todo \ {p} : Before(p, q)
          /\ todo' = todo \ {p}
          /\ \/ \E v \in Neediest(p) : plan' = Put(plan, p, v)
             \/ Candidates(p) = {} /\ UNCHANGED plan
    /\ UNCHANGED <<phase, changes, best>>

\* Optimize: without a movable position there is nothing to anneal.
StartAnneal ==
    /\ phase = "greedy" /\ todo = {}
    /\ best' = [plan |-> plan, cost |-> Cost(plan)]
    /\ phase' = IF Movable = {} THEN "done" ELSE "anneal"
    /\ UNCHANGED <<plan, todo, changes>>

Change(p, v) == [pos |-> p, old |-> plan.assign[p], new |-> v]
Applied(pl, cs) == FoldLeft(LAMBDA acc, c : Put(acc, c.pos, c.new), pl, cs)
Undone(pl, cs) == FoldRight(LAMBDA c, acc : Put(acc, c.pos, c.old), cs, pl)

\* Mutant: of a swap only the first half is judged.
FeasibleFirst(pl, cs) == cs[1].new # Unassigned => Allows(pl, cs[1].pos, cs[1].new)
Feasible(pl, cs) == \A k \in DOMAIN cs : cs[k].new # Unassigned => Allows(pl, cs[k].pos, cs[k].new)

\* Propose: the changes are applied and taken back again when they are not feasible.
Propose(cs) ==
    /\ phase = "anneal"
    /\ LET new == Applied(plan, cs) IN
       \/ /\ Feasible(new, cs)
          /\ plan' = new /\ changes' = cs /\ phase' = "proposed"
       \/ /\ ~Feasible(new, cs)
          /\ plan' = Undone(new, cs) /\ UNCHANGED <<changes, phase>>
    /\ UNCHANGED <<todo, best>>

\* proposeMove
Reassign(p, v) == v # plan.assign[p] /\ Propose(<<Change(p, v)>>)
Unassign(p) == plan.assign[p] # Unassigned /\ Propose(<<Change(p, Unassigned)>>)
Swap(p, q) ==
    /\ p # q /\ plan.assign[p] # plan.assign[q]
    /\ Propose(<<Change(p, plan.assign[q]), Change(q, plan.assign[p])>>)

CostBefore == Cost(Undone(plan, changes))

\* The engine keeps a clone of a plan that is better than all before.
Accept ==
    /\ phase = "proposed"
    /\ best' = IF Cost(plan) < best.cost THEN [plan |-> plan, cost |-> Cost(plan)] ELSE best
    /\ changes' = <<>> /\ phase' = "anneal"
    /\ UNCHANGED <<plan, todo>>

Reject ==
    /\ phase = "proposed" /\ Cost(plan) > CostBefore
    /\ plan' = Undone(plan, changes)
    /\ changes' = <<>> /\ phase' = "anneal"
    /\ UNCHANGED <<todo, best>>

\* Mutant: the snapshot is the plan itself and moves with it.
FinishWhereItIs ==
    /\ phase = "anneal" /\ phase' = "done"
    /\ UNCHANGED <<plan, todo, changes, best>>
\* The last iteration, or the target is reached and nothing improved for long: Restore.
Finish ==
    /\ phase = "anneal" /\ phase' = "done"
    /\ plan' = best.plan
    /\ UNCHANGED <<todo, changes, best>>

Next ==
    \/ Greedy \/ StartAnneal
    \/ \E p \in Movable, v \in Invigilators : Reassign(p, v)
    \/ \E p \in Movable : Unassign(p)
    \/ \E p, q \in Movable : Swap(p, q)
    \/ Accept \/ Reject \/ Finish

Spec == Init /\ [][Next]_vars

-----------------------------------------------------------------------------
(* Properties *)

\* plan.go:5-7 (byInvig "is the inverse index, kept in sync by Set/Clear"): after any moves,
\* swaps and undone proposals every person's list is sorted, without repetition, and holds
\* exactly the positions assigned to that person; the hard rules read this list only.
IndexExact ==
    /\ plan.assign \in [Positions -> People]
    /\ \A v \in Invigilators :
          /\ \A i, j \in DOMAIN plan.by[v] : i < j => plan.by[v][i] < plan.by[v][j]
          /\ Of(plan, v) = {p \in Positions : plan.assign[p] = v}

\* optimizer.go:74-75 ("Every intermediate plan stays hard-feasible"): fixed positions keep
\* their person; a movable one has a person who may take it; and nobody has two positions at
\* a time or too close to each other, unless both were fixed before.
HardKept ==
    /\ \A p \in Fixed : plan.assign[p] = FixedTo[p]
    /\ \A p \in Movable : plan.assign[p] # Unassigned =>
          /\ LET v == plan.assign[p] IN
             Available(v, p) /\ AllowsTime(v, p) /\ Start[p] \notin OwnExamSlots[v]
          /\ \A q \in Positions \ {p} : plan.assign[q] = plan.assign[p] =>
                /\ Start[q] # Start[p]
                /\ DayOf[q] = DayOf[p] => Start[q] >= End(p) + Timelag \/ Start[p] >= End(q) + Timelag

\* Greedy ("Positions that no invigilator may take are left open"): a position that was left
\* open earlier in the pass can still be taken by nobody when the pass is over.
GreedyComplete ==
    phase = "greedy" /\ todo = {} => \A p \in Unfilled(plan) : Candidates(p) = {}

\* optimizer.go:109 ("Anneal restores the model to the best plan found"): the result has the
\* lowest cost of all accepted plans, and its index belongs to it.
BestRestored ==
    /\ phase = "anneal" => best.cost <= Cost(plan)
    /\ phase = "done" => Cost(plan) = best.cost
=============================================================================
