-------------------------- MODULE ExamSolverProofs --------------------------
(***************************************************************************)
(* Proofs about the exam solver for every problem.  What the moves keep of  *)
(* an assignment: the domains, no clash, the capacities.  What moveUnit and *)
(* the undo closures keep: seat counts and totals that are those of the     *)
(* assignment from scratch.  What the engine keeps: the best state seen.    *)
(***************************************************************************)
EXTENDS ExamSolver, SetFolds

\* Whichever exam is named first, the answer is the same.
LEMMA OverlapsSymmetric ==
    ASSUME NEW u \in Units, NEW v \in Units, NEW x \in Slots, NEW y \in Slots
    PROVE  Overlaps(u, x, v, y) <=> Overlaps(v, y, u, x)
  <1>1. Start[x] \in Int /\ Start[y] \in Int BY ProblemAssumption
  <1>2. Sep[<<u, v>>] \in Nat \ {0} /\ Sep[<<v, u>>] \in Nat \ {0}
    BY <<u, v>> \in Units \X Units, <<v, u>> \in Units \X Units, ProblemAssumption
  <1> QED BY <1>1, <1>2 DEF Overlaps

\* With a symmetric separation only the two places matter, not who sits where.
LEMMA OverlapsExchanged ==
    ASSUME SymmetricSep, NEW u \in Units, NEW v \in Units, NEW x \in Slots, NEW y \in Slots
    PROVE  Overlaps(u, x, v, y) <=> Overlaps(u, y, v, x)
  <1>1. Start[x] \in Int /\ Start[y] \in Int BY ProblemAssumption
  <1>2. Sep[<<u, v>>] \in Nat \ {0} /\ Sep[<<v, u>>] \in Nat \ {0}
    BY <<u, v>> \in Units \X Units, <<v, u>> \in Units \X Units, ProblemAssumption
  <1>3. Sep[<<u, v>>] = Sep[<<v, u>>] BY DEF SymmetricSep
  <1> QED BY <1>1, <1>2, <1>3 DEF Overlaps

LEMMA ConflictSymmetric ==
    ASSUME NEW u \in Units, NEW v \in Units
    PROVE  Conflict(u, v) <=> Conflict(v, u)
  BY DEF Conflict

\* feasible: what the solver asks before it moves one unit is enough.
LEMMA MoveKeepsClashFree ==
    ASSUME NEW a \in [Units -> Places], ClashFree(a),
           NEW u \in Units, NEW s \in Slots,
           \A v \in Units : Conflict(u, v) /\ a[v] # None => ~Overlaps(u, s, v, a[v])
    PROVE  ClashFree([a EXCEPT ![u] = s])
  <1> DEFINE b == [a EXCEPT ![u] = s]
  <1> SUFFICES ASSUME NEW x \in Units, NEW y \in Units, Conflict(x, y), b[x] # None, b[y] # None
               PROVE  ~Overlaps(x, b[x], y, b[y])
    BY DEF ClashFree
  <1>0. x # y BY DEF Conflict
  <1>1. CASE x # u /\ y # u
    <2>1. b[x] = a[x] /\ b[y] = a[y] BY <1>1
    <2> QED BY <2>1 DEF ClashFree
  <1>2. CASE x = u
    <2>1. b[x] = s /\ b[y] = a[y] BY <1>0, <1>2
    <2> QED BY <2>1, <1>2
  <1>3. CASE y = u
    <2>1. b[y] = s /\ b[x] = a[x] BY <1>0, <1>3
    <2>2. Conflict(y, x) BY ConflictSymmetric
    <2>3. ~Overlaps(y, s, x, a[x]) BY <2>1, <2>2, <1>3
    <2>4. a[x] \in Slots BY <2>1 DEF Places
    <2> HIDE DEF b
    <2> QED BY <2>1, <2>3, <2>4, OverlapsSymmetric
  <1> HIDE DEF b
  <1> QED BY <1>1, <1>2, <1>3

\* canSwap: with a symmetric separation it is enough for two.
LEMMA SwapKeepsClashFree ==
    ASSUME SymmetricSep, NEW a \in [Units -> Places], ClashFree(a),
           NEW u \in Units, NEW v \in Units, u # v, a[u] # None, a[v] # None,
           \A w \in Units \ {v} : Conflict(u, w) /\ a[w] # None => ~Overlaps(u, a[v], w, a[w]),
           \A w \in Units \ {u} : Conflict(v, w) /\ a[w] # None => ~Overlaps(v, a[u], w, a[w])
    PROVE  ClashFree([[a EXCEPT ![u] = a[v]] EXCEPT ![v] = a[u]])
  <1> DEFINE b == [[a EXCEPT ![u] = a[v]] EXCEPT ![v] = a[u]]
  <1>a. b[u] = a[v] /\ b[v] = a[u] OBVIOUS
  <1>b. \A w \in Units : w # u /\ w # v => b[w] = a[w] OBVIOUS
  <1>c. \A w \in Units : b[w] # None => b[w] \in Slots BY DEF Places
  <1> SUFFICES ASSUME NEW x \in Units, NEW y \in Units, Conflict(x, y), b[x] # None, b[y] # None
               PROVE  ~Overlaps(x, b[x], y, b[y])
    BY DEF ClashFree
  <1> HIDE DEF b
  <1>d. x # y /\ Conflict(y, x) BY ConflictSymmetric DEF Conflict
  <1>e. b[x] \in Slots /\ b[y] \in Slots BY <1>c
  <1>1. CASE {x, y} = {u, v}
    <2>1. ~Overlaps(x, a[x], y, a[y]) BY <1>1 DEF ClashFree
    <2>2. a[x] = b[y] /\ a[y] = b[x] BY <1>1, <1>a, <1>d
    <2> QED BY <2>1, <2>2, <1>e, OverlapsExchanged
  <1>2. CASE x \notin {u, v} /\ y \notin {u, v}
    BY <1>2, <1>b DEF ClashFree
  <1>3. CASE x \in {u, v} /\ y \notin {u, v}
    BY <1>3, <1>a, <1>b
  <1>4. CASE x \notin {u, v} /\ y \in {u, v}
    <2>1. ~Overlaps(y, b[y], x, b[x]) BY <1>4, <1>a, <1>b, <1>d
    <2> QED BY <2>1, <1>e, OverlapsSymmetric
  <1> QED BY <1>1, <1>2, <1>3, <1>4, <1>d

-----------------------------------------------------------------------------
\* An assignment the solver may be in.
Good(a) == a \in [Units -> Places] /\ InDomain(a) /\ (SymmetricSep => ClashFree(a))

\* The assignment before a proposed move.
Before ==
    IF Len(undo) = 1 THEN [slotOf EXCEPT ![undo[1].unit] = undo[1].slot]
    ELSE [[slotOf EXCEPT ![undo[2].unit] = undo[2].slot] EXCEPT ![undo[1].unit] = undo[1].slot]

\* The invariant: the current state, the kept one and the one the undo closures
\* would go back to are all good.
IInv ==
    /\ Good(slotOf) /\ Good(best.slotOf)
    /\ todo \subseteq Movable /\ left \subseteq Movable
    /\ phase = "proposed" => Good(Before)

\* A feasible relocation of a movable unit leads from good to good.
LEMMA GoodMove ==
    ASSUME NEW a, Good(a), NEW l, NEW u \in Movable, NEW s \in Slots, Feasible(a, l, u, s)
    PROVE  Good([a EXCEPT ![u] = s])
  <1>1. [a EXCEPT ![u] = s] \in [Units -> Places] BY DEF Good, Places, Movable
  <1>2. InDomain([a EXCEPT ![u] = s]) BY DEF Good, InDomain, Movable, Feasible
  <1>3. SymmetricSep => ClashFree([a EXCEPT ![u] = s])
    BY MoveKeepsClashFree DEF Good, Feasible, Movable
  <1> QED BY <1>1, <1>2, <1>3 DEF Good

LEMMA GoodSwap ==
    ASSUME NEW a, Good(a), NEW l, NEW u \in Movable, NEW v \in Movable, u # v, CanSwap(a, l, u, v)
    PROVE  Good([[a EXCEPT ![u] = a[v]] EXCEPT ![v] = a[u]])
  <1> DEFINE b == [[a EXCEPT ![u] = a[v]] EXCEPT ![v] = a[u]]
  <1>1. b \in [Units -> Places] BY DEF Good, Movable
  <1>2. InDomain(b)
    BY DEF Good, InDomain, Movable, CanSwap, MayTakePlaceOf
  <1>3. SymmetricSep => ClashFree(b)
    BY SwapKeepsClashFree DEF Good, CanSwap, MayTakePlaceOf, Movable
  <1> QED BY <1>1, <1>2, <1>3 DEF Good

LEMMA InitIInv == Init => IInv
  <1> SUFFICES ASSUME Init PROVE IInv OBVIOUS
  <1>1. slotOf = [u \in Units |-> IF u \in Fixed THEN FixedSlot[u] ELSE None] BY DEF Init, OnlyFixed
  <1>2. slotOf \in [Units -> Places] BY <1>1, ProblemAssumption DEF Places
  <1>3. InDomain(slotOf) BY <1>1 DEF InDomain
  <1>4. ClashFree(slotOf)
    BY <1>1, ProblemAssumption DEF ClashFree, Conflict
  <1>5. best.slotOf = slotOf BY DEF Init
  <1>6. phase # "proposed" BY DEF Init
  <1>7. todo \subseteq Movable /\ left \subseteq Movable BY DEF Init
  <1> QED BY <1>2, <1>3, <1>4, <1>5, <1>6, <1>7 DEF IInv, Good

\* Every step of the start and of the engine preserves it.
LEMMA NextIInv == IInv /\ [Next]_vars => IInv'
  <1> SUFFICES ASSUME IInv, [Next]_vars PROVE IInv' OBVIOUS
  <1>a. Good(slotOf) /\ Good(best.slotOf) /\ todo \subseteq Movable /\ left \subseteq Movable
    BY DEF IInv
  <1>f. slotOf \in [Units -> Places] BY <1>a DEF Good
  <1>b. ASSUME Good(slotOf'), Good(best'.slotOf), todo' \subseteq todo, left' \subseteq left,
               phase' = "proposed" => Good(Before')
        PROVE  IInv'
    BY <1>a, <1>b DEF IInv, Good, InDomain, ClashFree
  <1>s. ASSUME UNCHANGED vars PROVE IInv'
    <2>1. UNCHANGED <<slotOf, best, todo, left, phase, undo>> BY <1>s DEF vars, input
    <2> QED BY <2>1 DEF IInv, Good, InDomain, ClashFree, Before
  <1>1. ASSUME ConstructWarm PROVE IInv'
    <2>1. PICK u \in todo :
             /\ todo' = todo \ {u}
             /\ IF startSlot[u] # None /\ Feasible(slotOf, load, u, startSlot[u])
                THEN Place(u, startSlot[u]) /\ left' = left \ {u}
                ELSE UNCHANGED <<slotOf, load, left>>
      BY <1>1 DEF ConstructWarm
    <2>2. phase = "warm" /\ UNCHANGED <<phase, best>> BY <1>1 DEF ConstructWarm
    <2>3. u \in Movable BY <1>a
    <2>4. Good(slotOf')
      <3>1. CASE startSlot[u] # None /\ Feasible(slotOf, load, u, startSlot[u])
        <4>1. slotOf' = [slotOf EXCEPT ![u] = startSlot[u]] BY <2>1, <3>1 DEF Place
        <4>2. startSlot[u] \in Slots
          BY <3>1, <2>3, ProblemAssumption DEF Feasible, Movable
        <4> QED BY <4>1, <4>2, <3>1, <2>3, <1>a, GoodMove
      <3>2. CASE ~(startSlot[u] # None /\ Feasible(slotOf, load, u, startSlot[u]))
        BY <3>2, <2>1, <1>a
      <3> QED BY <3>1, <3>2
    <2>5. todo' \subseteq todo /\ left' \subseteq left BY <2>1
    <2> QED BY <2>2, <2>4, <2>5, <1>a, <1>b
  <1>2. ASSUME FillRemaining PROVE IInv'
    <2>1. PICK u \in left :
             /\ left' = left \ {u}
             /\ \/ \E s \in FeasibleSlots(u) : Place(u, s)
                \/ FeasibleSlots(u) = {} /\ UNCHANGED <<slotOf, load>>
      BY <1>2 DEF FillRemaining
    <2>2. phase' = "fill" /\ UNCHANGED <<todo, best>> BY <1>2 DEF FillRemaining
    <2>3. u \in Movable BY <1>a
    <2>4. Good(slotOf')
      <3>1. ASSUME NEW s \in FeasibleSlots(u), Place(u, s) PROVE Good(slotOf')
        <4>1. slotOf' = [slotOf EXCEPT ![u] = s] BY <3>1 DEF Place
        <4>2. s \in Slots /\ Feasible(slotOf, load, u, s) BY DEF FeasibleSlots
        <4> QED BY <4>1, <4>2, <2>3, <1>a, GoodMove
      <3> QED BY <3>1, <2>1, <1>a
    <2> QED BY <2>1, <2>2, <2>4, <1>a, <1>b
  <1>3. ASSUME StartAnneal PROVE IInv'
    <2>1. UNCHANGED <<slotOf, left>> /\ todo' = {} /\ phase' = "anneal" /\ best'.slotOf = slotOf
      BY <1>3 DEF StartAnneal
    <2> QED BY <2>1, <1>a, <1>b
  <1>4. ASSUME NEW u \in Movable, NEW s \in Slots, Relocate(u, s) PROVE IInv'
    <2>1. slotOf' = [slotOf EXCEPT ![u] = s] /\ Feasible(slotOf, load, u, s)
      BY <1>4 DEF Relocate, Place
    <2>2. UNCHANGED <<todo, left, best>> BY <1>4 DEF Relocate
    <2>3. undo' = <<Saved(u, slotOf, total)>> BY <1>4 DEF Relocate
    <2>4. Len(undo') = 1 /\ undo'[1].unit = u /\ undo'[1].slot = slotOf[u] BY <2>3 DEF Saved
    <2>5. [slotOf' EXCEPT ![u] = slotOf[u]] = slotOf BY <2>1, <1>f
    <2>6. Before' = slotOf BY <2>4, <2>5 DEF Before
    <2>7. Good(slotOf') BY <2>1, <1>a, GoodMove
    <2> QED BY <2>2, <2>6, <2>7, <1>a, <1>b
  <1>5. ASSUME NEW u \in Movable, NEW v \in Movable, Swap(u, v) PROVE IInv'
    <2> DEFINE mid == [slotOf EXCEPT ![u] = slotOf[v]]
    <2>1. slotOf' = [mid EXCEPT ![v] = slotOf[u]] /\ u # v /\ CanSwap(slotOf, load, u, v)
      BY <1>5 DEF Swap
    <2>2. UNCHANGED <<todo, left, best>> BY <1>5 DEF Swap
    <2>3. PICK t : undo' = <<Saved(u, slotOf, total), Saved(v, mid, t)>> BY <1>5 DEF Swap
    <2>4. /\ Len(undo') = 2
          /\ undo'[1].unit = u /\ undo'[1].slot = slotOf[u]
          /\ undo'[2].unit = v /\ undo'[2].slot = mid[v]
      BY <2>3 DEF Saved
    <2>5. [[slotOf' EXCEPT ![v] = mid[v]] EXCEPT ![u] = slotOf[u]] = slotOf BY <2>1, <1>f
    <2>6. Before' = slotOf BY <2>4, <2>5 DEF Before
    <2>7. Good(slotOf') BY <2>1, <1>a, GoodSwap
    <2> QED BY <2>2, <2>6, <2>7, <1>a, <1>b
  <1>6. ASSUME Accept PROVE IInv'
    <2>1. UNCHANGED <<slotOf, todo, left>> /\ phase' = "anneal" BY <1>6 DEF Accept
    <2>2. best'.slotOf = slotOf \/ best' = best BY <1>6 DEF Accept
    <2> QED BY <2>1, <2>2, <1>a, <1>b
  <1>7. ASSUME Reject PROVE IInv'
    <2>1. slotOf' = UndoAll([slotOf |-> slotOf, load |-> load, total |-> total]).slotOf
      BY <1>7 DEF Reject
    <2>2. slotOf' = Before BY <2>1 DEF UndoAll, UndoMove, Before
    <2>3. UNCHANGED <<todo, left, best>> /\ phase = "proposed" /\ phase' = "anneal"
      BY <1>7 DEF Reject
    <2> QED BY <2>2, <2>3, <1>a, <1>b DEF IInv
  <1>8. ASSUME Finish PROVE IInv'
    <2>1. slotOf' = best.slotOf /\ phase' = "done" /\ UNCHANGED <<todo, left, best>>
      BY <1>8 DEF Finish
    <2> QED BY <2>1, <1>a, <1>b
  <1> QED BY <1>s, <1>1, <1>2, <1>3, <1>4, <1>5, <1>6, <1>7, <1>8 DEF Next

THEOREM InductiveInvariant == Spec => []IInv
  BY InitIInv, NextIInv, PTL DEF Spec

\* fixedC, allowedC: fixed units and domains are kept, for every problem.
THEOREM DomainCorrect == Spec => []DomainKept
  <1>1. IInv => DomainKept BY DEF IInv, Good, DomainKept
  <1> QED BY <1>1, InductiveInvariant, PTL

\* sameStudentC: no clash, for every problem whose separations are symmetric.
THEOREM ClashFreeCorrect ==
    ASSUME SymmetricSep PROVE Spec => []NoClash
  <1>1. IInv => NoClash BY DEF IInv, Good, NoClash
  <1> QED BY <1>1, InductiveInvariant, PTL

-----------------------------------------------------------------------------
(* The seat counts *)

Assignments == [Units -> Places]
Loads == [seats : [Slots -> Int], own : [Slots -> Int], exahm : [Slots -> Int],
          seb : [Slots -> Int], over : [Slots -> Int]]

LEMMA SumOfFunction ==
    ASSUME NEW S, NEW f, DOMAIN f = S
    PROVE  SumFunction(f) = SumFunctionOnSet(f, S)
  BY DEF SumFunction

LEMMA Finiteness ==
    /\ IsFiniteSet(Units) /\ IsFiniteSet(Slots) /\ IsFiniteSet(Students) /\ IsFiniteSet(AttractPairs)
    /\ \A G \in SUBSET Units : IsFiniteSet(G)
    /\ Exahm \subseteq Units /\ Seb \subseteq Units /\ Units \ Foreign \subseteq Units
    /\ None \notin Slots /\ Movable \subseteq Units
  BY ProblemAssumption, FS_Subset DEF Movable

LEMMA SeatsNat == \A u \in Units : Seats[u] \in Nat
  BY ProblemAssumption

\* A unit that moves takes its seats with it, out of one slot and into another.
LEMMA CountedMoved ==
    ASSUME NEW a \in Assignments, NEW u \in Units, NEW s \in Places, NEW G \in SUBSET Units,
           NEW x \in Slots
    PROVE  Counted([a EXCEPT ![u] = s], G, x) =
             IF u \in G THEN Counted(a, G, x) + (IF x = s THEN Seats[u] ELSE 0)
                                             - (IF x = a[u] THEN Seats[u] ELSE 0)
                        ELSE Counted(a, G, x)
  <1> DEFINE b == [a EXCEPT ![u] = s]
             f == [v \in G |-> IF a[v] = x THEN Seats[v] ELSE 0]
             g == [v \in G |-> IF b[v] = x THEN Seats[v] ELSE 0]
  <1>1. \A v \in G : f[v] \in Nat /\ g[v] \in Nat BY SeatsNat
  <1>2. \A v \in G \ {u} : g[v] = f[v] BY DEF Assignments
  <1>3. IsFiniteSet(G) BY Finiteness
  <1>4. Counted(a, G, x) = SumFunctionOnSet(f, G) /\ Counted(b, G, x) = SumFunctionOnSet(g, G)
    BY SumOfFunction DEF Counted
  <1>5. u \in G => /\ f[u] = IF x = a[u] THEN Seats[u] ELSE 0
                   /\ g[u] = IF x = s THEN Seats[u] ELSE 0
    BY DEF Assignments
  <1> HIDE DEF f, g, b
  <1>6. SumFunctionOnSet(f, G) \in Nat BY <1>1, <1>3, SumNat
  <1>7. CASE u \in G
    <2>1. SumFunctionOnSet(g, G) = SumFunctionOnSet(f, G) + g[u] - f[u]
      BY <1>1, <1>2, <1>3, <1>7, SumUpdateOne
    <2> QED BY <2>1, <1>4, <1>5, <1>6, <1>7 DEF b
  <1>8. CASE u \notin G
    <2>1. SumFunctionOnSet(g, G) = SumFunctionOnSet(f, G) BY <1>2, <1>3, <1>8, SumSame
    <2> QED BY <2>1, <1>4, <1>6, <1>8 DEF b
  <1> QED BY <1>7, <1>8

\* The same for the exams that overrun into a slot.
LEMMA OverrunningMoved ==
    ASSUME NEW a \in Assignments, NEW u \in Units, NEW s \in Places, NEW x \in Slots
    PROVE  Overrunning([a EXCEPT ![u] = s], x) =
             Overrunning(a, x) + (IF x \in OverrunTargets(u, s) THEN Seats[u] ELSE 0)
                               - (IF x \in OverrunTargets(u, a[u]) THEN Seats[u] ELSE 0)
  <1> DEFINE b == [a EXCEPT ![u] = s]
             f == [v \in Exahm |-> IF x \in OverrunTargets(v, a[v]) THEN Seats[v] ELSE 0]
             g == [v \in Exahm |-> IF x \in OverrunTargets(v, b[v]) THEN Seats[v] ELSE 0]
  <1>1. \A v \in Exahm : f[v] \in Nat /\ g[v] \in Nat BY SeatsNat, Finiteness
  <1>2. \A v \in Exahm \ {u} : g[v] = f[v] BY Finiteness DEF Assignments
  <1>3. IsFiniteSet(Exahm) BY Finiteness
  <1>4. Overrunning(a, x) = SumFunctionOnSet(f, Exahm) /\ Overrunning(b, x) = SumFunctionOnSet(g, Exahm)
    BY SumOfFunction DEF Overrunning
  <1>5. u \in Exahm => /\ f[u] = IF x \in OverrunTargets(u, a[u]) THEN Seats[u] ELSE 0
                       /\ g[u] = IF x \in OverrunTargets(u, s) THEN Seats[u] ELSE 0
    BY DEF Assignments
  <1> HIDE DEF f, g, b
  <1>6. SumFunctionOnSet(f, Exahm) \in Nat BY <1>1, <1>3, SumNat
  <1>7. CASE u \in Exahm
    <2>1. \A v \in Exahm : g[v] \in Int /\ f[v] \in Int BY <1>1
    <2>2. SumFunctionOnSet(g, Exahm) = SumFunctionOnSet(f, Exahm) + g[u] - f[u]
      <3> DEFINE E == Exahm
      <3>1. \A v \in E : f[v] \in Int /\ g[v] \in Int BY <2>1
      <3>2. \A v \in E \ {u} : g[v] = f[v] BY <1>2
      <3>3. IsFiniteSet(E) /\ u \in E BY <1>3, <1>7
      <3> HIDE DEF E
      <3>4. SumFunctionOnSet(g, E) = SumFunctionOnSet(f, E) + g[u] - f[u]
        BY ONLY <3>1, <3>2, <3>3, SumUpdateOne
      <3> QED BY <3>4 DEF E
    <2> QED BY <2>2, <1>4, <1>5, <1>6, <1>7 DEF b
  <1>8. CASE u \notin Exahm
    <2>1. SumFunctionOnSet(g, Exahm) = SumFunctionOnSet(f, Exahm) BY <1>2, <1>3, <1>8, SumSame
    <2>2. OverrunTargets(u, s) = {} /\ OverrunTargets(u, a[u]) = {} BY <1>8 DEF OverrunTargets
    <2> QED BY <2>1, <2>2, <1>4, <1>6 DEF b
  <1> QED BY <1>7, <1>8

\* setPhysical keeps the seats what counting gives.
LEMMA PhysicalMoved ==
    ASSUME NEW a \in Assignments, NEW u \in Units, NEW s \in Places
    PROVE  /\ [a EXCEPT ![u] = s] \in Assignments
           /\ SetPhysical(Physical(a), u, a[u], s) = Physical([a EXCEPT ![u] = s])
  <1> DEFINE b == [a EXCEPT ![u] = s]
             C(c, G) == [x \in Slots |-> Counted(c, G, x)]
  <1>1. b \in Assignments BY DEF Assignments
  <1>2. ASSUME NEW G \in SUBSET Units
        PROVE  C(b, G) = IF u \in G THEN Moved(C(a, G), u, {a[u]}, {s}) ELSE C(a, G)
    <2>1. ASSUME NEW x \in Slots
          PROVE  Counted(b, G, x) = IF u \in G THEN C(a, G)[x] + (IF x = s THEN Seats[u] ELSE 0)
                                                             - (IF x = a[u] THEN Seats[u] ELSE 0)
                                                ELSE Counted(a, G, x)
      <3>1. C(a, G)[x] = Counted(a, G, x) OBVIOUS
      <3> HIDE DEF C
      <3> QED BY <3>1, CountedMoved
    <2>2. Moved(C(a, G), u, {a[u]}, {s})
            = [x \in Slots |-> C(a, G)[x] + (IF x = s THEN Seats[u] ELSE 0)
                                         - (IF x = a[u] THEN Seats[u] ELSE 0)]
      BY DEF Moved
    <2> HIDE DEF b
    <2>3. CASE u \in G
      <3> QED BY <2>1, <2>2, <2>3
    <2>4. CASE u \notin G BY <2>1, <2>4
    <2> QED BY <2>3, <2>4
  <1> DEFINE O(c) == [x \in Slots |-> Overrunning(c, x)]
             M == Moved(O(a), u, OverrunTargets(u, a[u]), OverrunTargets(u, s))
  <1>3. O(b) = M
    <2>1. ASSUME NEW x \in Slots
          PROVE  Overrunning(b, x) = O(a)[x] + (IF x \in OverrunTargets(u, s) THEN Seats[u] ELSE 0)
                                             - (IF x \in OverrunTargets(u, a[u]) THEN Seats[u] ELSE 0)
      <3>1. O(a)[x] = Overrunning(a, x) OBVIOUS
      <3> HIDE DEF O
      <3> QED BY <3>1, OverrunningMoved
    <2>2. M = [x \in Slots |-> O(a)[x] + (IF x \in OverrunTargets(u, s) THEN Seats[u] ELSE 0)
                                       - (IF x \in OverrunTargets(u, a[u]) THEN Seats[u] ELSE 0)]
      BY DEF Moved
    <2> HIDE DEF M, b
    <2> QED BY <2>1, <2>2
  <1>4. \A c : Physical(c) = [seats |-> C(c, Units), own |-> C(c, Units \ Foreign),
                              exahm |-> C(c, Exahm), seb |-> C(c, Seb), over |-> O(c)]
    BY DEF Physical
  <1> HIDE DEF b, C, O
  <1>5. /\ C(b, Units) = Moved(C(a, Units), u, {a[u]}, {s})
        /\ C(b, Units \ Foreign) = IF u \in Foreign THEN C(a, Units \ Foreign)
                                   ELSE Moved(C(a, Units \ Foreign), u, {a[u]}, {s})
        /\ C(b, Exahm) = IF u \in Exahm THEN Moved(C(a, Exahm), u, {a[u]}, {s}) ELSE C(a, Exahm)
        /\ C(b, Seb) = IF u \in Seb THEN Moved(C(a, Seb), u, {a[u]}, {s}) ELSE C(a, Seb)
    BY <1>2, Finiteness
  <1> QED BY <1>1, <1>3, <1>4, <1>5 DEF SetPhysical, b

\* No unit has a slot: nothing is counted.
LEMMA PhysicalOfNothing ==
    ASSUME NEW a \in Assignments, \A u \in Units : a[u] = None
    PROVE  Physical(a) = Zero
  <1>1. ASSUME NEW G \in SUBSET Units, NEW x \in Slots PROVE Counted(a, G, x) = 0
    <2> DEFINE f == [v \in G |-> IF a[v] = x THEN Seats[v] ELSE 0]
    <2>1. \A v \in G : f[v] = 0 BY Finiteness
    <2>2. IsFiniteSet(G) /\ Counted(a, G, x) = SumFunctionOnSet(f, G)
      BY Finiteness, SumOfFunction DEF Counted
    <2> HIDE DEF f
    <2> QED BY <2>1, <2>2, SumZero
  <1>2. ASSUME NEW x \in Slots PROVE Overrunning(a, x) = 0
    <2> DEFINE f == [v \in Exahm |-> IF x \in OverrunTargets(v, a[v]) THEN Seats[v] ELSE 0]
    <2>1. \A v \in Exahm : f[v] = 0 BY Finiteness DEF OverrunTargets
    <2>2. IsFiniteSet(Exahm) /\ Overrunning(a, x) = SumFunctionOnSet(f, Exahm)
      BY Finiteness, SumOfFunction DEF Overrunning
    <2> HIDE DEF f
    <2> QED BY <2>1, <2>2, SumZero
  <1>3. \A x \in Slots : /\ Counted(a, Units, x) = 0 /\ Counted(a, Units \ Foreign, x) = 0
                         /\ Counted(a, Exahm, x) = 0 /\ Counted(a, Seb, x) = 0
    BY <1>1, Finiteness
  <1> QED BY <1>2, <1>3 DEF Physical, Zero, NoLoad

LEMMA CountedNat ==
    ASSUME NEW a \in Assignments, NEW G \in SUBSET Units, NEW x \in Slots
    PROVE  Counted(a, G, x) \in Nat
  <1> DEFINE f == [v \in G |-> IF a[v] = x THEN Seats[v] ELSE 0]
  <1>1. \A v \in G : f[v] \in Nat BY SeatsNat
  <1>2. IsFiniteSet(G) /\ Counted(a, G, x) = SumFunctionOnSet(f, G)
    BY Finiteness, SumOfFunction DEF Counted
  <1> HIDE DEF f
  <1> QED BY <1>1, <1>2, SumNat

LEMMA PhysicalTyped ==
    ASSUME NEW a \in Assignments
    PROVE  /\ Physical(a) \in Loads
           /\ \A x \in Slots : Physical(a).seats[x] \in Nat /\ Physical(a).own[x] \in Nat
                               /\ Physical(a).exahm[x] \in Nat /\ Physical(a).seb[x] \in Nat
                               /\ Physical(a).over[x] \in Nat
  <1>2. ASSUME NEW x \in Slots PROVE Overrunning(a, x) \in Nat
    <2> DEFINE f == [v \in Exahm |-> IF x \in OverrunTargets(v, a[v]) THEN Seats[v] ELSE 0]
    <2>1. \A v \in Exahm : f[v] \in Nat BY SeatsNat, Finiteness
    <2>2. IsFiniteSet(Exahm) /\ Overrunning(a, x) = SumFunctionOnSet(f, Exahm)
      BY Finiteness, SumOfFunction DEF Overrunning
    <2> HIDE DEF f
    <2> QED BY <2>1, <2>2, SumNat
  <1>3. \A x \in Slots : /\ Counted(a, Units, x) \in Nat /\ Counted(a, Units \ Foreign, x) \in Nat
                         /\ Counted(a, Exahm, x) \in Nat /\ Counted(a, Seb, x) \in Nat
                         /\ Overrunning(a, x) \in Nat
    BY <1>2, CountedNat, Finiteness
  <1> QED BY <1>3 DEF Physical, Loads

\* setPhysical on any seat counts.
LEMMA SetPhysicalTyped ==
    ASSUME NEW l \in Loads, NEW u \in Units, NEW x, NEW s
    PROVE  SetPhysical(l, u, x, s) \in Loads
  <1>1. ASSUME NEW f \in [Slots -> Int], NEW X, NEW Y PROVE Moved(f, u, X, Y) \in [Slots -> Int]
    BY SeatsNat DEF Moved
  <1>2. l.seats \in [Slots -> Int] /\ l.own \in [Slots -> Int] /\ l.exahm \in [Slots -> Int]
        /\ l.seb \in [Slots -> Int] /\ l.over \in [Slots -> Int]
    BY DEF Loads
  <1> QED BY <1>1, <1>2 DEF SetPhysical, Loads

-----------------------------------------------------------------------------
(* The fold of newState *)

Placing(S, iter) ==
    iter = [s \in SUBSET S |-> IF s = {} THEN Zero
                               ELSE SetPhysical(iter[s \ {Chosen(s)}], Chosen(s), None, FixedSlot[Chosen(s)])]
PlacedLoad == FoldSet(LAMBDA u, l : SetPhysical(l, u, None, FixedSlot[u]), Zero, Fixed)

LEMMA PlacedIsChosen == PlacedLoad = (CHOOSE iter : Placing(Fixed, iter))[Fixed]
  BY DEF PlacedLoad, FoldSet, MapThenFoldSet, Placing, Chosen

LEMMA PlacingExists == \E iter : Placing(Fixed, iter)
  <1> DEFINE G == [p \in Fixed \X Loads |-> SetPhysical(p[2], p[1], None, FixedSlot[p[1]])]
  <1>1. IsFiniteSet(Fixed) /\ Fixed \subseteq Units BY ProblemAssumption, FS_Subset
  <1>2. G \in [Fixed \X Loads -> Loads]
    <2>1. \A u \in Fixed, l \in Loads : SetPhysical(l, u, None, FixedSlot[u]) \in Loads
      BY <1>1, SetPhysicalTyped
    <2> QED BY <2>1
  <1>z. Zero \in Loads BY DEF Zero, NoLoad, Loads
  <1>3. PICK iter \in [SUBSET Fixed -> Loads] : Folded(Fixed, Zero, G, iter)
    <2> HIDE DEF G
    <2> QED BY <1>1, <1>2, <1>z, FoldExists
  <1>4. \A s \in SUBSET Fixed : s # {} => Chosen(s) \in Fixed /\ s \ {Chosen(s)} \in SUBSET Fixed
                                          /\ iter[s \ {Chosen(s)}] \in Loads
    BY <1>3 DEF Chosen
  <1>5. \A s \in SUBSET Fixed : s # {} =>
           G[<<Chosen(s), iter[s \ {Chosen(s)}]>>]
             = SetPhysical(iter[s \ {Chosen(s)}], Chosen(s), None, FixedSlot[Chosen(s)])
    BY <1>4
  <1>6. Placing(Fixed, iter)
    <2> HIDE DEF G
    <2> QED BY <1>3, <1>5 DEF Placing, Folded
  <1> QED BY <1>6

\* The fixed units of a set, placed.
PartlyFixed(S) == [u \in Units |-> IF u \in S THEN FixedSlot[u] ELSE None]

LEMMA PlacedExact == OnlyFixed \in Assignments /\ PlacedLoad = Physical(OnlyFixed)
  <1> DEFINE f == CHOOSE iter : Placing(Fixed, iter)
             Q == {s \in SUBSET Fixed : f[s] = Physical(PartlyFixed(s))}
  <1>1. IsFiniteSet(Fixed) /\ Fixed \subseteq Units /\ \A u \in Fixed : FixedSlot[u] \in Slots
    BY ProblemAssumption, FS_Subset
  <1>2. Placing(Fixed, f) BY PlacingExists
  <1>3. PlacedLoad = f[Fixed] BY PlacedIsChosen
  <1> HIDE DEF f
  <1>4. \A s \in SUBSET Fixed :
           f[s] = IF s = {} THEN Zero
                  ELSE SetPhysical(f[s \ {Chosen(s)}], Chosen(s), None, FixedSlot[Chosen(s)])
    BY <1>2 DEF Placing
  <1>5. \A s \in SUBSET Fixed : PartlyFixed(s) \in Assignments
    BY <1>1 DEF PartlyFixed, Assignments, Places
  <1>6. {} \in Q
    <2> DEFINE a == PartlyFixed({})
    <2>1. a \in Assignments BY <1>5
    <2>2. \A u \in Units : a[u] = None BY DEF PartlyFixed
    <2>3. f[{}] = Zero BY <1>4
    <2>4. Physical(a) = Zero
      <3> HIDE DEF a
      <3> QED BY <2>1, <2>2, PhysicalOfNothing
    <2> QED BY <2>3, <2>4
  <1>7. ASSUME NEW s \in SUBSET Fixed, s # {}, s \ {Chosen(s)} \in Q PROVE s \in Q
    <2> DEFINE u == Chosen(s)
               a == PartlyFixed(s \ {u})
    <2>1. u \in s /\ u \in Units /\ FixedSlot[u] \in Places BY <1>1, <1>7 DEF Chosen, Places
    <2>2. f[s] = SetPhysical(Physical(a), u, None, FixedSlot[u]) BY <1>4, <1>7
    <2> HIDE DEF u
    <2>3. a \in Assignments /\ a[u] = None /\ [a EXCEPT ![u] = FixedSlot[u]] = PartlyFixed(s)
      BY <1>5, <2>1 DEF PartlyFixed
    <2> HIDE DEF a
    <2>4. SetPhysical(Physical(a), u, None, FixedSlot[u]) = Physical(PartlyFixed(s))
      BY <2>1, <2>3, PhysicalMoved
    <2> QED BY <2>2, <2>4
  <1>8. \A s \in SUBSET Fixed : s \in Q
    <2> HIDE DEF Q
    <2> QED BY <1>1, <1>6, <1>7, ChosenInduction
  <1>9. f[Fixed] = Physical(PartlyFixed(Fixed)) BY <1>8
  <1>10. PartlyFixed(Fixed) = OnlyFixed BY DEF PartlyFixed, OnlyFixed
  <1> QED BY <1>3, <1>5, <1>9, <1>10

-----------------------------------------------------------------------------
(* The totals *)

\* Every term is a natural number, whatever the assignment.
LEMMA TermsTyped ==
    ASSUME NEW a \in Assignments
    PROVE  /\ \A p \in Units \X Units : PairPenalty(a, p) \in Nat /\ PairDistance(a, p) \in Nat
           /\ \A st \in Students : StudentPenalty(a, st) \in Nat
           /\ \A u \in Units, s \in Places : TimeOf(u, s) \in Nat
  <1>1. ASSUME NEW p \in Units \X Units PROVE PairPenalty(a, p) \in Nat /\ PairDistance(a, p) \in Nat
    <2>1. a[p[1]] \in Places /\ a[p[2]] \in Places BY DEF Assignments
    <2>2. \A x, y \in Slots : Closeness[x][y] \in Nat /\ Farness[x][y] \in Nat BY ProblemAssumption
    <2> QED BY <2>1, <2>2 DEF PairPenalty, PairDistance, Places
  <1>2. ASSUME NEW st \in Students PROVE StudentPenalty(a, st) \in Nat
    <2> DEFINE f == [p \in Pairs[st] |-> PairPenalty(a, p)]
    <2>1. IsFiniteSet(Pairs[st]) /\ \A p \in Pairs[st] : f[p] \in Nat BY <1>1, ProblemAssumption
    <2>2. StudentPenalty(a, st) = SumFunctionOnSet(f, Pairs[st]) BY SumOfFunction DEF StudentPenalty
    <2> HIDE DEF f
    <2> QED BY <2>1, <2>2, SumNat
  <1>3. \A u \in Units, s \in Slots : TimePenalty[u][s] \in Nat BY ProblemAssumption
  <1> QED BY <1>1, <1>2, <1>3 DEF TimeOf, Places

LEMMA ConvexNat == \A n \in Nat : Convex(n) \in Nat
  <1> SUFFICES ASSUME NEW n \in Nat PROVE n + n * n \in Nat BY DEF Convex
  <1>1. n * n \in Nat OBVIOUS
  <1> QED BY <1>1

\* recomputeStudentSpread: nobody else's penalty changes.
LEMMA SpreadMoved ==
    ASSUME NEW a \in Assignments, NEW u \in Units, NEW s \in Places
    PROVE  LET b == [a EXCEPT ![u] = s] IN
           /\ Recomputed(Penalties(a), b, u) = Penalties(b)
           /\ SpreadCost(Penalties(b))
                = SpreadCost(Penalties(a)) + SpreadGrowth(Penalties(b), Penalties(a), u)
  <1> DEFINE b == [a EXCEPT ![u] = s]
  <1>1. b \in Assignments BY DEF Assignments
  <1>2. ASSUME NEW st \in Students, st \notin Affected(u)
        PROVE  StudentPenalty(b, st) = StudentPenalty(a, st)
    <2> DEFINE f == [p \in Pairs[st] |-> PairPenalty(b, p)]
               g == [p \in Pairs[st] |-> PairPenalty(a, p)]
    <2>1. \A p \in Pairs[st] : /\ p[1] \in Units /\ p[2] \in Units
                               /\ b[p[1]] = a[p[1]] /\ b[p[2]] = a[p[2]]
      BY <1>2, ProblemAssumption DEF Affected, Assignments
    <2>2. \A p \in Pairs[st] : f[p] = g[p] BY <2>1 DEF PairPenalty
    <2>3. StudentPenalty(a, st) = SumFunctionOnSet(g, Pairs[st])
          /\ StudentPenalty(b, st) = SumFunctionOnSet(f, Pairs[st])
      BY SumOfFunction DEF StudentPenalty
    <2>4. IsFiniteSet(Pairs[st]) BY ProblemAssumption
    <2> HIDE DEF f, g
    <2> QED BY <2>2, <2>3, <2>4, SumSame
  <1> HIDE DEF b
  <1>3. Recomputed(Penalties(a), b, u) = Penalties(b)
    BY <1>2 DEF Recomputed, Penalties
  <1> DEFINE f == [st \in Students |-> Convex(Penalties(b)[st])]
             g == [st \in Students |-> Convex(Penalties(a)[st])]
             d == [st \in Affected(u) |-> Convex(Penalties(b)[st]) - Convex(Penalties(a)[st])]
  <1>4. \A st \in Students : f[st] \in Int /\ g[st] \in Int
    BY <1>1, TermsTyped, ConvexNat DEF Penalties
  <1>5. \A st \in Students \ Affected(u) : f[st] = g[st] BY <1>2 DEF Penalties
  <1>6. Affected(u) \in SUBSET Students /\ \A st \in Affected(u) : d[st] = f[st] - g[st] BY DEF Affected
  <1>7. /\ SpreadCost(Penalties(b)) = SumFunctionOnSet(f, Students)
        /\ SpreadCost(Penalties(a)) = SumFunctionOnSet(g, Students)
        /\ SpreadGrowth(Penalties(b), Penalties(a), u) = SumFunctionOnSet(d, Affected(u))
    BY SumOfFunction DEF SpreadCost, SpreadGrowth
  <1> HIDE DEF f, g, d
  <1>8. SumFunctionOnSet(f, Students) = SumFunctionOnSet(g, Students) + SumFunctionOnSet(d, Affected(u))
    BY <1>4, <1>5, <1>6, Finiteness, SumUpdate
  <1> QED BY <1>3, <1>7, <1>8 DEF b

LEMMA AttractMoved ==
    ASSUME NEW a \in Assignments, NEW u \in Units, NEW s \in Places
    PROVE  LET b == [a EXCEPT ![u] = s]
               mine == {p \in AttractPairs : u \in {p[1], p[2]}}
           IN  AttractCost(b, AttractPairs)
                 = AttractCost(a, AttractPairs) + AttractCost(b, mine) - AttractCost(a, mine)
  <1> DEFINE b == [a EXCEPT ![u] = s]
             mine == {p \in AttractPairs : u \in {p[1], p[2]}}
             F(c, ps) == [p \in ps |-> PairDistance(c, p)]
  <1>1. b \in Assignments BY DEF Assignments
  <1>2. AttractPairs \subseteq Units \X Units BY ProblemAssumption
  <1>3. \A p \in AttractPairs \ mine : F(b, AttractPairs)[p] = F(a, AttractPairs)[p]
    BY <1>2 DEF PairDistance, Assignments
  <1>4. \A p \in AttractPairs : F(b, AttractPairs)[p] \in Int /\ F(a, AttractPairs)[p] \in Int
    BY <1>1, <1>2, TermsTyped
  <1>5. \A p \in mine : F(b, mine)[p] = F(b, AttractPairs)[p] /\ F(a, mine)[p] = F(a, AttractPairs)[p]
    OBVIOUS
  <1>6. mine \in SUBSET AttractPairs OBVIOUS
  <1>7. \A c, ps : AttractCost(c, ps) = SumFunctionOnSet(F(c, ps), ps)
    BY SumOfFunction DEF AttractCost
  <1> HIDE DEF F, mine, b
  <1>8. SumFunctionOnSet(F(b, AttractPairs), AttractPairs)
          = SumFunctionOnSet(F(a, AttractPairs), AttractPairs)
            + SumFunctionOnSet(F(b, mine), mine) - SumFunctionOnSet(F(a, mine), mine)
    BY <1>3, <1>4, <1>5, <1>6, Finiteness, SumExchanged
  <1> QED BY <1>7, <1>8 DEF b, mine

\* Outside the slot it leaves and the one it enters, no count changes.
LEMMA Untouched ==
    ASSUME NEW a \in Assignments, NEW u \in Units, NEW s \in Places,
           NEW x \in Slots \ ({a[u], s} \ {None})
    PROVE  LET b == [a EXCEPT ![u] = s] IN
           /\ Physical(b).seats[x] = Physical(a).seats[x] /\ Physical(b).own[x] = Physical(a).own[x]
           /\ Physical(b).exahm[x] = Physical(a).exahm[x] /\ Physical(b).seb[x] = Physical(a).seb[x]
  <1> DEFINE b == [a EXCEPT ![u] = s]
  <1>1. x # s /\ x # a[u] BY Finiteness
  <1>2. ASSUME NEW G \in SUBSET Units PROVE Counted(b, G, x) = Counted(a, G, x)
    <2>1. Counted(a, G, x) \in Nat BY CountedNat
    <2>2. Counted(b, G, x) = IF u \in G THEN Counted(a, G, x) + 0 - 0 ELSE Counted(a, G, x)
      BY <1>1, CountedMoved
    <2> QED BY <2>1, <2>2
  <1>3. /\ Counted(b, Units, x) = Counted(a, Units, x)
        /\ Counted(b, Units \ Foreign, x) = Counted(a, Units \ Foreign, x)
        /\ Counted(b, Exahm, x) = Counted(a, Exahm, x) /\ Counted(b, Seb, x) = Counted(a, Seb, x)
    BY <1>2, Finiteness
  <1> HIDE DEF b
  <1> QED BY <1>3 DEF Physical, b

LEMMA SlotTermsTyped ==
    ASSUME NEW a \in Assignments
    PROVE  \A x \in Slots : LoadPenalty(Physical(a).seats[x]) \in Int /\ TbauPenalty(Physical(a), x) \in Int
  <1> SUFFICES ASSUME NEW x \in Slots
               PROVE  LoadPenalty(Physical(a).seats[x]) \in Int /\ TbauPenalty(Physical(a), x) \in Int
    OBVIOUS
  <1> DEFINE l == Physical(a)
  <1>1. l.seats[x] \in Int /\ l.exahm[x] \in Int /\ l.seb[x] \in Int BY PhysicalTyped
  <1>2. ExahmSeats[x] \in Int /\ SebSeats[x] \in Int /\ TargetLoad \in Int BY ProblemAssumption
  <1> HIDE DEF l
  <1>3. LoadPenalty(l.seats[x]) \in Int
    <2> DEFINE d == l.seats[x] - TargetLoad
    <2>1. d \in Int BY <1>1, <1>2
    <2> HIDE DEF d
    <2>2. d * d \in Int BY <2>1
    <2> QED BY <2>2 DEF LoadPenalty, d
  <1> DEFINE p == ExahmSeats[x] - l.exahm[x]
             q == SebSeats[x] - l.seb[x]
  <1>4. p \in Int /\ q \in Int BY <1>1, <1>2
  <1>5. TbauPenalty(l, x) = Max({0, p}) + Max({0, q}) BY DEF TbauPenalty
  <1> HIDE DEF p, q
  <1>6. Max({0, p}) \in {0, p} /\ Max({0, q}) \in {0, q}
    <2>1. 0 \in Int OBVIOUS
    <2> QED BY <2>1, <1>4, ExtremeOfPair
  <1> QED BY <1>3, <1>4, <1>5, <1>6 DEF l

LEMMA LoadMoved ==
    ASSUME NEW a \in Assignments, NEW u \in Units, NEW s \in Places
    PROVE  LET b == [a EXCEPT ![u] = s]
               l == Physical(a)
               m == Physical(b)
               touched == {a[u], s} \ {None}
           IN  /\ LoadCost(m, Slots) = LoadCost(l, Slots) + LoadCost(m, touched) - LoadCost(l, touched)
               /\ FillCost(m, Slots) = FillCost(l, Slots) + FillCost(m, touched) - FillCost(l, touched)
  <1> DEFINE b == [a EXCEPT ![u] = s]
             l == Physical(a)
             m == Physical(b)
             touched == {a[u], s} \ {None}
             L(k, X) == [x \in X |-> LoadPenalty(k.seats[x])]
             F(k, X) == [x \in X |-> TbauPenalty(k, x)]
  <1>1. b \in Assignments /\ touched \in SUBSET Slots BY DEF Assignments, Places
  <1>2. \A x \in Slots \ touched : m.seats[x] = l.seats[x] /\ m.exahm[x] = l.exahm[x] /\ m.seb[x] = l.seb[x]
    BY Untouched
  <1> HIDE DEF b, touched
  <1>3. \A x \in Slots : /\ LoadPenalty(m.seats[x]) \in Int /\ LoadPenalty(l.seats[x]) \in Int
                         /\ TbauPenalty(m, x) \in Int /\ TbauPenalty(l, x) \in Int
    BY <1>1, SlotTermsTyped
  <1> HIDE DEF l, m
  <1>4. /\ \A x \in Slots : L(m, Slots)[x] \in Int /\ L(l, Slots)[x] \in Int
        /\ \A x \in Slots \ touched : L(m, Slots)[x] = L(l, Slots)[x]
        /\ \A x \in touched : L(m, touched)[x] = L(m, Slots)[x] /\ L(l, touched)[x] = L(l, Slots)[x]
    BY <1>1, <1>2, <1>3
  <1>5. /\ \A x \in Slots : F(m, Slots)[x] \in Int /\ F(l, Slots)[x] \in Int
        /\ \A x \in Slots \ touched : F(m, Slots)[x] = F(l, Slots)[x]
        /\ \A x \in touched : F(m, touched)[x] = F(m, Slots)[x] /\ F(l, touched)[x] = F(l, Slots)[x]
    BY <1>1, <1>2, <1>3 DEF TbauPenalty
  <1>6. \A k, X : LoadCost(k, X) = SumFunctionOnSet(L(k, X), X) /\ FillCost(k, X) = SumFunctionOnSet(F(k, X), X)
    BY SumOfFunction DEF LoadCost, FillCost
  <1> HIDE DEF L, F
  <1>7. SumFunctionOnSet(L(m, Slots), Slots) = SumFunctionOnSet(L(l, Slots), Slots)
          + SumFunctionOnSet(L(m, touched), touched) - SumFunctionOnSet(L(l, touched), touched)
    BY <1>1, <1>4, Finiteness, SumExchanged
  <1>8. SumFunctionOnSet(F(m, Slots), Slots) = SumFunctionOnSet(F(l, Slots), Slots)
          + SumFunctionOnSet(F(m, touched), touched) - SumFunctionOnSet(F(l, touched), touched)
    BY <1>1, <1>5, Finiteness, SumExchanged
  <1> QED BY <1>6, <1>7, <1>8 DEF b, l, m, touched

\* Holes are counted within a day.
LEMMA HoleMoved ==
    ASSUME NEW a \in Assignments, NEW u \in Units, NEW s \in Places
    PROVE  LET b == [a EXCEPT ![u] = s]
               l == Physical(a)
               m == Physical(b)
               days == {DayOf[x] : x \in {a[u], s} \ {None}}
               all == {DayOf[x] : x \in Slots}
           IN  HoleCost(m, all) = HoleCost(l, all) + HoleCost(m, days) - HoleCost(l, days)
  <1> DEFINE b == [a EXCEPT ![u] = s]
             l == Physical(a)
             m == Physical(b)
             days == {DayOf[x] : x \in {a[u], s} \ {None}}
             all == {DayOf[x] : x \in Slots}
             H(k, D) == [d \in D |-> Hole * DayHoleCount(k, d)]
  <1>1. days \in SUBSET all BY DEF Assignments, Places
  <1>2. IsFiniteSet(all) BY Finiteness, ImageFinite
  <1>3. ASSUME NEW d \in all \ days PROVE DayHoleCount(m, d) = DayHoleCount(l, d)
    <2>1. \A x \in Slots : DayOf[x] = d => x \in Slots \ ({a[u], s} \ {None}) BY <1>3
    <2>2. \A x \in Slots : DayOf[x] = d => m.own[x] = l.own[x] BY <2>1, Untouched
    <2> HIDE DEF m, l
    <2>3. {x \in {y \in Slots : DayOf[y] = d} : m.own[x] > 0} = {x \in {y \in Slots : DayOf[y] = d} : l.own[x] > 0}
      BY <2>2
    <2> QED BY <2>3 DEF DayHoleCount
  <1> HIDE DEF days, all, l, m
  <1>4. ASSUME NEW k, NEW d PROVE Hole * DayHoleCount(k, d) \in Int
    <2>1. DayHoleCount(k, d) \in Nat
      <3> DEFINE day == {x \in Slots : DayOf[x] = d}
                 used == {x \in day : k.own[x] > 0}
                 holes == {x \in day \ used : \E y, z \in used : Start[y] < Start[x] /\ Start[x] < Start[z]}
      <3>1. holes \in SUBSET Slots OBVIOUS
      <3>2. DayHoleCount(k, d) = Cardinality(holes) BY DEF DayHoleCount
      <3> HIDE DEF holes
      <3> QED BY <3>1, <3>2, Finiteness, FS_Subset, FS_CardinalityType
    <2> DEFINE n == DayHoleCount(k, d)
    <2>2. n \in Int /\ Hole \in Int BY <2>1, ProblemAssumption
    <2> HIDE DEF n
    <2>3. Hole * n \in Int BY <2>2
    <2> QED BY <2>3 DEF n
  <1>5. /\ \A d \in all : H(m, all)[d] \in Int /\ H(l, all)[d] \in Int
        /\ \A d \in all \ days : H(m, all)[d] = H(l, all)[d]
        /\ \A d \in days : H(m, days)[d] = H(m, all)[d] /\ H(l, days)[d] = H(l, all)[d]
    BY <1>1, <1>3, <1>4
  <1>6. \A k, D : HoleCost(k, D) = SumFunctionOnSet(H(k, D), D) BY SumOfFunction DEF HoleCost
  <1> HIDE DEF H
  <1>7. SumFunctionOnSet(H(m, all), all) = SumFunctionOnSet(H(l, all), all)
          + SumFunctionOnSet(H(m, days), days) - SumFunctionOnSet(H(l, days), days)
    BY <1>1, <1>2, <1>5, SumExchanged
  <1> QED BY <1>6, <1>7 DEF b, l, m, days, all

LEMMA TimeMoved ==
    ASSUME NEW a \in Assignments, NEW u \in Units, NEW s \in Places
    PROVE  TimeCost([a EXCEPT ![u] = s]) = TimeCost(a) + TimeOf(u, s) - TimeOf(u, a[u])
  <1> DEFINE b == [a EXCEPT ![u] = s]
             f == [v \in Units |-> TimeOf(v, b[v])]
             g == [v \in Units |-> TimeOf(v, a[v])]
  <1>1. b \in Assignments BY DEF Assignments
  <1>2. \A v \in Units \ {u} : f[v] = g[v] BY DEF Assignments
  <1>3. f[u] = TimeOf(u, s) /\ g[u] = TimeOf(u, a[u]) BY DEF Assignments
  <1>4. TimeCost(b) = SumFunctionOnSet(f, Units) /\ TimeCost(a) = SumFunctionOnSet(g, Units)
    BY SumOfFunction DEF TimeCost
  <1> HIDE DEF b
  <1>5. \A v \in Units : f[v] \in Int /\ g[v] \in Int BY <1>1, TermsTyped DEF Assignments
  <1> HIDE DEF f, g
  <1>6. SumFunctionOnSet(f, Units) = SumFunctionOnSet(g, Units) + f[u] - g[u]
    <2>1. IsFiniteSet(Units) /\ u \in Units BY Finiteness
    <2> QED BY ONLY <2>1, <1>2, <1>5, SumUpdateOne
  <1> QED BY <1>3, <1>4, <1>6 DEF b

LEMMA OpenMoved ==
    ASSUME NEW a \in Assignments, NEW u \in Movable, NEW s \in Slots
    PROVE  /\ Open([a EXCEPT ![u] = s]) = Open(a) \ {u}
           /\ Cardinality(Open(a)) \in Nat
           /\ Cardinality(Open([a EXCEPT ![u] = s]))
                = Cardinality(Open(a)) + (IF a[u] = None THEN -1 ELSE 0)
  <1>1. Open([a EXCEPT ![u] = s]) = Open(a) \ {u}
    BY Finiteness DEF Open, Assignments
  <1>2. IsFiniteSet(Open(a)) BY Finiteness, FS_Subset DEF Open
  <1>3. Cardinality(Open(a)) \in Nat BY <1>2, FS_CardinalityType
  <1>4. u \in Open(a) <=> a[u] = None BY DEF Open
  <1>5. Cardinality(Open(a) \ {u}) = IF u \in Open(a) THEN Cardinality(Open(a)) - 1 ELSE Cardinality(Open(a))
    BY <1>2, FS_RemoveElement
  <1>6. Cardinality(Open([a EXCEPT ![u] = s])) = Cardinality(Open(a) \ {u}) BY <1>1
  <1> DEFINE n == Cardinality(Open(a))
             m == Cardinality(Open(a) \ {u})
  <1>7. m = n + (IF a[u] = None THEN -1 ELSE 0)
    <2>1. n \in Int /\ m = IF a[u] = None THEN n - 1 ELSE n BY <1>3, <1>4, <1>5
    <2> HIDE DEF n, m
    <2> QED BY <2>1
  <1> QED BY <1>1, <1>3, <1>6, <1>7

\* The seats and the totals of an assignment, from scratch.
Scratch(a) == [slotOf |-> a, load |-> Physical(a), total |-> InitCost(a, Physical(a))]

\* moveUnit: the differences over what the move touches give what initCost would.
LEMMA MovedExact ==
    ASSUME NEW a \in Assignments, NEW u \in Movable, NEW s \in Slots
    PROVE  LET b == [a EXCEPT ![u] = s]
           IN  MoveTotal(a, b, Physical(a), Physical(b), InitCost(a, Physical(a)), u)
                 = InitCost(b, Physical(b))
  <1> DEFINE b == [a EXCEPT ![u] = s]
             l == Physical(a)
             m == Physical(b)
             t == InitCost(a, l)
             w == InitCost(b, m)
             touched == {a[u], s} \ {None}
             days == {DayOf[x] : x \in touched}
             all == {DayOf[x] : x \in Slots}
             mine == {p \in AttractPairs : u \in {p[1], p[2]}}
             news == Recomputed(t.pS, b, u)
  <1>1. u \in Units /\ s \in Places /\ b[u] = s BY Finiteness DEF Places, Assignments
  <1>2. /\ t.pS = Penalties(a) /\ t.spread = SpreadCost(Penalties(a))
        /\ t.attract = AttractCost(a, AttractPairs) /\ t.load = LoadCost(l, Slots)
        /\ t.fill = FillCost(l, Slots) /\ t.hole = HoleCost(l, all)
        /\ t.time = TimeCost(a) /\ t.unplaced = Cardinality(Open(a))
    BY DEF InitCost
  <1>3. w = [pS |-> Penalties(b), spread |-> SpreadCost(Penalties(b)),
             attract |-> AttractCost(b, AttractPairs), load |-> LoadCost(m, Slots),
             fill |-> FillCost(m, Slots), hole |-> HoleCost(m, all),
             time |-> TimeCost(b), unplaced |-> Cardinality(Open(b))]
    BY DEF InitCost
  <1>4. news = Penalties(b) /\ SpreadCost(Penalties(b)) = t.spread + SpreadGrowth(news, t.pS, u)
    BY <1>1, <1>2, SpreadMoved
  <1>5. AttractCost(b, AttractPairs) = t.attract + AttractCost(b, mine) - AttractCost(a, mine)
    BY <1>1, <1>2, AttractMoved
  <1>6. /\ LoadCost(m, Slots) = t.load + LoadCost(m, touched) - LoadCost(l, touched)
        /\ FillCost(m, Slots) = t.fill + FillCost(m, touched) - FillCost(l, touched)
    BY <1>1, <1>2, LoadMoved
  <1>7. HoleCost(m, all) = t.hole + HoleCost(m, days) - HoleCost(l, days)
    BY <1>1, <1>2, HoleMoved
  <1>8. TimeCost(b) = t.time + TimeOf(u, b[u]) - TimeOf(u, a[u])
    BY <1>1, <1>2, TimeMoved
  <1>9. Cardinality(Open(b)) = t.unplaced + (IF a[u] = None THEN -1 ELSE 0)
    BY <1>2, OpenMoved
  <1> HIDE DEF l, m, t
  <1>10. MoveTotal(a, b, l, m, t, u) =
           [pS       |-> news,
            spread   |-> t.spread + SpreadGrowth(news, t.pS, u),
            attract  |-> t.attract + AttractCost(b, mine) - AttractCost(a, mine),
            load     |-> t.load + LoadCost(m, touched) - LoadCost(l, touched),
            fill     |-> t.fill + FillCost(m, touched) - FillCost(l, touched),
            hole     |-> t.hole + HoleCost(m, days) - HoleCost(l, days),
            time     |-> t.time + TimeOf(u, b[u]) - TimeOf(u, a[u]),
            unplaced |-> t.unplaced + (IF a[u] = None THEN -1 ELSE 0)]
    <2>1. touched = {a[u], b[u]} \ {None} BY <1>1
    <2> HIDE DEF touched
    <2> QED BY <2>1 DEF MoveTotal
  <1> HIDE DEF b, w, touched, days, all, mine, news
  <1>11. MoveTotal(a, b, l, m, t, u) = w
    BY <1>3, <1>4, <1>5, <1>6, <1>7, <1>8, <1>9, <1>10
  <1> QED BY <1>11 DEF b, w, l, m, t

\* The undo closure of a move puts the unit back, and the saved totals with it.
LEMMA UndoneExact ==
    ASSUME NEW a \in Assignments, NEW u \in Units, NEW s \in Places, NEW x,
           x.slotOf = [a EXCEPT ![u] = s], x.load = Physical(x.slotOf)
    PROVE  UndoMove(x, Saved(u, a, InitCost(a, Physical(a)))) = Scratch(a)
  <1> DEFINE b == [a EXCEPT ![u] = s]
             m == Saved(u, a, InitCost(a, Physical(a)))
  <1>1. b \in Assignments /\ b[u] = s /\ a[u] \in Places /\ [b EXCEPT ![u] = a[u]] = a
    BY DEF Assignments
  <1>2. m.unit = u /\ m.slot = a[u] /\ m.total = InitCost(a, Physical(a)) BY DEF Saved
  <1>3. x.slotOf = b /\ x.load = Physical(b) OBVIOUS
  <1> HIDE DEF b, m
  <1>4. SetPhysical(Physical(b), u, b[u], a[u]) = Physical(a) BY <1>1, PhysicalMoved
  <1>5. UndoMove(x, m) = [slotOf |-> a, load |-> Physical(a), total |-> InitCost(a, Physical(a))]
    BY <1>1, <1>2, <1>3, <1>4 DEF UndoMove
  <1> QED BY <1>5 DEF m, Scratch

-----------------------------------------------------------------------------
(* What the incremental bookkeeping stands for. *)

\* A state whose seats and totals are those of its assignment, from scratch.
Canonical(x) ==
    /\ x.slotOf \in [Units -> Places]
    /\ x.load = Physical(x.slotOf) /\ x.total = InitCost(x.slotOf, x.load)

\* The current state, and the one the undo closures go back to.
Current == [slotOf |-> slotOf, load |-> load, total |-> total]
Earlier == UndoAll(Current)

BooksKept ==
    /\ slotOf \in [Units -> Places] /\ load = Physical(slotOf)
    /\ phase \in {"warm", "fill", "anneal", "proposed", "done"}
    /\ phase \in {"anneal", "proposed", "done"} => Canonical(Current) /\ Canonical(best)
    /\ phase = "proposed" => Canonical(Earlier)

\* No unit is looked at twice, so what the start has still to place has no slot.
FitKept ==
    /\ phase = "warm" => \A u \in todo : slotOf[u] = None
    /\ FixedFits => /\ Fits(slotOf, load)
                    /\ phase \in {"anneal", "proposed", "done"} => Fits(best.slotOf, best.load)
                    /\ phase = "proposed" => Fits(Earlier.slotOf, Earlier.load)

\* No proposal takes a unit out of the plan, so the best state never has a unit
\* placed that the current one, or the one a pending undo goes back to, has not.
CheapestKept ==
    /\ phase = "anneal" =>
          Cost(best.total) <= Cost(total) /\ Open(slotOf) \subseteq Open(best.slotOf)
    /\ phase = "proposed" =>
          /\ Cost(best.total) <= Cost(Earlier.total) /\ Open(Earlier.slotOf) \subseteq Open(best.slotOf)
          /\ Open(slotOf) \subseteq Open(Earlier.slotOf)

LEMMA InitBooks == Init => BooksKept
  <1> SUFFICES ASSUME Init PROVE BooksKept OBVIOUS
  <1>1. slotOf = OnlyFixed /\ load = PlacedLoad BY DEF Init, PlacedLoad
  <1>2. phase \in {"warm", "fill"} BY DEF Init
  <1>3. slotOf \in Assignments /\ load = Physical(slotOf) BY <1>1, PlacedExact
  <1> QED BY <1>2, <1>3 DEF BooksKept, Assignments

\* One step of placing a unit.
LEMMA PlaceExact ==
    ASSUME BooksKept, NEW u \in Units, NEW s \in Places, Place(u, s)
    PROVE  /\ slotOf' = [slotOf EXCEPT ![u] = s] /\ slotOf' \in Assignments
           /\ load' = Physical(slotOf')
  <1>1. slotOf \in Assignments /\ load = Physical(slotOf) BY DEF BooksKept, Assignments
  <1>2. slotOf' = [slotOf EXCEPT ![u] = s] /\ load' = SetPhysical(load, u, slotOf[u], s) BY DEF Place
  <1> QED BY <1>1, <1>2, PhysicalMoved

\* What a proposal of one move does, and that taking it back would leave the
\* state as it is.
LEMMA RelocateExact ==
    ASSUME BooksKept, NEW u \in Movable, NEW s \in Slots, Relocate(u, s)
    PROVE  /\ slotOf' = [slotOf EXCEPT ![u] = s] /\ slotOf' \in Assignments
           /\ load' = Physical(slotOf') /\ total' = InitCost(slotOf', load')
           /\ Earlier' = Current
  <1>1. /\ slotOf \in Assignments /\ load = Physical(slotOf) /\ total = InitCost(slotOf, load)
    BY DEF BooksKept, Assignments, Relocate, Canonical, Current
  <1>2. Place(u, s) /\ total' = MoveTotal(slotOf, slotOf', load, load', total, u)
        /\ undo' = <<Saved(u, slotOf, total)>>
    BY DEF Relocate
  <1>3. slotOf' = [slotOf EXCEPT ![u] = s] /\ slotOf' \in Assignments /\ load' = Physical(slotOf')
    BY <1>2, PlaceExact, Finiteness DEF Places
  <1>4. total' = InitCost(slotOf', load') BY <1>1, <1>2, <1>3, MovedExact
  <1> DEFINE x == Current'
  <1>5. x.slotOf = [slotOf EXCEPT ![u] = s] /\ x.load = Physical(x.slotOf) BY <1>3 DEF Current
  <1>6. Len(undo') = 1 /\ undo'[1] = Saved(u, slotOf, InitCost(slotOf, Physical(slotOf))) BY <1>1, <1>2
  <1>7. Earlier' = UndoMove(x, undo'[1]) BY <1>6 DEF Earlier, UndoAll
  <1> HIDE DEF x
  <1>8. UndoMove(x, undo'[1]) = Scratch(slotOf)
    <2>1. u \in Units /\ s \in Places BY Finiteness DEF Places
    <2> QED BY <2>1, <1>1, <1>5, <1>6, UndoneExact
  <1>9. Scratch(slotOf) = Current BY <1>1 DEF Scratch, Current
  <1> QED BY <1>3, <1>4, <1>7, <1>8, <1>9

\* The same for the exchange of two units.
LEMMA SwapExact ==
    ASSUME BooksKept, NEW u \in Movable, NEW v \in Movable, Swap(u, v)
    PROVE  /\ slotOf[u] \in Slots /\ slotOf[v] \in Slots
           /\ slotOf' = [[slotOf EXCEPT ![u] = slotOf[v]] EXCEPT ![v] = slotOf[u]]
           /\ slotOf' \in Assignments
           /\ load' = Physical(slotOf') /\ total' = InitCost(slotOf', load')
           /\ Earlier' = Current
  <1> DEFINE mid == [slotOf EXCEPT ![u] = slotOf[v]]
             midLoad == SetPhysical(load, u, slotOf[u], slotOf[v])
             midTotal == MoveTotal(slotOf, mid, load, midLoad, total, u)
             s == slotOf[v]
             r == slotOf[u]
  <1>1. slotOf \in Assignments /\ load = Physical(slotOf) /\ total = InitCost(slotOf, load)
    BY DEF BooksKept, Assignments, Swap, Canonical, Current
  <1>2. /\ u # v /\ slotOf[u] # None /\ slotOf[v] # None
        /\ slotOf' = [mid EXCEPT ![v] = r]
        /\ load' = SetPhysical(midLoad, v, s, r)
        /\ total' = MoveTotal(mid, slotOf', midLoad, load', midTotal, v)
        /\ undo' = <<Saved(u, slotOf, total), Saved(v, mid, midTotal)>>
    BY DEF Swap, CanSwap
  <1>3. u \in Units /\ v \in Units /\ r \in Slots /\ s \in Slots /\ r \in Places /\ s \in Places
    BY <1>1, <1>2, Finiteness DEF Assignments, Places
  <1>4. mid \in Assignments /\ midLoad = Physical(mid) BY <1>1, <1>3, PhysicalMoved
  <1>5. midTotal = InitCost(mid, Physical(mid)) BY <1>1, <1>3, <1>4, MovedExact
  <1>6. mid[v] = s BY <1>2, <1>3 DEF Assignments
  <1> HIDE DEF mid, midLoad, midTotal
  <1>7. slotOf' \in Assignments /\ load' = Physical(slotOf')
    <2> DEFINE b == [mid EXCEPT ![v] = r]
    <2>1. b \in Assignments /\ SetPhysical(Physical(mid), v, mid[v], r) = Physical(b)
      BY <1>3, <1>4, PhysicalMoved
    <2>2. slotOf' = b BY <1>2
    <2> HIDE DEF b
    <2> QED BY <2>1, <2>2, <1>2, <1>4, <1>6
  <1>8. total' = InitCost(slotOf', load')
    <2> DEFINE b == [mid EXCEPT ![v] = r]
    <2>1. MoveTotal(mid, b, Physical(mid), Physical(b), InitCost(mid, Physical(mid)), v)
            = InitCost(b, Physical(b))
      BY <1>3, <1>4, MovedExact
    <2>2. slotOf' = b BY <1>2
    <2> HIDE DEF b
    <2> QED BY <2>1, <2>2, <1>2, <1>4, <1>5, <1>7
  <1> DEFINE x == Current'
             y == UndoMove(x, undo'[2])
  <1>9. x.slotOf = [mid EXCEPT ![v] = r] /\ x.load = Physical(x.slotOf) BY <1>2, <1>7 DEF Current
  <1>10. /\ Len(undo') = 2
         /\ undo'[1] = Saved(u, slotOf, InitCost(slotOf, Physical(slotOf)))
         /\ undo'[2] = Saved(v, mid, InitCost(mid, Physical(mid)))
    BY <1>1, <1>2, <1>5
  <1>11. Earlier' = UndoMove(y, undo'[1]) BY <1>10 DEF Earlier, UndoAll
  <1> HIDE DEF x
  <1>12. y = Scratch(mid) BY <1>3, <1>4, <1>9, <1>10, UndoneExact
  <1> HIDE DEF y
  <1>13. y.slotOf = [slotOf EXCEPT ![u] = s] /\ y.load = Physical(y.slotOf) BY <1>12 DEF Scratch, mid
  <1>14. UndoMove(y, undo'[1]) = Scratch(slotOf) BY <1>1, <1>3, <1>10, <1>13, UndoneExact
  <1>15. Scratch(slotOf) = Current BY <1>1 DEF Scratch, Current
  <1> QED BY <1>2, <1>3, <1>7, <1>8, <1>11, <1>14, <1>15 DEF mid

\* Every step keeps the books.
LEMMA NextBooks == IInv /\ BooksKept /\ [Next]_vars => BooksKept'
  <1> SUFFICES ASSUME IInv, BooksKept, [Next]_vars PROVE BooksKept' OBVIOUS
  <1>a. slotOf \in Assignments /\ load = Physical(slotOf) BY DEF BooksKept, Assignments
  <1>b. todo \subseteq Units /\ left \subseteq Units BY Finiteness DEF IInv
  <1>c. ASSUME slotOf' \in Assignments, load' = Physical(slotOf'), phase' \in {"warm", "fill"}
        PROVE  BooksKept'
    BY <1>c DEF BooksKept, Assignments
  <1>d. ASSUME Canonical(Current'), Canonical(best'), phase' \in {"anneal", "done"} PROVE BooksKept'
    BY <1>d DEF BooksKept, Canonical, Current
  <1>e. ASSUME slotOf' \in Assignments, load' = Physical(slotOf'), total' = InitCost(slotOf', load'),
               Earlier' = Current, UNCHANGED best, phase = "anneal", phase' = "proposed"
        PROVE  BooksKept'
    <2>1. Canonical(Current) /\ Canonical(best) BY <1>e DEF BooksKept
    <2>2. Canonical(Current)' BY <1>e DEF Canonical, Current, Assignments
    <2>3. Canonical(Earlier)'
      <3>1. Canonical(Earlier') BY <2>1, <1>e
      <3> QED BY <3>1 DEF Canonical
    <2>4. Canonical(best)'
      <3>1. Canonical(best') BY <2>1, <1>e
      <3> QED BY <3>1 DEF Canonical
    <2> QED BY <2>2, <2>3, <2>4, <1>e DEF BooksKept, Assignments
  <1>s. ASSUME UNCHANGED vars PROVE BooksKept'
    BY <1>s DEF vars, input, BooksKept, Canonical, Current, Earlier, UndoAll, UndoMove
  <1>1. ASSUME ConstructWarm PROVE BooksKept'
    <2>1. PICK u \in todo :
             IF startSlot[u] # None /\ Feasible(slotOf, load, u, startSlot[u])
             THEN Place(u, startSlot[u]) ELSE UNCHANGED <<slotOf, load>>
      BY <1>1 DEF ConstructWarm
    <2>2. phase' = "warm" BY <1>1 DEF ConstructWarm
    <2>3. slotOf' \in Assignments /\ load' = Physical(slotOf')
      <3>1. CASE startSlot[u] # None /\ Feasible(slotOf, load, u, startSlot[u])
        <4>1. u \in Units /\ startSlot[u] \in Places
          BY <3>1, <1>b, ProblemAssumption DEF Feasible, Places
        <4> QED BY <4>1, <3>1, <2>1, PlaceExact
      <3>2. CASE ~(startSlot[u] # None /\ Feasible(slotOf, load, u, startSlot[u]))
        BY <3>2, <2>1, <1>a
      <3> QED BY <3>1, <3>2
    <2> QED BY <2>2, <2>3, <1>c
  <1>2. ASSUME FillRemaining PROVE BooksKept'
    <2>1. PICK u \in left : \/ \E s \in FeasibleSlots(u) : Place(u, s)
                            \/ FeasibleSlots(u) = {} /\ UNCHANGED <<slotOf, load>>
      BY <1>2 DEF FillRemaining
    <2>2. phase' = "fill" BY <1>2 DEF FillRemaining
    <2>3. slotOf' \in Assignments /\ load' = Physical(slotOf')
      <3>1. ASSUME NEW s \in FeasibleSlots(u), Place(u, s)
            PROVE  slotOf' \in Assignments /\ load' = Physical(slotOf')
        <4>1. u \in Units /\ s \in Places BY <1>b DEF FeasibleSlots, Places
        <4> QED BY <4>1, <3>1, PlaceExact
      <3> QED BY <3>1, <2>1, <1>a
    <2> QED BY <2>2, <2>3, <1>c
  <1>3. ASSUME StartAnneal PROVE BooksKept'
    <2>1. /\ UNCHANGED <<slotOf, load>> /\ phase' = "anneal" /\ total' = InitCost(slotOf, load)
          /\ best' = [slotOf |-> slotOf, load |-> load, total |-> total']
      BY <1>3 DEF StartAnneal
    <2>2. Canonical(Current') /\ Canonical(best')
      BY <2>1, <1>a DEF Canonical, Current, Assignments
    <2> QED BY <2>1, <2>2, <1>d
  <1>4. ASSUME NEW u \in Movable, NEW s \in Slots, Relocate(u, s) PROVE BooksKept'
    <2>1. UNCHANGED best /\ phase = "anneal" /\ phase' = "proposed" BY <1>4 DEF Relocate
    <2>2. /\ slotOf' \in Assignments /\ load' = Physical(slotOf')
          /\ total' = InitCost(slotOf', load') /\ Earlier' = Current
      BY <1>4, RelocateExact
    <2> QED BY <2>1, <2>2, <1>e
  <1>5. ASSUME NEW u \in Movable, NEW v \in Movable, Swap(u, v) PROVE BooksKept'
    <2>1. UNCHANGED best /\ phase = "anneal" /\ phase' = "proposed" BY <1>5 DEF Swap
    <2>2. /\ slotOf' \in Assignments /\ load' = Physical(slotOf')
          /\ total' = InitCost(slotOf', load') /\ Earlier' = Current
      BY <1>5, SwapExact
    <2> QED BY <2>1, <2>2, <1>e
  <1>6. ASSUME Accept PROVE BooksKept'
    <2>1. /\ UNCHANGED <<slotOf, load, total>> /\ phase = "proposed" /\ phase' = "anneal"
          /\ best' = Current \/ best' = best
      BY <1>6 DEF Accept, Current
    <2>2. Canonical(Current) /\ Canonical(best) BY <2>1 DEF BooksKept
    <2>3. Canonical(Current') /\ Canonical(best') BY <2>1, <2>2 DEF Current
    <2> QED BY <2>1, <2>3, <1>d
  <1>7. ASSUME Reject PROVE BooksKept'
    <2>1. /\ slotOf' = Earlier.slotOf /\ load' = Earlier.load /\ total' = Earlier.total
          /\ UNCHANGED best /\ phase = "proposed" /\ phase' = "anneal"
      BY <1>7 DEF Reject, Earlier, Current
    <2>2. Canonical(Earlier) /\ Canonical(best) BY <2>1 DEF BooksKept
    <2>3. Canonical(Current') /\ Canonical(best') BY <2>1, <2>2 DEF Current, Canonical
    <2> QED BY <2>1, <2>3, <1>d
  <1>8. ASSUME Finish PROVE BooksKept'
    <2>1. /\ slotOf' = best.slotOf /\ load' = best.load /\ total' = best.total
          /\ UNCHANGED best /\ phase = "anneal" /\ phase' = "done"
      BY <1>8 DEF Finish
    <2>2. Canonical(best) BY <2>1 DEF BooksKept
    <2>3. Canonical(Current') /\ Canonical(best') BY <2>1, <2>2 DEF Current, Canonical
    <2> QED BY <2>1, <2>3, <1>d
  <1> QED BY <1>s, <1>1, <1>2, <1>3, <1>4, <1>5, <1>6, <1>7, <1>8 DEF Next

\* model.go:13-16: the seats and the totals that setPhysical, moveUnit and the
\* undo closures maintain are at every moment what counting and initCost give.
THEOREM BooksAreExact == Spec => []BookkeepingExact
  <1>1. BooksKept => BookkeepingExact BY DEF BooksKept, BookkeepingExact, Canonical, Current
  <1> QED BY <1>1, InitIInv, NextIInv, InitBooks, NextBooks, PTL DEF Spec

-----------------------------------------------------------------------------
(* What a slot holds *)

Sitting(a, x) == {u \in Units : a[u] = x /\ Seats[u] > 0}
CapAt(a, x) == Cap[x] > 0 /\ Physical(a).seats[x] > Cap[x] => Cardinality(Sitting(a, x)) = 1
ExahmUse(a, x) == Physical(a).exahm[x] + Physical(a).over[x]
ExahmAt(a, x) == ExahmUse(a, x) > 0 => ExahmUse(a, x) <= ExahmSeats[x]

LEMMA FitsAtEvery ==
    ASSUME NEW a \in Assignments
    PROVE  Fits(a, Physical(a)) <=> \A x \in Slots : CapAt(a, x) /\ ExahmAt(a, x)
  BY DEF Fits, CapAt, ExahmAt, Sitting, ExahmUse

\* The seats of a unit in a slot, and the ones its overrun takes there.
Share(a, u, x) == IF a[u] = x THEN Seats[u] ELSE 0
Reach(a, u, x) == IF x \in OverrunTargets(u, a[u]) THEN Seats[u] ELSE 0

LEMMA ShareTyped ==
    ASSUME NEW a, NEW u \in Units, NEW x
    PROVE  Share(a, u, x) \in Nat /\ Reach(a, u, x) \in Nat
  BY SeatsNat DEF Share, Reach

\* The counts of a slot when one unit has moved.
LEMMA CountsMoved ==
    ASSUME NEW a \in Assignments, NEW b \in Assignments, NEW u \in Units,
           \A w \in Units \ {u} : b[w] = a[w], NEW x \in Slots
    PROVE  /\ Physical(b).seats[x] = Physical(a).seats[x] + (Share(b, u, x) - Share(a, u, x))
           /\ u \in Exahm => Physical(b).exahm[x] = Physical(a).exahm[x] + (Share(b, u, x) - Share(a, u, x))
           /\ u \notin Exahm => Physical(b).exahm[x] = Physical(a).exahm[x]
           /\ Physical(b).over[x] = Physical(a).over[x] + (Reach(b, u, x) - Reach(a, u, x))
  <1> DEFINE s == b[u]
  <1>1. b = [a EXCEPT ![u] = s] /\ s \in Places BY DEF Assignments
  <1>2. \A e : /\ Physical(e).seats[x] = Counted(e, Units, x) /\ Physical(e).exahm[x] = Counted(e, Exahm, x)
               /\ Physical(e).over[x] = Overrunning(e, x)
    BY DEF Physical
  <1>3. Share(b, u, x) = (IF x = s THEN Seats[u] ELSE 0) /\ Share(a, u, x) = (IF x = a[u] THEN Seats[u] ELSE 0)
    BY DEF Share
  <1>4. /\ Reach(b, u, x) = (IF x \in OverrunTargets(u, s) THEN Seats[u] ELSE 0)
        /\ Reach(a, u, x) = (IF x \in OverrunTargets(u, a[u]) THEN Seats[u] ELSE 0)
    BY DEF Reach
  <1> HIDE DEF s
  <1>0. a \in Assignments /\ u \in Units /\ s \in Places /\ x \in Slots
        /\ Units \in SUBSET Units /\ Exahm \in SUBSET Units
    BY <1>1, Finiteness
  <1>5. Counted([a EXCEPT ![u] = s], Units, x)
          = Counted(a, Units, x) + (IF x = s THEN Seats[u] ELSE 0) - (IF x = a[u] THEN Seats[u] ELSE 0)
    BY ONLY <1>0, CountedMoved
  <1>6. Counted([a EXCEPT ![u] = s], Exahm, x)
          = IF u \in Exahm
            THEN Counted(a, Exahm, x) + (IF x = s THEN Seats[u] ELSE 0) - (IF x = a[u] THEN Seats[u] ELSE 0)
            ELSE Counted(a, Exahm, x)
    BY ONLY <1>0, CountedMoved
  <1>7. Overrunning([a EXCEPT ![u] = s], x)
          = Overrunning(a, x) + (IF x \in OverrunTargets(u, s) THEN Seats[u] ELSE 0)
                              - (IF x \in OverrunTargets(u, a[u]) THEN Seats[u] ELSE 0)
    BY ONLY <1>0, OverrunningMoved
  <1>8. Share(b, u, x) \in Nat /\ Share(a, u, x) \in Nat /\ Reach(b, u, x) \in Nat /\ Reach(a, u, x) \in Nat
    BY ShareTyped
  <1>9. Counted(a, Units, x) \in Nat /\ Counted(a, Exahm, x) \in Nat /\ Overrunning(a, x) \in Nat
    BY CountedNat, PhysicalTyped, Finiteness DEF Physical
  <1>10. /\ Counted(b, Units, x) = Counted(a, Units, x) + Share(b, u, x) - Share(a, u, x)
         /\ Counted(b, Exahm, x) = IF u \in Exahm THEN Counted(a, Exahm, x) + Share(b, u, x) - Share(a, u, x)
                                                   ELSE Counted(a, Exahm, x)
         /\ Overrunning(b, x) = Overrunning(a, x) + Reach(b, u, x) - Reach(a, u, x)
    BY <1>1, <1>3, <1>4, <1>5, <1>6, <1>7
  <1> QED BY <1>2, <1>8, <1>9, <1>10

\* A slot is empty exactly when it has no seats, and a unit whose seats are all
\* the seats of its slot sits there alone.
LEMMA SeatsOfSlot ==
    ASSUME NEW a \in Assignments, NEW x \in Slots
    PROVE  /\ Sitting(a, x) = {} => Physical(a).seats[x] = 0
           /\ \A u \in Units : a[u] = x /\ Physical(a).seats[x] = Seats[u] => Sitting(a, x) \subseteq {u}
  <1> DEFINE f == [u \in Units |-> IF a[u] = x THEN Seats[u] ELSE 0]
  <1>1. \A u \in Units : f[u] \in Nat BY SeatsNat
  <1>2. Physical(a).seats[x] = SumFunctionOnSet(f, Units) BY SumOfFunction DEF Physical, Counted
  <1>3. \A u \in Units : u \in Sitting(a, x) <=> f[u] > 0 BY DEF Sitting
  <1>4. \A u \in Units : a[u] = x => f[u] = Seats[u] OBVIOUS
  <1>5. Sitting(a, x) \subseteq Units BY DEF Sitting
  <1>6. IsFiniteSet(Units) BY Finiteness
  <1> HIDE DEF f
  <1>7. Sitting(a, x) = {} => Physical(a).seats[x] = 0
    <2>1. ASSUME Sitting(a, x) = {} PROVE SumFunctionOnSet(f, Units) = 0
      <3>1. \A u \in Units : f[u] = 0 BY <2>1, <1>1, <1>3
      <3> QED BY <3>1, <1>6, SumZero
    <2> QED BY <2>1, <1>2
  <1>8. ASSUME NEW u \in Units, a[u] = x, Physical(a).seats[x] = Seats[u], NEW v \in Sitting(a, x), v # u
        PROVE  FALSE
    <2> DEFINE R == Units \ {u}
    <2>1. \A w \in Units : f[w] \in Int BY <1>1
    <2>2. SumFunctionOnSet(f, Units) = f[u] + SumFunctionOnSet(f, R) BY <2>1, <1>6, SumRemove
    <2>3. IsFiniteSet(R) /\ (\A w \in R : f[w] \in Nat) /\ {v} \in SUBSET R
      BY <1>1, <1>5, <1>6, <1>8, FS_Subset
    <2>4. f[v] \in Int /\ f[v] > 0 BY <1>1, <1>3, <1>5, <1>8
    <2> HIDE DEF R
    <2>5. SumFunctionOnSet(f, R) \in Nat /\ SumFunctionOnSet(f, {v}) <= SumFunctionOnSet(f, R)
      BY <2>3, SumNat
    <2>6. SumFunctionOnSet(f, {v}) = f[v] BY <2>4, SumOne
    <2>7. f[u] = Seats[u] /\ Seats[u] \in Nat BY <1>4, <1>8, SeatsNat
    <2>8. SumFunctionOnSet(f, Units) = Seats[u] BY <1>2, <1>8
    <2> DEFINE all == SumFunctionOnSet(f, Units)
               rest == SumFunctionOnSet(f, R)
    <2>9. all = Seats[u] /\ all = Seats[u] + rest /\ rest \in Nat /\ rest >= f[v]
      BY <2>2, <2>5, <2>6, <2>7, <2>8
    <2> HIDE DEF all, rest
    <2> QED BY <2>4, <2>7, <2>9
  <1> QED BY <1>7, <1>8

\* A unit that has entered a slot leaves it within its cap, or has it for itself.
LEMMA CapEntered ==
    ASSUME NEW b \in Assignments, NEW u \in Units, NEW x \in Slots, b[u] = x,
           Cap[x] = 0 \/ Physical(b).seats[x] = Seats[u] \/ Physical(b).seats[x] <= Cap[x]
    PROVE  CapAt(b, x)
  <1> SUFFICES ASSUME Cap[x] > 0, Physical(b).seats[x] > Cap[x]
               PROVE  Cardinality(Sitting(b, x)) = 1
    BY DEF CapAt
  <1>1. Cap[x] \in Nat /\ Physical(b).seats[x] \in Nat /\ Seats[u] \in Nat
    BY PhysicalTyped, SeatsNat, ProblemAssumption
  <1>2. Physical(b).seats[x] = Seats[u] /\ Seats[u] > 0 BY <1>1
  <1>3. Sitting(b, x) = {u} BY <1>2, SeatsOfSlot DEF Sitting
  <1> QED BY <1>3, FS_Singleton

\* Every other slot stays as it is, or loses the unit.
LEMMA CapLeft ==
    ASSUME NEW a \in Assignments, NEW u \in Units, NEW s \in Places, NEW x \in Slots, x # s, CapAt(a, x)
    PROVE  CapAt([a EXCEPT ![u] = s], x)
  <1> DEFINE b == [a EXCEPT ![u] = s]
  <1>1. b \in Assignments BY DEF Assignments
  <1>2. Sitting(b, x) = Sitting(a, x) \ {u} BY DEF Sitting, Assignments
  <1>3. Physical(b).seats[x] = Physical(a).seats[x] + (0 - Share(a, u, x))
    <2>1. b[u] = s /\ \A w \in Units \ {u} : b[w] = a[w] BY DEF Assignments
    <2>2. Share(b, u, x) = 0 BY <2>1 DEF Share
    <2> HIDE DEF b
    <2> QED BY <1>1, <2>1, <2>2, CountsMoved
  <1>4. /\ Physical(b).seats[x] \in Nat /\ Physical(a).seats[x] \in Nat
        /\ Share(a, u, x) \in Nat /\ Cap[x] \in Nat
    BY <1>1, PhysicalTyped, ShareTyped, ProblemAssumption
  <1> HIDE DEF b
  <1> SUFFICES ASSUME Cap[x] > 0, Physical(b).seats[x] > Cap[x]
               PROVE  Cardinality(Sitting(b, x)) = 1
    BY DEF CapAt, b
  <1>5. Cardinality(Sitting(a, x)) = 1 BY <1>3, <1>4 DEF CapAt
  <1>6. CASE u \notin Sitting(a, x) BY <1>2, <1>5, <1>6
  <1>7. CASE u \in Sitting(a, x)
    <2>1. IsFiniteSet(Sitting(a, x)) BY Finiteness, FS_Subset DEF Sitting
    <2>2. Sitting(b, x) = {}
      <3> DEFINE S == Sitting(a, x)
      <3>1. IsFiniteSet(S) /\ u \in S /\ Cardinality(S) = 1 BY <2>1, <1>5, <1>7
      <3> HIDE DEF S
      <3>2. IsFiniteSet(S \ {u}) /\ Cardinality(S \ {u}) = 0 BY <3>1, FS_RemoveElement
      <3>3. S \ {u} = {} BY <3>2, FS_EmptySet
      <3> QED BY <3>3, <1>2 DEF S
    <2>3. Physical(b).seats[x] = 0 BY <1>1, <2>2, SeatsOfSlot
    <2> QED BY <2>3, <1>4
  <1> QED BY <1>6, <1>7

\* feasible: the slot and the ones overrun into have seats left for the unit.
LEMMA FitsMoved ==
    ASSUME NEW a \in Assignments, Fits(a, Physical(a)), NEW u \in Units, NEW s \in Slots,
           s # a[u], Feasible(a, Physical(a), u, s)
    PROVE  LET b == [a EXCEPT ![u] = s] IN Fits(b, Physical(b))
  <1> DEFINE b == [a EXCEPT ![u] = s]
             l == Physical(a)
             m == Physical(b)
  <1>1. b \in Assignments /\ s \in Places /\ b[u] = s /\ \A w \in Units \ {u} : b[w] = a[w]
    BY DEF Assignments, Places
  <1>2. ASSUME NEW x \in Slots, x # s PROVE CapAt(b, x)
    <2>1. CapAt(a, x) BY FitsAtEvery
    <2> QED BY <2>1, <1>2, <1>1, CapLeft
  <1> HIDE DEF b
  <1>3. ASSUME NEW x \in Slots
        PROVE  /\ m.seats[x] = l.seats[x] + (Share(b, u, x) - Share(a, u, x))
               /\ u \in Exahm => m.exahm[x] = l.exahm[x] + (Share(b, u, x) - Share(a, u, x))
               /\ u \notin Exahm => m.exahm[x] = l.exahm[x]
               /\ m.over[x] = l.over[x] + (Reach(b, u, x) - Reach(a, u, x))
    BY <1>1, CountsMoved
  <1>4. ASSUME NEW x \in Slots
        PROVE  /\ l.seats[x] \in Nat /\ l.exahm[x] \in Nat /\ l.over[x] \in Nat
               /\ m.seats[x] \in Nat /\ m.exahm[x] \in Nat /\ m.over[x] \in Nat
               /\ Cap[x] \in Nat /\ ExahmSeats[x] \in Nat
    BY <1>1, PhysicalTyped, ProblemAssumption
  <1>5. Seats[u] \in Nat BY SeatsNat
  <1>6. CapAt(b, s)
    <2>1. Share(b, u, s) = Seats[u] /\ Share(a, u, s) = 0 BY <1>1 DEF Share
    <2>2. m.seats[s] = l.seats[s] + Seats[u] BY <2>1, <1>3, <1>4, <1>5
    <2>3. Cap[s] = 0 \/ l.seats[s] = 0 \/ l.seats[s] + Seats[u] <= Cap[s] BY DEF Feasible
    <2>4. Cap[s] = 0 \/ m.seats[s] = Seats[u] \/ m.seats[s] <= Cap[s]
      <3> HIDE DEF l, m
      <3> QED BY <2>2, <2>3, <1>4, <1>5
    <2> QED BY <2>4, <1>1, CapEntered
  <1>7. ASSUME NEW x \in Slots PROVE ExahmAt(b, x)
    <2> DEFINE S == OverrunTargets(u, s)
    <2>1. ExahmAt(a, x) BY FitsAtEvery
    <2>2. /\ Share(b, u, x) = IF x = s THEN Seats[u] ELSE 0
          /\ Reach(b, u, x) = IF x \in S THEN Seats[u] ELSE 0
          /\ Share(a, u, x) \in Nat /\ Reach(a, u, x) \in Nat
      BY <1>1, ShareTyped DEF Share, Reach
    <2>3. s \notin S /\ (u \notin Exahm => Reach(b, u, x) = 0 /\ Reach(a, u, x) = 0)
      BY ProblemAssumption DEF OverrunTargets, Reach
    <2>4. u \in Exahm /\ x \in {s} \cup S => l.exahm[x] + l.over[x] + Seats[u] <= ExahmSeats[x]
      BY DEF Feasible
    <2>5. ExahmUse(a, x) = l.exahm[x] + l.over[x] /\ ExahmUse(b, x) = m.exahm[x] + m.over[x]
      BY DEF ExahmUse
    <2>6. /\ l.exahm[x] \in Nat /\ l.over[x] \in Nat /\ m.exahm[x] \in Nat /\ m.over[x] \in Nat
          /\ ExahmSeats[x] \in Nat
      BY <1>4
    <2>7. /\ u \in Exahm => m.exahm[x] = l.exahm[x] + (Share(b, u, x) - Share(a, u, x))
          /\ u \notin Exahm => m.exahm[x] = l.exahm[x]
          /\ m.over[x] = l.over[x] + (Reach(b, u, x) - Reach(a, u, x))
      BY <1>3
    <2> HIDE DEF l, m, S
    <2>8. CASE u \notin Exahm
      <3>1. m.exahm[x] = l.exahm[x] /\ m.over[x] = l.over[x] BY <2>3, <2>6, <2>7, <2>8
      <3> QED BY <3>1, <2>1, <2>5 DEF ExahmAt
    <2>9. CASE u \in Exahm /\ x \in {s} \cup S
      <3>1. m.exahm[x] + m.over[x] <= l.exahm[x] + l.over[x] + Seats[u]
        BY <2>2, <2>3, <2>6, <2>7, <2>9, <1>5
      <3> QED BY <3>1, <2>4, <2>5, <2>6, <2>9, <1>5 DEF ExahmAt
    <2>10. CASE u \in Exahm /\ x \notin {s} \cup S
      <3>1. m.exahm[x] + m.over[x] <= l.exahm[x] + l.over[x] BY <2>2, <2>6, <2>7, <2>10
      <3> QED BY <3>1, <2>1, <2>5, <2>6 DEF ExahmAt
    <2> QED BY <2>8, <2>9, <2>10
  <1>8. \A x \in Slots : CapAt(b, x) /\ ExahmAt(b, x) BY <1>2, <1>6, <1>7
  <1> QED BY <1>1, <1>8, FitsAtEvery DEF b

\* The counts of a slot when two units exchange their slots.
LEMMA CountsSwapped ==
    ASSUME NEW a \in Assignments, NEW b \in Assignments, NEW u \in Units, NEW v \in Units, u # v,
           b[u] = a[v], b[v] = a[u], \A w \in Units \ {u, v} : b[w] = a[w],
           a[u] \in Slots, a[v] \in Slots, NEW x \in Slots, ~MayOverrun(u), ~MayOverrun(v)
    PROVE  /\ Physical(b).seats[x] = Physical(a).seats[x] + (Share(b, u, x) - Share(a, u, x))
                                                         + (Share(b, v, x) - Share(a, v, x))
           /\ Physical(b).exahm[x]
                = Physical(a).exahm[x] + (IF u \in Exahm THEN Share(b, u, x) - Share(a, u, x) ELSE 0)
                                       + (IF v \in Exahm THEN Share(b, v, x) - Share(a, v, x) ELSE 0)
           /\ Physical(b).over[x] = Physical(a).over[x]
  <1> DEFINE c == [a EXCEPT ![u] = a[v]]
             l == Physical(a)
             n == Physical(c)
             m == Physical(b)
  <1>1. /\ c \in Assignments /\ c[u] = b[u] /\ c[v] = a[v]
        /\ \A w \in Units \ {u} : c[w] = a[w]
        /\ \A w \in Units \ {v} : b[w] = c[w]
    BY DEF Assignments
  <1>2. \A w \in {u, v}, s \in {a[u], a[v]} : OverrunTargets(w, s) = {}
    BY DEF OverrunTargets, MayOverrun
  <1> HIDE DEF c
  <1>3. /\ Share(c, u, x) = Share(b, u, x) /\ Share(c, v, x) = Share(a, v, x)
        /\ Reach(a, u, x) = 0 /\ Reach(c, u, x) = 0 /\ Reach(c, v, x) = 0 /\ Reach(b, v, x) = 0
    BY <1>1, <1>2 DEF Share, Reach
  <1>4. /\ n.seats[x] = l.seats[x] + (Share(c, u, x) - Share(a, u, x))
        /\ u \in Exahm => n.exahm[x] = l.exahm[x] + (Share(c, u, x) - Share(a, u, x))
        /\ u \notin Exahm => n.exahm[x] = l.exahm[x]
        /\ n.over[x] = l.over[x] + (Reach(c, u, x) - Reach(a, u, x))
    BY <1>1, CountsMoved
  <1>5. /\ m.seats[x] = n.seats[x] + (Share(b, v, x) - Share(c, v, x))
        /\ v \in Exahm => m.exahm[x] = n.exahm[x] + (Share(b, v, x) - Share(c, v, x))
        /\ v \notin Exahm => m.exahm[x] = n.exahm[x]
        /\ m.over[x] = n.over[x] + (Reach(b, v, x) - Reach(c, v, x))
    BY <1>1, CountsMoved
  <1>6. /\ Share(a, u, x) \in Nat /\ Share(b, u, x) \in Nat /\ Share(a, v, x) \in Nat /\ Share(b, v, x) \in Nat
        /\ l.seats[x] \in Nat /\ l.exahm[x] \in Nat /\ l.over[x] \in Nat
    BY PhysicalTyped, ShareTyped
  <1> HIDE DEF l, n, m
  <1>7. /\ m.seats[x] = l.seats[x] + (Share(b, u, x) - Share(a, u, x)) + (Share(b, v, x) - Share(a, v, x))
        /\ m.over[x] = l.over[x]
    BY <1>3, <1>4, <1>5, <1>6
  <1>8. m.exahm[x] = l.exahm[x] + (IF u \in Exahm THEN Share(b, u, x) - Share(a, u, x) ELSE 0)
                                + (IF v \in Exahm THEN Share(b, v, x) - Share(a, v, x) ELSE 0)
    BY <1>3, <1>4, <1>5, <1>6
  <1> QED BY <1>7, <1>8 DEF l, m

\* canSwap: each of the two slots has seats for the one that comes, without the
\* one that goes.
LEMMA FitsSwapped ==
    ASSUME NEW a \in Assignments, Fits(a, Physical(a)), NEW u \in Units, NEW v \in Units, u # v,
           CanSwap(a, Physical(a), u, v)
    PROVE  LET b == [[a EXCEPT ![u] = a[v]] EXCEPT ![v] = a[u]] IN Fits(b, Physical(b))
  <1> DEFINE c == [a EXCEPT ![u] = a[v]]
             b == [c EXCEPT ![v] = a[u]]
             l == Physical(a)
             m == Physical(b)
  <1>1. /\ a[u] \in Slots /\ a[v] \in Slots /\ a[u] # a[v] /\ ~MayOverrun(u) /\ ~MayOverrun(v)
        /\ MayTakePlaceOf(a, l, u, v) /\ MayTakePlaceOf(a, l, v, u)
    BY DEF CanSwap, Assignments, Places
  <1>2. /\ b \in Assignments /\ c \in Assignments /\ b[u] = a[v] /\ b[v] = a[u]
        /\ \A w \in Units \ {u, v} : b[w] = a[w]
        /\ a[u] \in Places /\ a[v] \in Places
    BY <1>1 DEF Assignments, Places
  <1>3. ASSUME NEW x \in Slots, x # a[u], x # a[v] PROVE CapAt(b, x)
    <2>1. CapAt(a, x) BY FitsAtEvery
    <2>2. CapAt(c, x) BY <2>1, <1>2, <1>3, CapLeft
    <2> HIDE DEF c
    <2> QED BY <2>2, <1>2, <1>3, CapLeft
  <1> HIDE DEF b, c
  <1>4. ASSUME NEW x \in Slots
        PROVE  /\ m.seats[x] = l.seats[x] + (Share(b, u, x) - Share(a, u, x)) + (Share(b, v, x) - Share(a, v, x))
               /\ m.exahm[x] = l.exahm[x] + (IF u \in Exahm THEN Share(b, u, x) - Share(a, u, x) ELSE 0)
                                          + (IF v \in Exahm THEN Share(b, v, x) - Share(a, v, x) ELSE 0)
               /\ m.over[x] = l.over[x]
    BY <1>1, <1>2, CountsSwapped
  <1>5. ASSUME NEW x \in Slots
        PROVE  /\ l.seats[x] \in Nat /\ l.exahm[x] \in Nat /\ l.over[x] \in Nat
               /\ m.seats[x] \in Nat /\ m.exahm[x] \in Nat /\ m.over[x] \in Nat
               /\ Cap[x] \in Nat /\ ExahmSeats[x] \in Nat
               /\ ExahmUse(a, x) = l.exahm[x] + l.over[x] /\ ExahmUse(b, x) = m.exahm[x] + m.over[x]
               /\ ExahmAt(a, x)
    BY <1>2, PhysicalTyped, ProblemAssumption, FitsAtEvery DEF ExahmUse
  <1>6. ASSUME NEW x \in Slots, x # a[u], x # a[v] PROVE ExahmAt(b, x)
    <2>1. Share(b, u, x) = 0 /\ Share(a, u, x) = 0 /\ Share(b, v, x) = 0 /\ Share(a, v, x) = 0
      BY <1>2, <1>6 DEF Share
    <2>2. ExahmUse(b, x) = ExahmUse(a, x)
      <3> HIDE DEF l, m
      <3> QED BY <2>1, <1>4, <1>5
    <2> QED BY <2>2, <1>5 DEF ExahmAt
  \* y comes to the slot x of z, which goes.
  <1>7. ASSUME NEW y \in Units, NEW z \in Units, NEW x \in Slots, b[y] = x, a[z] = x, a[y] # x, b[z] # x,
               MayTakePlaceOf(a, l, y, z),
               /\ m.seats[x] = l.seats[x] + (Share(b, y, x) - Share(a, y, x)) + (Share(b, z, x) - Share(a, z, x))
               /\ m.exahm[x] = l.exahm[x] + (IF y \in Exahm THEN Share(b, y, x) - Share(a, y, x) ELSE 0)
                                          + (IF z \in Exahm THEN Share(b, z, x) - Share(a, z, x) ELSE 0)
               /\ m.over[x] = l.over[x]
        PROVE  CapAt(b, x) /\ ExahmAt(b, x)
    <2>1. /\ Share(b, y, x) = Seats[y] /\ Share(a, y, x) = 0
          /\ Share(b, z, x) = 0 /\ Share(a, z, x) = Seats[z]
          /\ Seats[y] \in Nat /\ Seats[z] \in Nat
      BY <1>7, SeatsNat DEF Share
    <2>2. /\ Cap[x] = 0 \/ l.seats[x] = Seats[z] \/ l.seats[x] - Seats[z] + Seats[y] <= Cap[x]
          /\ y \in Exahm => l.exahm[x] + l.over[x] - (IF z \in Exahm THEN Seats[z] ELSE 0) + Seats[y]
                               <= ExahmSeats[x]
      BY <1>7 DEF MayTakePlaceOf
    <2> HIDE DEF l, m
    <2>3. m.seats[x] = l.seats[x] - Seats[z] + Seats[y] BY <2>1, <1>5, <1>7
    <2>4. m.exahm[x] = l.exahm[x] + (IF y \in Exahm THEN Seats[y] ELSE 0) - (IF z \in Exahm THEN Seats[z] ELSE 0)
      BY <2>1, <1>5, <1>7
    <2>5. Cap[x] = 0 \/ m.seats[x] = Seats[y] \/ m.seats[x] <= Cap[x] BY <2>1, <2>2, <2>3, <1>5
    <2>6. CapAt(b, x) BY <2>5, <1>2, <1>7, CapEntered DEF m
    <2>7. CASE y \in Exahm
      <3>1. m.exahm[x] + m.over[x] <= ExahmSeats[x] BY <2>1, <2>2, <2>4, <2>7, <1>5, <1>7
      <3> QED BY <3>1, <2>6, <1>5 DEF ExahmAt
    <2>8. CASE y \notin Exahm
      <3>1. m.exahm[x] + m.over[x] <= l.exahm[x] + l.over[x] BY <2>1, <2>4, <2>8, <1>5, <1>7
      <3> QED BY <3>1, <2>6, <1>5 DEF ExahmAt
    <2> QED BY <2>7, <2>8
  <1>8. CapAt(b, a[v]) /\ ExahmAt(b, a[v])
    <2> DEFINE x == a[v]
    <2>1. x \in Slots /\ b[u] = x /\ a[v] = x /\ a[u] # x /\ b[v] # x BY <1>1, <1>2
    <2> HIDE DEF x
    <2>2. CapAt(b, x) /\ ExahmAt(b, x) BY <2>1, <1>1, <1>4, <1>7
    <2> QED BY <2>2 DEF x
  <1>9. CapAt(b, a[u]) /\ ExahmAt(b, a[u])
    <2> DEFINE x == a[u]
    <2>1. x \in Slots /\ b[v] = x /\ a[u] = x /\ a[v] # x /\ b[u] # x BY <1>1, <1>2
    <2>2. /\ m.seats[x] = l.seats[x] + (Share(b, v, x) - Share(a, v, x)) + (Share(b, u, x) - Share(a, u, x))
          /\ m.exahm[x] = l.exahm[x] + (IF v \in Exahm THEN Share(b, v, x) - Share(a, v, x) ELSE 0)
                                     + (IF u \in Exahm THEN Share(b, u, x) - Share(a, u, x) ELSE 0)
          /\ m.over[x] = l.over[x]
      <3>1. /\ Share(a, u, x) \in Nat /\ Share(b, u, x) \in Nat
            /\ Share(a, v, x) \in Nat /\ Share(b, v, x) \in Nat
        BY ShareTyped
      <3> HIDE DEF l, m, x
      <3> QED BY <3>1, <2>1, <1>4, <1>5
    <2> HIDE DEF x
    <2>3. CapAt(b, x) /\ ExahmAt(b, x) BY <2>1, <2>2, <1>1, <1>7
    <2> QED BY <2>3 DEF x
  <1>10. \A x \in Slots : CapAt(b, x) /\ ExahmAt(b, x) BY <1>3, <1>6, <1>8, <1>9
  <1> QED BY <1>2, <1>10, FitsAtEvery DEF b, c

LEMMA InitFit == Init => FitKept
  <1> SUFFICES ASSUME Init PROVE FitKept OBVIOUS
  <1>1. slotOf = OnlyFixed /\ load = PlacedLoad BY DEF Init, PlacedLoad
  <1>2. phase \in {"warm", "fill"} BY DEF Init
  <1>3. FixedFits => Fits(slotOf, load) BY <1>1, PlacedExact DEF FixedFits
  <1>4. todo = Movable BY DEF Init
  <1>5. \A u \in todo : slotOf[u] = None BY <1>1, <1>4 DEF OnlyFixed, Movable
  <1> QED BY <1>2, <1>3, <1>5 DEF FitKept

\* The placement of a unit keeps what the slots hold.
LEMMA PlaceFits ==
    ASSUME BooksKept, FixedFits => Fits(slotOf, load), NEW u \in Units, NEW s \in Slots,
           s # slotOf[u], Feasible(slotOf, load, u, s), Place(u, s)
    PROVE  FixedFits => Fits(slotOf', load')
  <1> SUFFICES ASSUME FixedFits PROVE Fits(slotOf', load') OBVIOUS
  <1>1. slotOf \in Assignments /\ load = Physical(slotOf) BY DEF BooksKept, Assignments
  <1>2. slotOf' = [slotOf EXCEPT ![u] = s] /\ load' = Physical(slotOf')
    BY PlaceExact DEF Places
  <1>3. Fits(slotOf, Physical(slotOf)) /\ Feasible(slotOf, Physical(slotOf), u, s) BY <1>1
  <1> DEFINE b == [slotOf EXCEPT ![u] = s]
  <1>4. Fits(b, Physical(b)) BY <1>1, <1>3, FitsMoved
  <1>5. slotOf' = b BY <1>2
  <1> HIDE DEF b
  <1> QED BY <1>2, <1>4, <1>5

LEMMA NextFit == IInv /\ BooksKept /\ FitKept /\ [Next]_vars => FitKept'
  <1> SUFFICES ASSUME IInv, BooksKept, FitKept, [Next]_vars PROVE FitKept' OBVIOUS
  <1>a. slotOf \in Assignments /\ load = Physical(slotOf) BY DEF BooksKept, Assignments
  <1>b. todo \subseteq Units /\ left \subseteq Units BY Finiteness DEF IInv
  <1>c. FixedFits => Fits(slotOf, load) BY DEF FitKept
  \* FixedFits is about the constants.
  <1>f. FixedFits' = FixedFits
    BY DEF FixedFits, Fits, OnlyFixed, Physical, Counted, Overrunning, OverrunTargets
  <1>d. ASSUME FixedFits => Fits(slotOf', load'), phase' = "fill" PROVE FitKept'
    BY <1>d, <1>f DEF FitKept, Fits
  <1>e. ASSUME FixedFits => Fits(slotOf', load'), FixedFits => Fits(best'.slotOf, best'.load),
               phase' \in {"anneal", "done"}
        PROVE  FitKept'
    BY <1>e, <1>f DEF FitKept, Fits
  <1>h. ASSUME FixedFits => Fits(slotOf', load'), Earlier' = Current, UNCHANGED best,
               phase = "anneal", phase' = "proposed"
        PROVE  FitKept'
    <2>1. FixedFits => Fits(best.slotOf, best.load) BY <1>h DEF FitKept
    <2>2. FixedFits => Fits(Earlier'.slotOf, Earlier'.load) BY <1>h, <1>c DEF Current
    <2> QED BY <2>1, <2>2, <1>f, <1>h DEF FitKept, Fits
  <1>s. ASSUME UNCHANGED vars PROVE FitKept'
    <2>1. /\ slotOf' = slotOf /\ load' = load /\ phase' = phase /\ todo' = todo /\ best' = best
      BY <1>s DEF vars, input
    <2>2. Earlier' = Earlier BY <1>s DEF vars, input, Earlier, Current, UndoAll, UndoMove
    <2> QED BY <2>1, <2>2, <1>f DEF FitKept, Fits
  <1>1. ASSUME ConstructWarm PROVE FitKept'
    <2>1. PICK u \in todo :
             /\ todo' = todo \ {u}
             /\ IF startSlot[u] # None /\ Feasible(slotOf, load, u, startSlot[u])
                THEN Place(u, startSlot[u]) ELSE UNCHANGED <<slotOf, load>>
      BY <1>1 DEF ConstructWarm
    <2>2. phase = "warm" /\ phase' = "warm" BY <1>1 DEF ConstructWarm
    <2>3. (\A v \in todo' : slotOf'[v] = None) /\ (FixedFits => Fits(slotOf', load'))
      <3>0. u \in Units /\ \A v \in todo : slotOf[v] = None BY <2>2, <1>b DEF FitKept
      <3>1. CASE startSlot[u] # None /\ Feasible(slotOf, load, u, startSlot[u])
        <4> DEFINE s == startSlot[u]
        <4>1. s \in Slots BY <3>0, <3>1, ProblemAssumption DEF Feasible
        <4>2. s # slotOf[u] /\ Place(u, s) BY <3>0, <3>1, <2>1
        <4>3. slotOf' = [slotOf EXCEPT ![u] = s] BY <4>2 DEF Place
        <4>4. \A v \in todo' : slotOf'[v] = None BY <4>3, <3>0, <2>1, <1>a, <1>b DEF Assignments
        <4>5. Feasible(slotOf, load, u, s) BY <3>1
        <4> HIDE DEF s
        <4>6. FixedFits => Fits(slotOf', load') BY <4>1, <4>2, <4>5, <3>0, <1>c, PlaceFits
        <4> QED BY <4>4, <4>6
      <3>2. CASE ~(startSlot[u] # None /\ Feasible(slotOf, load, u, startSlot[u]))
        <4>1. UNCHANGED <<slotOf, load>> BY <3>2, <2>1
        <4> QED BY <4>1, <3>0, <2>1, <1>c
      <3> QED BY <3>1, <3>2
    <2> QED BY <2>2, <2>3, <1>f DEF FitKept, Fits
  <1>2. ASSUME FillRemaining PROVE FitKept'
    <2>1. PICK u \in left : \/ \E s \in FeasibleSlots(u) : Place(u, s)
                            \/ FeasibleSlots(u) = {} /\ UNCHANGED <<slotOf, load>>
      BY <1>2 DEF FillRemaining
    <2>2. phase' = "fill" BY <1>2 DEF FillRemaining
    <2>3. FixedFits => Fits(slotOf', load')
      <3>1. ASSUME NEW s \in FeasibleSlots(u), Place(u, s) PROVE FixedFits => Fits(slotOf', load')
        <4>1. u \in Units /\ s \in Slots /\ s # slotOf[u] /\ Feasible(slotOf, load, u, s)
          BY <1>b DEF FeasibleSlots
        <4> QED BY <4>1, <3>1, <1>c, PlaceFits
      <3> QED BY <3>1, <2>1, <1>c
    <2> QED BY <2>2, <2>3, <1>d
  <1>3. ASSUME StartAnneal PROVE FitKept'
    <2>1. /\ UNCHANGED <<slotOf, load>> /\ phase' = "anneal"
          /\ best'.slotOf = slotOf /\ best'.load = load
      BY <1>3 DEF StartAnneal
    <2> QED BY <2>1, <1>c, <1>e
  <1>4. ASSUME NEW u \in Movable, NEW s \in Slots, Relocate(u, s) PROVE FitKept'
    <2>1. /\ UNCHANGED best /\ phase = "anneal" /\ phase' = "proposed"
          /\ s # slotOf[u] /\ Feasible(slotOf, load, u, s) /\ Place(u, s)
      BY <1>4 DEF Relocate
    <2>2. Earlier' = Current BY <1>4, RelocateExact
    <2>3. FixedFits => Fits(slotOf', load') BY <2>1, <1>c, PlaceFits, Finiteness
    <2> QED BY <2>1, <2>2, <2>3, <1>h
  <1>5. ASSUME NEW u \in Movable, NEW v \in Movable, Swap(u, v) PROVE FitKept'
    <2>1. /\ UNCHANGED best /\ phase = "anneal" /\ phase' = "proposed"
          /\ u # v /\ CanSwap(slotOf, load, u, v)
      BY <1>5 DEF Swap
    <2>2. Earlier' = Current /\ load' = Physical(slotOf')
          /\ slotOf' = [[slotOf EXCEPT ![u] = slotOf[v]] EXCEPT ![v] = slotOf[u]]
      BY <1>5, SwapExact
    <2>3. FixedFits => Fits(slotOf', load')
      <3> DEFINE b == [[slotOf EXCEPT ![u] = slotOf[v]] EXCEPT ![v] = slotOf[u]]
      <3>1. slotOf' = b BY <2>2
      <3>2. CanSwap(slotOf, Physical(slotOf), u, v) /\ u \in Units /\ v \in Units
            /\ (FixedFits => Fits(slotOf, Physical(slotOf)))
        BY <2>1, <1>a, <1>c, Finiteness
      <3>3. FixedFits => Fits(b, Physical(b)) BY <3>2, <2>1, <1>a, FitsSwapped
      <3> HIDE DEF b
      <3> QED BY <3>1, <3>3, <2>2
    <2> QED BY <2>1, <2>2, <2>3, <1>h
  <1>6. ASSUME Accept PROVE FitKept'
    <2>1. /\ UNCHANGED <<slotOf, load>> /\ phase = "proposed" /\ phase' = "anneal"
          /\ (best'.slotOf = slotOf /\ best'.load = load) \/ best' = best
      BY <1>6 DEF Accept
    <2>2. FixedFits => Fits(best.slotOf, best.load) BY <2>1 DEF FitKept
    <2> QED BY <2>1, <2>2, <1>c, <1>e
  <1>7. ASSUME Reject PROVE FitKept'
    <2>1. /\ slotOf' = Earlier.slotOf /\ load' = Earlier.load
          /\ UNCHANGED best /\ phase = "proposed" /\ phase' = "anneal"
      BY <1>7 DEF Reject, Earlier, Current
    <2>2. /\ FixedFits => Fits(best.slotOf, best.load)
          /\ FixedFits => Fits(Earlier.slotOf, Earlier.load)
      BY <2>1 DEF FitKept
    <2> QED BY <2>1, <2>2, <1>e
  <1>8. ASSUME Finish PROVE FitKept'
    <2>1. /\ slotOf' = best.slotOf /\ load' = best.load /\ UNCHANGED best
          /\ phase = "anneal" /\ phase' = "done"
      BY <1>8 DEF Finish
    <2>2. FixedFits => Fits(best.slotOf, best.load) BY <2>1 DEF FitKept
    <2> QED BY <2>1, <2>2, <1>e
  <1> QED BY <1>s, <1>1, <1>2, <1>3, <1>4, <1>5, <1>6, <1>7, <1>8 DEF Next

\* capacityC: if the fixed units alone fit their slots, then every assignment
\* the solver passes through, and the one it returns, does: several exams share
\* a slot only within its cap, and the EXaHM exams in it and overrunning into it
\* are within its booked seats.
THEOREM CapacityCorrect ==
    ASSUME FixedFits PROVE Spec => []CapacityKept
  <1>1. FitKept => CapacityKept BY DEF FitKept, CapacityKept
  <1> QED BY <1>1, InitIInv, NextIInv, InitBooks, NextBooks, InitFit, NextFit, PTL DEF Spec

-----------------------------------------------------------------------------
(* The best state *)

\* The cost of an assignment without its unplaced units.
SoftOf(a) == SoftCost(InitCost(a, Physical(a)))

LEMMA SumTyped ==
    ASSUME NEW S, IsFiniteSet(S), NEW f, DOMAIN f = S, \A x \in S : f[x] \in Int
    PROVE  SumFunction(f) \in Int
  <1>1. SumFunction(f) = SumFunctionOnSet(f, S) BY SumOfFunction
  <1> QED BY <1>1, SumInt

LEMMA HolesTyped ==
    ASSUME NEW l, NEW d
    PROVE  Hole * DayHoleCount(l, d) \in Int
  <1> DEFINE day == {x \in Slots : DayOf[x] = d}
             used == {x \in day : l.own[x] > 0}
             holes == {x \in day \ used : \E y, z \in used : Start[y] < Start[x] /\ Start[x] < Start[z]}
             n == DayHoleCount(l, d)
  <1>1. holes \in SUBSET Slots OBVIOUS
  <1>2. n = Cardinality(holes) BY DEF DayHoleCount
  <1> HIDE DEF holes, n
  <1>3. IsFiniteSet(holes) BY ONLY <1>1, Finiteness, FS_Subset
  <1>4. n \in Nat BY ONLY <1>2, <1>3, FS_CardinalityType
  <1>5. Hole \in Nat BY ProblemAssumption
  <1> HIDE DEF n
  <1>6. Hole * n \in Int BY ONLY <1>4, <1>5
  <1> QED BY <1>6 DEF n

LEMMA SoftTyped ==
    ASSUME NEW a \in Assignments
    PROVE  SoftOf(a) \in Int /\ Cardinality(Open(a)) \in Nat
  <1> DEFINE l == Physical(a)
             days == {DayOf[x] : x \in Slots}
             t == InitCost(a, l)
  <1>1. t.spread \in Int
    <2> DEFINE f == [st \in Students |-> Convex(Penalties(a)[st])]
    <2>1. \A st \in Students : f[st] \in Int BY TermsTyped, ConvexNat DEF Penalties
    <2>2. IsFiniteSet(Students) /\ DOMAIN f = Students BY Finiteness
    <2>3. t.spread = SumFunction(f) BY DEF InitCost, SpreadCost
    <2> HIDE DEF f
    <2> QED BY <2>1, <2>2, <2>3, SumTyped
  <1>2. t.attract \in Int
    <2> DEFINE f == [p \in AttractPairs |-> PairDistance(a, p)]
    <2>1. \A p \in AttractPairs : f[p] \in Int BY TermsTyped, ProblemAssumption
    <2>2. IsFiniteSet(AttractPairs) /\ DOMAIN f = AttractPairs BY Finiteness
    <2>3. t.attract = SumFunction(f) BY DEF InitCost, AttractCost
    <2> HIDE DEF f
    <2> QED BY <2>1, <2>2, <2>3, SumTyped
  <1>3. t.load \in Int
    <2> DEFINE f == [x \in Slots |-> LoadPenalty(l.seats[x])]
    <2>1. \A x \in Slots : f[x] \in Int BY SlotTermsTyped
    <2>2. IsFiniteSet(Slots) /\ DOMAIN f = Slots BY Finiteness
    <2>3. t.load = SumFunction(f) BY DEF InitCost, LoadCost
    <2> HIDE DEF f
    <2> QED BY <2>1, <2>2, <2>3, SumTyped
  <1>4. t.fill \in Int
    <2> DEFINE f == [x \in Slots |-> TbauPenalty(l, x)]
    <2>1. \A x \in Slots : f[x] \in Int BY SlotTermsTyped
    <2>2. IsFiniteSet(Slots) /\ DOMAIN f = Slots BY Finiteness
    <2>3. t.fill = SumFunction(f) BY DEF InitCost, FillCost
    <2> HIDE DEF f
    <2> QED BY <2>1, <2>2, <2>3, SumTyped
  <1>5. t.hole \in Int
    <2> DEFINE f == [d \in days |-> Hole * DayHoleCount(l, d)]
    <2>1. \A d \in days : f[d] \in Int BY HolesTyped
    <2>2. IsFiniteSet(days) /\ DOMAIN f = days BY Finiteness, ImageFinite
    <2>3. t.hole = SumFunction(f) BY DEF InitCost, HoleCost
    <2> HIDE DEF f, days
    <2> QED BY <2>1, <2>2, <2>3, SumTyped
  <1>6. t.time \in Int
    <2> DEFINE f == [u \in Units |-> TimeOf(u, a[u])]
    <2>1. \A u \in Units : f[u] \in Int BY TermsTyped DEF Assignments
    <2>2. IsFiniteSet(Units) /\ DOMAIN f = Units BY Finiteness
    <2>3. t.time = SumFunction(f) BY DEF InitCost, TimeCost
    <2> HIDE DEF f
    <2> QED BY <2>1, <2>2, <2>3, SumTyped
  <1>7. IsFiniteSet(Open(a)) BY Finiteness, FS_Subset DEF Open
  <1>8. Cardinality(Open(a)) \in Nat BY <1>7, FS_CardinalityType
  <1>9. SoftOf(a) = SoftCost(t) BY DEF SoftOf
  <1> HIDE DEF t
  <1> QED BY <1>1, <1>2, <1>3, <1>4, <1>5, <1>6, <1>8, <1>9 DEF SoftCost

\* The cost of an assignment: the soft terms, and the penalty for each unplaced
\* unit.
LEMMA CostOfAssignment ==
    ASSUME NEW x, Canonical(x)
    PROVE  /\ x.slotOf \in Assignments
           /\ Cost(x.total) = SoftOf(x.slotOf) + Unplaced * Cardinality(Open(x.slotOf))
           /\ Cost(x.total) \in Int
  <1> DEFINE a == x.slotOf
  <1>1. a \in Assignments /\ x.total = InitCost(a, Physical(a)) BY DEF Canonical, Assignments
  <1>2. x.total.unplaced = Cardinality(Open(a)) BY <1>1 DEF InitCost
  <1>3. SoftCost(x.total) = SoftOf(a) BY <1>1 DEF SoftOf
  <1>4. Cost(x.total) = SoftOf(a) + Unplaced * Cardinality(Open(a)) BY <1>2, <1>3 DEF Cost
  <1>5. SoftOf(a) \in Int /\ Cardinality(Open(a)) \in Nat BY <1>1, SoftTyped
  <1>6. Unplaced \in Nat BY ProblemAssumption
  <1> DEFINE n == Cardinality(Open(a))
  <1> HIDE DEF n
  <1>7. Unplaced * n \in Int BY <1>5, <1>6 DEF n
  <1>8. SoftOf(a) + Unplaced * n \in Int BY <1>5, <1>7
  <1> QED BY <1>1, <1>4, <1>8 DEF n

LEMMA NextCheapest == IInv /\ BooksKept /\ CheapestKept /\ [Next]_vars => CheapestKept'
  <1> SUFFICES ASSUME IInv, BooksKept, CheapestKept, [Next]_vars PROVE CheapestKept' OBVIOUS
  <1>a. ASSUME phase' \in {"warm", "fill", "done"} PROVE CheapestKept' BY <1>a DEF CheapestKept
  <1>b. ASSUME phase' = "anneal", Cost(best'.total) <= Cost(total'), Open(slotOf') \subseteq Open(best'.slotOf)
        PROVE  CheapestKept'
    BY <1>b DEF CheapestKept, Cost, SoftCost, Open
  <1>c. ASSUME phase = "anneal", phase' = "proposed", UNCHANGED best, Earlier' = Current,
               Open(slotOf') \subseteq Open(slotOf)
        PROVE  CheapestKept'
    <2>1. Cost(best.total) <= Cost(total) /\ Open(slotOf) \subseteq Open(best.slotOf)
      BY <1>c DEF CheapestKept
    <2>2. Earlier'.total = total /\ Earlier'.slotOf = slotOf /\ best' = best BY <1>c DEF Current
    <2>3. Cost(best'.total) <= Cost(Earlier'.total) /\ Open(Earlier'.slotOf) \subseteq Open(best'.slotOf)
      BY <2>1, <2>2
    <2>4. Open(slotOf') \subseteq Open(Earlier'.slotOf) BY <1>c, <2>2
    <2>5. (Cost(best.total) <= Cost(Earlier.total))' /\ (Open(Earlier.slotOf) \subseteq Open(best.slotOf))'
      BY <2>3 DEF Cost, SoftCost, Open
    <2>6. (Open(slotOf) \subseteq Open(Earlier.slotOf))' BY <2>4 DEF Open
    <2> QED BY <1>c, <2>5, <2>6 DEF CheapestKept
  <1>s. ASSUME UNCHANGED vars PROVE CheapestKept'
    <2>1. UNCHANGED <<slotOf, load, total, best, undo, phase>> BY <1>s DEF vars
    <2>2. Earlier' = Earlier BY <2>1 DEF Earlier, Current, UndoAll, UndoMove
    <2> QED BY <2>1, <2>2, SMTT(30) DEF CheapestKept, Cost, SoftCost, Open
  <1>1. ASSUME ConstructWarm PROVE CheapestKept' BY <1>1, <1>a DEF ConstructWarm
  <1>2. ASSUME FillRemaining PROVE CheapestKept' BY <1>2, <1>a DEF FillRemaining
  <1>3. ASSUME StartAnneal PROVE CheapestKept'
    <2>1. /\ phase' = "anneal" /\ best'.total = total' /\ best'.slotOf = slotOf' /\ phase' # "proposed"
      BY <1>3 DEF StartAnneal
    <2>2. Canonical(Current') /\ Canonical(Current)'
      <3>1. BooksKept' BY NextBooks
      <3> QED BY <3>1, <2>1 DEF BooksKept, Canonical, Current
    <2>3. Cost(total') \in Int BY <2>2, CostOfAssignment DEF Current
    <2> QED BY <2>1, <2>3, <1>b
  <1>4. ASSUME NEW u \in Movable, NEW s \in Slots, Relocate(u, s) PROVE CheapestKept'
    <2>1. UNCHANGED best /\ phase = "anneal" /\ phase' = "proposed" BY <1>4 DEF Relocate
    <2>2. slotOf' = [slotOf EXCEPT ![u] = s] /\ Earlier' = Current BY <1>4, RelocateExact
    <2>3. Open([slotOf EXCEPT ![u] = s]) = Open(slotOf) \ {u}
      <3>1. slotOf \in Assignments BY DEF BooksKept, Assignments
      <3> QED BY <3>1, OpenMoved
    <2>4. Open(slotOf') = Open(slotOf) \ {u} BY <2>2, <2>3
    <2> QED BY <2>1, <2>2, <2>4, <1>c
  <1>5. ASSUME NEW u \in Movable, NEW v \in Movable, Swap(u, v) PROVE CheapestKept'
    <2>1. UNCHANGED best /\ phase = "anneal" /\ phase' = "proposed" BY <1>5 DEF Swap
    <2>2. /\ slotOf[u] \in Slots /\ slotOf[v] \in Slots
          /\ slotOf' = [[slotOf EXCEPT ![u] = slotOf[v]] EXCEPT ![v] = slotOf[u]]
          /\ Earlier' = Current
      BY <1>5, SwapExact
    <2>3. slotOf \in [Units -> Places] BY DEF BooksKept
    <2>4. Open(slotOf') = Open(slotOf) BY <2>2, <2>3, Finiteness DEF Open
    <2> QED BY <2>1, <2>2, <2>4, <1>c
  <1>6. ASSUME Accept PROVE CheapestKept'
    <2>1. /\ UNCHANGED <<slotOf, load, total>> /\ phase = "proposed" /\ phase' = "anneal"
          /\ best' = IF Cost(total) < Cost(best.total) THEN Current ELSE best
      BY <1>6 DEF Accept, Current
    <2>2. Canonical(Current) /\ Canonical(best) BY <2>1 DEF BooksKept
    <2>3. Cost(total) \in Int /\ Cost(best.total) \in Int
      BY <2>2, CostOfAssignment DEF Current
    <2>4. CASE Cost(total) < Cost(best.total)
      <3>1. best' = Current BY <2>1, <2>4
      <3>2. best'.total = total' /\ best'.slotOf = slotOf' BY <3>1, <2>1 DEF Current
      <3>3. Cost(total') \in Int BY <2>1, <2>3
      <3> QED BY <3>2, <3>3, <2>1, <1>b
    <2>5. CASE ~(Cost(total) < Cost(best.total))
      <3>1. best' = best /\ total' = total /\ slotOf' = slotOf BY <2>1, <2>5
      <3>2. Open(slotOf) \subseteq Open(best.slotOf) BY <2>1 DEF CheapestKept
      <3>3. Cost(best'.total) <= Cost(total') BY <3>1, <2>3, <2>5
      <3>4. Open(slotOf') \subseteq Open(best'.slotOf) BY <3>1, <3>2
      <3> QED BY <3>3, <3>4, <2>1, <1>b
    <2> QED BY <2>4, <2>5
  <1>7. ASSUME Reject PROVE CheapestKept'
    <2>1. /\ slotOf' = Earlier.slotOf /\ total' = Earlier.total /\ best' = best
          /\ phase = "proposed" /\ phase' = "anneal"
      BY <1>7 DEF Reject, Earlier, Current
    <2>2. Cost(best.total) <= Cost(Earlier.total) /\ Open(Earlier.slotOf) \subseteq Open(best.slotOf)
      BY <2>1 DEF CheapestKept
    <2>3. Cost(best'.total) <= Cost(total') /\ Open(slotOf') \subseteq Open(best'.slotOf) BY <2>1, <2>2
    <2> QED BY <2>1, <2>3, <1>b
  <1>8. ASSUME Finish PROVE CheapestKept' BY <1>8, <1>a DEF Finish
  <1> QED BY <1>s, <1>1, <1>2, <1>3, <1>4, <1>5, <1>6, <1>7, <1>8 DEF Next

\* anneal.go:110: the engine's best state is never worse than the current one, its
\* totals are its own, and a unit it places is placed in every state the engine
\* visits from then on, for all weights.
THEOREM BestIsCheapest == Spec => []BestKept
  <1>1. Init => CheapestKept BY DEF Init, CheapestKept
  <1>2. BooksKept /\ CheapestKept => BestKept
    <2> SUFFICES ASSUME BooksKept, CheapestKept PROVE BestKept OBVIOUS
    <2>1. phase \in {"anneal", "proposed", "done"} => best.total = InitCost(best.slotOf, best.load)
      BY DEF BooksKept, Canonical
    <2>2. phase = "anneal" => Cost(best.total) <= Cost(total) BY DEF CheapestKept
    <2>3. phase \in {"anneal", "proposed"} => Open(slotOf) \subseteq Open(best.slotOf) BY DEF CheapestKept
    <2> QED BY <2>1, <2>2, <2>3 DEF BestKept
  <1> QED BY <1>1, <1>2, NextCheapest, InitIInv, NextIInv, InitBooks, NextBooks, PTL DEF Spec

-----------------------------------------------------------------------------
(* The types *)

\* Units sit in slots, no seat count is negative, and a proposal consists of one
\* or two moves.
THEOREM TypeCorrect == Spec => []TypeOK
  <1> DEFINE UndoShape == undo = <<>> \/ Len(undo) \in {1, 2}
  <1>1. Init => UndoShape
    <2>1. Init => undo = <<>> BY DEF Init
    <2> QED BY <2>1
  <1>2. UndoShape /\ [Next]_vars => UndoShape'
    <2> SUFFICES ASSUME UndoShape, [Next]_vars PROVE UndoShape' OBVIOUS
    <2>1. ASSUME ConstructWarm \/ FillRemaining \/ StartAnneal \/ Finish \/ UNCHANGED vars
          PROVE  UndoShape'
      BY <2>1 DEF ConstructWarm, FillRemaining, StartAnneal, Finish, vars
    <2>2. ASSUME NEW u \in Movable, NEW s \in Slots, Relocate(u, s) PROVE UndoShape'
      BY <2>2 DEF Relocate
    <2>3. ASSUME NEW u \in Movable, NEW v \in Movable, Swap(u, v) PROVE UndoShape'
      BY <2>3 DEF Swap
    <2>4. ASSUME Accept \/ Reject PROVE UndoShape'
      BY <2>4 DEF Accept, Reject
    <2> QED BY <2>1, <2>2, <2>3, <2>4 DEF Next
  <1>3. IInv /\ BooksKept /\ UndoShape => TypeOK
    <2> SUFFICES ASSUME IInv, BooksKept, UndoShape PROVE TypeOK OBVIOUS
    <2>1. slotOf \in [Units -> Places] /\ best.slotOf \in [Units -> Places]
          /\ todo \subseteq Movable /\ left \subseteq Movable
      BY DEF IInv, Good
    <2>2. Len(undo) \in 0..2 OBVIOUS
    <2>3. load = Physical(slotOf) /\ phase \in {"warm", "fill", "anneal", "proposed", "done"}
      BY DEF BooksKept
    <2>4. /\ load \in Loads
          /\ \A x \in Slots : load.seats[x] \in Nat /\ load.own[x] \in Nat /\ load.exahm[x] \in Nat
                              /\ load.seb[x] \in Nat /\ load.over[x] \in Nat
      BY <2>1, <2>3, PhysicalTyped DEF Assignments
    <2>5. \A f \in {load.seats, load.own, load.exahm, load.seb, load.over} : f \in [Slots -> Nat]
      BY <2>4 DEF Loads
    <2> HIDE DEF UndoShape
    <2> QED BY <2>1, <2>2, <2>3, <2>5 DEF TypeOK
  <1> QED BY <1>1, <1>2, <1>3, InitIInv, NextIInv, InitBooks, NextBooks, PTL DEF Spec
=============================================================================
