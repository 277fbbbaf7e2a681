------------------------------ MODULE SetFolds ------------------------------
(***************************************************************************)
(* Facts about folds over a finite set, and about the sum of a function over *)
(* a finite set, which the solvers keep up to date by differences.  A fold   *)
(* is defined by recursion over the set; induction over the set is an        *)
(* argument about a family of subsets that is closed under adding an element.*)
(***************************************************************************)
EXTENDS Integers, FiniteSets, FiniteSetsExt, Functions, FiniteSetTheorems, NaturalsInduction, TLAPS

\* A nonempty set of naturals has a least element.
LEMMA LeastNatural ==
  ASSUME NEW P \in SUBSET Nat, P # {}
  PROVE  \E n \in P : \A m \in P : n <= m
<1> DEFINE R == OpToRel(<, Nat)
<1>1. IsWellFoundedOn(R, Nat)
  BY NatLessThanWellFounded
<1>2. \A x, y \in Nat : x < y => <<x, y>> \in R
  BY DEF OpToRel
<1> HIDE DEF R
<1>3. PICK n \in P : \A m \in P : ~(<<m, n>> \in R)
  BY <1>1, WFMin
<1>4. \A m \in P : ~(m < n)
  BY <1>2, <1>3
<1>5. QED
  BY <1>4

\* The element a fold takes out first.
Chosen(s) == CHOOSE x \in s : TRUE

\* A family that holds the empty set, and every set that it holds without the chosen
\* element, holds all subsets of a finite set.
LEMMA ChosenInduction ==
  ASSUME NEW U, IsFiniteSet(U), NEW Q, {} \in Q,
         \A T \in SUBSET U : T # {} /\ T \ {Chosen(T)} \in Q => T \in Q
  PROVE  \A T \in SUBSET U : T \in Q
<1>1. SUFFICES ASSUME NEW T0 \in SUBSET U, T0 \notin Q PROVE FALSE
  OBVIOUS
<1> DEFINE P == {n \in Nat : \E T \in SUBSET U : T \notin Q /\ Cardinality(T) = n}
<1>2. \A T \in SUBSET U : IsFiniteSet(T) /\ Cardinality(T) \in Nat
  BY FS_Subset, FS_CardinalityType
<1>3. P \in SUBSET Nat /\ P # {}
  BY <1>1, <1>2
<1>4. PICK n \in P : \A m \in P : n <= m
  <2> HIDE DEF P
  <2> QED BY <1>3, LeastNatural
<1>5. PICK T \in SUBSET U : T \notin Q /\ Cardinality(T) = n
  BY <1>4
<1>6. Chosen(T) \in T
  BY <1>5 DEF Chosen
<1>7. T \ {Chosen(T)} \in SUBSET U /\ T \ {Chosen(T)} \notin Q
  BY <1>5, <1>6
<1>8. Cardinality(T \ {Chosen(T)}) = n - 1
  BY <1>2, <1>5, <1>6, FS_RemoveElement
<1>9. n - 1 \in P
  BY <1>2, <1>7, <1>8
<1> QED BY <1>4, <1>9

\* The same for a family that is closed under adding any element.
LEMMA SubsetInduction ==
  ASSUME NEW U, IsFiniteSet(U), NEW Q, {} \in Q,
         \A T \in SUBSET U : \A x \in U \ T : T \in Q => T \cup {x} \in Q
  PROVE  \A T \in SUBSET U : T \in Q
<1>1. ASSUME NEW T \in SUBSET U, T # {}, T \ {Chosen(T)} \in Q PROVE T \in Q
  <2>1. /\ T \ {Chosen(T)} \in SUBSET U /\ Chosen(T) \in U \ (T \ {Chosen(T)})
        /\ (T \ {Chosen(T)}) \cup {Chosen(T)} = T
    BY <1>1 DEF Chosen
  <2> QED BY <1>1, <2>1
<1> QED BY <1>1, ChosenInduction

\* A fold whose accumulator stays in a set is well-defined.
Folded(S, base, G, iter) ==
  iter = [s \in SUBSET S |-> IF s = {} THEN base ELSE G[<<Chosen(s), iter[s \ {Chosen(s)}]>>]]

LEMMA FoldExists ==
  ASSUME NEW S, IsFiniteSet(S), NEW A, NEW base \in A, NEW G \in [S \X A -> A]
  PROVE  \E iter \in [SUBSET S -> A] : Folded(S, base, G, iter)
<1> DEFINE At(iter, s) == IF s = {} THEN base ELSE G[<<Chosen(s), iter[s \ {Chosen(s)}]>>]
           Upto(n, iter) == \A s \in SUBSET S : Cardinality(s) <= n => iter[s] = At(iter, s)
           Next(iter) == [s \in SUBSET S |-> At(iter, s)]
           P == {n \in Nat : ~ \E iter \in [SUBSET S -> A] : Upto(n, iter)}
<1>1. \A s \in SUBSET S : IsFiniteSet(s) /\ Cardinality(s) \in Nat
  BY FS_Subset, FS_CardinalityType
<1>2. \A s \in SUBSET S : s # {} => /\ Chosen(s) \in s /\ s \ {Chosen(s)} \in SUBSET S
                                    /\ Cardinality(s \ {Chosen(s)}) = Cardinality(s) - 1
  BY <1>1, FS_RemoveElement DEF Chosen
<1>3. ASSUME NEW iter \in [SUBSET S -> A] PROVE Next(iter) \in [SUBSET S -> A]
  <2> SUFFICES ASSUME NEW s \in SUBSET S PROVE At(iter, s) \in A
    OBVIOUS
  <2>1. CASE s = {}
    BY <2>1
  <2>2. CASE s # {}
    <3>1. <<Chosen(s), iter[s \ {Chosen(s)}]>> \in S \X A
      BY <1>2, <2>2
    <3> QED BY <2>2, <3>1
  <2> QED BY <2>1, <2>2
<1>4. ASSUME NEW n \in Nat, NEW iter \in [SUBSET S -> A], Upto(n, iter) PROVE Upto(n + 1, Next(iter))
  <2> SUFFICES ASSUME NEW s \in SUBSET S, Cardinality(s) <= n + 1
               PROVE  Next(iter)[s] = At(Next(iter), s)
    OBVIOUS
  <2>1. CASE s = {}
    BY <2>1
  <2>2. CASE s # {}
    <3> DEFINE t == s \ {Chosen(s)}
    <3>1. t \in SUBSET S /\ Cardinality(t) <= n
      BY <1>1, <1>2, <2>2
    <3>2. iter[t] = At(iter, t)
      BY <1>4, <3>1
    <3>3. Next(iter)[t] = iter[t]
      BY <3>1, <3>2
    <3>4. Next(iter)[s] = G[<<Chosen(s), iter[t]>>]
      BY <2>2
    <3> QED BY <2>2, <3>3, <3>4
  <2> QED BY <2>1, <2>2
<1>5. 0 \notin P
  <2>1. \A s \in SUBSET S : Cardinality(s) <= 0 => s = {}
    BY <1>1, FS_EmptySet
  <2>2. [s \in SUBSET S |-> base] \in [SUBSET S -> A] /\ Upto(0, [s \in SUBSET S |-> base])
    BY <2>1
  <2> HIDE DEF Upto
  <2> QED BY <2>2
<1>6. P = {}
  <2> SUFFICES ASSUME P # {} PROVE FALSE
    OBVIOUS
  <2> HIDE DEF Next, Upto
  <2>1. PICK n \in P : \A m \in P : n <= m
    <3>1. P \in SUBSET Nat
      OBVIOUS
    <3> HIDE DEF P
    <3> QED BY <3>1, LeastNatural
  <2>2. n \in Nat /\ n # 0
    BY <1>5, <2>1
  <2>3. n - 1 \in Nat /\ n - 1 \notin P
    <3>1. n - 1 \in Nat /\ ~(n <= n - 1)
      BY <2>2
    <3> HIDE DEF P
    <3> QED BY <2>1, <3>1
  <2>4. PICK iter \in [SUBSET S -> A] : Upto(n - 1, iter)
    BY <2>3
  <2>5. Upto((n - 1) + 1, Next(iter)) /\ Next(iter) \in [SUBSET S -> A]
    BY <1>3, <1>4, <2>3, <2>4
  <2>6. (n - 1) + 1 = n
    BY <2>2
  <2> QED BY <2>1, <2>5, <2>6
<1>7. Cardinality(S) \in Nat
  BY <1>1
<1>8. PICK iter \in [SUBSET S -> A] : Upto(Cardinality(S), iter)
  <2> HIDE DEF Upto, Next
  <2> QED BY <1>6, <1>7
<1>9. Upto(Cardinality(S) + 1, Next(iter)) /\ Next(iter) \in [SUBSET S -> A]
  <2> HIDE DEF Upto, Next
  <2> QED BY <1>3, <1>4, <1>7, <1>8
<1>10. \A s \in SUBSET S : Cardinality(s) <= Cardinality(S) + 1
  BY <1>1, FS_Subset
<1>11. Folded(S, base, G, Next(iter))
  BY <1>9, <1>10 DEF Folded
<1> QED BY <1>9, <1>11

-----------------------------------------------------------------------------
\* The equation that defines the sum: iter[s], for the subsets s of a set.
Summed(f, iter, s) == IF s = {} THEN 0 ELSE f[Chosen(s)] + iter[s \ {Chosen(s)}]
Sums(f, S, iter) == iter = [s \in SUBSET S |-> Summed(f, iter, s)]

LEMMA SumIsChosen ==
  ASSUME NEW f, NEW S
  PROVE  SumFunctionOnSet(f, S) = (CHOOSE iter : Sums(f, S, iter))[S]
BY DEF SumFunctionOnSet, FoldFunctionOnSet, MapThenFoldSet, Sums, Summed, Chosen

\* The equation has a solution: one for the sets of up to n elements gives one
\* for n + 1.
LEMMA SumsExist ==
  ASSUME NEW f, NEW S, IsFiniteSet(S)
  PROVE  \E iter : Sums(f, S, iter)
<1> DEFINE Upto(n, iter) == \A s \in SUBSET S : Cardinality(s) <= n => iter[s] = Summed(f, iter, s)
           Next(iter) == [s \in SUBSET S |-> Summed(f, iter, s)]
           P == {n \in Nat : ~ \E iter : Upto(n, iter)}
<1>1. \A s \in SUBSET S : IsFiniteSet(s) /\ Cardinality(s) \in Nat
  BY FS_Subset, FS_CardinalityType
<1>2. \A s \in SUBSET S : s # {} => /\ Chosen(s) \in s /\ s \ {Chosen(s)} \in SUBSET S
                                    /\ Cardinality(s \ {Chosen(s)}) = Cardinality(s) - 1
  BY <1>1, FS_RemoveElement DEF Chosen
<1>3. ASSUME NEW n \in Nat, NEW iter, Upto(n, iter) PROVE Upto(n + 1, Next(iter))
  <2> SUFFICES ASSUME NEW s \in SUBSET S, Cardinality(s) <= n + 1
               PROVE  Next(iter)[s] = Summed(f, Next(iter), s)
    OBVIOUS
  <2>1. CASE s = {}
    BY <2>1 DEF Summed
  <2>2. CASE s # {}
    <3> DEFINE t == s \ {Chosen(s)}
    <3>1. t \in SUBSET S /\ Cardinality(t) <= n
      BY <1>1, <1>2, <2>2
    <3>2. iter[t] = Summed(f, iter, t)
      BY <1>3, <3>1
    <3>3. Next(iter)[t] = iter[t]
      BY <3>1, <3>2
    <3>4. Next(iter)[s] = f[Chosen(s)] + iter[t]
      BY <2>2 DEF Summed
    <3>5. QED
      BY <2>2, <3>3, <3>4 DEF Summed
  <2>3. QED
    BY <2>1, <2>2
<1>4. 0 \notin P
  <2>1. \A s \in SUBSET S : Cardinality(s) <= 0 => s = {}
    BY <1>1, FS_EmptySet
  <2>2. Upto(0, [s \in SUBSET S |-> 0])
    BY <2>1 DEF Summed
  <2>3. QED
    BY <2>2
<1>5. P = {}
  <2> SUFFICES ASSUME P # {} PROVE FALSE
    OBVIOUS
  <2> HIDE DEF Next, Upto
  <2>1. PICK n \in P : \A m \in P : n <= m
    <3>1. P \in SUBSET Nat
      OBVIOUS
    <3> HIDE DEF P
    <3> QED BY <3>1, LeastNatural
  <2>2. n \in Nat /\ n # 0
    BY <1>4, <2>1
  <2>3. n - 1 \in Nat /\ n - 1 \notin P
    BY <2>1, <2>2
  <2>4. PICK iter : Upto(n - 1, iter)
    BY <2>3
  <2>5. Upto((n - 1) + 1, Next(iter))
    BY <1>3, <2>3, <2>4
  <2>6. (n - 1) + 1 = n
    BY <2>2
  <2>7. QED
    BY <2>1, <2>5, <2>6
<1>6. PICK iter : Upto(Cardinality(S), iter)
  <2> HIDE DEF Upto, Next
  <2> QED BY <1>1, <1>5
<1>7. Upto(Cardinality(S) + 1, Next(iter))
  <2> HIDE DEF Upto, Next
  <2> QED BY <1>1, <1>3, <1>6
<1>8. \A s \in SUBSET S : Cardinality(s) <= Cardinality(S) + 1
  BY <1>1, FS_Subset
<1>9. Sums(f, S, Next(iter))
  BY <1>7, <1>8 DEF Sums
<1>10. QED
  BY <1>9

\* All solutions agree where they are both defined.
LEMMA SumsAgree ==
  ASSUME NEW f, NEW S, IsFiniteSet(S), NEW T \in SUBSET S,
         NEW g, Sums(f, S, g), NEW h, Sums(f, T, h)
  PROVE  h[T] = g[T]
<1> DEFINE Q == {s \in SUBSET T : h[s] = g[s]}
<1>1. IsFiniteSet(T)
  BY FS_Subset
<1>2. \A s \in SUBSET T : g[s] = Summed(f, g, s) /\ h[s] = Summed(f, h, s)
  BY DEF Sums
<1>3. SUFFICES T \in Q
  OBVIOUS
<1> DEFINE P == {n \in Nat : \E s \in SUBSET T : s \notin Q /\ Cardinality(s) = n}
<1>4. \A s \in SUBSET T : IsFiniteSet(s) /\ Cardinality(s) \in Nat
  BY <1>1, FS_Subset, FS_CardinalityType
<1>5. SUFFICES ASSUME P # {} PROVE FALSE
  BY <1>4
<1>6. PICK n \in P : \A m \in P : n <= m
  <2>1. P \in SUBSET Nat
    OBVIOUS
  <2> HIDE DEF P
  <2> QED BY <1>5, <2>1, LeastNatural
<1>7. PICK s \in SUBSET T : s \notin Q /\ Cardinality(s) = n
  BY <1>6
<1>8. s # {}
  BY <1>2, <1>7 DEF Summed
<1> DEFINE t == s \ {Chosen(s)}
<1>9. Chosen(s) \in s /\ t \in SUBSET T
  BY <1>8 DEF Chosen
<1>10. Cardinality(t) = n - 1
  BY <1>4, <1>7, <1>9, FS_RemoveElement
<1>11. t \in Q
  <2> SUFFICES ASSUME t \notin Q PROVE FALSE
    OBVIOUS
  <2>1. Cardinality(t) \in P
    BY <1>4, <1>9
  <2> QED BY <1>6, <1>10, <2>1
<1>12. h[s] = g[s]
  BY <1>2, <1>7, <1>8, <1>11 DEF Summed
<1>13. QED
  BY <1>7, <1>12

\* The sum is what any solution over a larger set says.
LEMMA SumFrom ==
  ASSUME NEW f, NEW S, IsFiniteSet(S), NEW g, Sums(f, S, g), NEW T \in SUBSET S
  PROVE  SumFunctionOnSet(f, T) = g[T]
<1> DEFINE h == CHOOSE iter : Sums(f, T, iter)
<1>1. IsFiniteSet(T)
  BY FS_Subset
<1>2. Sums(f, T, h)
  BY <1>1, SumsExist
<1>3. SumFunctionOnSet(f, T) = h[T]
  BY SumIsChosen
<1> HIDE DEF h
<1>4. QED
  BY <1>2, <1>3, SumsAgree

-----------------------------------------------------------------------------
\* Nothing sums to zero.
LEMMA SumEmpty ==
  ASSUME NEW f
  PROVE  SumFunctionOnSet(f, {}) = 0
<1>1. IsFiniteSet({})
  BY FS_EmptySet
<1>2. PICK g : Sums(f, {}, g)
  BY <1>1, SumsExist
<1>3. SumFunctionOnSet(f, {}) = g[{}]
  BY <1>1, <1>2, SumFrom
<1>4. g[{}] = 0
  BY <1>2 DEF Sums, Summed
<1>5. QED
  BY <1>3, <1>4

\* The summand that is taken out first.
LEMMA SumChosen ==
  ASSUME NEW f, NEW S, IsFiniteSet(S), S # {}
  PROVE  /\ Chosen(S) \in S
         /\ SumFunctionOnSet(f, S) = f[Chosen(S)] + SumFunctionOnSet(f, S \ {Chosen(S)})
<1>1. Chosen(S) \in S
  BY DEF Chosen
<1>2. PICK g : Sums(f, S, g)
  BY SumsExist
<1>3. SumFunctionOnSet(f, S) = g[S]
  BY <1>2, SumFrom
<1>4. SumFunctionOnSet(f, S \ {Chosen(S)}) = g[S \ {Chosen(S)}]
  BY <1>2, SumFrom
<1>5. g[S] = f[Chosen(S)] + g[S \ {Chosen(S)}]
  BY <1>2 DEF Sums, Summed
<1>6. QED
  BY <1>1, <1>3, <1>4, <1>5

-----------------------------------------------------------------------------
(* Laws of sums of integers; the order of the summands does not matter *)

\* A family that holds every set whose proper subsets it holds has all subsets.
LEMMA StrongSubsetInduction ==
  ASSUME NEW U, IsFiniteSet(U), NEW Q,
         \A T \in SUBSET U : (\A R \in SUBSET T : R # T => R \in Q) => T \in Q
  PROVE  \A T \in SUBSET U : T \in Q
<1>1. SUFFICES ASSUME NEW T0 \in SUBSET U, T0 \notin Q PROVE FALSE
  OBVIOUS
<1> DEFINE P == {n \in Nat : \E T \in SUBSET U : T \notin Q /\ Cardinality(T) = n}
<1>2. \A T \in SUBSET U : IsFiniteSet(T) /\ Cardinality(T) \in Nat
  BY FS_Subset, FS_CardinalityType
<1>3. P \in SUBSET Nat /\ P # {}
  BY <1>1, <1>2
<1>4. PICK n \in P : \A m \in P : n <= m
  <2> HIDE DEF P
  <2> QED BY <1>3, LeastNatural
<1>5. PICK T \in SUBSET U : T \notin Q /\ Cardinality(T) = n
  BY <1>4
<1>6. PICK R \in SUBSET T : R # T /\ R \notin Q
  BY <1>5
<1>7. Cardinality(R) < Cardinality(T)
  BY <1>2, <1>6, FS_Subset
<1>8. Cardinality(R) \in P /\ n \in Nat
  BY <1>2, <1>3, <1>6
<1> QED BY <1>4, <1>5, <1>7, <1>8

LEMMA SumInt ==
  ASSUME NEW S, IsFiniteSet(S), NEW f, \A x \in S : f[x] \in Int
  PROVE  SumFunctionOnSet(f, S) \in Int
<1> DEFINE Q == {T \in SUBSET S : SumFunctionOnSet(f, T) \in Int}
<1>1. {} \in Q
  BY SumEmpty
<1>2. ASSUME NEW T \in SUBSET S, T # {}, T \ {Chosen(T)} \in Q PROVE T \in Q
  <2>1. IsFiniteSet(T)
    BY FS_Subset
  <2>2. Chosen(T) \in S /\ SumFunctionOnSet(f, T) = f[Chosen(T)] + SumFunctionOnSet(f, T \ {Chosen(T)})
    BY <1>2, <2>1, SumChosen
  <2> QED BY <1>2, <2>2
<1>3. \A T \in SUBSET S : T \in Q
  <2> HIDE DEF Q
  <2> QED BY <1>1, <1>2, ChosenInduction
<1> QED BY <1>3

\* Any summand can be taken out.
LEMMA SumRemove ==
  ASSUME NEW S, IsFiniteSet(S), NEW f, \A x \in S : f[x] \in Int, NEW x \in S
  PROVE  SumFunctionOnSet(f, S) = f[x] + SumFunctionOnSet(f, S \ {x})
<1> DEFINE Out(T, z) == SumFunctionOnSet(f, T) = f[z] + SumFunctionOnSet(f, T \ {z})
           Q == {T \in SUBSET S : \A z \in T : Out(T, z)}
<1>1. \A T \in SUBSET S : IsFiniteSet(T) /\ SumFunctionOnSet(f, T) \in Int
  BY FS_Subset, SumInt
<1>2. ASSUME NEW T \in SUBSET S, \A R \in SUBSET T : R # T => R \in Q PROVE T \in Q
  <2> SUFFICES ASSUME NEW z \in T PROVE Out(T, z)
    OBVIOUS
  <2> DEFINE c == Chosen(T)
  <2>1. c \in T /\ Out(T, c)
    BY <1>1, SumChosen
  <2> HIDE DEF c
  <2>2. CASE z = c
    BY <2>1, <2>2
  <2>3. CASE z # c
    <3>1. T \ {c} \in Q /\ T \ {z} \in Q /\ z \in T \ {c} /\ c \in T \ {z}
      BY <1>2, <2>1, <2>3
    <3>2. Out(T \ {c}, z) /\ Out(T \ {z}, c)
      BY <3>1
    <3>3. (T \ {c}) \ {z} = (T \ {z}) \ {c}
      OBVIOUS
    <3> DEFINE r == SumFunctionOnSet(f, (T \ {z}) \ {c})
               s == SumFunctionOnSet(f, T)
               sc == SumFunctionOnSet(f, T \ {c})
               sz == SumFunctionOnSet(f, T \ {z})
    <3>4. f[c] \in Int /\ f[z] \in Int /\ r \in Int
      BY <1>1, <2>1
    <3>5. s = f[c] + sc /\ sc = f[z] + r /\ sz = f[c] + r
      BY <2>1, <3>2, <3>3
    <3> HIDE DEF r, s, sc, sz
    <3>6. s = f[z] + sz
      BY <3>4, <3>5
    <3> QED BY <3>6 DEF s, sz
  <2> QED BY <2>2, <2>3
<1>3. \A T \in SUBSET S : T \in Q
  <2> HIDE DEF Q
  <2> QED BY <1>2, StrongSubsetInduction
<1>4. S \in Q
  <2> HIDE DEF Q
  <2> QED BY <1>3
<1> QED BY <1>4

LEMMA SumAdd ==
  ASSUME NEW S, IsFiniteSet(S), NEW f, NEW x, x \notin S, f[x] \in Int, \A y \in S : f[y] \in Int
  PROVE  SumFunctionOnSet(f, S \cup {x}) = f[x] + SumFunctionOnSet(f, S)
<1> DEFINE T == S \cup {x}
<1>1. IsFiniteSet(T) /\ x \in T /\ (\A y \in T : f[y] \in Int) /\ T \ {x} = S
  BY FS_AddElement
<1> HIDE DEF T
<1>2. SumFunctionOnSet(f, T) = f[x] + SumFunctionOnSet(f, S)
  BY <1>1, SumRemove
<1> QED BY <1>2 DEF T

\* Functions that agree have the same sum.
LEMMA SumSame ==
  ASSUME NEW S, IsFiniteSet(S), NEW f, NEW g, \A x \in S : f[x] = g[x]
  PROVE  SumFunctionOnSet(f, S) = SumFunctionOnSet(g, S)
<1> DEFINE Q == {T \in SUBSET S : SumFunctionOnSet(f, T) = SumFunctionOnSet(g, T)}
<1>1. {} \in Q
  BY SumEmpty
<1>2. ASSUME NEW T \in SUBSET S, T # {}, T \ {Chosen(T)} \in Q PROVE T \in Q
  <2>1. IsFiniteSet(T)
    BY FS_Subset
  <2>2. /\ Chosen(T) \in T
        /\ SumFunctionOnSet(f, T) = f[Chosen(T)] + SumFunctionOnSet(f, T \ {Chosen(T)})
        /\ SumFunctionOnSet(g, T) = g[Chosen(T)] + SumFunctionOnSet(g, T \ {Chosen(T)})
    BY <1>2, <2>1, SumChosen
  <2> QED BY <1>2, <2>2
<1>3. \A T \in SUBSET S : T \in Q
  <2> HIDE DEF Q
  <2> QED BY <1>1, <1>2, ChosenInduction
<1>4. S \in Q
  <2> HIDE DEF Q
  <2> QED BY <1>3
<1> QED BY <1>4

\* A sum over a set is the sum over a part and over the rest.
LEMMA SumSplit ==
  ASSUME NEW S, IsFiniteSet(S), NEW f, \A x \in S : f[x] \in Int, NEW C \in SUBSET S
  PROVE  SumFunctionOnSet(f, S) = SumFunctionOnSet(f, C) + SumFunctionOnSet(f, S \ C)
<1> DEFINE Sm(T) == SumFunctionOnSet(f, T)
           Q == {T \in SUBSET S : Sm(S) = Sm(T) + Sm(S \ T)}
<1>1. \A T \in SUBSET S : IsFiniteSet(T) /\ Sm(T) \in Int
  BY FS_Subset, SumInt
<1>2. {} \in Q
  <2>1. Sm({}) = 0 /\ S \ {} = S /\ Sm(S) \in Int
    BY <1>1, SumEmpty
  <2> HIDE DEF Sm
  <2> QED BY <2>1
<1>3. ASSUME NEW T \in SUBSET S, NEW x \in S \ T, T \in Q PROVE T \cup {x} \in Q
  <2> DEFINE R == T \cup {x}
             V == S \ T
             W == S \ R
  <2>1. /\ R \in SUBSET S /\ V \in SUBSET S /\ W \in SUBSET S
        /\ R \ {x} = T /\ x \in R /\ V \ {x} = W /\ x \in V
    OBVIOUS
  <2>2. Sm(R) = f[x] + Sm(T) /\ Sm(V) = f[x] + Sm(W)
    <3> HIDE DEF R, V, W
    <3> QED BY <1>1, <2>1, SumRemove
  <2>3. Sm(S) = Sm(T) + Sm(V)
    BY <1>3
  <2>4. Sm(T) \in Int /\ Sm(W) \in Int /\ f[x] \in Int
    BY <1>1, <2>1
  <2> HIDE DEF Sm
  <2> QED BY <2>2, <2>3, <2>4
<1>4. \A T \in SUBSET S : T \in Q
  <2> HIDE DEF Q
  <2> QED BY <1>2, <1>3, SubsetInduction
<1>5. C \in Q
  <2> HIDE DEF Q
  <2> QED BY <1>4
<1> QED BY <1>5

\* Sums of functions that agree outside a part differ as the sums over the part.
LEMMA SumDifference ==
  ASSUME NEW S, IsFiniteSet(S), NEW f, NEW g, NEW C \in SUBSET S,
         \A x \in S : f[x] \in Int /\ g[x] \in Int, \A x \in S \ C : f[x] = g[x]
  PROVE  SumFunctionOnSet(f, S) - SumFunctionOnSet(g, S)
           = SumFunctionOnSet(f, C) - SumFunctionOnSet(g, C)
<1>1. IsFiniteSet(C) /\ IsFiniteSet(S \ C)
  BY FS_Subset
<1>2. /\ SumFunctionOnSet(f, S) = SumFunctionOnSet(f, C) + SumFunctionOnSet(f, S \ C)
      /\ SumFunctionOnSet(g, S) = SumFunctionOnSet(g, C) + SumFunctionOnSet(g, S \ C)
  BY SumSplit
<1>3. SumFunctionOnSet(f, S \ C) = SumFunctionOnSet(g, S \ C)
  BY <1>1, SumSame
<1>4. /\ SumFunctionOnSet(f, C) \in Int /\ SumFunctionOnSet(g, C) \in Int
      /\ SumFunctionOnSet(g, S \ C) \in Int
  BY <1>1, SumInt
<1> QED BY <1>2, <1>3, <1>4

LEMMA SumOne ==
  ASSUME NEW f, NEW x, f[x] \in Int
  PROVE  SumFunctionOnSet(f, {x}) = f[x]
<1>1. IsFiniteSet({}) /\ x \notin {} /\ {} \cup {x} = {x}
  BY FS_EmptySet
<1>2. SumFunctionOnSet(f, {} \cup {x}) = f[x] + SumFunctionOnSet(f, {})
  BY <1>1, SumAdd
<1> QED BY <1>1, <1>2, SumEmpty

\* Summands that are all zero.
LEMMA SumZero ==
  ASSUME NEW S, IsFiniteSet(S), NEW f, \A x \in S : f[x] = 0
  PROVE  SumFunctionOnSet(f, S) = 0
<1> DEFINE Q == {T \in SUBSET S : SumFunctionOnSet(f, T) = 0}
<1>1. {} \in Q
  BY SumEmpty
<1>2. ASSUME NEW T \in SUBSET S, T # {}, T \ {Chosen(T)} \in Q PROVE T \in Q
  <2>1. IsFiniteSet(T)
    BY FS_Subset
  <2>2. Chosen(T) \in S /\ SumFunctionOnSet(f, T) = f[Chosen(T)] + SumFunctionOnSet(f, T \ {Chosen(T)})
    BY <1>2, <2>1, SumChosen
  <2> QED BY <1>2, <2>2
<1>3. \A T \in SUBSET S : T \in Q
  <2> HIDE DEF Q
  <2> QED BY <1>1, <1>2, ChosenInduction
<1>4. S \in Q
  <2> HIDE DEF Q
  <2> QED BY <1>3
<1> QED BY <1>4

\* A sum of sums.
LEMMA SumPlus ==
  ASSUME NEW S, IsFiniteSet(S), NEW f, NEW g, NEW h,
         \A x \in S : f[x] \in Int /\ g[x] \in Int /\ h[x] = f[x] + g[x]
  PROVE  SumFunctionOnSet(h, S) = SumFunctionOnSet(f, S) + SumFunctionOnSet(g, S)
<1> DEFINE Q == {T \in SUBSET S :
                   SumFunctionOnSet(h, T) = SumFunctionOnSet(f, T) + SumFunctionOnSet(g, T)}
<1>1. {} \in Q
  BY SumEmpty
<1>2. ASSUME NEW T \in SUBSET S, T # {}, T \ {Chosen(T)} \in Q PROVE T \in Q
  <2>1. IsFiniteSet(T) /\ IsFiniteSet(T \ {Chosen(T)})
    BY FS_Subset
  <2>2. /\ Chosen(T) \in T
        /\ SumFunctionOnSet(f, T) = f[Chosen(T)] + SumFunctionOnSet(f, T \ {Chosen(T)})
        /\ SumFunctionOnSet(g, T) = g[Chosen(T)] + SumFunctionOnSet(g, T \ {Chosen(T)})
        /\ SumFunctionOnSet(h, T) = h[Chosen(T)] + SumFunctionOnSet(h, T \ {Chosen(T)})
    BY <1>2, <2>1, SumChosen
  <2>3. SumFunctionOnSet(f, T \ {Chosen(T)}) \in Int /\ SumFunctionOnSet(g, T \ {Chosen(T)}) \in Int
    BY <2>1, SumInt
  <2> QED BY <1>2, <2>2, <2>3
<1>3. \A T \in SUBSET S : T \in Q
  <2> HIDE DEF Q
  <2> QED BY <1>1, <1>2, ChosenInduction
<1>4. S \in Q
  <2> HIDE DEF Q
  <2> QED BY <1>3
<1> QED BY <1>4

\* A sum that is kept up to date by the differences of what changed.
LEMMA SumUpdate ==
  ASSUME NEW S, IsFiniteSet(S), NEW f, NEW g, NEW C \in SUBSET S, NEW d,
         \A x \in S : f[x] \in Int /\ g[x] \in Int, \A x \in S \ C : f[x] = g[x],
         \A x \in C : d[x] = f[x] - g[x]
  PROVE  /\ SumFunctionOnSet(f, S) = SumFunctionOnSet(g, S) + SumFunctionOnSet(d, C)
         /\ SumFunctionOnSet(f, S) \in Int /\ SumFunctionOnSet(g, S) \in Int
         /\ SumFunctionOnSet(d, C) \in Int
<1>1. IsFiniteSet(C) /\ (\A x \in C : f[x] \in Int /\ g[x] \in Int /\ d[x] \in Int)
  BY FS_Subset
<1>2. SumFunctionOnSet(f, S) - SumFunctionOnSet(g, S) = SumFunctionOnSet(f, C) - SumFunctionOnSet(g, C)
  BY SumDifference
<1>3. \A x \in C : g[x] \in Int /\ d[x] \in Int /\ f[x] = g[x] + d[x]
  BY <1>1
<1>4. SumFunctionOnSet(f, C) = SumFunctionOnSet(g, C) + SumFunctionOnSet(d, C)
  BY <1>1, <1>3, SumPlus
<1>5. /\ SumFunctionOnSet(f, S) \in Int /\ SumFunctionOnSet(g, S) \in Int
      /\ SumFunctionOnSet(g, C) \in Int /\ SumFunctionOnSet(d, C) \in Int
  BY <1>1, SumInt
<1> QED BY <1>2, <1>4, <1>5

LEMMA SumUpdateOne ==
  ASSUME NEW S, IsFiniteSet(S), NEW f, NEW g, NEW i \in S,
         \A x \in S : f[x] \in Int /\ g[x] \in Int, \A x \in S \ {i} : f[x] = g[x]
  PROVE  /\ SumFunctionOnSet(f, S) = SumFunctionOnSet(g, S) + f[i] - g[i]
         /\ SumFunctionOnSet(f, S) \in Int /\ SumFunctionOnSet(g, S) \in Int
<1> DEFINE d == [x \in {i} |-> f[x] - g[x]]
<1>1. {i} \in SUBSET S /\ (\A x \in {i} : d[x] = f[x] - g[x]) /\ d[i] \in Int
  OBVIOUS
<1>2. d[i] = f[i] - g[i] /\ f[i] \in Int /\ g[i] \in Int
  OBVIOUS
<1> HIDE DEF d
<1>3. /\ SumFunctionOnSet(f, S) = SumFunctionOnSet(g, S) + SumFunctionOnSet(d, {i})
      /\ SumFunctionOnSet(f, S) \in Int /\ SumFunctionOnSet(g, S) \in Int
  <2> DEFINE C == {i}
  <2>1. C \in SUBSET S /\ (\A x \in C : d[x] = f[x] - g[x]) /\ \A x \in S \ C : f[x] = g[x]
    BY <1>1
  <2> HIDE DEF C
  <2>2. /\ SumFunctionOnSet(f, S) = SumFunctionOnSet(g, S) + SumFunctionOnSet(d, C)
        /\ SumFunctionOnSet(f, S) \in Int /\ SumFunctionOnSet(g, S) \in Int
    BY <2>1, SumUpdate
  <2> QED BY <2>2 DEF C
<1>4. SumFunctionOnSet(d, {i}) = d[i]
  BY <1>1, SumOne
<1> QED BY <1>2, <1>3, <1>4

\* The same with the sums over the changed part taken before and after.
LEMMA SumExchanged ==
  ASSUME NEW S, IsFiniteSet(S), NEW f, NEW g, NEW C \in SUBSET S, NEW h, NEW k,
         \A x \in S : f[x] \in Int /\ g[x] \in Int, \A x \in S \ C : f[x] = g[x],
         \A x \in C : h[x] = f[x] /\ k[x] = g[x]
  PROVE  SumFunctionOnSet(f, S)
           = SumFunctionOnSet(g, S) + SumFunctionOnSet(h, C) - SumFunctionOnSet(k, C)
<1>1. IsFiniteSet(C)
  BY FS_Subset
<1>2. SumFunctionOnSet(h, C) = SumFunctionOnSet(f, C)
  BY <1>1, SumSame
<1>3. SumFunctionOnSet(k, C) = SumFunctionOnSet(g, C)
  BY <1>1, SumSame
<1>4. SumFunctionOnSet(f, S) - SumFunctionOnSet(g, S)
        = SumFunctionOnSet(f, C) - SumFunctionOnSet(g, C)
  BY SumDifference
<1>5. /\ SumFunctionOnSet(f, S) \in Int /\ SumFunctionOnSet(g, S) \in Int
      /\ SumFunctionOnSet(f, C) \in Int /\ SumFunctionOnSet(g, C) \in Int
  BY <1>1, SumInt
<1> QED BY <1>2, <1>3, <1>4, <1>5

\* Larger summands have a larger sum.
LEMMA SumMonotone ==
  ASSUME NEW S, IsFiniteSet(S), NEW f, NEW g,
         \A x \in S : f[x] \in Int /\ g[x] \in Int /\ f[x] <= g[x]
  PROVE  SumFunctionOnSet(f, S) <= SumFunctionOnSet(g, S)
<1> DEFINE Q == {T \in SUBSET S : SumFunctionOnSet(f, T) <= SumFunctionOnSet(g, T)}
<1>1. {} \in Q
  BY SumEmpty
<1>2. ASSUME NEW T \in SUBSET S, T # {}, T \ {Chosen(T)} \in Q PROVE T \in Q
  <2>1. IsFiniteSet(T) /\ IsFiniteSet(T \ {Chosen(T)})
    BY FS_Subset
  <2>2. /\ Chosen(T) \in T
        /\ SumFunctionOnSet(f, T) = f[Chosen(T)] + SumFunctionOnSet(f, T \ {Chosen(T)})
        /\ SumFunctionOnSet(g, T) = g[Chosen(T)] + SumFunctionOnSet(g, T \ {Chosen(T)})
    BY <1>2, <2>1, SumChosen
  <2>3. SumFunctionOnSet(f, T \ {Chosen(T)}) \in Int /\ SumFunctionOnSet(g, T \ {Chosen(T)}) \in Int
    BY <2>1, SumInt
  <2> QED BY <1>2, <2>2, <2>3
<1>3. \A T \in SUBSET S : T \in Q
  <2> HIDE DEF Q
  <2> QED BY <1>1, <1>2, ChosenInduction
<1>4. S \in Q
  <2> HIDE DEF Q
  <2> QED BY <1>3
<1> QED BY <1>4

\* Natural summands: the sum is natural, and at least the sum over a part.
LEMMA SumNat ==
  ASSUME NEW S, IsFiniteSet(S), NEW f, \A x \in S : f[x] \in Nat
  PROVE  /\ SumFunctionOnSet(f, S) \in Nat
         /\ \A C \in SUBSET S : SumFunctionOnSet(f, C) \in Nat
                                /\ SumFunctionOnSet(f, C) <= SumFunctionOnSet(f, S)
<1> DEFINE z == [x \in S |-> 0]
<1>1. ASSUME NEW C \in SUBSET S PROVE SumFunctionOnSet(f, C) \in Nat
  <2>1. IsFiniteSet(C) /\ \A x \in C : z[x] = 0
    BY FS_Subset
  <2> HIDE DEF z
  <2>2. SumFunctionOnSet(z, C) = 0
    BY <2>1, SumZero
  <2>3. SumFunctionOnSet(z, C) <= SumFunctionOnSet(f, C)
    BY <2>1, SumMonotone
  <2>4. SumFunctionOnSet(f, C) \in Int
    BY <2>1, SumInt
  <2> QED BY <2>2, <2>3, <2>4
<1>2. ASSUME NEW C \in SUBSET S PROVE SumFunctionOnSet(f, C) <= SumFunctionOnSet(f, S)
  <2>1. SumFunctionOnSet(f, S) = SumFunctionOnSet(f, C) + SumFunctionOnSet(f, S \ C)
    BY SumSplit
  <2>2. SumFunctionOnSet(f, C) \in Nat /\ SumFunctionOnSet(f, S \ C) \in Nat
    BY <1>1
  <2> QED BY <2>1, <2>2
<1> QED BY <1>1, <1>2

\* The values of a function on a finite set are finitely many.
LEMMA ImageFinite ==
  ASSUME NEW S, IsFiniteSet(S), NEW f
  PROVE  IsFiniteSet({f[x] : x \in S})
<1> DEFINE T == {f[x] : x \in S}
           g == [x \in S |-> f[x]]
<1>1. g \in Surjection(S, T)
  BY DEF Surjection
<1> HIDE DEF g, T
<1>2. IsFiniteSet(T)
  BY <1>1, FS_Surjection
<1> QED BY <1>2 DEF T

-----------------------------------------------------------------------------
(* Extremes, and products *)

LEMMA ExtremeOfPair ==
  ASSUME NEW a \in Int, NEW b \in Int
  PROVE  Max({a, b}) \in {a, b} /\ Max({a, b}) >= a /\ Max({a, b}) >= b /\ Min({a, b}) \in {a, b}
<1>1. \E x \in {a, b} : \A y \in {a, b} : x >= y
  OBVIOUS
<1>2. \E x \in {a, b} : \A y \in {a, b} : x <= y
  OBVIOUS
<1>3. Max({a, b}) \in {a, b} /\ \A y \in {a, b} : Max({a, b}) >= y
  BY <1>1 DEF Max
<1>4. Min({a, b}) \in {a, b}
  BY <1>2 DEF Min
<1> QED BY <1>3, <1>4

\* Finitely many integers have a greatest and a least one among them.
LEMMA ExtremeInSet ==
  ASSUME NEW S, IsFiniteSet(S), S # {}, S \subseteq Int
  PROVE  /\ Max(S) \in S /\ Min(S) \in S
         /\ \A x \in S : Max(S) >= x /\ Min(S) <= x
<1> DEFINE HasMax(T) == \E x \in T : \A y \in T : x >= y
           HasMin(T) == \E x \in T : \A y \in T : x <= y
           Q == {T \in SUBSET S : T # {} => HasMax(T) /\ HasMin(T)}
<1>1. {} \in Q
  OBVIOUS
<1>2. ASSUME NEW T \in SUBSET S, NEW x \in S \ T, T \in Q PROVE T \cup {x} \in Q
  <2>1. CASE T = {}
    <3>1. T \cup {x} = {x} /\ x \in Int
      BY <2>1
    <3>2. HasMax({x}) /\ HasMin({x})
      BY <3>1
    <3> HIDE DEF HasMax, HasMin
    <3> QED BY <3>1, <3>2
  <2>2. CASE T # {}
    <3>1. PICK a \in T, b \in T : (\A y \in T : a >= y) /\ (\A y \in T : b <= y)
      BY <1>2, <2>2
    <3>2. HasMax(T \cup {x})
      <4>1. CASE a >= x
        BY <3>1, <4>1
      <4>2. CASE ~(a >= x)
        <5>1. \A y \in T \cup {x} : x >= y
          BY <3>1, <4>2
        <5> QED BY <5>1
      <4> QED BY <4>1, <4>2
    <3>3. HasMin(T \cup {x})
      <4>1. CASE b <= x
        BY <3>1, <4>1
      <4>2. CASE ~(b <= x)
        <5>1. \A y \in T \cup {x} : x <= y
          BY <3>1, <4>2
        <5> QED BY <5>1
      <4> QED BY <4>1, <4>2
    <3> HIDE DEF HasMax, HasMin
    <3> QED BY <3>2, <3>3
  <2> QED BY <2>1, <2>2
<1>3. \A T \in SUBSET S : T \in Q
  <2> HIDE DEF Q
  <2> QED BY <1>1, <1>2, SubsetInduction
<1>4. HasMax(S) /\ HasMin(S)
  BY <1>3
<1> QED BY <1>4 DEF Max, Min

\* A product of numbers is a number.
LEMMA ProductInt == \A x, y, z \in Int : x * y \in Int /\ x * y * z \in Int
OBVIOUS
=============================================================================
