------------------------- MODULE InvigSolverProofs -------------------------
(***************************************************************************)
(* The invigilation solver keeps the inverse index exact and every plan it   *)
(* passes through hard-feasible, whatever is moved, swapped and taken back.  *)
(***************************************************************************)
EXTENDS InvigSolver, SetFolds, SequenceTheorems

-----------------------------------------------------------------------------
(* Sorted lists: insertion and removal where SearchInts says *)

\* The list increases strictly.
Inc(s) == \A i, j \in DOMAIN s : i < j => s[i] < s[j]

\* SearchInts cuts the list where the smaller elements end.
LEMMA SearchCuts ==
  ASSUME NEW s \in Seq(Nat), Inc(s), NEW p \in Nat
  PROVE  /\ SearchInts(s, p) \in 1..(Len(s) + 1)
         /\ \A i \in DOMAIN s : i < SearchInts(s, p) <=> s[i] < p
<1> DEFINE P == {n \in Nat : n > 0 /\ (n = Len(s) + 1 \/ (n \in DOMAIN s /\ s[n] >= p))}
<1>1. P \in SUBSET Nat /\ Len(s) + 1 \in P
  OBVIOUS
<1>2. PICK n \in P : \A m \in P : n <= m
  <2> HIDE DEF P
  <2> QED BY <1>1, LeastNatural
<1>3. n \in 1..(Len(s) + 1)
  BY <1>1, <1>2
<1>4. \A i \in DOMAIN s : i < n <=> s[i] < p
  <2> TAKE i \in DOMAIN s
  <2>1. i \in Nat /\ i > 0 /\ s[i] \in Nat
    OBVIOUS
  <2>2. i < n => s[i] < p
    <3>1. i < n => i \notin P
      BY <1>2, <1>3, <2>1
    <3> QED BY <2>1, <3>1
  <2>3. i = n => s[i] >= p
    BY <1>2, <2>1
  <2>4. n < i => s[i] >= p
    <3> HAVE n < i
    <3>1. n \in DOMAIN s /\ s[n] >= p
      BY <1>2, <1>3, <2>1
    <3>2. s[n] < s[i]
      BY <3>1 DEF Inc
    <3> QED BY <2>1, <3>1, <3>2
  <2> QED BY <1>3, <2>1, <2>2, <2>3, <2>4
<1> DEFINE L == {k \in DOMAIN s : s[k] < p}
<1>5. L = 1..(n - 1)
  BY <1>3, <1>4
<1>6. Cardinality(1..(n - 1)) = n - 1
  BY <1>3, FS_Interval
<1>7. SearchInts(s, p) = n
  <2>1. SearchInts(s, p) = 1 + Cardinality(L)
    BY DEF SearchInts
  <2> HIDE DEF L, P
  <2> QED BY <1>3, <1>5, <1>6, <2>1
<1> QED BY <1>3, <1>4, <1>7

\* What InsertAt and RemoveAt leave at each place.
LEMMA InsertElements ==
  ASSUME NEW S, NEW s \in Seq(S), NEW k \in 1..(Len(s) + 1), NEW e \in S
  PROVE  /\ InsertAt(s, k, e) \in Seq(S) /\ Len(InsertAt(s, k, e)) = Len(s) + 1
         /\ \A i \in 1..(Len(s) + 1) :
              InsertAt(s, k, e)[i] = IF i < k THEN s[i] ELSE IF i = k THEN e ELSE s[i - 1]
<1> DEFINE a == SubSeq(s, 1, k - 1)
           b == SubSeq(s, k, Len(s))
           c == a \o <<e>>
<1>1. Len(s) \in Nat /\ k \in Int /\ k - 1 \in Int /\ \A i \in 1..Len(s) : s[i] \in S
  OBVIOUS
<1>2. a \in Seq(S) /\ Len(a) = k - 1 /\ \A i \in 1..(k - 1) : a[i] = s[i]
  <2>1. \A i \in 1..(k - 1) : s[i] \in S
    BY <1>1
  <2>2. /\ a \in Seq(S) /\ Len(a) = IF 1 <= k - 1 THEN (k - 1) - 1 + 1 ELSE 0
        /\ \A i \in 1..((k - 1) - 1 + 1) : a[i] = s[1 + i - 1]
    BY <1>1, <2>1, SubSeqProperties
  <2> HIDE DEF a
  <2> QED BY <2>2
<1>3. b \in Seq(S) /\ Len(b) = Len(s) - k + 1 /\ \A i \in 1..(Len(s) - k + 1) : b[i] = s[k + i - 1]
  <2>1. \A i \in k..Len(s) : s[i] \in S
    BY <1>1
  <2>2. /\ b \in Seq(S) /\ Len(b) = IF k <= Len(s) THEN Len(s) - k + 1 ELSE 0
        /\ \A i \in 1..(Len(s) - k + 1) : b[i] = s[k + i - 1]
    BY <1>1, <2>1, SubSeqProperties
  <2> HIDE DEF b
  <2> QED BY <2>2
<1> HIDE DEF a, b
<1>4. c \in Seq(S) /\ Len(c) = k /\ \A i \in 1..k : c[i] = IF i < k THEN s[i] ELSE e
  <2>1. <<e>> \in Seq(S) /\ Len(<<e>>) = 1 /\ <<e>>[1] = e
    OBVIOUS
  <2>2. /\ c \in Seq(S) /\ Len(c) = Len(a) + 1
        /\ \A i \in 1..(Len(a) + 1) : c[i] = IF i <= Len(a) THEN a[i] ELSE <<e>>[i - Len(a)]
    BY <1>2, <2>1, ConcatProperties
  <2> HIDE DEF c
  <2> QED BY <1>2, <2>1, <2>2
<1> HIDE DEF c
<1>5. /\ c \o b \in Seq(S) /\ Len(c \o b) = Len(c) + Len(b)
      /\ \A i \in 1..(Len(c) + Len(b)) : (c \o b)[i] = IF i <= Len(c) THEN c[i] ELSE b[i - Len(c)]
  BY <1>3, <1>4, ConcatProperties
<1>6. InsertAt(s, k, e) = c \o b
  BY DEF InsertAt, a, b, c
<1> DEFINE t == c \o b
<1>7. t \in Seq(S) /\ Len(t) = Len(s) + 1
  BY <1>1, <1>3, <1>4, <1>5
<1>8. \A i \in 1..(Len(s) + 1) : t[i] = IF i < k THEN s[i] ELSE IF i = k THEN e ELSE s[i - 1]
  <2> SUFFICES ASSUME NEW i \in 1..(Len(s) + 1)
               PROVE  t[i] = IF i < k THEN s[i] ELSE IF i = k THEN e ELSE s[i - 1]
    OBVIOUS
  <2>1. t[i] = IF i <= k THEN c[i] ELSE b[i - k]
    BY <1>1, <1>3, <1>4, <1>5
  <2> HIDE DEF t
  <2>2. CASE i <= k
    BY <1>4, <2>1, <2>2
  <2>3. CASE i > k
    BY <1>1, <1>3, <2>1, <2>3
  <2> QED BY <2>2, <2>3
<1> HIDE DEF t
<1> QED BY <1>6, <1>7, <1>8 DEF t

LEMMA RemoveElements ==
  ASSUME NEW S, NEW s \in Seq(S), NEW k \in 1..Len(s)
  PROVE  /\ RemoveAt(s, k) \in Seq(S) /\ Len(RemoveAt(s, k)) = Len(s) - 1
         /\ \A i \in 1..(Len(s) - 1) : RemoveAt(s, k)[i] = IF i < k THEN s[i] ELSE s[i + 1]
<1> DEFINE a == SubSeq(s, 1, k - 1)
           b == SubSeq(s, k + 1, Len(s))
<1>1. Len(s) \in Nat /\ k \in Int /\ k - 1 \in Int /\ k + 1 \in Int /\ \A i \in 1..Len(s) : s[i] \in S
  OBVIOUS
<1>2. a \in Seq(S) /\ Len(a) = k - 1 /\ \A i \in 1..(k - 1) : a[i] = s[i]
  <2>1. \A i \in 1..(k - 1) : s[i] \in S
    BY <1>1
  <2>2. /\ a \in Seq(S) /\ Len(a) = IF 1 <= k - 1 THEN (k - 1) - 1 + 1 ELSE 0
        /\ \A i \in 1..((k - 1) - 1 + 1) : a[i] = s[1 + i - 1]
    BY <1>1, <2>1, SubSeqProperties
  <2> HIDE DEF a
  <2> QED BY <2>2
<1>3. b \in Seq(S) /\ Len(b) = Len(s) - k /\ \A i \in 1..(Len(s) - k) : b[i] = s[k + i]
  <2>1. \A i \in (k + 1)..Len(s) : s[i] \in S
    BY <1>1
  <2>2. /\ b \in Seq(S) /\ Len(b) = IF k + 1 <= Len(s) THEN Len(s) - (k + 1) + 1 ELSE 0
        /\ \A i \in 1..(Len(s) - (k + 1) + 1) : b[i] = s[(k + 1) + i - 1]
    BY <1>1, <2>1, SubSeqProperties
  <2> HIDE DEF b
  <2> QED BY <2>2
<1> HIDE DEF a, b
<1>4. /\ a \o b \in Seq(S) /\ Len(a \o b) = Len(a) + Len(b)
      /\ \A i \in 1..(Len(a) + Len(b)) : (a \o b)[i] = IF i <= Len(a) THEN a[i] ELSE b[i - Len(a)]
  BY <1>2, <1>3, ConcatProperties
<1>5. RemoveAt(s, k) = a \o b
  BY DEF RemoveAt, a, b
<1> DEFINE t == a \o b
<1>6. t \in Seq(S) /\ Len(t) = Len(s) - 1
  BY <1>1, <1>2, <1>3, <1>4
<1>7. \A i \in 1..(Len(s) - 1) : t[i] = IF i < k THEN s[i] ELSE s[i + 1]
  <2> SUFFICES ASSUME NEW i \in 1..(Len(s) - 1) PROVE t[i] = IF i < k THEN s[i] ELSE s[i + 1]
    OBVIOUS
  <2>1. t[i] = IF i <= k - 1 THEN a[i] ELSE b[i - (k - 1)]
    BY <1>1, <1>2, <1>3, <1>4
  <2> HIDE DEF t
  <2>2. CASE i < k
    BY <1>2, <2>1, <2>2
  <2>3. CASE i >= k
    BY <1>1, <1>3, <2>1, <2>3
  <2> QED BY <2>2, <2>3
<1> HIDE DEF t
<1> QED BY <1>5, <1>6, <1>7 DEF t

\* A new element is inserted where it belongs.
LEMMA InsertSorted ==
  ASSUME NEW s \in Seq(Nat), Inc(s), NEW p \in Nat, p \notin Range(s),
         NEW t, t = InsertAt(s, SearchInts(s, p), p)
  PROVE  t \in Seq(Nat) /\ Inc(t) /\ Range(t) = Range(s) \cup {p}
<1> DEFINE k == SearchInts(s, p)
<1>2. k \in 1..(Len(s) + 1) /\ \A i \in DOMAIN s : i < k <=> s[i] < p
  BY SearchCuts
<1> HIDE DEF k
<1>1. Len(s) \in Nat /\ DOMAIN s = 1..Len(s) /\ \A i \in DOMAIN s : s[i] \in Nat
  OBVIOUS
<1>4. /\ t \in Seq(Nat) /\ Len(t) = Len(s) + 1
      /\ \A i \in 1..Len(t) : t[i] = IF i < k THEN s[i] ELSE IF i = k THEN p ELSE s[i - 1]
  <2>1. t = InsertAt(s, k, p)
    BY DEF k
  <2> QED BY <1>2, <2>1, InsertElements, SMTT(30)
<1>3. DOMAIN t = 1..(Len(s) + 1)
  BY <1>4
<1>5. \A i \in DOMAIN s : s[i] # p
  BY DEF Range
<1>6. Inc(t)
  <2> SUFFICES ASSUME NEW i \in DOMAIN t, NEW j \in DOMAIN t, i < j PROVE t[i] < t[j]
    BY DEF Inc
  <2>1. i \in 1..(Len(s) + 1) /\ j \in 1..(Len(s) + 1)
    BY <1>3
  <2>2. CASE j < k
    <3>1. i \in DOMAIN s /\ j \in DOMAIN s /\ t[i] = s[i] /\ t[j] = s[j]
      BY <1>1, <1>2, <1>4, <2>1, <2>2
    <3> QED BY <3>1 DEF Inc
  <2>3. CASE j = k
    <3>1. i \in DOMAIN s /\ i < k /\ t[i] = s[i] /\ t[j] = p
      BY <1>1, <1>2, <1>4, <2>1, <2>3
    <3> QED BY <1>2, <3>1
  <2>4. CASE j > k
    <3>1. j - 1 \in DOMAIN s /\ t[j] = s[j - 1] /\ ~(j - 1 < k)
      BY <1>1, <1>2, <1>4, <2>1, <2>4, SMTT(30)
    <3>2. s[j - 1] \in Nat /\ p \in Nat /\ s[j - 1] > p
      BY <1>1, <1>2, <1>5, <3>1
    <3>3. CASE i < k
      <4>1. i \in DOMAIN s /\ t[i] = s[i]
        BY <1>1, <1>2, <1>4, <2>1, <3>3
      <4>2. i < j - 1
        BY <1>2, <2>1, <2>4, <3>3
      <4> QED BY <3>1, <4>1, <4>2 DEF Inc
    <3>4. CASE i = k
      BY <1>1, <1>2, <1>4, <2>1, <3>1, <3>2, <3>4
    <3>5. CASE i > k
      <4>1. i - 1 \in DOMAIN s /\ t[i] = s[i - 1] /\ i - 1 < j - 1
        BY <1>1, <1>2, <1>4, <2>1, <3>5, SMTT(30)
      <4> QED BY <3>1, <4>1 DEF Inc
    <3> QED BY <1>2, <2>1, <3>3, <3>4, <3>5
  <2> QED BY <1>2, <2>1, <2>2, <2>3, <2>4
<1>7. Range(t) \subseteq Range(s) \cup {p}
  <2> SUFFICES ASSUME NEW i \in DOMAIN t PROVE t[i] \in Range(s) \cup {p}
    BY DEF Range
  <2>1. i \in 1..(Len(s) + 1)
    BY <1>3
  <2>2. \/ i \in DOMAIN s /\ t[i] = s[i]
        \/ t[i] = p
        \/ i - 1 \in DOMAIN s /\ t[i] = s[i - 1]
    BY <1>1, <1>2, <1>4, <2>1, SMTT(30)
  <2> QED BY <2>2 DEF Range
<1>8. Range(s) \cup {p} \subseteq Range(t)
  <2>1. k \in DOMAIN t /\ t[k] = p
    BY <1>1, <1>2, <1>3, <1>4
  <2>2. ASSUME NEW i \in DOMAIN s PROVE \E j \in DOMAIN t : t[j] = s[i]
    <3>1. CASE i < k
      <4>1. i \in DOMAIN t /\ t[i] = s[i]
        BY <1>1, <1>2, <1>3, <1>4, <3>1
      <4> QED BY <4>1
    <3>2. CASE i >= k
      <4>1. i + 1 \in DOMAIN t /\ t[i + 1] = s[i]
        BY <1>1, <1>2, <1>3, <1>4, <3>2
      <4> QED BY <4>1
    <3> QED BY <1>2, <3>1, <3>2
  <2> QED BY <2>1, <2>2 DEF Range
<1> QED BY <1>4, <1>6, <1>7, <1>8

\* The element that SearchInts finds is taken out.
LEMMA RemoveSorted ==
  ASSUME NEW s \in Seq(Nat), Inc(s), NEW p \in Range(s), NEW k, k = SearchInts(s, p)
  PROVE  /\ k \in DOMAIN s /\ s[k] = p
         /\ RemoveAt(s, k) \in Seq(Nat) /\ Inc(RemoveAt(s, k))
         /\ Range(RemoveAt(s, k)) = Range(s) \ {p}
<1>1. Len(s) \in Nat /\ DOMAIN s = 1..Len(s) /\ \A i \in DOMAIN s : s[i] \in Nat
  OBVIOUS
<1>2. PICK n \in DOMAIN s : s[n] = p
  BY DEF Range
<1>3. p \in Nat
  BY <1>1, <1>2
<1>4. k \in 1..(Len(s) + 1) /\ \A i \in DOMAIN s : i < k <=> s[i] < p
  BY <1>3, SearchCuts
<1>5. k = n
  <2>1. ~(n < k)
    BY <1>1, <1>2, <1>4
  <2>2. n \in Nat /\ k \in Nat
    BY <1>1, <1>4
  <2>3. ASSUME k < n PROVE FALSE
    <3>1. k \in DOMAIN s
      BY <1>1, <1>4, <2>3
    <3>2. s[k] < p
      BY <1>2, <2>3, <3>1 DEF Inc
    <3> QED BY <1>4, <2>2, <3>1, <3>2
  <2> QED BY <2>1, <2>2, <2>3
<1> DEFINE t == RemoveAt(s, k)
<1>6. /\ t \in Seq(Nat) /\ Len(t) = Len(s) - 1
      /\ \A i \in 1..(Len(s) - 1) : t[i] = IF i < k THEN s[i] ELSE s[i + 1]
  <2>1. k \in 1..Len(s)
    BY <1>1, <1>5
  <2> QED BY <2>1, RemoveElements
<1> HIDE DEF t
<1>7. DOMAIN t = 1..(Len(s) - 1)
  BY <1>6
<1>11. \A i \in DOMAIN t : /\ i \in Nat
                           /\ i < k => i \in DOMAIN s /\ t[i] = s[i]
                           /\ i >= k => i + 1 \in DOMAIN s /\ t[i] = s[i + 1]
  <2> TAKE i \in DOMAIN t
  <2>1. i \in 1..(Len(s) - 1)
    BY <1>7
  <2>2. t[i] = IF i < k THEN s[i] ELSE s[i + 1]
    BY <1>6, <2>1
  <2> QED BY <1>1, <1>4, <2>1, <2>2
<1>12. k \in Nat
  BY <1>4
<1>8. Inc(t)
  <2> SUFFICES ASSUME NEW i \in DOMAIN t, NEW j \in DOMAIN t, i < j PROVE t[i] < t[j]
    BY DEF Inc
  <2> DEFINE At(x) == IF x < k THEN x ELSE x + 1
  <2>1. /\ At(i) \in DOMAIN s /\ t[i] = s[At(i)]
        /\ At(j) \in DOMAIN s /\ t[j] = s[At(j)] /\ At(i) < At(j)
    BY <1>11, <1>12, SMTT(30)
  <2> HIDE DEF At
  <2> QED BY <2>1 DEF Inc
<1>9. Range(t) \subseteq Range(s) \ {p}
  <2> SUFFICES ASSUME NEW i \in DOMAIN t PROVE t[i] \in Range(s) \ {p}
    BY DEF Range
  <2> DEFINE m == IF i < k THEN i ELSE i + 1
  <2>1. m \in DOMAIN s /\ t[i] = s[m] /\ (m < k \/ k < m)
    BY <1>11, <1>12
  <2> HIDE DEF m
  <2>2. s[m] < s[k] \/ s[k] < s[m]
    BY <1>5, <2>1 DEF Inc
  <2>3. s[m] # p
    BY <1>1, <1>2, <1>5, <2>1, <2>2
  <2> QED BY <2>1, <2>3 DEF Range
<1>10. Range(s) \ {p} \subseteq Range(t)
  <2> SUFFICES ASSUME NEW i \in DOMAIN s, s[i] # p PROVE \E j \in DOMAIN t : t[j] = s[i]
    BY DEF Range
  <2> DEFINE m == IF i < k THEN i ELSE i - 1
  <2>1. i # k
    BY <1>2, <1>5
  <2>2. m \in DOMAIN t /\ t[m] = s[i]
    BY <1>1, <1>4, <1>5, <1>6, <1>7, <2>1, SMTT(30)
  <2> QED BY <2>2
<1> QED BY <1>2, <1>5, <1>6, <1>8, <1>9, <1>10 DEF t

\* A sorted list is determined by its elements.
LEMMA SortedUnique ==
  ASSUME NEW s \in Seq(Nat), Inc(s), NEW t \in Seq(Nat), Inc(t), Range(s) = Range(t)
  PROVE  s = t
<1> DEFINE Same(a, b, n) == n \in DOMAIN a => n \in DOMAIN b /\ a[n] = b[n]
           Bad == {n \in Nat : ~Same(s, t, n) \/ ~Same(t, s, n)}
<1>1. /\ Len(s) \in Nat /\ DOMAIN s = 1..Len(s) /\ \A i \in DOMAIN s : s[i] \in Nat
      /\ Len(t) \in Nat /\ DOMAIN t = 1..Len(t) /\ \A i \in DOMAIN t : t[i] \in Nat
  OBVIOUS
<1>2. ASSUME NEW a \in Seq(Nat), Inc(a), NEW b \in Seq(Nat), Inc(b), Range(a) = Range(b),
             NEW n \in Nat, \A m \in Nat : m < n => Same(a, b, m) /\ Same(b, a, m)
      PROVE  Same(a, b, n)
  <2> SUFFICES ASSUME n \in DOMAIN a PROVE n \in DOMAIN b /\ a[n] = b[n]
    OBVIOUS
  <2>0. /\ Len(a) \in Nat /\ DOMAIN a = 1..Len(a) /\ \A i \in DOMAIN a : a[i] \in Nat
        /\ Len(b) \in Nat /\ DOMAIN b = 1..Len(b) /\ \A i \in DOMAIN b : b[i] \in Nat
    BY <1>2
  <2>1. PICK m \in DOMAIN b : b[m] = a[n]
    BY <1>2 DEF Range
  <2>2. ASSUME m < n PROVE FALSE
    <3>1. m \in DOMAIN a /\ a[m] = b[m]
      BY <1>2, <2>0, <2>2
    <3>2. a[m] < a[n]
      BY <1>2, <2>2, <3>1 DEF Inc
    <3> QED BY <2>0, <2>1, <3>1, <3>2
  <2>3. n \in DOMAIN b
    BY <2>0, <2>2
  <2>4. PICK j \in DOMAIN a : a[j] = b[n]
    BY <1>2, <2>3 DEF Range
  <2>5. ASSUME j < n PROVE FALSE
    <3>1. j \in DOMAIN b /\ a[j] = b[j]
      BY <1>2, <2>0, <2>5
    <3>2. b[j] < b[n]
      BY <1>2, <2>3, <2>5, <3>1 DEF Inc
    <3> QED BY <2>0, <2>3, <2>4, <3>1, <3>2
  <2>6. m = n \/ b[n] < b[m]
    <3>1. m = n \/ n < m
      BY <2>0, <2>2
    <3> QED BY <1>2, <2>3, <3>1 DEF Inc
  <2>7. j = n \/ a[n] < a[j]
    <3>1. j = n \/ n < j
      BY <2>0, <2>5
    <3> QED BY <1>2, <3>1 DEF Inc
  <2> QED BY <2>0, <2>1, <2>3, <2>4, <2>6, <2>7
<1>3. SUFFICES ASSUME Bad # {} PROVE FALSE
  <2>1. Bad = {} => \A n \in Nat : Same(s, t, n) /\ Same(t, s, n)
    OBVIOUS
  <2> SUFFICES ASSUME \A n \in Nat : Same(s, t, n) /\ Same(t, s, n) PROVE s = t
    BY <2>1
  <2>2. \A n : n \in DOMAIN s \/ n \in DOMAIN t => n \in Nat
    BY <1>1
  <2>3. DOMAIN s = DOMAIN t /\ \A n \in DOMAIN s : s[n] = t[n]
    BY <2>2
  <2>4. Len(s) = Len(t)
    <3>1. ~(Len(s) < Len(t))
      <4> SUFFICES ASSUME Len(s) < Len(t) PROVE FALSE
        OBVIOUS
      <4>1. Len(t) \in DOMAIN t /\ Len(t) \notin DOMAIN s
        BY <1>1
      <4> QED BY <2>3, <4>1
    <3>2. ~(Len(t) < Len(s))
      <4> SUFFICES ASSUME Len(t) < Len(s) PROVE FALSE
        OBVIOUS
      <4>1. Len(s) \in DOMAIN s /\ Len(s) \notin DOMAIN t
        BY <1>1
      <4> QED BY <2>3, <4>1
    <3>3. Len(s) \in Nat /\ Len(t) \in Nat
      BY <1>1
    <3> HIDE DEF Bad, Same
    <3> QED BY <3>1, <3>2, <3>3
  <2> QED BY <1>1, <2>3, <2>4
<1>4. PICK n \in Bad : \A m \in Bad : n <= m
  <2>1. Bad \in SUBSET Nat
    OBVIOUS
  <2> HIDE DEF Bad
  <2> QED BY <1>3, <2>1, LeastNatural
<1>5. n \in Nat /\ \A m \in Nat : m < n => Same(s, t, m) /\ Same(t, s, m)
  BY <1>4
<1>6. Same(s, t, n)
  <2> HIDE DEF Same
  <2> QED BY <1>2, <1>5
<1>7. Same(t, s, n)
  <2> HIDE DEF Same
  <2> QED BY <1>2, <1>5
<1> QED BY <1>4, <1>6, <1>7

-----------------------------------------------------------------------------
(* Plans whose index is exact *)

\* The index of a plan: sorted lists that hold what the assignment says.
Good(pl) ==
  /\ pl \in [assign : [Positions -> People], by : [Invigilators -> Seq(Nat)]]
  /\ \A v \in Invigilators :
        Inc(pl.by[v]) /\ Of(pl, v) = {p \in Positions : pl.assign[p] = v}

\* Two plans with the same assignment are the same plan.
LEMMA GoodUnique ==
  ASSUME NEW pl, Good(pl), NEW ql, Good(ql), pl.assign = ql.assign
  PROVE  pl = ql
<1>1. \A v \in Invigilators : pl.by[v] = ql.by[v]
  <2> TAKE v \in Invigilators
  <2>1. /\ pl.by[v] \in Seq(Nat) /\ Inc(pl.by[v]) /\ ql.by[v] \in Seq(Nat) /\ Inc(ql.by[v])
        /\ Range(pl.by[v]) = Range(ql.by[v])
    BY DEF Good, Of
  <2> QED BY <2>1, SortedUnique
<1>2. pl.by \in [Invigilators -> Seq(Nat)] /\ ql.by \in [Invigilators -> Seq(Nat)]
  BY DEF Good
<1>3. pl.by = ql.by
  BY <1>1, <1>2
<1> QED BY <1>3 DEF Good

\* clear takes the position out of one list only.
LEMMA ClearedGood ==
  ASSUME NEW pl, Good(pl), NEW p \in Positions
  PROVE  Good(Cleared(pl, p)) /\ Cleared(pl, p).assign = [pl.assign EXCEPT ![p] = Unassigned]
<1> DEFINE v == pl.assign[p]
           k == SearchInts(pl.by[v], p)
           ql == Cleared(pl, p)
<1>1. v \in People /\ Unassigned \notin Invigilators
  BY InvigProblemAssumption DEF Good
<1>2. CASE v = Unassigned
  <2>1. ql = pl
    BY <1>2 DEF Cleared
  <2>2. [pl.assign EXCEPT ![p] = Unassigned] = pl.assign
    BY <1>2 DEF Good
  <2> QED BY <2>1, <2>2
<1>3. CASE v # Unassigned
  <2>1. v \in Invigilators
    BY <1>1, <1>3 DEF People
  <2>2. /\ pl.by[v] \in Seq(Nat) /\ Inc(pl.by[v]) /\ p \in Range(pl.by[v])
        /\ Range(pl.by[v]) = {q \in Positions : pl.assign[q] = v}
    BY <2>1 DEF Good, Of
  <2> DEFINE s == RemoveAt(pl.by[v], k)
             a == [pl.assign EXCEPT ![p] = Unassigned]
             b == [pl.by EXCEPT ![v] = s]
  <2>3. /\ k \in DOMAIN pl.by[v] /\ pl.by[v][k] = p
        /\ s \in Seq(Nat) /\ Inc(s) /\ Range(s) = Range(pl.by[v]) \ {p}
    BY <2>2, RemoveSorted
  <2>4. ql = [assign |-> a, by |-> b]
    BY <1>3, <2>3 DEF Cleared
  <2> HIDE DEF ql, s, k
  <2>5. a \in [Positions -> People] /\ b \in [Invigilators -> Seq(Nat)]
    BY <2>1, <2>3 DEF Good, People
  <2>6. ASSUME NEW w \in Invigilators
        PROVE  Inc(b[w]) /\ Range(b[w]) = {q \in Positions : a[q] = w}
    <3>1. CASE w = v
      <4>1. b[w] = s
        BY <3>1, <2>1 DEF Good
      <4>2. \A q \in Positions : a[q] = w <=> pl.assign[q] = w /\ q # p
        BY <1>1, <3>1, <2>1 DEF Good
      <4> QED BY <2>2, <2>3, <3>1, <4>1, <4>2
    <3>2. CASE w # v
      <4>1. b[w] = pl.by[w]
        BY <3>2, <2>1 DEF Good
      <4>2. \A q \in Positions : a[q] = w <=> pl.assign[q] = w
        BY <1>1, <3>2 DEF Good
      <4>3. Inc(pl.by[w]) /\ Range(pl.by[w]) = {q \in Positions : pl.assign[q] = w}
        BY DEF Good, Of
      <4> HIDE DEF a, b, v
      <4> QED BY <4>1, <4>2, <4>3
    <3> QED BY <3>1, <3>2
  <2> HIDE DEF a, b
  <2>7. ql.assign = a /\ ql.by = b /\ ql \in [assign : [Positions -> People], by : [Invigilators -> Seq(Nat)]]
    BY <2>4, <2>5
  <2>8. Good(ql)
    BY <2>6, <2>7 DEF Good, Of
  <2> QED BY <2>7, <2>8 DEF a, ql
<1> QED BY <1>2, <1>3

\* set puts it into one list.
LEMMA AssignedGood ==
  ASSUME NEW pl, Good(pl), NEW p \in Positions, NEW v \in Invigilators
  PROVE  Good(Assigned(pl, p, v)) /\ Assigned(pl, p, v).assign = [pl.assign EXCEPT ![p] = v]
<1> DEFINE free == Cleared(pl, p)
           s == InsertAt(free.by[v], SearchInts(free.by[v], p), p)
           a == [free.assign EXCEPT ![p] = v]
           b == [free.by EXCEPT ![v] = s]
           ql == Assigned(pl, p, v)
<1>1. Good(free) /\ free.assign = [pl.assign EXCEPT ![p] = Unassigned]
  BY ClearedGood
<1>2. v \in People /\ v # Unassigned /\ p \in Nat
  BY InvigProblemAssumption DEF People
<1> HIDE DEF free
<1>3. ql = [assign |-> a, by |-> b]
  BY <1>1 DEF Assigned, free, Good
<1>4. /\ free.by[v] \in Seq(Nat) /\ Inc(free.by[v])
      /\ Range(free.by[v]) = {q \in Positions : free.assign[q] = v}
  BY <1>1 DEF Good, Of
<1>5. p \notin Range(free.by[v])
  BY <1>1, <1>2, <1>4 DEF Good
<1>6. s \in Seq(Nat) /\ Inc(s) /\ Range(s) = Range(free.by[v]) \cup {p}
  BY <1>2, <1>4, <1>5, InsertSorted
<1> HIDE DEF ql, s
<1>7. a \in [Positions -> People] /\ b \in [Invigilators -> Seq(Nat)]
  BY <1>1, <1>2, <1>6 DEF Good
<1>8. ASSUME NEW w \in Invigilators
      PROVE  Inc(b[w]) /\ Range(b[w]) = {q \in Positions : a[q] = w}
  <2>1. CASE w = v
    <3>1. b[w] = s
      BY <2>1, <1>1 DEF Good
    <3>2. \A q \in Positions : a[q] = w <=> free.assign[q] = w \/ q = p
      BY <1>1, <2>1 DEF Good
    <3> HIDE DEF a, b
    <3> QED BY <1>4, <1>6, <2>1, <3>1, <3>2
  <2>2. CASE w # v
    <3>1. b[w] = free.by[w]
      BY <2>2, <1>1 DEF Good
    <3>2. free.assign[p] # w
      BY <1>1, InvigProblemAssumption DEF Good
    <3>3. \A q \in Positions : a[q] = w <=> free.assign[q] = w
      BY <1>1, <2>2, <3>2 DEF Good
    <3>4. Inc(free.by[w]) /\ Range(free.by[w]) = {q \in Positions : free.assign[q] = w}
      BY <1>1 DEF Good, Of
    <3> HIDE DEF a, b
    <3> QED BY <3>1, <3>3, <3>4
  <2> QED BY <2>1, <2>2
<1>9. a = [pl.assign EXCEPT ![p] = v]
  BY <1>1 DEF Good
<1> HIDE DEF a, b
<1>10. ql.assign = a /\ ql.by = b /\ ql \in [assign : [Positions -> People], by : [Invigilators -> Seq(Nat)]]
  BY <1>3, <1>7
<1>11. Good(ql)
  BY <1>8, <1>10 DEF Good, Of
<1> QED BY <1>9, <1>10, <1>11 DEF ql

LEMMA PutGood ==
  ASSUME NEW pl, Good(pl), NEW p \in Positions, NEW v \in People
  PROVE  /\ Good(Put(pl, p, v))
         /\ Put(pl, p, v).assign = IF p \in Fixed THEN pl.assign ELSE [pl.assign EXCEPT ![p] = v]
<1>1. CASE p \in Fixed
  BY <1>1 DEF Put
<1>2. CASE p \notin Fixed /\ v = Unassigned
  BY <1>2, ClearedGood DEF Put
<1>3. CASE p \notin Fixed /\ v # Unassigned
  BY <1>3, AssignedGood DEF Put, People
<1> QED BY <1>1, <1>2, <1>3

-----------------------------------------------------------------------------
(* A proposal: one change or two, applied from the left, taken back from the right *)

ApplySteps(pl, cs, iter) ==
  iter = [s \in SUBSET DOMAIN cs |->
            IF s = {} THEN pl ELSE Put(iter[s \ {Max(s)}], cs[Max(s)].pos, cs[Max(s)].new)]
UndoSteps(pl, cs, iter) ==
  iter = [s \in SUBSET DOMAIN cs |->
            IF s = {} THEN pl ELSE Put(iter[s \ {Min(s)}], cs[Min(s)].pos, cs[Min(s)].old)]

LEMMA FoldsAreSteps ==
  ASSUME NEW pl, NEW cs
  PROVE  /\ Applied(pl, cs) = (CHOOSE iter : ApplySteps(pl, cs, iter))[DOMAIN cs]
         /\ Undone(pl, cs) = (CHOOSE iter : UndoSteps(pl, cs, iter))[DOMAIN cs]
<1>1. Applied(pl, cs) = (CHOOSE iter : ApplySteps(pl, cs, iter))[DOMAIN cs]
  BY DEF Applied, FoldLeft, MapThenFoldSet, ApplySteps
<1>2. Undone(pl, cs) = (CHOOSE iter : UndoSteps(pl, cs, iter))[DOMAIN cs]
  BY DEF Undone, FoldRight, MapThenFoldSet, UndoSteps
<1> QED BY <1>1, <1>2

LEMMA ExtremesOfTwo ==
  /\ Max({1}) = 1 /\ Min({1}) = 1 /\ Max({2}) = 2 /\ Min({2}) = 2
  /\ Max({1, 2}) = 2 /\ Min({1, 2}) = 1
<1>1. Max({1}) = 1 /\ Min({1}) = 1 /\ Max({2}) = 2 /\ Min({2}) = 2
  BY DEF Max, Min
<1>2. Max({1, 2}) \in {1, 2} /\ \A y \in {1, 2} : Max({1, 2}) >= y
  <2>1. \E x \in {1, 2} : \A y \in {1, 2} : x >= y
    OBVIOUS
  <2> QED BY <2>1 DEF Max
<1>3. Min({1, 2}) \in {1, 2} /\ \A y \in {1, 2} : Min({1, 2}) <= y
  <2>1. \E x \in {1, 2} : \A y \in {1, 2} : x <= y
    OBVIOUS
  <2> QED BY <2>1 DEF Min
<1> QED BY <1>1, <1>2, <1>3

LEMMA OneChange ==
  ASSUME NEW pl, NEW c
  PROVE  Applied(pl, <<c>>) = Put(pl, c.pos, c.new) /\ Undone(pl, <<c>>) = Put(pl, c.pos, c.old)
<1> DEFINE cs == <<c>>
           D == {1}
           f == [s \in SUBSET D |-> IF s = {} THEN pl ELSE Put(pl, c.pos, c.new)]
           g == [s \in SUBSET D |-> IF s = {} THEN pl ELSE Put(pl, c.pos, c.old)]
           a == CHOOSE iter : ApplySteps(pl, cs, iter)
           u == CHOOSE iter : UndoSteps(pl, cs, iter)
<1>1. DOMAIN cs = D /\ cs[1] = c
  OBVIOUS
<1>2. \A s \in SUBSET D : s # {} => s = D
  OBVIOUS
<1>3. Max(D) = 1 /\ Min(D) = 1 /\ D \ {Max(D)} = {} /\ D \ {Min(D)} = {} /\ D # {}
  BY ExtremesOfTwo
<1>4. {} \in SUBSET D /\ D \in SUBSET D
  OBVIOUS
<1> HIDE DEF cs, D
<1>5. ApplySteps(pl, cs, f)
  <2>1. \A s \in SUBSET D :
          f[s] = IF s = {} THEN pl ELSE Put(f[s \ {Max(s)}], cs[Max(s)].pos, cs[Max(s)].new)
    BY <1>1, <1>2, <1>3, <1>4
  <2>2. f = [s \in SUBSET D |-> f[s]]
    OBVIOUS
  <2> HIDE DEF f
  <2> QED BY <1>1, <2>1, <2>2 DEF ApplySteps
<1>6. UndoSteps(pl, cs, g)
  <2>1. \A s \in SUBSET D :
          g[s] = IF s = {} THEN pl ELSE Put(g[s \ {Min(s)}], cs[Min(s)].pos, cs[Min(s)].old)
    BY <1>1, <1>2, <1>3, <1>4
  <2>2. g = [s \in SUBSET D |-> g[s]]
    OBVIOUS
  <2> HIDE DEF g
  <2> QED BY <1>1, <2>1, <2>2 DEF UndoSteps
<1> HIDE DEF f, g
<1>7. ApplySteps(pl, cs, a) /\ UndoSteps(pl, cs, u)
  BY <1>5, <1>6
<1> HIDE DEF a, u
<1>8. \A s \in SUBSET D :
        a[s] = IF s = {} THEN pl ELSE Put(a[s \ {Max(s)}], cs[Max(s)].pos, cs[Max(s)].new)
  BY <1>1, <1>7 DEF ApplySteps
<1>9. \A s \in SUBSET D :
        u[s] = IF s = {} THEN pl ELSE Put(u[s \ {Min(s)}], cs[Min(s)].pos, cs[Min(s)].old)
  BY <1>1, <1>7 DEF UndoSteps
<1>10. a[D] = Put(pl, c.pos, c.new) /\ u[D] = Put(pl, c.pos, c.old)
  <2>1. /\ a[D] = Put(a[D \ {Max(D)}], cs[Max(D)].pos, cs[Max(D)].new)
        /\ u[D] = Put(u[D \ {Min(D)}], cs[Min(D)].pos, cs[Min(D)].old)
        /\ a[{}] = pl /\ u[{}] = pl
    BY <1>3, <1>4, <1>8, <1>9
  <2> QED BY <1>1, <1>3, <2>1
<1>11. Applied(pl, cs) = a[D] /\ Undone(pl, cs) = u[D]
  BY <1>1, FoldsAreSteps DEF a, u
<1> QED BY <1>10, <1>11 DEF cs

LEMMA TwoChanges ==
  ASSUME NEW pl, NEW c, NEW d
  PROVE  /\ Applied(pl, <<c, d>>) = Put(Put(pl, c.pos, c.new), d.pos, d.new)
         /\ Undone(pl, <<c, d>>) = Put(Put(pl, d.pos, d.old), c.pos, c.old)
<1> DEFINE cs == <<c, d>>
           D == {1, 2}
           I == {1}
           J == {2}
           f == [s \in SUBSET D |->
                   IF s = {} THEN pl
                   ELSE IF s = I THEN Put(pl, c.pos, c.new)
                   ELSE IF s = J THEN Put(pl, d.pos, d.new)
                   ELSE Put(Put(pl, c.pos, c.new), d.pos, d.new)]
           g == [s \in SUBSET D |->
                   IF s = {} THEN pl
                   ELSE IF s = I THEN Put(pl, c.pos, c.old)
                   ELSE IF s = J THEN Put(pl, d.pos, d.old)
                   ELSE Put(Put(pl, d.pos, d.old), c.pos, c.old)]
           a == CHOOSE iter : ApplySteps(pl, cs, iter)
           u == CHOOSE iter : UndoSteps(pl, cs, iter)
<1>1. DOMAIN cs = D /\ cs[1] = c /\ cs[2] = d
  OBVIOUS
<1>2. \A s \in SUBSET D : s = {} \/ s = I \/ s = J \/ s = D
  OBVIOUS
<1>3. /\ Max(I) = 1 /\ Min(I) = 1 /\ Max(J) = 2 /\ Min(J) = 2
      /\ Max(D) = 2 /\ Min(D) = 1
  BY ExtremesOfTwo
<1>4. /\ I \ {Max(I)} = {} /\ J \ {Max(J)} = {} /\ D \ {Max(D)} = I
      /\ I \ {Min(I)} = {} /\ J \ {Min(J)} = {} /\ D \ {Min(D)} = J
      /\ I # J /\ D # I /\ D # J /\ D # {} /\ I # {} /\ J # {}
      /\ {} \in SUBSET D /\ I \in SUBSET D /\ J \in SUBSET D /\ D \in SUBSET D
  BY ExtremesOfTwo
<1> HIDE DEF cs, D, I, J
<1>5. ApplySteps(pl, cs, f)
  <2>1. /\ f[{}] = pl /\ f[I] = Put(pl, c.pos, c.new) /\ f[J] = Put(pl, d.pos, d.new)
        /\ f[D] = Put(Put(pl, c.pos, c.new), d.pos, d.new)
    BY <1>4
  <2>2. f = [s \in SUBSET D |-> f[s]]
    OBVIOUS
  <2> HIDE DEF f
  <2>3. \A s \in SUBSET D :
          f[s] = IF s = {} THEN pl ELSE Put(f[s \ {Max(s)}], cs[Max(s)].pos, cs[Max(s)].new)
    <3> TAKE s \in SUBSET D
    <3>1. CASE s = {}
      BY <2>1, <3>1
    <3>2. CASE s = I
      BY <1>1, <1>3, <1>4, <2>1, <3>2
    <3>3. CASE s = J
      BY <1>1, <1>3, <1>4, <2>1, <3>3
    <3>4. CASE s = D
      BY <1>1, <1>3, <1>4, <2>1, <3>4
    <3> QED BY <1>2, <3>1, <3>2, <3>3, <3>4
  <2> QED BY <1>1, <2>2, <2>3 DEF ApplySteps
<1>6. UndoSteps(pl, cs, g)
  <2>1. /\ g[{}] = pl /\ g[I] = Put(pl, c.pos, c.old) /\ g[J] = Put(pl, d.pos, d.old)
        /\ g[D] = Put(Put(pl, d.pos, d.old), c.pos, c.old)
    BY <1>4
  <2>2. g = [s \in SUBSET D |-> g[s]]
    OBVIOUS
  <2> HIDE DEF g
  <2>3. \A s \in SUBSET D :
          g[s] = IF s = {} THEN pl ELSE Put(g[s \ {Min(s)}], cs[Min(s)].pos, cs[Min(s)].old)
    <3> TAKE s \in SUBSET D
    <3>1. CASE s = {}
      BY <2>1, <3>1
    <3>2. CASE s = I
      BY <1>1, <1>3, <1>4, <2>1, <3>2
    <3>3. CASE s = J
      BY <1>1, <1>3, <1>4, <2>1, <3>3
    <3>4. CASE s = D
      BY <1>1, <1>3, <1>4, <2>1, <3>4
    <3> QED BY <1>2, <3>1, <3>2, <3>3, <3>4
  <2> QED BY <1>1, <2>2, <2>3 DEF UndoSteps
<1> HIDE DEF f, g
<1>7. ApplySteps(pl, cs, a) /\ UndoSteps(pl, cs, u)
  BY <1>5, <1>6
<1> HIDE DEF a, u
<1>8. \A s \in SUBSET D :
        a[s] = IF s = {} THEN pl ELSE Put(a[s \ {Max(s)}], cs[Max(s)].pos, cs[Max(s)].new)
  BY <1>1, <1>7 DEF ApplySteps
<1>9. \A s \in SUBSET D :
        u[s] = IF s = {} THEN pl ELSE Put(u[s \ {Min(s)}], cs[Min(s)].pos, cs[Min(s)].old)
  BY <1>1, <1>7 DEF UndoSteps
<1>10. a[D] = Put(Put(pl, c.pos, c.new), d.pos, d.new)
  <2>1. a[I] = Put(pl, c.pos, c.new)
    BY <1>1, <1>3, <1>4, <1>8
  <2> QED BY <1>1, <1>3, <1>4, <1>8, <2>1
<1>11. u[D] = Put(Put(pl, d.pos, d.old), c.pos, c.old)
  <2>1. u[J] = Put(pl, d.pos, d.old)
    BY <1>1, <1>3, <1>4, <1>9
  <2> QED BY <1>1, <1>3, <1>4, <1>9, <2>1
<1>12. Applied(pl, cs) = a[D] /\ Undone(pl, cs) = u[D]
  BY <1>1, FoldsAreSteps DEF a, u
<1> QED BY <1>10, <1>11, <1>12 DEF cs

-----------------------------------------------------------------------------
(* The plan that holds the fixed positions only *)

Empty == [assign |-> [p \in Positions |-> Unassigned], by |-> [v \in Invigilators |-> <<>>]]
GoodPlans == {pl \in [assign : [Positions -> People], by : [Invigilators -> Seq(Nat)]] : Good(pl)}
Fill == [z \in Fixed \X GoodPlans |-> Assigned(z[2], z[1], FixedTo[z[1]])]
FillSteps(iter) ==
  iter = [s \in SUBSET Fixed |->
            IF s = {} THEN Empty ELSE Assigned(iter[s \ {Chosen(s)}], Chosen(s), FixedTo[Chosen(s)])]

LEMMA EmptyGood == Good(Empty)
<1>1. Empty \in [assign : [Positions -> People], by : [Invigilators -> Seq(Nat)]]
  BY DEF Empty, People
<1>2. ASSUME NEW v \in Invigilators
      PROVE  Inc(Empty.by[v]) /\ Of(Empty, v) = {p \in Positions : Empty.assign[p] = v}
  <2>1. Empty.by[v] = <<>> /\ \A p \in Positions : Empty.assign[p] = Unassigned
    BY DEF Empty
  <2>2. v # Unassigned
    BY InvigProblemAssumption
  <2>3. DOMAIN <<>> = {}
    OBVIOUS
  <2> QED BY <2>1, <2>2, <2>3 DEF Inc, Of, Range
<1> QED BY <1>1, <1>2 DEF Good

LEMMA NewPlanGood ==
  /\ Good(NewPlan)
  /\ \A p \in Positions : NewPlan.assign[p] = IF p \in Fixed THEN FixedTo[p] ELSE Unassigned
<1>1. IsFiniteSet(Fixed) /\ Fixed \subseteq Positions /\ FixedTo \in [Fixed -> Invigilators]
  BY InvigProblemAssumption, FS_Subset
<1>2. NewPlan = (CHOOSE iter : FillSteps(iter))[Fixed]
  BY DEF NewPlan, FoldSet, MapThenFoldSet, FillSteps, Chosen, Empty
<1>3. Empty \in GoodPlans
  BY EmptyGood DEF GoodPlans, Good
<1>4. ASSUME NEW p \in Fixed, NEW pl \in GoodPlans
      PROVE  Assigned(pl, p, FixedTo[p]) \in GoodPlans
  <2>1. p \in Positions /\ FixedTo[p] \in Invigilators /\ Good(pl)
    BY <1>1 DEF GoodPlans
  <2>2. Good(Assigned(pl, p, FixedTo[p]))
    BY <2>1, AssignedGood
  <2> QED BY <2>2 DEF GoodPlans, Good
<1>5. Fill \in [Fixed \X GoodPlans -> GoodPlans]
  BY <1>4 DEF Fill
<1>6. PICK f \in [SUBSET Fixed -> GoodPlans] : Folded(Fixed, Empty, Fill, f)
  BY <1>1, <1>3, <1>5, FoldExists
<1>7. FillSteps(f)
  <2>1. ASSUME NEW s \in SUBSET Fixed, s # {}
        PROVE  Fill[<<Chosen(s), f[s \ {Chosen(s)}]>>]
                 = Assigned(f[s \ {Chosen(s)}], Chosen(s), FixedTo[Chosen(s)])
    <3>1. Chosen(s) \in Fixed /\ f[s \ {Chosen(s)}] \in GoodPlans
      BY <2>1 DEF Chosen
    <3> QED BY <3>1 DEF Fill
  <2>2. \A s \in SUBSET Fixed :
          (IF s = {} THEN Empty ELSE Fill[<<Chosen(s), f[s \ {Chosen(s)}]>>])
          = (IF s = {} THEN Empty ELSE Assigned(f[s \ {Chosen(s)}], Chosen(s), FixedTo[Chosen(s)]))
    BY <2>1
  <2> QED BY <1>6, <2>2 DEF Folded, FillSteps
<1> DEFINE g == CHOOSE iter : FillSteps(iter)
<1>8. FillSteps(g)
  BY <1>7
<1> HIDE DEF g
<1> DEFINE Filled(s) == /\ Good(g[s])
                        /\ \A p \in Positions : g[s].assign[p] = IF p \in s THEN FixedTo[p] ELSE Unassigned
           Q == {s \in SUBSET Fixed : Filled(s)}
<1>9. {} \in Q
  <2>1. g[{}] = Empty
    BY <1>8 DEF FillSteps
  <2> QED BY <2>1, EmptyGood DEF Empty
<1>10. ASSUME NEW s \in SUBSET Fixed, s # {}, s \ {Chosen(s)} \in Q PROVE s \in Q
  <2> DEFINE x == Chosen(s)
             t == s \ {x}
  <2>1. x \in s /\ x \in Positions /\ FixedTo[x] \in Invigilators
    BY <1>1, <1>10 DEF Chosen
  <2>2. g[s] = Assigned(g[t], x, FixedTo[x])
    BY <1>8, <1>10 DEF FillSteps
  <2>3. Filled(t)
    BY <1>10
  <2> HIDE DEF x
  <2>4. Good(g[s]) /\ g[s].assign = [g[t].assign EXCEPT ![x] = FixedTo[x]]
    <3>1. Good(g[t])
      BY <2>3
    <3> HIDE DEF Filled, t, Q
    <3>2. /\ Good(Assigned(g[t], x, FixedTo[x]))
          /\ Assigned(g[t], x, FixedTo[x]).assign = [g[t].assign EXCEPT ![x] = FixedTo[x]]
      BY <2>1, <3>1, AssignedGood
    <3> QED BY <2>2, <3>2
  <2>5. \A p \in Positions : g[s].assign[p] = IF p \in s THEN FixedTo[p] ELSE Unassigned
    BY <2>1, <2>3, <2>4 DEF Good
  <2> QED BY <2>4, <2>5
<1>11. Fixed \in Q
  <2> HIDE DEF Q
  <2>1. \A s \in SUBSET Fixed : s \in Q
    BY <1>1, <1>9, <1>10, ChosenInduction
  <2> QED BY <2>1
<1> QED BY <1>2, <1>11 DEF g

-----------------------------------------------------------------------------
(* The inductive invariant *)

\* What HardKept says of the plan, said of any plan.
Apart(p, q) ==
  /\ Start[q] # Start[p]
  /\ DayOf[q] = DayOf[p] => Start[q] >= End(p) + Timelag \/ Start[p] >= End(q) + Timelag
Hard(pl) ==
  /\ \A p \in Fixed : pl.assign[p] = FixedTo[p]
  /\ \A p \in Movable : pl.assign[p] # Unassigned =>
        /\ LET v == pl.assign[p] IN
           Available(v, p) /\ AllowsTime(v, p) /\ Start[p] \notin OwnExamSlots[v]
        /\ \A q \in Positions \ {p} : pl.assign[q] = pl.assign[p] => Apart(p, q)

\* One or two changes of movable positions that start from a plan.
Proposal(pl, cs) ==
  \/ \E p \in Movable, v \in People : cs = <<[pos |-> p, old |-> pl.assign[p], new |-> v]>>
  \/ \E p, q \in Movable :
        /\ p # q
        /\ cs = <<[pos |-> p, old |-> pl.assign[p], new |-> pl.assign[q]],
                  [pos |-> q, old |-> pl.assign[q], new |-> pl.assign[p]]>>

\* The plan and the best plan are exact and hard-feasible; so is the plan a proposal started
\* from; and what the greedy pass left open can be taken by nobody.
IInv ==
  /\ Good(plan) /\ Hard(plan) /\ Good(best.plan) /\ Hard(best.plan)
  /\ phase = "proposed" =>
        LET old == Undone(plan, changes) IN
        Good(old) /\ Hard(old) /\ Proposal(old, changes) /\ plan = Applied(old, changes)
  /\ phase = "greedy" =>
        /\ todo \subseteq Movable
        /\ \A p \in todo : plan.assign[p] = Unassigned
        /\ \A p \in Movable \ todo : plan.assign[p] = Unassigned => Candidates(p) = {}

\* What a proposal does to the assignment, and that taking it back restores the plan itself.
LEMMA ProposalMoves ==
  ASSUME NEW pl, Good(pl), NEW cs, Proposal(pl, cs)
  PROVE  LET new == Applied(pl, cs)
             C == {cs[k].pos : k \in DOMAIN cs} IN
         /\ Good(new) /\ Undone(new, cs) = pl
         /\ C \subseteq Movable
         /\ \A p \in Positions \ C : new.assign[p] = pl.assign[p]
         /\ \A k \in DOMAIN cs : new.assign[cs[k].pos] = cs[k].new
<1> DEFINE new == Applied(pl, cs)
           C == {cs[k].pos : k \in DOMAIN cs}
<1>1. pl.assign \in [Positions -> People] /\ Movable \subseteq Positions /\ Unassigned \in People
  BY DEF Good, Movable, People
<1>2. ASSUME NEW p \in Movable, NEW v \in People,
             cs = <<[pos |-> p, old |-> pl.assign[p], new |-> v]>>
      PROVE  /\ Good(new) /\ Undone(new, cs) = pl /\ C \subseteq Movable
             /\ \A q \in Positions \ C : new.assign[q] = pl.assign[q]
             /\ \A k \in DOMAIN cs : new.assign[cs[k].pos] = cs[k].new
  <2> DEFINE c == [pos |-> p, old |-> pl.assign[p], new |-> v]
             back == Put(new, p, pl.assign[p])
  <2>1. p \in Positions /\ p \notin Fixed /\ pl.assign[p] \in People
    BY <1>1 DEF Movable
  <2>2. new = Put(pl, p, v) /\ Undone(new, cs) = back
    BY <1>2, OneChange
  <2>3. Good(new) /\ new.assign = [pl.assign EXCEPT ![p] = v]
    BY <2>1, <2>2, PutGood
  <2>4. Good(back) /\ back.assign = [new.assign EXCEPT ![p] = pl.assign[p]]
    <3> HIDE DEF new
    <3> QED BY <2>1, <2>3, PutGood
  <2>5. back.assign = pl.assign
    BY <1>1, <2>1, <2>3, <2>4
  <2>6. back = pl
    <3> HIDE DEF back
    <3> QED BY <2>4, <2>5, GoodUnique
  <2>7. DOMAIN cs = {1} /\ cs[1].pos = p /\ cs[1].new = v
    BY <1>2
  <2>8. C = {p}
    BY <2>7
  <2> HIDE DEF new, back, C
  <2> QED BY <1>1, <2>1, <2>2, <2>3, <2>6, <2>7, <2>8
<1>3. ASSUME NEW p \in Movable, NEW q \in Movable, p # q,
             cs = <<[pos |-> p, old |-> pl.assign[p], new |-> pl.assign[q]],
                    [pos |-> q, old |-> pl.assign[q], new |-> pl.assign[p]]>>
      PROVE  /\ Good(new) /\ Undone(new, cs) = pl /\ C \subseteq Movable
             /\ \A x \in Positions \ C : new.assign[x] = pl.assign[x]
             /\ \A k \in DOMAIN cs : new.assign[cs[k].pos] = cs[k].new
  <2> DEFINE v == pl.assign[p]
             w == pl.assign[q]
             half == Put(pl, p, w)
             half2 == Put(new, q, w)
             back == Put(half2, p, v)
  <2>1. /\ p \in Positions /\ p \notin Fixed /\ v \in People
        /\ q \in Positions /\ q \notin Fixed /\ w \in People
    BY <1>1 DEF Movable
  <2>2. new = Put(half, q, v) /\ Undone(new, cs) = back
    BY <1>3, TwoChanges
  <2> HIDE DEF new, v, w
  <2>3. Good(half) /\ half.assign = [pl.assign EXCEPT ![p] = w]
    BY <2>1, PutGood
  <2> HIDE DEF half
  <2>4. Good(new) /\ new.assign = [half.assign EXCEPT ![q] = v]
    BY <2>1, <2>2, <2>3, PutGood
  <2>5. Good(half2) /\ half2.assign = [new.assign EXCEPT ![q] = w]
    BY <2>1, <2>4, PutGood
  <2> HIDE DEF half2
  <2>6. Good(back) /\ back.assign = [half2.assign EXCEPT ![p] = v]
    BY <2>1, <2>5, PutGood
  <2> HIDE DEF back
  <2>7. back.assign = pl.assign
    BY <1>1, <1>3, <2>1, <2>3, <2>4, <2>5, <2>6 DEF v, w
  <2>8. back = pl
    BY <2>6, <2>7, GoodUnique
  <2>9. DOMAIN cs = {1, 2} /\ cs[1].pos = p /\ cs[1].new = w /\ cs[2].pos = q /\ cs[2].new = v
    BY <1>3 DEF v, w
  <2>10. C = {p, q}
    BY <2>9
  <2>11. new.assign = [[pl.assign EXCEPT ![p] = w] EXCEPT ![q] = v]
    BY <2>3, <2>4
  <2>12. new.assign[p] = w /\ new.assign[q] = v
    BY <1>1, <1>3, <2>1, <2>11
  <2>13. \A x \in Positions \ {p, q} : new.assign[x] = pl.assign[x]
    BY <1>1, <2>11
  <2> HIDE DEF C
  <2> QED BY <2>1, <2>2, <2>4, <2>8, <2>9, <2>10, <2>12, <2>13
<1> QED BY <1>2, <1>3 DEF Proposal

\* A plan in which only positions changed that their new person may take stays hard-feasible.
LEMMA HardChange ==
  ASSUME NEW pl, Good(pl), Hard(pl), NEW new, Good(new), NEW C \in SUBSET Movable,
         \A p \in Positions \ C : new.assign[p] = pl.assign[p],
         \A p \in C : new.assign[p] # Unassigned => Allows(new, p, new.assign[p])
  PROVE  Hard(new)
<1>1. Fixed \subseteq Positions /\ Movable \subseteq Positions
  BY InvigProblemAssumption DEF Movable
<1>2. \A p \in Fixed : new.assign[p] = FixedTo[p]
  BY <1>1 DEF Hard, Movable
<1>3. \A p \in C : \A q \in Positions \ {p} :
        new.assign[p] # Unassigned /\ new.assign[q] = new.assign[p] => Apart(p, q)
  <2> TAKE p \in C
  <2> TAKE q \in Positions \ {p}
  <2> HAVE new.assign[p] # Unassigned /\ new.assign[q] = new.assign[p]
  <2> DEFINE v == new.assign[p]
  <2>1. v \in Invigilators /\ p \in Positions /\ p \notin Fixed
    BY <1>1 DEF Good, People, Movable
  <2>2. q \in Of(new, v) \ {p}
    BY <2>1 DEF Good
  <2>3. Start[q] # Start[p] /\ GapOK(p, q)
    BY <2>1, <2>2 DEF Allows
  <2> QED BY <2>3 DEF GapOK, Apart
<1>4. \A p, q : Apart(p, q) => Apart(q, p)
  BY DEF Apart
<1>5. ASSUME NEW p \in Movable, new.assign[p] # Unassigned
      PROVE  Available(new.assign[p], p) /\ AllowsTime(new.assign[p], p)
             /\ Start[p] \notin OwnExamSlots[new.assign[p]]
  <2>1. CASE p \in C
    BY <1>5, <2>1 DEF Allows, Movable
  <2>2. CASE p \notin C
    BY <1>1, <1>5, <2>2 DEF Hard
  <2> QED BY <2>1, <2>2
<1>6. ASSUME NEW p \in Movable, new.assign[p] # Unassigned,
             NEW q \in Positions \ {p}, new.assign[q] = new.assign[p]
      PROVE  Apart(p, q)
  <2>1. CASE p \in C
    BY <1>3, <1>6, <2>1
  <2>2. CASE p \notin C /\ q \in C
    <3>1. Apart(q, p)
      BY <1>1, <1>3, <1>6, <2>2
    <3> QED BY <1>4, <3>1
  <2>3. CASE p \notin C /\ q \notin C
    BY <1>1, <1>6, <2>3 DEF Hard
  <2> QED BY <2>1, <2>2, <2>3
<1> QED BY <1>2, <1>5, <1>6 DEF Hard

LEMMA ProposalHard ==
  ASSUME NEW pl, Good(pl), Hard(pl), NEW cs, Proposal(pl, cs), Feasible(Applied(pl, cs), cs)
  PROVE  Hard(Applied(pl, cs))
<1> DEFINE new == Applied(pl, cs)
           C == {cs[k].pos : k \in DOMAIN cs}
<1>1. /\ Good(new) /\ C \subseteq Movable
      /\ \A p \in Positions \ C : new.assign[p] = pl.assign[p]
      /\ \A k \in DOMAIN cs : new.assign[cs[k].pos] = cs[k].new
  BY ProposalMoves
<1> HIDE DEF new
<1>2. \A p \in C : new.assign[p] # Unassigned => Allows(new, p, new.assign[p])
  BY <1>1 DEF Feasible, new
<1> HIDE DEF C
<1>3. Hard(new)
  BY <1>1, <1>2, HardChange
<1> QED BY <1>3 DEF new

\* The greedy pass gives a free position to a person who may take it.
LEMMA GreedyPut ==
  ASSUME NEW pl, Good(pl), Hard(pl), NEW p \in Movable, pl.assign[p] = Unassigned,
         NEW v \in Invigilators, Allows(pl, p, v)
  PROVE  LET new == Put(pl, p, v) IN
         /\ Good(new) /\ Hard(new) /\ new.assign = [pl.assign EXCEPT ![p] = v]
         /\ \A w \in Invigilators, q \in Movable : Allows(new, q, w) => Allows(pl, q, w)
<1> DEFINE new == Put(pl, p, v)
<1>1. p \in Positions /\ p \notin Fixed /\ v \in People /\ v # Unassigned
  BY InvigProblemAssumption DEF Movable, People
<1>2. Good(new) /\ new.assign = [pl.assign EXCEPT ![p] = v]
  BY <1>1, PutGood
<1> HIDE DEF new
<1>3. pl.assign \in [Positions -> People]
  BY DEF Good
<1>4. \A w \in Invigilators : Of(pl, w) \subseteq Of(new, w)
  <2> TAKE w \in Invigilators
  <2>1. /\ Of(pl, w) = {q \in Positions : pl.assign[q] = w}
        /\ Of(new, w) = {q \in Positions : new.assign[q] = w}
    BY <1>2 DEF Good
  <2>2. w # Unassigned
    BY InvigProblemAssumption
  <2> QED BY <1>1, <1>2, <1>3, <2>1, <2>2
<1>5. Of(new, v) \ {p} = Of(pl, v) \ {p}
  <2>1. /\ Of(pl, v) = {q \in Positions : pl.assign[q] = v}
        /\ Of(new, v) = {q \in Positions : new.assign[q] = v}
    BY <1>2 DEF Good
  <2> QED BY <1>1, <1>2, <1>3, <2>1
<1>6. Allows(new, p, v)
  BY <1>1, <1>5 DEF Allows
<1>7. Hard(new)
  <2>1. {p} \in SUBSET Movable
    OBVIOUS
  <2>2. \A q \in Positions \ {p} : new.assign[q] = pl.assign[q]
    BY <1>1, <1>2, <1>3
  <2>3. \A q \in {p} : new.assign[q] # Unassigned => Allows(new, q, new.assign[q])
    BY <1>1, <1>2, <1>3, <1>6
  <2> QED BY <1>2, <2>1, <2>2, <2>3, HardChange
<1>8. \A w \in Invigilators, q \in Movable : Allows(new, q, w) => Allows(pl, q, w)
  BY <1>4 DEF Allows, Movable
<1> QED BY <1>2, <1>7, <1>8 DEF new

-----------------------------------------------------------------------------
(* Every step keeps it *)

LEMMA InitIInv == Init => IInv
<1> SUFFICES ASSUME Init PROVE IInv
  OBVIOUS
<1>1. /\ Good(NewPlan) /\ Movable = Positions \ Fixed /\ Fixed \subseteq Positions
      /\ FixedTo \in [Fixed -> Invigilators]
      /\ \A p \in Positions : NewPlan.assign[p] = IF p \in Fixed THEN FixedTo[p] ELSE Unassigned
  BY NewPlanGood, InvigProblemAssumption DEF Movable
<1>2. Hard(NewPlan)
  BY <1>1 DEF Hard
<1>3. plan = NewPlan /\ best.plan = NewPlan /\ phase = "greedy" /\ todo = Movable
  BY DEF Init
<1> QED BY <1>1, <1>2, <1>3 DEF IInv

LEMMA GreedyKeeps == ASSUME IInv, Greedy PROVE IInv'
<1>1. PICK p \in todo : /\ todo' = todo \ {p}
                        /\ \/ \E v \in Neediest(p) : plan' = Put(plan, p, v)
                           \/ Candidates(p) = {} /\ UNCHANGED plan
  BY DEF Greedy
<1>2. phase = "greedy" /\ phase' = "greedy" /\ best' = best
  BY DEF Greedy
<1>3. /\ Good(plan) /\ Hard(plan) /\ Good(best.plan) /\ Hard(best.plan)
      /\ todo \subseteq Movable /\ p \in Movable /\ plan.assign[p] = Unassigned
      /\ \A q \in todo : plan.assign[q] = Unassigned
      /\ \A q \in Movable \ todo : plan.assign[q] = Unassigned => Candidates(q) = {}
  BY <1>1, <1>2 DEF IInv
<1>4. Good(best.plan)' /\ Hard(best.plan)'
  BY <1>2, <1>3
<1>5. CASE \E v \in Neediest(p) : plan' = Put(plan, p, v)
  <2>1. PICK v \in Invigilators : Allows(plan, p, v) /\ plan' = Put(plan, p, v)
    BY <1>5 DEF Neediest, Candidates
  <2> DEFINE new == Put(plan, p, v)
  <2>2. /\ Good(new) /\ Hard(new) /\ new.assign = [plan.assign EXCEPT ![p] = v]
        /\ \A w \in Invigilators, q \in Movable : Allows(new, q, w) => Allows(plan, q, w)
    BY <1>3, <2>1, GreedyPut
  <2> HIDE DEF new
  <2>3. plan' = new
    BY <2>1 DEF new
  <2>4. plan.assign \in [Positions -> People] /\ Movable \subseteq Positions /\ v # Unassigned
    BY <1>3, InvigProblemAssumption DEF Good, Movable
  <2>5. \A q \in Movable : plan'.assign[q] = IF q = p THEN v ELSE plan.assign[q]
    BY <2>2, <2>3, <2>4
  <2>6. ASSUME NEW q \in Movable \ todo', plan'.assign[q] = Unassigned
        PROVE  Candidates(q)' = {}
    <3>1. q \in Movable \ todo /\ plan.assign[q] = Unassigned
      BY <1>1, <2>4, <2>5, <2>6
    <3>2. Candidates(q) = {}
      BY <1>3, <3>1
    <3>3. \A w \in Invigilators : ~Allows(plan, q, w)
      BY <3>2 DEF Candidates
    <3>4. \A w \in Invigilators : ~Allows(plan', q, w)
      BY <2>2, <2>3, <3>1, <3>3
    <3> QED BY <3>4 DEF Candidates
  <2>7. todo' \subseteq Movable /\ \A q \in todo' : plan'.assign[q] = Unassigned
    BY <1>1, <1>3, <2>5
  <2>8. Good(plan') /\ Hard(plan')
    BY <2>2, <2>3
  <2> QED BY <1>2, <1>4, <2>6, <2>7, <2>8 DEF IInv
<1>6. CASE Candidates(p) = {} /\ UNCHANGED plan
  <2>1. \A q : Candidates(q)' = Candidates(q)
    BY <1>6 DEF Candidates
  <2>2. \A q \in Movable \ todo' : plan'.assign[q] = Unassigned => Candidates(q)' = {}
    BY <1>1, <1>3, <1>6, <2>1
  <2>3. todo' \subseteq Movable /\ \A q \in todo' : plan'.assign[q] = Unassigned
    BY <1>1, <1>3, <1>6
  <2>4. Good(plan') /\ Hard(plan')
    BY <1>3, <1>6
  <2> QED BY <1>2, <1>4, <2>2, <2>3, <2>4 DEF IInv
<1> QED BY <1>1, <1>5, <1>6

LEMMA StartAnnealKeeps == ASSUME IInv, StartAnneal PROVE IInv'
<1>1. plan' = plan /\ best'.plan = plan /\ phase' \in {"done", "anneal"}
  BY DEF StartAnneal
<1> QED BY <1>1 DEF IInv

LEMMA ProposeKeeps ==
  ASSUME IInv, NEW cs, Proposal(plan, cs), Propose(cs)
  PROVE  IInv'
<1> DEFINE new == Applied(plan, cs)
<1>1. Good(plan) /\ Hard(plan) /\ Good(best.plan) /\ Hard(best.plan) /\ best' = best
  BY DEF IInv, Propose
<1>2. Good(new) /\ Undone(new, cs) = plan
  BY <1>1, ProposalMoves
<1>3. CASE Feasible(new, cs) /\ plan' = new /\ changes' = cs /\ phase' = "proposed"
  <2>1. Hard(new)
    BY <1>1, <1>3, ProposalHard
  <2>2. Undone(plan', changes') = plan
    BY <1>2, <1>3
  <2>3. Proposal(Undone(plan', changes'), changes') /\ plan' = Applied(Undone(plan', changes'), changes')
    BY <1>3, <2>2
  <2> HIDE DEF new
  <2> QED BY <1>1, <1>2, <1>3, <2>1, <2>2, <2>3 DEF IInv
<1>4. CASE plan' = Undone(new, cs) /\ UNCHANGED <<changes, phase>>
  <2>1. plan' = plan /\ phase' = "anneal"
    BY <1>2, <1>4 DEF Propose
  <2> QED BY <1>1, <2>1 DEF IInv
<1> QED BY <1>3, <1>4 DEF Propose

LEMMA MovesArePrepared ==
  ASSUME IInv, \/ \E p \in Movable, v \in Invigilators : Reassign(p, v)
               \/ \E p \in Movable : Unassign(p)
               \/ \E p, q \in Movable : Swap(p, q)
  PROVE  \E cs : Proposal(plan, cs) /\ Propose(cs)
<1>1. CASE \E p \in Movable, v \in Invigilators : Reassign(p, v)
  <2>1. PICK p \in Movable, v \in Invigilators : Reassign(p, v)
    BY <1>1
  <2>2. v \in People
    BY DEF People
  <2> QED BY <2>1, <2>2 DEF Reassign, Change, Proposal
<1>2. CASE \E p \in Movable : Unassign(p)
  <2>1. PICK p \in Movable : Unassign(p)
    BY <1>2
  <2>2. Unassigned \in People
    BY DEF People
  <2> QED BY <2>1, <2>2 DEF Unassign, Change, Proposal
<1>3. CASE \E p, q \in Movable : Swap(p, q)
  BY <1>3 DEF Swap, Change, Proposal
<1> QED BY <1>1, <1>2, <1>3

LEMMA AcceptKeeps == ASSUME IInv, Accept PROVE IInv'
<1>1. plan' = plan /\ phase' = "anneal" /\ (best'.plan = plan \/ best' = best)
  BY DEF Accept
<1> QED BY <1>1 DEF IInv

LEMMA RejectKeeps == ASSUME IInv, Reject PROVE IInv'
<1>1. plan' = Undone(plan, changes) /\ phase = "proposed" /\ phase' = "anneal" /\ best' = best
  BY DEF Reject
<1> QED BY <1>1 DEF IInv

LEMMA FinishKeeps == ASSUME IInv, Finish PROVE IInv'
<1>1. plan' = best.plan /\ phase' = "done" /\ best' = best
  BY DEF Finish
<1> QED BY <1>1 DEF IInv

LEMMA StepKeeps == IInv /\ [Next]_vars => IInv'
<1> SUFFICES ASSUME IInv, [Next]_vars PROVE IInv'
  OBVIOUS
<1>1. CASE Greedy
  BY <1>1, GreedyKeeps
<1>2. CASE StartAnneal
  BY <1>2, StartAnnealKeeps
<1>3. CASE \/ \E p \in Movable, v \in Invigilators : Reassign(p, v)
           \/ \E p \in Movable : Unassign(p)
           \/ \E p, q \in Movable : Swap(p, q)
  BY <1>3, MovesArePrepared, ProposeKeeps
<1>4. CASE Accept
  BY <1>4, AcceptKeeps
<1>5. CASE Reject
  BY <1>5, RejectKeeps
<1>6. CASE Finish
  BY <1>6, FinishKeeps
<1>7. CASE UNCHANGED vars
  <2>1. \A q : Candidates(q)' = Candidates(q)
    BY <1>7 DEF vars, Candidates
  <2> QED BY <1>7, <2>1 DEF vars, IInv
<1> QED BY <1>1, <1>2, <1>3, <1>4, <1>5, <1>6, <1>7 DEF Next

LEMMA Invariance == Spec => []IInv
BY InitIInv, StepKeeps, PTL DEF Spec

-----------------------------------------------------------------------------
(* The theorems *)

\* plan.go keeps the inverse index in sync, for every problem, through every move, swap,
\* rejected and undone proposal: sorted, without repetition, exactly the positions assigned.
THEOREM IndexIsExact == Spec => []IndexExact
<1>1. IInv => IndexExact
  <2> SUFFICES ASSUME Good(plan) PROVE IndexExact
    BY DEF IInv
  <2> QED BY DEF Good, Inc, IndexExact
<1> QED BY <1>1, Invariance, PTL

\* Every intermediate plan of the optimizer is hard-feasible: judging only the changed
\* positions, in the changed plan, is enough for all of them.
THEOREM PlansStayHardFeasible == Spec => []HardKept
<1>1. IInv => HardKept
  <2> SUFFICES ASSUME Hard(plan) PROVE HardKept
    BY DEF IInv
  <2> QED BY DEF Hard, Apart, HardKept
<1> QED BY <1>1, Invariance, PTL

\* What the greedy pass left open can be taken by nobody when the pass is over: assigning
\* further positions never makes a person free again.
THEOREM GreedyLeavesNothingOpen == Spec => []GreedyComplete
<1>1. IInv => GreedyComplete
  <2> SUFFICES ASSUME IInv, phase = "greedy", todo = {}, NEW p \in Unfilled(plan)
               PROVE  Candidates(p) = {}
    BY DEF GreedyComplete
  <2>1. p \in Positions /\ plan.assign[p] = Unassigned
    BY DEF Unfilled
  <2>2. p \notin Fixed
    BY <2>1, InvigProblemAssumption DEF IInv, Hard
  <2> QED BY <2>1, <2>2 DEF IInv, Movable
<1> QED BY <1>1, Invariance, PTL

-----------------------------------------------------------------------------
(* The cost of a plan is a number *)

LEMMA DataInt ==
  /\ \A p \in Positions : Start[p] \in Int /\ End(p) \in Int /\ Minutes[p] \in Int
  /\ Tolerance \in Int /\ Tolerance > 0 /\ MaxSpan \in Int /\ MaxAttendanceDays \in Int
<1>1. Start \in [Positions -> Nat] /\ Block \in [Positions -> Nat] /\ Minutes \in [Positions -> Nat]
  BY InvigProblemAssumption
<1>2. MaxSpan \in Nat /\ MaxAttendanceDays \in Nat /\ Tolerance \in Nat \ {0}
  BY InvigProblemAssumption
<1> QED BY <1>1, <1>2 DEF End

LEMMA SumOverPeople ==
  ASSUME NEW f, DOMAIN f = Invigilators, \A v \in Invigilators : f[v] \in Int
  PROVE  SumFunction(f) \in Int
<1>1. SumFunctionOnSet(f, Invigilators) \in Int
  BY SumInt, InvigProblemAssumption
<1> QED BY <1>1 DEF SumFunction

\* What each person has is finite.
LEMMA PersonFinite ==
  ASSUME NEW pl, Good(pl), NEW v \in Invigilators
  PROVE  /\ Of(pl, v) \subseteq Positions /\ IsFiniteSet(Of(pl, v)) /\ IsFiniteSet(Days(pl, v))
         /\ DoingMinutes(pl, v) \in Int
<1>1. Of(pl, v) \subseteq Positions
  BY DEF Good
<1>2. IsFiniteSet(Of(pl, v))
  BY <1>1, InvigProblemAssumption, FS_Subset
<1>3. IsFiniteSet(Days(pl, v))
  BY <1>2, ImageFinite DEF Days
<1>4. \A p \in Of(pl, v) : Minutes[p] \in Int
  BY <1>1, DataInt
<1>5. DoingMinutes(pl, v) \in Int
  BY <1>2, <1>4, SumInt DEF DoingMinutes
<1> QED BY <1>1, <1>2, <1>3, <1>5

LEMMA WeightsInt ==
  /\ Weights.coverage \in Int /\ Weights.beyond \in Int /\ Weights.balance \in Int
  /\ Weights.over \in Int /\ Weights.days \in Int /\ Weights.ownDays \in Int
  /\ Weights.spread \in Int /\ Weights.span \in Int
BY InvigProblemAssumption

LEMMA MinuteBalanceInt == ASSUME NEW pl, Good(pl) PROVE MinuteBalance(pl) \in Int
<1> DEFINE off(v) == Dist(DoingMinutes(pl, v), Target[v])
           num(v) == Weights.balance * Min({off(v), Tolerance})
           den(v) == Max({Target[v], Tolerance})
           rel(v) == num(v) \div den(v)
           far(v) == Max({0, off(v) - Tolerance})
           of1(v) == (IF DoingMinutes(pl, v) > Target[v] THEN Weights.over * rel(v) ELSE rel(v))
                     + Weights.beyond * far(v)
           f == [v \in Invigilators |-> of1(v)]
<1>1. ASSUME NEW v \in Invigilators PROVE of1(v) \in Int
  <2>1. DoingMinutes(pl, v) \in Int /\ Target[v] \in Int /\ Tolerance \in Int /\ Tolerance > 0
    BY PersonFinite, DataInt, InvigProblemAssumption
  <2>2. off(v) \in Int
    BY <2>1 DEF Dist
  <2> HIDE DEF off
  <2>3. Min({off(v), Tolerance}) \in Int /\ den(v) \in Int /\ den(v) > 0 /\ far(v) \in Int
    <3>1. Min({off(v), Tolerance}) \in {off(v), Tolerance}
      BY <2>1, <2>2, ExtremeOfPair
    <3>2. den(v) \in {Target[v], Tolerance} /\ den(v) >= Tolerance
      BY <2>1, ExtremeOfPair
    <3>3. off(v) - Tolerance \in Int
      BY <2>1, <2>2
    <3>4. far(v) \in {0, off(v) - Tolerance}
      <4> DEFINE d == off(v) - Tolerance
      <4>1. d \in Int /\ 0 \in Int
        BY <3>3
      <4> HIDE DEF d
      <4>2. Max({0, d}) \in {0, d}
        BY <4>1, ExtremeOfPair
      <4> QED BY <4>2 DEF d
    <3> HIDE DEF den, far
    <3> QED BY <2>1, <2>2, <3>1, <3>2, <3>3, <3>4
  <2>4. num(v) \in Int
    BY <2>3, WeightsInt, ProductInt
  <2> HIDE DEF num, den, far
  <2>5. rel(v) \in Int
    BY <2>3, <2>4
  <2> HIDE DEF rel
  <2>6. Weights.over * rel(v) \in Int /\ Weights.beyond * far(v) \in Int
    BY <2>3, <2>5, WeightsInt, ProductInt
  <2> QED BY <2>5, <2>6
<1>2. MinuteBalance(pl) = SumFunction(f)
  BY DEF MinuteBalance
<1> HIDE DEF of1
<1>3. SumFunction(f) \in Int
  BY <1>1, SumOverPeople
<1> QED BY <1>2, <1>3

LEMMA CoverageInt == ASSUME NEW pl PROVE Coverage(pl) \in Int
<1>1. IsFiniteSet(Unfilled(pl))
  BY InvigProblemAssumption, FS_Subset DEF Unfilled
<1>2. Cardinality(Unfilled(pl)) \in Int
  BY <1>1, FS_CardinalityType
<1> QED BY <1>2, WeightsInt, ProductInt DEF Coverage

LEMMA MaxDaysInt == ASSUME NEW pl, Good(pl) PROVE MaxDaysCost(pl) \in Int
<1> DEFINE exam(v) == OwnExamDays[v] \ ExcludedDays[v]
           allDays(v) == Days(pl, v) \cup exam(v)
           most(v) == Max({MaxAttendanceDays, Cardinality(exam(v))})
           extra(v) == Max({0, Cardinality(allDays(v)) - most(v)})
           f == [v \in Invigilators |-> Weights.days * extra(v) * extra(v)]
<1>1. ASSUME NEW v \in Invigilators PROVE Weights.days * extra(v) * extra(v) \in Int
  <2>1. IsFiniteSet(exam(v))
    BY InvigProblemAssumption, FS_Subset
  <2>2. IsFiniteSet(allDays(v))
    BY <2>1, PersonFinite, FS_Union
  <2>3. Cardinality(exam(v)) \in Int /\ Cardinality(allDays(v)) \in Int
    BY <2>1, <2>2, FS_CardinalityType
  <2> HIDE DEF exam, allDays
  <2>4. most(v) \in {MaxAttendanceDays, Cardinality(exam(v))}
    BY <2>3, DataInt, ExtremeOfPair
  <2>5. most(v) \in Int
    <3> HIDE DEF most
    <3> QED BY <2>3, <2>4, DataInt
  <2> HIDE DEF most
  <2>6. Cardinality(allDays(v)) - most(v) \in Int
    BY <2>3, <2>5
  <2>7. extra(v) \in {0, Cardinality(allDays(v)) - most(v)}
    BY <2>6, ExtremeOfPair
  <2>8. extra(v) \in Int
    <3> HIDE DEF extra
    <3> QED BY <2>6, <2>7
  <2> HIDE DEF extra
  <2> QED BY <2>8, WeightsInt, ProductInt
<1>2. MaxDaysCost(pl) = SumFunction(f)
  BY DEF MaxDaysCost
<1> HIDE DEF extra
<1>3. SumFunction(f) \in Int
  BY <1>1, SumOverPeople
<1> QED BY <1>2, <1>3

LEMMA OwnDaysInt == ASSUME NEW pl, Good(pl) PROVE PreferOwnExamDays(pl) \in Int
<1> DEFINE other(v) == Days(pl, v) \ OwnExamDays[v]
           of1(v) == IF OwnExamDays[v] = {} THEN 0 ELSE Weights.ownDays * Cardinality(other(v))
           f == [v \in Invigilators |-> of1(v)]
<1>1. ASSUME NEW v \in Invigilators PROVE of1(v) \in Int
  <2>1. IsFiniteSet(other(v))
    BY PersonFinite, FS_Subset
  <2>2. Cardinality(other(v)) \in Int
    BY <2>1, FS_CardinalityType
  <2>3. Weights.ownDays * Cardinality(other(v)) \in Int
    BY <2>2, WeightsInt, ProductInt
  <2> QED BY <2>3
<1>2. PreferOwnExamDays(pl) = SumFunction(f)
  BY DEF PreferOwnExamDays
<1> HIDE DEF of1
<1>3. SumFunction(f) \in Int
  BY <1>1, SumOverPeople
<1> QED BY <1>2, <1>3

LEMMA DistributionInt == ASSUME NEW pl, Good(pl), NEW kind PROVE Distribution(pl, kind) \in Int
<1> DEFINE n(v) == CountKind(pl, v, kind)
           f == [v \in Invigilators |-> Weights.spread * n(v) * n(v)]
<1>1. ASSUME NEW v \in Invigilators PROVE Weights.spread * n(v) * n(v) \in Int
  <2>1. IsFiniteSet({p \in Of(pl, v) : Kind[p] = kind})
    BY PersonFinite, FS_Subset
  <2>2. n(v) \in Int
    BY <2>1, FS_CardinalityType DEF CountKind
  <2> HIDE DEF n
  <2> QED BY <2>2, WeightsInt, ProductInt
<1>2. Distribution(pl, kind) = SumFunction(f)
  BY DEF Distribution
<1> HIDE DEF n
<1>3. SumFunction(f) \in Int
  BY <1>1, SumOverPeople
<1> QED BY <1>2, <1>3

LEMMA OverInt == ASSUME NEW pl, Good(pl), NEW v \in Invigilators, NEW d \in Days(pl, v) PROVE Over(pl, v, d) \in Int
<1> DEFINE mine == {q \in Of(pl, v) : DayOf[q] = d}
           own == {y \in OwnExams[v] : y.day = d}
           F == [p \in mine |-> [from |-> Start[p], until |-> End(p)]]
           G == [x \in own |-> [from |-> x.from, until |-> x.until]]
           on == OnDay(pl, v, d)
           U == [x \in on |-> x.until]
           V == [x \in on |-> x.from]
           untils == {x.until : x \in on}
           froms == {x.from : x \in on}
<1>1. on = {F[p] : p \in mine} \cup {G[x] : x \in own}
  BY DEF OnDay
<1>2. IsFiniteSet(mine) /\ IsFiniteSet(own) /\ mine \subseteq Positions /\ mine # {}
  <2>1. IsFiniteSet(mine)
    BY PersonFinite, FS_Subset
  <2>2. IsFiniteSet(own)
    BY InvigProblemAssumption, FS_Subset
  <2> QED BY <2>1, <2>2, PersonFinite DEF Days
<1>3. IsFiniteSet(on) /\ on # {}
  <2>1. IsFiniteSet({F[p] : p \in mine}) /\ IsFiniteSet({G[x] : x \in own})
    <3> HIDE DEF F, G, mine, own
    <3> QED BY <1>2, ImageFinite
  <2>2. {F[p] : p \in mine} # {}
    BY <1>2
  <2> HIDE DEF F, G, mine, own, on
  <2> QED BY <1>1, <2>1, <2>2, FS_Union
<1>4. \A x \in on : x.from \in Int /\ x.until \in Int
  <2>1. \A p \in mine : F[p].from \in Int /\ F[p].until \in Int
    BY <1>2, DataInt
  <2>2. \A x \in own : G[x].from \in Int /\ G[x].until \in Int
    BY InvigProblemAssumption
  <2> HIDE DEF F, G, mine, own, on
  <2> QED BY <1>1, <2>1, <2>2
<1>5. untils = {U[x] : x \in on} /\ froms = {V[x] : x \in on}
  BY DEF OnDay
<1> HIDE DEF on
<1>6. IsFiniteSet(untils) /\ IsFiniteSet(froms)
  <2> HIDE DEF U, V, untils, froms
  <2> QED BY <1>3, <1>5, ImageFinite
<1>7. untils # {} /\ froms # {} /\ untils \subseteq Int /\ froms \subseteq Int
  BY <1>3, <1>4
<1> HIDE DEF untils, froms
<1>8. Max(untils) \in Int /\ Min(froms) \in Int
  BY <1>6, <1>7, ExtremeInSet
<1> DEFINE gap == Max(untils) - Min(froms) - MaxSpan
<1>9. gap \in Int /\ 0 \in Int
  BY <1>8, DataInt
<1>10. Over(pl, v, d) = Max({0, gap})
  BY DEF Over, untils, froms, on
<1> HIDE DEF gap
<1>11. Max({0, gap}) \in {0, gap}
  BY <1>9, ExtremeOfPair
<1> QED BY <1>9, <1>10, <1>11

LEMMA DaySpanInt == ASSUME NEW pl, Good(pl) PROVE DaySpan(pl) \in Int
<1> DEFINE h(v) == [d \in Days(pl, v) |-> Weights.span * Over(pl, v, d) * Over(pl, v, d)]
           f == [v \in Invigilators |-> SumFunction(h(v))]
<1>1. ASSUME NEW v \in Invigilators PROVE SumFunction(h(v)) \in Int
  <2>1. DOMAIN h(v) = Days(pl, v) /\ IsFiniteSet(Days(pl, v))
    BY PersonFinite
  <2>2. \A d \in Days(pl, v) : h(v)[d] \in Int
    BY OverInt, WeightsInt, ProductInt
  <2> HIDE DEF h
  <2> QED BY <2>1, <2>2, SumInt DEF SumFunction
<1>2. DaySpan(pl) = SumFunction(f)
  BY DEF DaySpan
<1> HIDE DEF h
<1>3. SumFunction(f) \in Int
  BY <1>1, SumOverPeople
<1> QED BY <1>2, <1>3

LEMMA CostInt == ASSUME NEW pl, Good(pl) PROVE Cost(pl) \in Int
<1>1. /\ MinuteBalance(pl) \in Int /\ Coverage(pl) \in Int /\ MaxDaysCost(pl) \in Int
      /\ PreferOwnExamDays(pl) \in Int /\ DaySpan(pl) \in Int
      /\ Distribution(pl, "reserve") \in Int /\ Distribution(pl, "nta") \in Int
  BY MinuteBalanceInt, CoverageInt, MaxDaysInt, OwnDaysInt, DaySpanInt, DistributionInt
<1> QED BY <1>1 DEF Cost

\* The best plan costs what is recorded for it, and no plan the engine accepted costs less.
Bounded ==
  /\ best.cost = Cost(best.plan)
  /\ phase = "anneal" => best.cost <= Cost(plan)
  /\ phase = "proposed" => best.cost <= Cost(Undone(plan, changes))
  /\ phase = "done" => plan = best.plan

LEMMA InitBounded == Init => Bounded
BY DEF Init, Bounded

LEMMA StepBounded == IInv /\ Bounded /\ [Next]_vars => Bounded'
<1> SUFFICES ASSUME IInv, Bounded, [Next]_vars PROVE Bounded'
  OBVIOUS
<1>1. Good(plan) /\ Cost(plan) \in Int /\ best.cost \in Int
  BY CostInt DEF IInv, Bounded
<1>2. CASE Greedy
  BY <1>2 DEF Greedy, Bounded
<1>3. CASE StartAnneal
  <2>1. best' = [plan |-> plan, cost |-> Cost(plan)] /\ plan' = plan /\ phase' \in {"done", "anneal"}
    BY <1>3 DEF StartAnneal
  <2>2. Cost(plan)' = Cost(plan)
    BY <2>1
  <2> QED BY <1>1, <2>1, <2>2 DEF Bounded
<1>4. CASE \/ \E p \in Movable, v \in Invigilators : Reassign(p, v)
           \/ \E p \in Movable : Unassign(p)
           \/ \E p, q \in Movable : Swap(p, q)
  <2>1. PICK cs : Proposal(plan, cs) /\ Propose(cs)
    BY <1>4, MovesArePrepared
  <2>2. best' = best /\ phase = "anneal" /\ best.cost <= Cost(plan) /\ best.cost = Cost(best.plan)
    BY <2>1 DEF Propose, Bounded
  <2>3. Undone(Applied(plan, cs), cs) = plan
    BY <1>1, <2>1, ProposalMoves
  <2>4. \/ plan' = Applied(plan, cs) /\ changes' = cs /\ phase' = "proposed"
        \/ plan' = plan /\ phase' = "anneal"
    BY <2>1, <2>2, <2>3 DEF Propose
  <2>5. CASE plan' = Applied(plan, cs) /\ changes' = cs /\ phase' = "proposed"
    <3>1. Undone(plan', changes') = plan
      BY <2>3, <2>5
    <3>2. Cost(Undone(plan', changes')) = Cost(plan)
      BY <3>1
    <3> QED BY <2>2, <2>5, <3>2 DEF Bounded
  <2>6. CASE plan' = plan /\ phase' = "anneal"
    BY <2>2, <2>6 DEF Bounded
  <2> QED BY <2>4, <2>5, <2>6
<1>5. CASE Accept
  <2>1. plan' = plan /\ phase' = "anneal"
    BY <1>5 DEF Accept
  <2>2. CASE Cost(plan) < best.cost
    <3>1. best' = [plan |-> plan, cost |-> Cost(plan)]
      BY <1>5, <2>2 DEF Accept
    <3> QED BY <1>1, <2>1, <3>1 DEF Bounded
  <2>3. CASE ~(Cost(plan) < best.cost)
    <3>1. best' = best /\ best.cost <= Cost(plan)
      BY <1>1, <1>5, <2>3 DEF Accept
    <3> QED BY <2>1, <3>1 DEF Bounded
  <2> QED BY <2>2, <2>3
<1>6. CASE Reject
  BY <1>6 DEF Reject, Bounded
<1>7. CASE Finish
  BY <1>7 DEF Finish, Bounded
<1>8. CASE UNCHANGED vars
  BY <1>8 DEF vars, Bounded
<1> QED BY <1>2, <1>3, <1>4, <1>5, <1>6, <1>7, <1>8 DEF Next

\* Restore gives back the plan of lowest cost among all that were accepted, and its cost is
\* the recorded one: undoing a rejected proposal restores the very plan it started from.
THEOREM BestIsRestored == Spec => []BestRestored
<1>1. IInv /\ Bounded => BestRestored
  BY DEF Bounded, BestRestored
<1>2. Spec => []Bounded
  BY InitBounded, StepBounded, Invariance, PTL DEF Spec
<1> QED BY <1>1, <1>2, Invariance, PTL
=============================================================================
