--------------------------- MODULE PreplanProofs ---------------------------
(***************************************************************************)
(* Proofs about pre-planning for any number of pre-exams, ancodes, times    *)
(* and clients: how often one ancode can be linked, that a deleted pre-exam *)
(* does not come back, that the links between pre-exams are symmetric, that *)
(* the locked plan entries follow the fixed pre-exams, and that the groups  *)
(* of the connected ones are what the constraints of their exams name.      *)
(***************************************************************************)
EXTENDS Preplan, FiniteSetTheorems, SequenceTheorems, WellFoundedInduction, TLAPS

-----------------------------------------------------------------------------
(* The shape of documents and requests. *)

Links  == SUBSET (Ids \X BOOLEAN)
Copies == SUBSET (Ids \X Docs)
Carries == SUBSET (Ancodes \X SUBSET Ancodes)
Code == Ancodes \cup {None}

AddJobs == [op : {"add"}, id : Ids, other : {0}, doc : Docs, step : {"insert"}, rest : {{}}, freed : {None}]
EditJobs == [op : {"update", "time", "fixed"}, id : Ids, other : {0}, doc : Docs,
             step : {"replace", "pin"}, rest : {{}}, freed : {None}]
LinkJobs == [op : {"pair", "same"}, id : Ids, other : 0..MaxId, doc : Docs,
             step : {"replace", "mirror", "replaceOther"}, rest : Links, freed : {None}]
ConnectJobs == [op : {"connect", "disconnect"}, id : Ids, other : {0}, doc : Docs,
                step : {"replace", "sync", "carry", "pin", "release", "unpin"}, rest : Carries, freed : Code]
SweepJobs == [op : {"reset", "generate"}, id : {0}, other : {0}, doc : Docs,
              step : {"persist"}, rest : Copies, freed : {None}]
Jobs == {Idle} \cup AddJobs \cup EditJobs \cup LinkJobs \cup ConnectJobs \cup SweepJobs

Shape ==
    /\ pre \in [Ids -> Seq(Docs)]
    /\ cons \in [Ancodes -> (SUBSET Ancodes) \cup {None}]
    /\ plan \in [Ancodes -> Times \cup {None}]
    /\ job \in [Clients -> Jobs]
    /\ ops \in Nat /\ overlaps \in Nat

\* What the last steps of a request rely on.
StepOK(c) ==
    /\ At(c, "replaceOther") => job[c].other \in Ids
    /\ At(c, "pin") => /\ job[c].doc.ancode \in Ancodes
                       /\ job[c].op \in {"fixed", "connect"}
                       /\ job[c].doc.fixed => job[c].doc.time \in Times
    /\ At(c, "release") \/ At(c, "unpin") =>
          job[c].freed \in Ancodes /\ job[c].op = "disconnect"
    /\ At(c, "unpin") => job[c].doc.fixed
    /\ Busy(c) /\ job[c].op = "fixed" => (job[c].doc.fixed => job[c].doc.time \in Times)
    /\ Busy(c) /\ job[c].op = "connect" => job[c].doc.ancode \in Ancodes
StepsOK == \A c \in Clients : StepOK(c)

\* Of two documents with one id the second is as it was inserted.
SecondsNew == \A i \in Ids : \A n \in 2..Len(pre[i]) : pre[i][n] = New

-----------------------------------------------------------------------------
(* Linking. *)

\* Client c is about to write document d for pre-exam i.
Holds(c, i, d) ==
    \/ At(c, "replace") /\ i = job[c].id /\ d = job[c].doc
    \/ At(c, "replaceOther") /\ i = job[c].other /\ d = job[c].doc
    \/ At(c, "persist") /\ <<i, d>> \in job[c].rest

\* The pre-exams that are linked to a, or will be by what somebody is about to write.
Claims(a) ==
    {i \in Ids : \/ i \in Existing /\ Doc(i).ancode = a
                 \/ \E c \in Clients, d \in Docs : Holds(c, i, d) /\ d.ancode = a}

ClaimsBounded == \A a \in Ancodes : Cardinality(Claims(a)) <= 1 + overlaps

-----------------------------------------------------------------------------
(* Without overlaps. *)

\* Nobody has taken away what the one request under way has read.
OneAtATime ==
    Alone => /\ \A c, d \in Clients : Busy(c) /\ Busy(d) => c = d
             /\ \A c \in Clients : At(c, "insert") => pre[job[c].id] = <<>>
             /\ \A c \in Clients, i \in Ids, d \in Docs : Holds(c, i, d) => i \in Existing
             /\ \A c \in Clients : Busy(c) /\ job[c].op \in {"pair", "same", "connect", "disconnect", "fixed"} =>
                   job[c].id \in Existing

\* The pre-exams linked to a and fixed at t.
Pinned(a, t) == \E i \in Existing : Doc(i).ancode = a /\ Doc(i).fixed /\ Doc(i).time = t

\* d lets the plan entry be as the stored document of i does.
SamePin(i, d) ==
    /\ d.ancode = Doc(i).ancode
    /\ \/ d.fixed = Doc(i).fixed /\ d.time = Doc(i).time
       \/ ~d.fixed /\ ~Doc(i).fixed

\* The ancode whose plan entry the request of c has still to change.
Owed(c, a) ==
    \/ At(c, "pin") /\ a = job[c].doc.ancode
    \/ /\ At(c, "sync") \/ At(c, "carry")
       /\ \/ /\ job[c].op = "connect" /\ a = job[c].doc.ancode
             /\ job[c].doc.fixed /\ job[c].doc.time # None
          \/ job[c].op = "disconnect" /\ a = job[c].freed /\ job[c].doc.fixed
    \/ At(c, "release") /\ a = job[c].freed /\ job[c].doc.fixed
    \/ At(c, "unpin") /\ a = job[c].freed

\* What the request of c is about to write, or has written, of its pre-exam.
Reads(c) ==
    LET j == job[c] IN
    /\ \A i \in Ids, d \in Docs :
          Holds(c, i, d) /\ j.op \notin {"fixed", "connect", "disconnect"} => SamePin(i, d)
    /\ At(c, "replace") /\ j.op = "fixed" =>
          j.doc.ancode = Doc(j.id).ancode /\ j.doc.time = Doc(j.id).time
    /\ At(c, "replace") /\ j.op \in {"connect", "disconnect"} =>
          j.doc.fixed = Doc(j.id).fixed /\ j.doc.time = Doc(j.id).time
    /\ At(c, "replace") /\ j.op = "connect" =>
          Doc(j.id).ancode \in {None, j.doc.ancode} /\ \A o \in Existing \ {j.id} : Doc(o).ancode # j.doc.ancode
    /\ At(c, "replace") /\ j.op = "disconnect" => j.doc.ancode = None /\ j.freed = Doc(j.id).ancode
    /\ Busy(c) /\ ~At(c, "replace") /\ j.op \in {"fixed", "connect"} => Doc(j.id) = j.doc
    /\ Busy(c) /\ ~At(c, "replace") /\ j.op = "disconnect" /\ j.freed # None =>
          \A i \in Existing : Doc(i).ancode # j.freed

PinGaps == {"failure", "update", "delete", "retime", "regroup", "relink"}
PinFollows ==
    Alone /\ Without(PinGaps) =>
        /\ \A c \in Clients : Reads(c)
        /\ \A a \in Ancodes, t \in Times :
              (\A c \in Clients : ~Owed(c, a)) => (plan[a] = t <=> Pinned(a, t))

-----------------------------------------------------------------------------
(* Links. *)

\* The list of d that a request of kind op changes, and the other one.
Side(op, d) == IF op = "pair" THEN d.notSame ELSE d.same
Aside(op, d) == IF op = "pair" THEN d.same ELSE d.notSame

\* The other sides the request of c has still to write.
Open(c, k) ==
    \/ (At(c, "mirror") \/ At(c, "replaceOther")) /\ \E r \in job[c].rest : r[1] = k
    \/ At(c, "replaceOther") /\ k = job[c].other

LinkReads(c) ==
    LET j == job[c] IN
    /\ \A i \in Ids, d \in Docs :
          Holds(c, i, d) /\ j.op \notin {"pair", "same"} =>
              d.notSame = Doc(i).notSame /\ d.same = Doc(i).same
    /\ At(c, "replace") /\ j.op \in {"pair", "same"} =>
          /\ Aside(j.op, j.doc) = Aside(j.op, Doc(j.id))
          /\ Side(j.op, j.doc) \subseteq Existing \ {j.id}
          /\ \A r \in j.rest : r[1] # j.id /\ (r[2] <=> r[1] \in Side(j.op, j.doc))
          /\ \A k \in Ids : (\A r \in j.rest : r[1] # k) =>
                (k \in Side(j.op, j.doc) <=> k \in Side(j.op, Doc(j.id)))
    /\ At(c, "mirror") \/ At(c, "replaceOther") =>
          \A r \in j.rest : r[1] # j.id /\ (r[2] <=> r[1] \in Side(j.op, Doc(j.id)))
    /\ At(c, "replaceOther") =>
          /\ j.other # j.id
          /\ Aside(j.op, j.doc) = Aside(j.op, Doc(j.other))
          /\ j.id \in Side(j.op, j.doc) <=> j.other \in Side(j.op, Doc(j.id))
          /\ \A k \in Ids \ {j.id} : k \in Side(j.op, j.doc) <=> k \in Side(j.op, Doc(j.other))

\* The request of c has still to make i and k agree.
Mending(c, op, i, k) ==
    Busy(c) /\ job[c].op = op /\ ((i = job[c].id /\ Open(c, k)) \/ (k = job[c].id /\ Open(c, i)))

LinkGaps == {"failure", "update", "delete"}
LinksFollow ==
    Alone /\ Without(LinkGaps) =>
        /\ \A c \in Clients : LinkReads(c)
        /\ \A op \in {"pair", "same"}, i \in Existing : \A k \in Side(op, Doc(i)) :
              /\ k \in Existing /\ k # i
              /\ i \in Side(op, Doc(k)) \/ \E c \in Clients : Mending(c, op, i, k)

IInv ==
    /\ Shape /\ StepsOK /\ SecondsNew /\ ClaimsBounded
    /\ OneAtATime /\ PinFollows /\ LinksFollow

-----------------------------------------------------------------------------
(* Least and greatest numbers, and the units of an assignment. *)

\* Every non-empty set of natural numbers has a least element.
LEMMA LeastNat == ASSUME NEW S \in SUBSET Nat, S # {} PROVE \E n \in S : \A m \in S : n <= m
<1> DEFINE R == OpToRel(<, Nat)
<1>1. IsWellFoundedOn(R, Nat)
  BY NatLessThanWellFounded
<1>2. \A x, y \in Nat : x < y => <<x, y>> \in R
  BY DEF OpToRel
<1> HIDE DEF R
<1>3. PICK n \in S : \A m \in S : ~(<<m, n>> \in R)
  BY <1>1, WFMin
<1>4. \A m \in S : ~(m < n)
  BY <1>2, <1>3
<1>5. QED
  BY <1>4

\* Every non-empty set of ids has a greatest element.
LEMMA GreatestId == ASSUME NEW S \in SUBSET Ids, S # {} PROVE \E n \in S : \A m \in S : m <= n
<1> DEFINE T == {k \in Nat : MaxId - k \in S}
<1>1. T \in SUBSET Nat
  OBVIOUS
<1>2. PICK s \in S : TRUE
  OBVIOUS
<1>3. MaxId - s \in T
  BY <1>2, PreplanAssumption DEF Ids
<1>4. PICK k \in T : \A m \in T : k <= m
  BY <1>1, <1>3, LeastNat
<1>5. ASSUME NEW m \in S PROVE m <= MaxId - k
  <2>1. MaxId - m \in T
    BY <1>5, PreplanAssumption DEF Ids
  <2>2. QED
    BY <1>4, <2>1, PreplanAssumption DEF Ids
<1>6. QED
  BY <1>4, <1>5

\* One round of either iteration.
Grown(k, S) == IF k = "unit" THEN Joined(S) ELSE Reached(S)
Growth(k, i, f) == f = [n \in 0..MaxId |-> IF n = 0 THEN {i} ELSE Grown(k, f[n - 1])]

\* The iteration that joins a unit, or collects a group, is well-defined: a least number
\* of rounds for which it were not would have a predecessor for which it is.
LEMMA GrowthExists ==
    ASSUME NEW k, NEW i PROVE \E f : Growth(k, i, f)
<1> DEFINE Ok(n, f) == f = [m \in 0..n |-> IF m = 0 THEN {i} ELSE Grown(k, f[m - 1])]
           Bad == {n \in Nat : ~\E f : Ok(n, f)}
<1>1. SUFFICES ASSUME Bad # {} PROVE FALSE
  <2>1. Bad = {} => \E f : Ok(MaxId, f)
    BY PreplanAssumption
  <2>2. QED
    BY <2>1 DEF Growth
<1>2. PICK n \in Bad : \A m \in Bad : n <= m
  <2> HIDE DEF Ok
  <2>1. Bad \in SUBSET Nat
    OBVIOUS
  <2>2. QED
    BY <1>1, <2>1, LeastNat
<1>3. CASE n = 0
  <2> DEFINE f == [m \in 0..0 |-> {i}]
  <2>1. Ok(0, f)
    OBVIOUS
  <2>2. QED
    BY <1>2, <1>3, <2>1
<1>4. CASE n # 0
  <2>1. n \in Nat /\ n - 1 \in Nat /\ n - 1 \notin Bad
    <3> HIDE DEF Ok
    <3>1. QED
      BY <1>2, <1>4
  <2>2. PICK f : Ok(n - 1, f)
    BY <2>1
  <2> DEFINE g == [m \in 0..n |-> IF m = n THEN Grown(k, f[n - 1]) ELSE f[m]]
  <2>3. \A m \in 0..n : m = 0 => g[m] = {i}
    BY <1>4, <2>1, <2>2
  <2>4. ASSUME NEW m \in 0..n, m # 0 PROVE g[m] = Grown(k, g[m - 1])
    <3>1. CASE m # n
      <4>1. m \in 0..(n - 1) /\ m - 1 \in 0..(n - 1) /\ m - 1 \in 0..n /\ m - 1 # n
        BY <2>1, <2>4, <3>1
      <4>2. f[m] = Grown(k, f[m - 1])
        BY <2>2, <2>4, <4>1
      <4>3. g[m] = f[m] /\ g[m - 1] = f[m - 1]
        BY <3>1, <4>1
      <4>4. QED
        BY <4>2, <4>3
    <3>2. CASE m = n
      <4>1. n \in 0..n /\ n - 1 \in 0..n /\ n - 1 # n
        BY <2>1, <3>2
      <4>2. g[n] = Grown(k, f[n - 1]) /\ g[n - 1] = f[n - 1]
        BY <4>1
      <4>3. QED
        BY <3>2, <4>2
    <3>3. QED
      BY <3>1, <3>2
  <2>5. Ok(n, g)
    <3>1. DOMAIN g = 0..n /\ g = [m \in 0..n |-> g[m]]
      OBVIOUS
    <3> HIDE DEF g
    <3>2. g = [m \in 0..n |-> IF m = 0 THEN {i} ELSE Grown(k, g[m - 1])]
      BY <2>3, <2>4, <3>1, Zenon
    <3>3. QED
      BY <3>2
  <2>6. QED
    BY <1>2, <2>5
<1>5. QED
  BY <1>3, <1>4

\* What it collects are existing pre-exams, the first one among them.
LEMMA GrowthMembers ==
    ASSUME NEW k, NEW i \in Existing, NEW f, Growth(k, i, f)
    PROVE  f[MaxId] \subseteq Existing /\ i \in f[MaxId]
<1>1. f[0] = {i} /\ \A n \in 1..MaxId : f[n] = Grown(k, f[n - 1])
  <2> DEFINE next(n) == Grown(k, f[n - 1])
  <2>1. f = [n \in 0..MaxId |-> IF n = 0 THEN {i} ELSE next(n)]
    BY DEF Growth
  <2>2. /\ 0 \in 0..MaxId
        /\ \A n \in 1..MaxId : n \in 0..MaxId /\ n # 0
    BY PreplanAssumption
  <2> HIDE DEF next
  <2>3. f[0] = {i} /\ \A n \in 1..MaxId : f[n] = next(n)
    BY <2>1, <2>2
  <2>4. QED
    BY <2>3 DEF next
<1> DEFINE Bad == {n \in 0..MaxId : ~(f[n] \subseteq Existing /\ i \in f[n])}
<1>2. SUFFICES ASSUME Bad # {} PROVE FALSE
  BY PreplanAssumption
<1>3. PICK n \in Bad : \A m \in Bad : n <= m
  <2>1. Bad \in SUBSET Nat
    OBVIOUS
  <2> HIDE DEF Bad
  <2>2. QED
    BY <1>2, <2>1, LeastNat
<1>4. n # 0
  BY <1>1, <1>3
<1>5. n - 1 \in 0..MaxId /\ n - 1 \notin Bad /\ n \in 1..MaxId
  BY <1>3, <1>4, PreplanAssumption
<1>6. f[n - 1] \subseteq Existing /\ i \in f[n - 1] /\ f[n] = Grown(k, f[n - 1])
  <2>1. f[n - 1] \subseteq Existing /\ i \in f[n - 1]
    BY <1>5
  <2>2. QED
    BY <1>1, <1>5, <2>1, Zenon
<1>7. f[n] = Joined(f[n - 1]) \/ f[n] = Reached(f[n - 1])
  BY <1>6 DEF Grown
<1>8. f[n] \subseteq Existing /\ i \in f[n]
  BY <1>6, <1>7 DEF Joined, Reached
<1>9. QED
  BY <1>3, <1>8

\* A unit consists of existing pre-exams, and is that of a pre-exam in it.
LEMMA UnitMembers == ASSUME NEW i \in Existing PROVE Unit(i) \subseteq Existing /\ i \in Unit(i)
<1> DEFINE J(f) == f = [n \in 0..MaxId |-> IF n = 0 THEN {i} ELSE Joined(f[n - 1])]
           join == CHOOSE f : J(f)
<1>1. ASSUME NEW f PROVE J(f) <=> Growth("unit", i, f)
  <2>1. \A S : Grown("unit", S) = Joined(S)
    BY DEF Grown
  <2>2. \A n \in 0..MaxId : Joined(f[n - 1]) = Grown("unit", f[n - 1])
    BY <2>1
  <2>3. QED
    BY <2>2, Zenon DEF Growth
<1>2. \E f : Growth("unit", i, f)
  BY GrowthExists, Zenon
<1>3. Growth("unit", i, join)
  <2>1. J(join)
    BY <1>1, <1>2, Zenon
  <2>2. QED
    BY <1>1, <2>1, Zenon
<1>4. Unit(i) = join[MaxId]
  BY DEF Unit
<1> HIDE DEF join
<1>5. join[MaxId] \subseteq Existing /\ i \in join[MaxId]
  BY <1>3, GrowthMembers
<1>6. QED
  BY <1>4, <1>5

\* A group consists of existing pre-exams.
LEMMA GroupMembers == ASSUME NEW i PROVE Group(i) \subseteq Existing
<1> DEFINE J(f) == f = [n \in 0..MaxId |-> IF n = 0 THEN {i} ELSE Reached(f[n - 1])]
           reach == CHOOSE f : J(f)
<1>1. ASSUME NEW f PROVE J(f) <=> Growth("group", i, f)
  <2>1. \A S : Grown("group", S) = Reached(S)
    BY DEF Grown
  <2>2. \A n \in 0..MaxId : Reached(f[n - 1]) = Grown("group", f[n - 1])
    BY <2>1
  <2>3. QED
    BY <2>2, Zenon DEF Growth
<1>2. \E f : Growth("group", i, f)
  BY GrowthExists, Zenon
<1>3. Growth("group", i, reach)
  <2>1. J(reach)
    BY <1>1, <1>2, Zenon
  <2>2. QED
    BY <1>1, <2>1, Zenon
<1>4. Group(i) = IF i \in Existing THEN reach[MaxId] ELSE {}
  BY DEF Group
<1> HIDE DEF reach
<1>5. i \in Existing => reach[MaxId] \subseteq Existing
  BY <1>3, GrowthMembers
<1>6. QED
  BY <1>4, <1>5

-----------------------------------------------------------------------------
(* Documents. *)

\* The document that requests work on.
LEMMA DocShape == ASSUME Shape PROVE Existing \subseteq Ids /\ \A i \in Existing : Doc(i) \in Docs
  BY DEF Shape, Existing, Doc

\* Replacing a document: nobody else's changes, and none appears.
LEMMA ReplacedDocs ==
    ASSUME Shape, NEW i \in Ids, NEW d \in Docs, pre' = Replaced(i, d)
    PROVE  /\ pre' \in [Ids -> Seq(Docs)] /\ Existing' = Existing
           /\ \A k \in Ids : Len(pre'[k]) = Len(pre[k])
           /\ \A k \in Ids \ {i} : pre'[k] = pre[k]
           /\ \A k \in Existing \ {i} : Doc(k)' = Doc(k)
           /\ i \in Existing => Doc(i)' = d
           /\ SecondsNew => SecondsNew'
<1>1. CASE i \notin Existing
  BY <1>1 DEF Shape, Replaced, Existing, Doc, SecondsNew
<1>2. CASE i \in Existing
  <2> DEFINE s == <<d>> \o Tail(pre[i])
  <2>1. pre[i] \in Seq(Docs) /\ pre[i] # <<>>
    BY <1>2 DEF Shape, Existing
  <2>2. /\ s \in Seq(Docs) /\ s # <<>> /\ Len(s) = Len(pre[i]) /\ Head(s) = d
        /\ \A n \in 2..Len(s) : s[n] = pre[i][n]
    BY <2>1
  <2>3. pre' = [pre EXCEPT ![i] = s]
    BY <1>2 DEF Replaced
  <2> HIDE DEF s
  <2>4. pre'[i] = s /\ (\A k \in Ids \ {i} : pre'[k] = pre[k]) /\ pre' \in [Ids -> Seq(Docs)]
    BY <2>2, <2>3 DEF Shape
  <2>5. Existing' = Existing
    BY <2>1, <2>2, <2>4 DEF Existing
  <2>6. SecondsNew => SecondsNew'
    BY <2>2, <2>4 DEF SecondsNew
  <2>7. QED
    BY <1>2, <2>2, <2>4, <2>5, <2>6 DEF Existing, Doc
<1>3. QED
  BY <1>1, <1>2

\* Upserting a document makes one when there is none.
LEMMA UpsertedDocs ==
    ASSUME Shape, NEW i \in Ids, NEW d \in Docs, pre' = UpsertPreplanExam(i, d)
    PROVE  /\ pre' \in [Ids -> Seq(Docs)] /\ Existing' = Existing \cup {i}
           /\ \A k \in Ids \ {i} : pre'[k] = pre[k]
           /\ i \in Existing => Len(pre'[i]) = Len(pre[i])
           /\ \A k \in Existing \ {i} : Doc(k)' = Doc(k)
           /\ Doc(i)' = d
           /\ SecondsNew => SecondsNew'
<1>1. CASE i \in Existing
  BY <1>1, ReplacedDocs DEF UpsertPreplanExam
<1>2. CASE i \notin Existing
  <2>1. pre' = [pre EXCEPT ![i] = <<d>>]
    BY <1>2 DEF UpsertPreplanExam
  <2>2. pre'[i] = <<d>> /\ (\A k \in Ids \ {i} : pre'[k] = pre[k]) /\ pre' \in [Ids -> Seq(Docs)]
    BY <2>1 DEF Shape
  <2>3. <<d>> # <<>> /\ Head(<<d>>) = d /\ Len(<<d>>) = 1
    OBVIOUS
  <2>4. Existing' = Existing \cup {i}
    BY <2>2, <2>3 DEF Existing
  <2>5. QED
    BY <1>2, <2>2, <2>3, <2>4 DEF Existing, Doc, SecondsNew
<1>3. QED
  BY <1>1, <1>2

\* Inserting a document: it is the one worked on only when there was none.
LEMMA InsertedDocs ==
    ASSUME Shape, NEW i \in Ids, pre' = [pre EXCEPT ![i] = Append(@, New)]
    PROVE  /\ pre' \in [Ids -> Seq(Docs)] /\ Existing' = Existing \cup {i}
           /\ \A k \in Ids \ {i} : pre'[k] = pre[k]
           /\ Len(pre'[i]) = Len(pre[i]) + 1
           /\ \A k \in Existing : Doc(k)' = Doc(k)
           /\ i \notin Existing => Doc(i)' = New
           /\ SecondsNew => SecondsNew'
<1>1. New \in Docs
  BY DEF New, Docs
<1>2. pre[i] \in Seq(Docs)
  BY DEF Shape
<1> DEFINE s == Append(pre[i], New)
<1>3. /\ s \in Seq(Docs) /\ s # <<>> /\ Len(s) = Len(pre[i]) + 1
      /\ \A n \in 1..Len(pre[i]) : s[n] = pre[i][n]
      /\ s[Len(s)] = New
      /\ pre[i] # <<>> => Head(s) = Head(pre[i])
      /\ pre[i] = <<>> => Head(s) = New
  <2>1. s \in Seq(Docs) /\ s # <<>> /\ Len(s) = Len(pre[i]) + 1
    BY <1>1, <1>2
  <2>2. (\A n \in 1..Len(pre[i]) : s[n] = pre[i][n]) /\ s[Len(s)] = New
    BY <1>1, <1>2
  <2>3. Head(s) = s[1] /\ Len(pre[i]) \in Nat
    BY <1>2, <2>1
  <2>4. CASE pre[i] = <<>>
    BY <2>1, <2>2, <2>3, <2>4
  <2>5. CASE pre[i] # <<>>
    <3>1. Head(pre[i]) = pre[i][1] /\ 1 \in 1..Len(pre[i])
      BY <1>2, <2>5
    <3>2. QED
      BY <2>1, <2>2, <2>3, <2>5, <3>1
  <2>6. QED
    BY <2>4, <2>5
<1>4. pre' = [pre EXCEPT ![i] = s]
  OBVIOUS
<1> HIDE DEF s
<1>5. pre'[i] = s /\ (\A k \in Ids \ {i} : pre'[k] = pre[k]) /\ pre' \in [Ids -> Seq(Docs)]
  BY <1>3, <1>4 DEF Shape
<1>6. Existing' = Existing \cup {i}
  BY <1>3, <1>5 DEF Existing
<1>7. SecondsNew => SecondsNew'
  <2> SUFFICES ASSUME SecondsNew, NEW k \in Ids, NEW n \in 2..Len(pre'[k]) PROVE pre'[k][n] = New
    BY DEF SecondsNew
  <2>1. CASE k # i
    BY <1>5, <2>1 DEF SecondsNew
  <2>2. CASE k = i /\ n = Len(s)
    BY <1>3, <1>5, <2>2
  <2>3. CASE k = i /\ n # Len(s)
    <3>1. n \in 2..Len(pre[i]) /\ n \in 1..Len(pre[i])
      BY <1>2, <1>3, <1>5, <2>3
    <3>2. QED
      BY <1>3, <1>5, <2>3, <3>1 DEF SecondsNew
  <2>4. QED
    BY <2>1, <2>2, <2>3
<1>8. QED
  BY <1>3, <1>5, <1>6, <1>7 DEF Existing, Doc

\* Deleting a document: what it uncovers is as it was inserted.
LEMMA DeletedDocs ==
    ASSUME Shape, SecondsNew, NEW i \in Existing, pre' = [pre EXCEPT ![i] = Tail(@)]
    PROVE  /\ pre' \in [Ids -> Seq(Docs)] /\ Existing \ {i} \subseteq Existing' /\ Existing' \subseteq Existing
           /\ \A k \in Ids \ {i} : pre'[k] = pre[k]
           /\ Len(pre'[i]) < Len(pre[i])
           /\ \A k \in Existing \ {i} : Doc(k)' = Doc(k)
           /\ i \in Existing' => Doc(i)' = New
           /\ SecondsNew'
<1>1. i \in Ids /\ pre[i] \in Seq(Docs) /\ pre[i] # <<>>
  BY DEF Shape, Existing
<1> DEFINE s == Tail(pre[i])
<1>2. /\ s \in Seq(Docs) /\ Len(s) = Len(pre[i]) - 1 /\ Len(s) \in Nat
      /\ \A n \in 1..Len(s) : s[n] = pre[i][n + 1]
      /\ s # <<>> => Len(s) # 0 /\ Head(s) = s[1]
  <2>1. s \in Seq(Docs) /\ Len(s) = Len(pre[i]) - 1
    BY <1>1
  <2>2. \A n \in 1..Len(s) : s[n] = pre[i][n + 1]
    BY <1>1
  <2> HIDE DEF s
  <2>3. Len(s) \in Nat
    BY <2>1
  <2>4. s # <<>> => Len(s) # 0
    BY <2>1, EmptySeq
  <2>5. s # <<>> => Head(s) = s[1]
    BY <2>1
  <2>6. QED
    BY <2>1, <2>2, <2>3, <2>4, <2>5
<1>3. pre' = [pre EXCEPT ![i] = s]
  OBVIOUS
<1> HIDE DEF s
<1>4. pre'[i] = s /\ (\A k \in Ids \ {i} : pre'[k] = pre[k]) /\ pre' \in [Ids -> Seq(Docs)]
  BY <1>1, <1>2, <1>3 DEF Shape
<1>5. \A n \in 1..Len(s) : s[n] = New
  <2>1. TAKE n \in 1..Len(s)
  <2>2. n + 1 \in 2..Len(pre[i])
    BY <1>1, <1>2
  <2>3. QED
    BY <1>1, <1>2, <2>2 DEF SecondsNew
<1>6. SecondsNew'
  <2> SUFFICES ASSUME NEW k \in Ids, NEW n \in 2..Len(pre'[k]) PROVE pre'[k][n] = New
    BY DEF SecondsNew
  <2>1. CASE k # i
    BY <1>4, <2>1 DEF SecondsNew
  <2>2. CASE k = i
    BY <1>2, <1>4, <1>5, <2>2
  <2>3. QED
    BY <2>1, <2>2
<1>7. Existing \ {i} \subseteq Existing' /\ Existing' \subseteq Existing
  BY <1>1, <1>4 DEF Existing
<1>8. i \in Existing' => Doc(i)' = New
  BY <1>2, <1>4, <1>5 DEF Existing, Doc
<1>9. Len(pre'[i]) < Len(pre[i])
  BY <1>1, <1>2, <1>4
<1>10. QED
  BY <1>4, <1>6, <1>7, <1>8, <1>9 DEF Existing, Doc

\* The next id is no pre-exam's yet.
LEMMA NextIdFree == ASSUME Shape PROVE NextId \notin Existing
<1>1. CASE Existing = {}
  BY <1>1
<1>2. CASE Existing # {}
  <2>1. Existing \in SUBSET Ids
    BY DEF Existing
  <2>2. \E i \in Existing : \A k \in Existing : k <= i
    BY <1>2, <2>1, GreatestId
  <2> DEFINE m == CHOOSE i \in Existing : \A k \in Existing : k <= i
  <2>3. m \in Existing /\ \A k \in Existing : k <= m
    BY <2>2
  <2>4. NextId = 1 + m
    BY <1>2 DEF NextId
  <2> HIDE DEF m
  <2>5. m \in Int
    BY <2>1, <2>3, PreplanAssumption DEF Ids
  <2>6. QED
    BY <2>3, <2>4, <2>5
<1>3. QED
  BY <1>1, <1>2

-----------------------------------------------------------------------------
(* What a request has read when it begins. *)

OthersKept(c) == \A d \in Clients \ {c} : job'[d] = job[d]

\* A request of c begins: only the counters and its job change.
Started(c) ==
    /\ Count(c) /\ Busy(c)' /\ OthersKept(c) /\ job' \in [Clients -> Jobs]
    /\ UNCHANGED <<pre, cons, plan>> /\ gaps \subseteq gaps'

Adds(c) ==
    LET j == job'[c] IN j.op = "add" /\ j.step = "insert" /\ j.id \in Ids \ Existing

\* The copies a reset or an assignment is going to write: what else they differ in
\* from the stored ones has been recorded as a gap.
Sweeps(c) ==
    LET j == job'[c] IN
    /\ j.op \in {"reset", "generate"} /\ j.step = "persist"
    /\ \A i \in Ids, d \in Docs : <<i, d>> \in j.rest =>
          /\ i \in Existing
          /\ d.ancode = Doc(i).ancode /\ d.notSame = Doc(i).notSame /\ d.same = Doc(i).same
          /\ SamePin(i, d) \/ "regroup" \in gaps'

\* The copy of i that a request is going to write, by what it is about.
Edits(c, i) ==
    LET j == job'[c]
        d == j.doc
        o == j.op
    IN
    /\ i \in Existing /\ j.id = i /\ j.step = "replace" /\ d \in Docs
    /\ o \in {"update", "time", "fixed", "pair", "same", "connect", "disconnect"}
    /\ o \notin {"connect", "disconnect"} => d.ancode = Doc(i).ancode
    /\ o \notin {"pair", "same", "update"} => d.notSame = Doc(i).notSame /\ d.same = Doc(i).same
    /\ o \in {"pair", "same", "connect", "disconnect"} => d.fixed = Doc(i).fixed /\ d.time = Doc(i).time
    /\ o = "update" => d = Doc(i) \/ "update" \in gaps'
    /\ o = "time" => d.fixed = Doc(i).fixed /\ (~d.fixed \/ "retime" \in gaps')
    /\ o = "fixed" => d.time = Doc(i).time /\ (d.fixed => d.time \in Times)
    /\ o = "connect" => /\ d.ancode \in Ancodes
                        /\ \A k \in Existing \ {i} : Doc(k).ancode # d.ancode
                        /\ Doc(i).ancode \in {None, d.ancode} \/ "relink" \in gaps'
    /\ o = "disconnect" => d.ancode = None /\ j.freed = Doc(i).ancode
    /\ o = "same" => "late" \in gaps' \/ \A k \in Existing : Doc(k).ancode = None
    /\ o \in {"pair", "same"} =>
          /\ Aside(o, d) = Aside(o, Doc(i))
          /\ \A k \in Side(o, d) : k \in Side(o, Doc(i)) \/ k \in Existing \ {i}
          /\ \A r \in j.rest : r[2] <=> r[1] \in Side(o, d)
          /\ \A r \in j.rest : r[1] # i \/ i \in Side(o, Doc(i))
          /\ \A k \in Ids : (\A r \in j.rest : r[1] # k) => (k \in Side(o, d) <=> k \in Side(o, Doc(i)))

\* A request begins as the record r.
LEMMA BegunAs ==
    ASSUME Shape, NEW c \in Clients, NEW r \in Jobs, r.op # "none", NEW m, Begin(c, r, m)
    PROVE  Started(c) /\ job'[c] = r /\ gaps' = gaps \cup m
<1>1. job' = [job EXCEPT ![c] = r] /\ Count(c) /\ gaps' = gaps \cup m /\ UNCHANGED <<pre, cons, plan>>
  BY DEF Begin
<1>2. job'[c] = r /\ OthersKept(c) /\ job' \in [Clients -> Jobs]
  BY <1>1 DEF Shape, OthersKept
<1>3. r # Idle
  BY DEF Idle
<1>4. QED
  BY <1>1, <1>2, <1>3 DEF Started, Busy

LEMMA AddKind == ASSUME Shape, NEW c \in Clients, AddPreplanExam(c) PROVE Started(c) /\ Adds(c)
<1> DEFINE r == [op |-> "add", id |-> NextId, other |-> 0, doc |-> New, step |-> "insert", rest |-> {}, freed |-> None]
<1>1. Begin(c, r, {}) /\ NextId \in Ids
  BY DEF AddPreplanExam, Request
<1>2. New \in Docs
  BY DEF New, Docs
<1>3. r \in Jobs /\ r.op # "none"
  BY <1>1, <1>2 DEF Jobs, AddJobs
<1>4. Started(c) /\ job'[c] = r
  BY <1>1, <1>3, BegunAs
<1>5. QED
  BY <1>1, <1>4, NextIdFree DEF Adds

\* The edits of one pre-exam.
LEMMA EditRecord ==
    ASSUME Shape, NEW c \in Clients, NEW o \in {"update", "time", "fixed"}, NEW i \in Existing,
           NEW d \in Docs, NEW m, Begin(c, Request(o, i, d, {}), m)
    PROVE  /\ Started(c) /\ gaps' = gaps \cup m
           /\ job'[c].op = o /\ job'[c].id = i /\ job'[c].step = "replace" /\ job'[c].doc = d
<1> DEFINE r == [op |-> o, id |-> i, other |-> 0, doc |-> d, step |-> "replace", rest |-> {}, freed |-> None]
<1>1. Begin(c, r, m)
  BY DEF Request
<1>2. i \in Ids
  BY DocShape
<1>3. r \in Jobs /\ r.op # "none"
  BY <1>2 DEF Jobs, EditJobs
<1>4. QED
  BY <1>1, <1>3, BegunAs

LEMMA UpdateKind ==
    ASSUME Shape, NEW c \in Clients, NEW i \in Existing, UpdatePreplanExam(c, i) PROVE Started(c) /\ Edits(c, i)
<1> DEFINE n == [New EXCEPT !.time = Doc(i).time, !.ancode = Doc(i).ancode]
<1>1. Doc(i) \in Docs
  BY DocShape
<1>2. n \in Docs /\ n.ancode = Doc(i).ancode
  BY <1>1 DEF Docs, New
<1>3. Begin(c, Request("update", i, n, {}), Missed(n # Doc(i), "update"))
  BY DEF UpdatePreplanExam
<1> HIDE DEF n
<1>4. /\ Started(c) /\ gaps' = gaps \cup Missed(n # Doc(i), "update")
      /\ job'[c].op = "update" /\ job'[c].id = i /\ job'[c].step = "replace" /\ job'[c].doc = n
  BY <1>2, <1>3, EditRecord
<1>5. n = Doc(i) \/ "update" \in gaps'
  BY <1>4 DEF Missed
<1>6. QED
  BY <1>2, <1>4, <1>5 DEF Edits

LEMMA TimeKind ==
    ASSUME Shape, NEW c \in Clients, NEW i \in Existing, NEW t \in Times \cup {None},
           SetPreplanExamTime(c, i, t)
    PROVE  Started(c) /\ Edits(c, i)
<1> DEFINE n == [Doc(i) EXCEPT !.time = t]
<1>1. Doc(i) \in Docs
  BY DocShape
<1>2. /\ n \in Docs /\ n.ancode = Doc(i).ancode /\ n.fixed = Doc(i).fixed
      /\ n.notSame = Doc(i).notSame /\ n.same = Doc(i).same
  BY <1>1 DEF Docs
<1>3. Begin(c, Request("time", i, n, {}), Missed(Doc(i).fixed, "retime"))
  BY DEF SetPreplanExamTime
<1> HIDE DEF n
<1>4. /\ Started(c) /\ gaps' = gaps \cup Missed(Doc(i).fixed, "retime")
      /\ job'[c].op = "time" /\ job'[c].id = i /\ job'[c].step = "replace" /\ job'[c].doc = n
  BY <1>2, <1>3, EditRecord
<1>5. ~Doc(i).fixed \/ "retime" \in gaps'
  BY <1>4 DEF Missed
<1>6. QED
  BY <1>2, <1>4, <1>5 DEF Edits

LEMMA FixedKind ==
    ASSUME Shape, NEW c \in Clients, NEW i \in Existing, NEW f \in BOOLEAN, SetPreplanExamFixed(c, i, f)
    PROVE  Started(c) /\ Edits(c, i)
<1> DEFINE n == [Doc(i) EXCEPT !.fixed = f]
<1>1. Doc(i) \in Docs
  BY DocShape
<1>2. /\ n \in Docs /\ n.ancode = Doc(i).ancode /\ n.time = Doc(i).time /\ n.fixed = f
      /\ n.notSame = Doc(i).notSame /\ n.same = Doc(i).same /\ n.time \in Times \cup {None}
  BY <1>1 DEF Docs
<1>3. Begin(c, Request("fixed", i, n, {}), {}) /\ (f => Doc(i).time # None)
  BY DEF SetPreplanExamFixed
<1> HIDE DEF n
<1>4. /\ Started(c)
      /\ job'[c].op = "fixed" /\ job'[c].id = i /\ job'[c].step = "replace" /\ job'[c].doc = n
  BY <1>2, <1>3, EditRecord
<1>5. QED
  BY <1>2, <1>3, <1>4 DEF Edits

LEMMA ConnectKind ==
    ASSUME Shape, NEW c \in Clients, NEW i \in Existing, NEW a \in Ancodes, ConnectPreplanExamToAncode(c, i, a)
    PROVE  Started(c) /\ Edits(c, i)
<1> DEFINE n == [Doc(i) EXCEPT !.ancode = a]
           r == [op |-> "connect", id |-> i, other |-> 0, doc |-> n, step |-> "replace", rest |-> {}, freed |-> None]
<1>1. Doc(i) \in Docs /\ i \in Ids
  BY DocShape
<1>2. /\ n \in Docs /\ n.ancode = a /\ n.time = Doc(i).time /\ n.fixed = Doc(i).fixed
      /\ n.notSame = Doc(i).notSame /\ n.same = Doc(i).same
  BY <1>1 DEF Docs
<1>3. /\ Begin(c, r, Missed(Doc(i).ancode \notin {None, a}, "relink"))
      /\ \A o \in Existing \ {i} : Doc(o).ancode # a
  BY DEF ConnectPreplanExamToAncode, Request
<1> HIDE DEF n
<1>4. r \in Jobs /\ r.op # "none"
  BY <1>1, <1>2 DEF Jobs, ConnectJobs, Carries, Code
<1>5. Started(c) /\ job'[c] = r /\ gaps' = gaps \cup Missed(Doc(i).ancode \notin {None, a}, "relink")
  BY <1>3, <1>4, BegunAs
<1>6. Doc(i).ancode \in {None, a} \/ "relink" \in gaps'
  BY <1>5 DEF Missed
<1>7. QED
  BY <1>2, <1>3, <1>5, <1>6 DEF Edits

LEMMA DisconnectKind ==
    ASSUME Shape, NEW c \in Clients, NEW i \in Existing, DisconnectPreplanExam(c, i)
    PROVE  Started(c) /\ Edits(c, i)
<1> DEFINE n == [Doc(i) EXCEPT !.ancode = None]
           r == [op |-> "disconnect", id |-> i, other |-> 0, doc |-> n, step |-> "replace", rest |-> {},
                 freed |-> Doc(i).ancode]
<1>1. Doc(i) \in Docs /\ i \in Ids /\ Doc(i).ancode \in Code
  BY DocShape DEF Docs, Code
<1>2. /\ n \in Docs /\ n.ancode = None /\ n.time = Doc(i).time /\ n.fixed = Doc(i).fixed
      /\ n.notSame = Doc(i).notSame /\ n.same = Doc(i).same
  BY <1>1 DEF Docs
<1>3. Begin(c, r, {})
  BY DEF DisconnectPreplanExam, Request
<1> HIDE DEF n
<1>4. r \in Jobs /\ r.op # "none"
  BY <1>1, <1>2 DEF Jobs, ConnectJobs, Carries
<1>5. Started(c) /\ job'[c] = r
  BY <1>3, <1>4, BegunAs
<1>6. QED
  BY <1>2, <1>5 DEF Edits

\* The edits that have to be mirrored.
LEMMA LinkRecord ==
    ASSUME Shape, NEW c \in Clients, NEW o \in {"pair", "same"}, NEW i \in Existing,
           NEW d \in Docs, NEW rest \in Links, NEW m, Begin(c, Request(o, i, d, rest), m)
    PROVE  /\ Started(c) /\ gaps' = gaps \cup m
           /\ job'[c].op = o /\ job'[c].id = i /\ job'[c].step = "replace" /\ job'[c].doc = d
           /\ job'[c].rest = rest
<1> DEFINE r == [op |-> o, id |-> i, other |-> 0, doc |-> d, step |-> "replace", rest |-> rest, freed |-> None]
<1>1. Begin(c, r, m)
  BY DEF Request
<1>2. i \in Ids /\ 0 \in 0..MaxId
  BY DocShape, PreplanAssumption
<1>3. r \in Jobs /\ r.op # "none"
  BY <1>2 DEF Jobs, LinkJobs
<1>4. QED
  BY <1>1, <1>3, BegunAs

LEMMA PairKind ==
    ASSUME Shape, NEW c \in Clients, NEW i \in Existing, NEW other \in Ids, NEW add \in BOOLEAN,
           SetPreplanPairLink(c, i, other, add)
    PROVE  Started(c) /\ Edits(c, i)
<1> DEFINE S == IF add THEN Doc(i).notSame \cup {other} ELSE Doc(i).notSame \ {other}
           n == [Doc(i) EXCEPT !.notSame = S]
<1>1. Doc(i) \in Docs
  BY DocShape
<1>2. S \in SUBSET Ids
  BY <1>1 DEF Docs
<1>3. Begin(c, Request("pair", i, n, {<<other, add>>}), {}) /\ i # other /\ (add => other \in Existing)
  BY DEF SetPreplanPairLink
<1>4. /\ other \in S <=> add
      /\ \A k : k # other => (k \in S <=> k \in Doc(i).notSame)
  OBVIOUS
<1> HIDE DEF S
<1>5. /\ n \in Docs /\ n.ancode = Doc(i).ancode /\ n.time = Doc(i).time /\ n.fixed = Doc(i).fixed
      /\ n.notSame = S /\ n.same = Doc(i).same
  BY <1>1, <1>2 DEF Docs
<1> HIDE DEF n
<1>6. {<<other, add>>} \in Links
  BY DEF Links
<1>7. /\ Started(c)
      /\ job'[c].op = "pair" /\ job'[c].id = i /\ job'[c].step = "replace" /\ job'[c].doc = n
      /\ job'[c].rest = {<<other, add>>}
  BY <1>3, <1>5, <1>6, LinkRecord
<1>8. \A r \in job'[c].rest : r[1] = other /\ r[2] = add
  BY <1>7
<1>9. \A k \in Ids : (\A r \in job'[c].rest : r[1] # k) => k # other
  BY <1>7
<1>10. /\ Aside("pair", n) = Aside("pair", Doc(i)) /\ Side("pair", n) = S
       /\ Side("pair", Doc(i)) = Doc(i).notSame
  BY <1>5 DEF Aside, Side
<1>11. /\ \A k \in S : k \in Doc(i).notSame \/ k \in Existing \ {i}
  BY <1>3, <1>4
<1>12. \A r \in job'[c].rest : r[2] <=> r[1] \in S
  BY <1>4, <1>8
<1>13. \A k \in Ids : (\A r \in job'[c].rest : r[1] # k) => (k \in S <=> k \in Doc(i).notSame)
  BY <1>4, <1>9
<1>14. \A r \in job'[c].rest : r[1] # i
  BY <1>3, <1>8
<1>15. QED
  BY <1>5, <1>7, <1>10, <1>11, <1>12, <1>13, <1>14 DEF Edits

LEMMA SameKind ==
    ASSUME Shape, NEW c \in Clients, NEW i \in Existing, NEW same \in SUBSET Ids,
           SetPreplanExamConstraints(c, i, same)
    PROVE  Started(c) /\ Edits(c, i)
<1> DEFINE old == Doc(i).same
           new == (same \cap Existing) \ {i}
           n == [Doc(i) EXCEPT !.same = new]
           rest == {<<o, TRUE>> : o \in new \ old} \cup {<<o, FALSE>> : o \in old \ new}
           m == Missed(\E k \in Existing : Doc(k).ancode # None, "late")
<1>1. Doc(i) \in Docs /\ old \in SUBSET Ids /\ new \in SUBSET Ids
  BY DocShape DEF Docs
<1>2. Begin(c, Request("same", i, n, rest), m)
  BY DEF SetPreplanExamConstraints
<1>3. new \subseteq Existing \ {i}
  OBVIOUS
<1> HIDE DEF new, old, m
<1>4. /\ n \in Docs /\ n.ancode = Doc(i).ancode /\ n.time = Doc(i).time /\ n.fixed = Doc(i).fixed
      /\ n.same = new /\ n.notSame = Doc(i).notSame /\ Doc(i).same = old
  BY <1>1 DEF Docs, old
<1>5. rest \in Links
  <2>1. ASSUME NEW r \in rest PROVE r \in Ids \X BOOLEAN
    <3>1. PICK o \in Ids, b \in BOOLEAN : r = <<o, b>>
      BY <1>1, Zenon
    <3>2. QED
      BY <3>1
  <2> HIDE DEF rest
  <2>2. QED
    BY <2>1 DEF Links
<1>6. ASSUME NEW r \in rest PROVE r[2] <=> r[1] \in new
  <2>1. (\E o \in new \ old : r = <<o, TRUE>>) \/ (\E o \in old \ new : r = <<o, FALSE>>)
    BY Zenon
  <2>2. CASE \E o \in new \ old : r = <<o, TRUE>>
    <3>1. r[1] \in new /\ r[2] = TRUE
      BY <2>2
    <3>2. QED
      BY <3>1, Zenon
  <2>3. CASE \E o \in old \ new : r = <<o, FALSE>>
    <3>1. r[1] \notin new /\ r[2] = FALSE
      BY <2>3
    <3>2. QED
      BY <3>1, Zenon
  <2>4. QED
    BY <2>1, <2>2, <2>3
<1>7. ASSUME NEW r \in rest PROVE r[1] \in new \/ r[1] \in old
  <2>1. (\E o \in new \ old : r = <<o, TRUE>>) \/ (\E o \in old \ new : r = <<o, FALSE>>)
    BY Zenon
  <2>2. CASE \E o \in new \ old : r = <<o, TRUE>>
    BY <2>2
  <2>3. CASE \E o \in old \ new : r = <<o, FALSE>>
    BY <2>3
  <2>4. QED
    BY <2>1, <2>2, <2>3
<1>8. ASSUME NEW k \in Ids, \A r \in rest : r[1] # k PROVE k \in new <=> k \in old
  <2>1. <<k, TRUE>>[1] = k /\ <<k, FALSE>>[1] = k
    OBVIOUS
  <2>2. <<k, TRUE>> \notin rest /\ <<k, FALSE>> \notin rest
    BY <1>8, <2>1
  <2>3. QED
    BY <2>2
<1> HIDE DEF rest, n
<1>9. /\ Started(c) /\ gaps' = gaps \cup m
      /\ job'[c].op = "same" /\ job'[c].id = i /\ job'[c].step = "replace" /\ job'[c].doc = n
      /\ job'[c].rest = rest
  BY <1>2, <1>4, <1>5, LinkRecord
<1>11. "late" \in gaps' \/ \A k \in Existing : Doc(k).ancode = None
  BY <1>9 DEF m, Missed
<1>10. /\ Aside("same", n) = Aside("same", Doc(i)) /\ Side("same", n) = new
       /\ Side("same", Doc(i)) = old
  BY <1>4 DEF Aside, Side
<1>12. QED
  BY <1>3, <1>4, <1>6, <1>7, <1>8, <1>9, <1>10, <1>11 DEF Edits

\* The copies of a reset or an assignment.
LEMMA SweepRecord ==
    ASSUME Shape, NEW c \in Clients, NEW o \in {"reset", "generate"}, NEW rest \in Copies, NEW m,
           Begin(c, [Request(o, 0, New, rest) EXCEPT !.step = "persist"], m)
    PROVE  /\ Started(c) /\ gaps' = gaps \cup m
           /\ job'[c].op = o /\ job'[c].step = "persist" /\ job'[c].rest = rest
<1> DEFINE r == [op |-> o, id |-> 0, other |-> 0, doc |-> New, step |-> "persist", rest |-> rest, freed |-> None]
<1>1. Begin(c, r, m)
  BY DEF Request
<1>2. New \in Docs
  BY DEF New, Docs
<1>3. r \in Jobs /\ r.op # "none"
  BY <1>2 DEF Jobs, SweepJobs
<1>4. QED
  BY <1>1, <1>3, BegunAs

LEMMA ResetKind == ASSUME Shape, NEW c \in Clients, ResetPreplanTimes(c) PROVE Started(c) /\ Sweeps(c)
<1> DEFINE K == {k \in Existing : ~Doc(k).fixed /\ Doc(k).time # None}
           f(i) == [Doc(i) EXCEPT !.time = None]
           rest == {<<i, f(i)>> : i \in K}
<1>1. Begin(c, [Request("reset", 0, New, rest) EXCEPT !.step = "persist"], {})
  BY DEF ResetPreplanTimes
<1>2. \A i \in K : /\ i \in Existing /\ i \in Ids /\ f(i) \in Docs
                   /\ f(i).ancode = Doc(i).ancode /\ f(i).notSame = Doc(i).notSame /\ f(i).same = Doc(i).same
                   /\ ~f(i).fixed /\ ~Doc(i).fixed
  BY DocShape DEF Docs
<1> HIDE DEF f, K
<1>3. rest \in Copies
  BY <1>2 DEF Copies
<1>4. /\ Started(c)
      /\ job'[c].op = "reset" /\ job'[c].step = "persist" /\ job'[c].rest = rest
  BY <1>1, <1>3, SweepRecord
<1>5. ASSUME NEW i \in Ids, NEW d \in Docs, <<i, d>> \in rest
      PROVE  /\ i \in Existing
             /\ d.ancode = Doc(i).ancode /\ d.notSame = Doc(i).notSame /\ d.same = Doc(i).same
             /\ SamePin(i, d)
  <2>1. i \in K /\ d = f(i)
    BY <1>5
  <2>2. QED
    BY <1>2, <2>1 DEF SamePin
<1> HIDE DEF rest
<1>6. QED
  BY <1>4, <1>5 DEF Sweeps

LEMMA GenerateKind ==
    ASSUME Shape, NEW c \in Clients, NEW keep \in BOOLEAN, NEW booked \in SUBSET Times,
           NEW solved \in [Ids -> booked \cup {None}], GeneratePreplanAssignment(c, keep, booked, solved)
    PROVE  Started(c) /\ Sweeps(c)
<1> DEFINE fixedIn(g) == {m \in g : Doc(m).fixed /\ Doc(m).time # None}
           stays(g) == keep /\ \E t \in booked : \A m \in g : Doc(m).time = t
           timeOf(i) ==
               LET g == Unit(i) IN
               IF fixedIn(g) # {} THEN Doc(CHOOSE m \in fixedIn(g) : \A n \in fixedIn(g) : n <= m).time
               ELSE IF stays(g) THEN Doc(i).time
               ELSE solved[CHOOSE m \in g : \A n \in g : m <= n]
           isFixed(i) == fixedIn(Unit(i)) # {}
           final(i) == [Doc(i) EXCEPT !.time = timeOf(i), !.fixed = isFixed(i)]
           m == Missed(\E i \in Existing : Doc(i) # final(i) /\ (Doc(i).fixed \/ final(i).fixed), "regroup")
           rest == {<<i, final(i)>> : i \in Existing}
<1>1. Begin(c, [Request("generate", 0, New, rest) EXCEPT !.step = "persist"], m)
  BY DEF GeneratePreplanAssignment
<1>2. ASSUME NEW i \in Existing PROVE timeOf(i) \in Times \cup {None}
  <2> DEFINE g == Unit(i)
  <2>1. g \in SUBSET Existing /\ g \in SUBSET Ids /\ g # {} /\ fixedIn(g) \in SUBSET Existing /\ fixedIn(g) \in SUBSET Ids
    BY UnitMembers, DocShape
  <2>2. \A k \in Existing : Doc(k).time \in Times \cup {None}
    BY DocShape DEF Docs
  <2> HIDE DEF g
  <2>3. CASE fixedIn(g) # {}
    <3> DEFINE F == fixedIn(g)
               k == CHOOSE k \in F : \A n \in F : n <= k
    <3>1. F \in SUBSET Ids /\ F # {} /\ F \subseteq Existing
      BY <2>1, <2>3
    <3> HIDE DEF F
    <3>2. k \in F
      BY <3>1, GreatestId
    <3>3. timeOf(i) = Doc(k).time
      BY <2>3 DEF F, g
    <3> HIDE DEF k
    <3>4. QED
      BY <2>2, <3>1, <3>2, <3>3
  <2>4. CASE fixedIn(g) = {} /\ stays(g)
    <3>1. timeOf(i) = Doc(i).time
      BY <2>4 DEF g
    <3>2. QED
      BY <2>2, <3>1
  <2>5. CASE fixedIn(g) = {} /\ ~stays(g)
    <3> DEFINE k == CHOOSE k \in g : \A n \in g : k <= n
    <3>1. timeOf(i) = solved[k]
      BY <2>5 DEF g
    <3>2. g \in SUBSET Nat
      BY <2>1, PreplanAssumption DEF Ids
    <3>3. k \in g
      BY <2>1, <3>2, LeastNat
    <3> HIDE DEF k
    <3>4. QED
      BY <2>1, <3>1, <3>3
  <2>6. QED
    BY <2>3, <2>4, <2>5
<1>3. \A i \in Existing : isFixed(i) \in BOOLEAN
  OBVIOUS
<1> HIDE DEF timeOf, isFixed
<1>4. \A i \in Existing :
         /\ final(i) \in Docs /\ final(i).ancode = Doc(i).ancode
         /\ final(i).notSame = Doc(i).notSame /\ final(i).same = Doc(i).same
  BY <1>2, <1>3, DocShape DEF Docs
<1> HIDE DEF final
<1>5. rest \in Copies
  BY <1>4, DocShape DEF Copies
<1>6. /\ Started(c) /\ gaps' = gaps \cup m
      /\ job'[c].op = "generate" /\ job'[c].step = "persist" /\ job'[c].rest = rest
  BY <1>1, <1>5, SweepRecord
<1>7. ASSUME NEW i \in Existing PROVE SamePin(i, final(i)) \/ "regroup" \in gaps'
  <2>1. CASE Doc(i) # final(i) /\ (Doc(i).fixed \/ final(i).fixed)
    BY <1>6, <2>1 DEF Missed
  <2>2. CASE Doc(i) = final(i)
    BY <2>2 DEF SamePin
  <2>3. CASE ~Doc(i).fixed /\ ~final(i).fixed
    BY <1>4, <2>3 DEF SamePin
  <2>4. QED
    BY <2>1, <2>2, <2>3
<1>8. ASSUME NEW i \in Ids, NEW d \in Docs, <<i, d>> \in rest PROVE i \in Existing /\ d = final(i)
  BY <1>8
<1> HIDE DEF rest, m
<1>9. QED
  BY <1>4, <1>6, <1>7, <1>8 DEF Sweeps

\* Every request deletes a pre-exam, or begins by reading.
LEMMA RequestKinds ==
    ASSUME Shape, NEW c \in Clients, Requests(c)
    PROVE  \/ \E i \in Existing : DeletePreplanExam(c, i)
           \/ Started(c) /\ (Adds(c) \/ Sweeps(c) \/ \E i \in Existing : Edits(c, i))
<1>1. CASE AddPreplanExam(c) \/ ResetPreplanTimes(c)
  BY <1>1, AddKind, ResetKind
<1>2. CASE \E keep \in BOOLEAN, booked \in SUBSET Times : \E solved \in [Ids -> booked \cup {None}] :
              GeneratePreplanAssignment(c, keep, booked, solved)
  BY <1>2, GenerateKind
<1>3. ASSUME NEW i \in Existing,
             \/ UpdatePreplanExam(c, i) \/ DeletePreplanExam(c, i) \/ DisconnectPreplanExam(c, i)
             \/ \E t \in Times \cup {None} : SetPreplanExamTime(c, i, t)
             \/ \E fixed \in BOOLEAN : SetPreplanExamFixed(c, i, fixed)
             \/ \E other \in Ids, add \in BOOLEAN : SetPreplanPairLink(c, i, other, add)
             \/ \E same \in SUBSET Ids : SetPreplanExamConstraints(c, i, same)
             \/ \E a \in Ancodes : ConnectPreplanExamToAncode(c, i, a)
      PROVE  DeletePreplanExam(c, i) \/ (Started(c) /\ Edits(c, i))
  BY <1>3, UpdateKind, DisconnectKind, TimeKind, FixedKind, PairKind, SameKind, ConnectKind
<1>4. QED
  BY <1>1, <1>2, <1>3 DEF Requests

-----------------------------------------------------------------------------
(* What the steps of a request make of it. *)

\* The step of a request says what kind it is.
LEMMA JobByStep ==
    ASSUME NEW j \in Jobs, j # Idle
    PROVE  /\ j.step = "insert" => j \in AddJobs
           /\ j.step = "persist" => j \in SweepJobs
           /\ j.step \in {"mirror", "replaceOther"} => j \in LinkJobs
           /\ j.step \in {"sync", "carry", "release", "unpin"} => j \in ConnectJobs
           /\ j.step = "pin" => j \in EditJobs \cup ConnectJobs
           /\ j.step = "replace" => j \in EditJobs \cup LinkJobs \cup ConnectJobs
  BY DEF Jobs, AddJobs, EditJobs, LinkJobs, ConnectJobs, SweepJobs

\* What an operation is allowed to be at.
LEMMA JobByOp ==
    ASSUME NEW j \in Jobs, j # Idle
    PROVE  /\ j.op \in {"update", "time", "fixed"} => j \in EditJobs
           /\ j.op \in {"pair", "same"} => j \in LinkJobs
           /\ j.op \in {"connect", "disconnect"} => j \in ConnectJobs
           /\ j.op \in {"reset", "generate"} => j \in SweepJobs
           /\ j.op = "add" => j \in AddJobs
           /\ j.op # "none" /\ j.doc \in Docs
  BY DEF Jobs, AddJobs, EditJobs, LinkJobs, ConnectJobs, SweepJobs

\* An idle client holds and does nothing.
LEMMA IdleJob == Idle.op = "none" /\ Idle \in Jobs
  BY DEF Idle, Jobs

\* The request goes on at step s, with the same pre-exam and document, or ends.
Kept(c, s) ==
    /\ Busy(c)' /\ job'[c].step = s /\ job'[c].op = job[c].op /\ job'[c].id = job[c].id
    /\ job'[c].other = job[c].other /\ job'[c].doc = job[c].doc /\ job'[c].freed = job[c].freed
Ended(c) == job'[c] = Idle
Worked(c) == OthersKept(c) /\ job' \in [Clients -> Jobs] /\ UNCHANGED bounds

\* A request that goes on as the record j.
LEMMA GoneOn ==
    ASSUME Shape, NEW c \in Clients, NEW j \in Jobs, Go(c, j), UNCHANGED bounds
    PROVE  job'[c] = j /\ Worked(c)
  BY DEF Shape, Go, OthersKept, Worked

LEMMA GoneDone ==
    ASSUME Shape, NEW c \in Clients, Done(c), UNCHANGED bounds PROVE Ended(c) /\ Worked(c) /\ ~Busy(c)'
  BY IdleJob, GoneOn DEF Done, Ended, Busy

\* Another step of the same request.
LEMMA StepRecord ==
    ASSUME NEW j \in Jobs, j # Idle, NEW s,
           \/ j \in LinkJobs /\ s \in {"mirror"}
           \/ j \in ConnectJobs /\ s \in {"sync", "carry", "pin", "release", "unpin"}
           \/ j \in EditJobs /\ s = "pin"
    PROVE  LET n == [j EXCEPT !.step = s] IN
           /\ n \in Jobs /\ n # Idle /\ n.step = s /\ n.op = j.op /\ n.id = j.id /\ n.other = j.other
           /\ n.doc = j.doc /\ n.freed = j.freed /\ n.rest = j.rest
<1> DEFINE n == [j EXCEPT !.step = s]
<1>1. CASE j \in LinkJobs /\ s \in {"mirror"}
  <2>1. /\ n \in LinkJobs /\ n.step = s /\ n.op = j.op /\ n.id = j.id /\ n.other = j.other
        /\ n.doc = j.doc /\ n.freed = j.freed /\ n.rest = j.rest /\ n.op \in {"pair", "same"}
    BY <1>1 DEF LinkJobs
  <2>2. QED
    BY <2>1, IdleJob DEF Jobs
<1>2. CASE j \in ConnectJobs /\ s \in {"sync", "carry", "pin", "release", "unpin"}
  <2>1. /\ n \in ConnectJobs /\ n.step = s /\ n.op = j.op /\ n.id = j.id /\ n.other = j.other
        /\ n.doc = j.doc /\ n.freed = j.freed /\ n.rest = j.rest /\ n.op \in {"connect", "disconnect"}
    BY <1>2 DEF ConnectJobs
  <2>2. QED
    BY <2>1, IdleJob DEF Jobs
<1>3. CASE j \in EditJobs /\ s = "pin"
  <2>1. /\ n \in EditJobs /\ n.step = s /\ n.op = j.op /\ n.id = j.id /\ n.other = j.other
        /\ n.doc = j.doc /\ n.freed = j.freed /\ n.rest = j.rest /\ n.op \in {"update", "time", "fixed"}
    BY <1>3 DEF EditJobs
  <2>2. QED
    BY <2>1, IdleJob DEF Jobs
<1>4. QED
  BY <1>1, <1>2, <1>3

LEMMA ReplaceStep ==
    ASSUME Shape, NEW c \in Clients, Replace(c)
    PROVE  LET j == job[c] IN
           /\ Worked(c) /\ UNCHANGED <<cons, plan, gaps>>
           /\ At(c, "replace") /\ j.id \in Ids /\ j.doc \in Docs /\ pre' = Replaced(j.id, j.doc)
           /\ \/ j.op \in {"pair", "same"} /\ Kept(c, "mirror") /\ job'[c].rest = j.rest
              \/ j.op \in {"connect", "disconnect"} /\ Kept(c, "sync")
              \/ j.op = "fixed" /\ j.doc.ancode # None /\ Kept(c, "pin")
              \/ j.op \in {"update", "time"} /\ Ended(c)
              \/ j.op = "fixed" /\ j.doc.ancode = None /\ Ended(c)
<1> DEFINE j == job[c]
<1>1. /\ At(c, "replace") /\ pre' = Replaced(j.id, j.doc) /\ UNCHANGED <<cons, plan, bounds, gaps>>
      /\ CASE j.op \in {"pair", "same"} -> Go(c, [j EXCEPT !.step = "mirror"])
           [] j.op \in {"connect", "disconnect"} -> Go(c, [j EXCEPT !.step = "sync"])
           [] j.op = "fixed" /\ j.doc.ancode # None -> Go(c, [j EXCEPT !.step = "pin"])
           [] OTHER -> Done(c)
  BY DEF Replace
<1>2. j \in Jobs /\ j # Idle /\ j.step = "replace"
  BY <1>1 DEF Shape, At, Busy
<1>3. j \in EditJobs \cup LinkJobs \cup ConnectJobs
  BY <1>2, JobByStep
<1>4. j.id \in Ids /\ j.doc \in Docs
  BY <1>3 DEF EditJobs, LinkJobs, ConnectJobs
<1> HIDE DEF j
<1>5. CASE j \in LinkJobs
  <2>1. j.op \in {"pair", "same"}
    BY <1>5 DEF LinkJobs
  <2>2. Go(c, [j EXCEPT !.step = "mirror"])
    BY <1>1, <2>1
  <2>3. job'[c] = [j EXCEPT !.step = "mirror"] /\ Worked(c)
    BY <1>1, <1>2, <1>5, <2>2, StepRecord, GoneOn
  <2>4. Kept(c, "mirror") /\ job'[c].rest = j.rest
    BY <1>2, <1>5, <2>3, StepRecord DEF Kept, Busy, j
  <2>5. QED
    BY <1>1, <1>4, <2>1, <2>3, <2>4 DEF j
<1>6. CASE j \in ConnectJobs
  <2>1. j.op \in {"connect", "disconnect"}
    BY <1>6 DEF ConnectJobs
  <2>2. Go(c, [j EXCEPT !.step = "sync"])
    BY <1>1, <2>1
  <2>3. job'[c] = [j EXCEPT !.step = "sync"] /\ Worked(c)
    BY <1>1, <1>2, <1>6, <2>2, StepRecord, GoneOn
  <2>4. Kept(c, "sync")
    BY <1>2, <1>6, <2>3, StepRecord DEF Kept, Busy, j
  <2>5. QED
    BY <1>1, <1>4, <2>1, <2>3, <2>4 DEF j
<1>7. CASE j \in EditJobs
  <2>1. j.op \in {"update", "time", "fixed"}
    BY <1>7 DEF EditJobs
  <2>2. CASE j.op = "fixed" /\ j.doc.ancode # None
    <3>1. Go(c, [j EXCEPT !.step = "pin"])
      BY <1>1, <2>2
    <3>2. job'[c] = [j EXCEPT !.step = "pin"] /\ Worked(c)
      BY <1>1, <1>2, <1>7, <3>1, StepRecord, GoneOn
    <3>3. Kept(c, "pin")
      BY <1>2, <1>7, <3>2, StepRecord DEF Kept, Busy, j
    <3>4. QED
      BY <1>1, <1>4, <2>2, <3>2, <3>3 DEF j
  <2>3. CASE ~(j.op = "fixed" /\ j.doc.ancode # None)
    <3>1. Done(c)
      BY <1>1, <2>1, <2>3
    <3>2. Ended(c) /\ Worked(c)
      BY <1>1, <3>1, GoneDone
    <3>3. QED
      BY <1>1, <1>4, <2>1, <2>3, <3>2 DEF j
  <2>4. QED
    BY <2>2, <2>3
<1>8. QED
  BY <1>3, <1>5, <1>6, <1>7

LEMMA InsertStep ==
    ASSUME Shape, NEW c \in Clients, InsertPreplanExam(c)
    PROVE  /\ Worked(c) /\ Ended(c) /\ UNCHANGED <<cons, plan, gaps>>
           /\ At(c, "insert") /\ job[c].id \in Ids
           /\ pre' = [pre EXCEPT ![job[c].id] = Append(@, New)]
<1>1. job[c] \in Jobs /\ job[c] # Idle /\ job[c].step = "insert"
  BY DEF Shape, InsertPreplanExam, At, Busy
<1>2. job[c].id \in Ids
  BY <1>1, JobByStep DEF AddJobs
<1>3. QED
  BY <1>2, GoneDone DEF InsertPreplanExam

\* The record of a request with a smaller rest.
LEMMA RestRecord ==
    ASSUME NEW j \in Jobs, j # Idle, NEW r,
           j \in LinkJobs \cup ConnectJobs \cup SweepJobs
    PROVE  LET n == [j EXCEPT !.rest = @ \ {r}] IN
           /\ n \in Jobs /\ n # Idle /\ n.step = j.step /\ n.op = j.op /\ n.id = j.id /\ n.other = j.other
           /\ n.doc = j.doc /\ n.freed = j.freed /\ n.rest = j.rest \ {r}
<1> DEFINE s == j.rest \ {r}
           n == [j EXCEPT !.rest = s]
<1>1. CASE j \in LinkJobs
  <2>1. s \in Links
    BY <1>1 DEF LinkJobs, Links
  <2>2. /\ n \in LinkJobs /\ n.step = j.step /\ n.op = j.op /\ n.id = j.id /\ n.other = j.other
        /\ n.doc = j.doc /\ n.freed = j.freed /\ n.rest = s /\ n.op \in {"pair", "same"}
    BY <1>1, <2>1 DEF LinkJobs
  <2>3. QED
    BY <2>2, IdleJob DEF Jobs
<1>2. CASE j \in ConnectJobs
  <2>1. s \in Carries
    BY <1>2 DEF ConnectJobs, Carries
  <2>2. /\ n \in ConnectJobs /\ n.step = j.step /\ n.op = j.op /\ n.id = j.id /\ n.other = j.other
        /\ n.doc = j.doc /\ n.freed = j.freed /\ n.rest = s /\ n.op \in {"connect", "disconnect"}
    BY <1>2, <2>1 DEF ConnectJobs
  <2>3. QED
    BY <2>2, IdleJob DEF Jobs
<1>3. CASE j \in SweepJobs
  <2>1. s \in Copies
    BY <1>3 DEF SweepJobs, Copies
  <2>2. /\ n \in SweepJobs /\ n.step = j.step /\ n.op = j.op /\ n.id = j.id /\ n.other = j.other
        /\ n.doc = j.doc /\ n.freed = j.freed /\ n.rest = s /\ n.op \in {"reset", "generate"}
    BY <1>3, <2>1 DEF SweepJobs
  <2>3. QED
    BY <2>2, IdleJob DEF Jobs
<1>4. QED
  BY <1>1, <1>2, <1>3

\* The document of the other side: only the list that the request is about changes,
\* and only in what it says of the request's pre-exam.
LEMMA LinkedDoc ==
    ASSUME Shape, NEW op \in {"pair", "same"}, NEW o \in Existing, NEW i \in Ids, NEW add \in BOOLEAN
    PROVE  LET d == Linked(op, o, i, add) IN
           /\ d \in Docs /\ d.ancode = Doc(o).ancode /\ d.fixed = Doc(o).fixed /\ d.time = Doc(o).time
           /\ Aside(op, d) = Aside(op, Doc(o))
           /\ i \in Side(op, d) <=> add
           /\ \A k \in Ids \ {i} : k \in Side(op, d) <=> k \in Side(op, Doc(o))
<1> DEFINE Upd(S) == IF add THEN S \cup {i} ELSE S \ {i}
           d == Linked(op, o, i, add)
<1>1. \A S \in SUBSET Ids : /\ Upd(S) \in SUBSET Ids
                            /\ i \in Upd(S) <=> add
                            /\ \A k \in Ids \ {i} : k \in Upd(S) <=> k \in S
  OBVIOUS
<1>2. d = IF op = "pair" THEN [Doc(o) EXCEPT !.notSame = Upd(@)] ELSE [Doc(o) EXCEPT !.same = Upd(@)]
  BY DEF Linked
<1>3. Doc(o) \in Docs /\ Doc(o).notSame \in SUBSET Ids /\ Doc(o).same \in SUBSET Ids
  BY DocShape DEF Docs
<1> HIDE DEF d, Upd
<1>4. CASE op = "pair"
  <2>1. /\ d \in Docs /\ d.ancode = Doc(o).ancode /\ d.fixed = Doc(o).fixed /\ d.time = Doc(o).time
        /\ d.same = Doc(o).same /\ d.notSame = Upd(Doc(o).notSame)
    BY <1>1, <1>2, <1>3, <1>4 DEF Docs
  <2>2. QED
    BY <1>1, <1>3, <1>4, <2>1 DEF d, Side, Aside
<1>5. CASE op = "same"
  <2>1. /\ d \in Docs /\ d.ancode = Doc(o).ancode /\ d.fixed = Doc(o).fixed /\ d.time = Doc(o).time
        /\ d.notSame = Doc(o).notSame /\ d.same = Upd(Doc(o).same)
    BY <1>1, <1>2, <1>3, <1>5 DEF Docs
  <2>2. QED
    BY <1>1, <1>3, <1>5, <2>1 DEF d, Side, Aside
<1>6. QED
  BY <1>4, <1>5

\* The request of c goes on to write the other side r.
Turned(c, r) ==
    LET j == job[c]
        n == job'[c]
    IN /\ Busy(c)' /\ n.step = "replaceOther" /\ n.op = j.op /\ n.id = j.id /\ n.freed = j.freed
       /\ n.other = r[1] /\ n.rest = j.rest \ {r} /\ n.doc = Linked(j.op, r[1], j.id, r[2])

LEMMA MirrorStep ==
    ASSUME Shape, NEW c \in Clients, Mirror(c)
    PROVE  LET j == job[c] IN
           /\ Worked(c) /\ UNCHANGED <<pre, cons, plan, gaps>>
           /\ At(c, "mirror") /\ j \in LinkJobs
           /\ \/ j.rest = {} /\ Ended(c)
              \/ \E r \in j.rest : /\ r[1] \in Existing /\ r[2] \in BOOLEAN /\ Turned(c, r)
              \/ \E r \in j.rest : /\ r[1] \in Existing => j.op = "same" /\ r[2] /\ j.id \in Doc(r[1]).same
                                   /\ Kept(c, "mirror") /\ job'[c].rest = j.rest \ {r}
<1> DEFINE j == job[c]
           skip(r) == ~(r[1] \in Existing /\ ~(j.op = "same" /\ r[2] /\ j.id \in Doc(r[1]).same))
           turned(r) == [j EXCEPT !.step = "replaceOther", !.rest = @ \ {r}, !.other = r[1],
                                  !.doc = Linked(j.op, r[1], j.id, r[2])]
           less(r) == [j EXCEPT !.rest = @ \ {r}]
<1>1. /\ At(c, "mirror") /\ UNCHANGED <<pre, cons, plan, bounds, gaps>>
      /\ \/ j.rest = {} /\ Done(c)
         \/ \E r \in j.rest : IF ~skip(r) THEN Go(c, turned(r)) ELSE Go(c, less(r))
  BY DEF Mirror
<1>2. j \in Jobs /\ j # Idle /\ j.step = "mirror"
  BY <1>1 DEF Shape, At, Busy
<1>3. j \in LinkJobs
  BY <1>2, JobByStep
<1>4. /\ j.op \in {"pair", "same"} /\ j.id \in Ids /\ j.freed = None
      /\ \A r \in j.rest : r[1] \in Ids /\ r[2] \in BOOLEAN
      /\ j.rest \in Links
  BY <1>3 DEF LinkJobs, Links
<1>5. CASE j.rest = {} /\ Done(c)
  BY <1>1, <1>3, <1>5, GoneDone
<1>6. ASSUME NEW r \in j.rest, ~skip(r), Go(c, turned(r))
      PROVE  Worked(c) /\ r[1] \in Existing /\ r[2] \in BOOLEAN /\ Turned(c, r)
  <2> DEFINE d == Linked(j.op, r[1], j.id, r[2])
             s == j.rest \ {r}
             n == [op |-> j.op, id |-> j.id, other |-> r[1], doc |-> d, step |-> "replaceOther",
                   rest |-> s, freed |-> None]
  <2>1. d \in Docs /\ r[1] \in Existing
    BY <1>4, <1>6, LinkedDoc
  <2>2. s \in Links /\ r[1] \in 0..MaxId
    BY <1>4 DEF Links, Ids
  <2>3. turned(r) = n
    <3> HIDE DEF j
    <3>1. turned(r) = [j EXCEPT !.step = "replaceOther", !.rest = s, !.other = r[1], !.doc = d]
      OBVIOUS
    <3> HIDE DEF d, s, turned
    <3>2. QED
      BY <1>3, <1>4, <3>1 DEF LinkJobs
  <2>4. Go(c, n)
    BY <1>6, <2>3
  <2> HIDE DEF d, s
  <2>5. n \in LinkJobs /\ n.op # "none"
    BY <1>4, <2>1, <2>2 DEF LinkJobs
  <2>6. n \in Jobs /\ n # Idle
    BY <2>5, IdleJob DEF Jobs
  <2>7. job'[c] = n /\ Worked(c)
    BY <1>1, <2>4, <2>6, GoneOn
  <2>8. QED
    BY <1>4, <2>1, <2>6, <2>7 DEF Turned, Busy, d, s
<1>7. ASSUME NEW r \in j.rest, skip(r), Go(c, less(r))
      PROVE  Worked(c) /\ Kept(c, "mirror") /\ job'[c].rest = j.rest \ {r}
  <2>1. less(r) \in Jobs
    <3> HIDE DEF j
    <3>1. QED
      BY <1>2, <1>3, RestRecord
  <2>2. job'[c] = less(r) /\ Worked(c)
    BY <1>1, <1>7, <2>1, GoneOn
  <2>3. QED
    <3> HIDE DEF j
    <3>1. QED
      BY <1>2, <1>3, <2>2, RestRecord DEF Kept, Busy, j
<1> HIDE DEF turned, less
<1>8. QED
  BY <1>1, <1>3, <1>5, <1>6, <1>7

LEMMA ReplaceOtherStep ==
    ASSUME Shape, StepsOK, NEW c \in Clients, ReplaceOther(c)
    PROVE  LET j == job[c] IN
           /\ Worked(c) /\ UNCHANGED <<cons, plan, gaps>>
           /\ At(c, "replaceOther") /\ j \in LinkJobs /\ j.other \in Ids
           /\ pre' = Replaced(j.other, j.doc)
           /\ Kept(c, "mirror") /\ job'[c].rest = j.rest
<1> DEFINE j == job[c]
<1>1. j \in Jobs /\ j # Idle /\ j.step = "replaceOther" /\ j.other \in Ids
  BY DEF Shape, StepsOK, StepOK, ReplaceOther, At, Busy
<1>2. j \in LinkJobs
  BY <1>1, JobByStep
<1>3. Go(c, [j EXCEPT !.step = "mirror"]) /\ UNCHANGED bounds
  BY DEF ReplaceOther
<1> HIDE DEF j
<1>4. job'[c] = [j EXCEPT !.step = "mirror"] /\ Worked(c)
  BY <1>1, <1>2, <1>3, StepRecord, GoneOn
<1>5. Kept(c, "mirror") /\ job'[c].rest = j.rest
  BY <1>1, <1>2, <1>4, StepRecord DEF Kept, Busy, j
<1>6. QED
  BY <1>1, <1>2, <1>4, <1>5 DEF ReplaceOther, j

LEMMA PersistStep ==
    ASSUME Shape, NEW c \in Clients, Persist(c)
    PROVE  LET j == job[c] IN
           /\ Worked(c) /\ UNCHANGED <<cons, plan, gaps>>
           /\ At(c, "persist") /\ j \in SweepJobs
           /\ \/ j.rest = {} /\ Ended(c) /\ UNCHANGED pre
              \/ \E i \in Ids, d \in Docs :
                    /\ <<i, d>> \in j.rest
                    /\ pre' = Replaced(i, d) \/ pre' = UpsertPreplanExam(i, d)
                    /\ Kept(c, "persist") /\ job'[c].rest = j.rest \ {<<i, d>>}
<1> DEFINE j == job[c]
<1>1. /\ At(c, "persist") /\ UNCHANGED <<cons, plan, bounds, gaps>>
      /\ \/ j.rest = {} /\ Done(c) /\ UNCHANGED pre
         \/ \E r \in j.rest :
               /\ pre' = IF j.op = "reset" THEN UpsertPreplanExam(r[1], r[2]) ELSE Replaced(r[1], r[2])
               /\ Go(c, [j EXCEPT !.rest = @ \ {r}])
  BY DEF Persist
<1>2. j \in Jobs /\ j # Idle /\ j.step = "persist"
  BY <1>1 DEF Shape, At, Busy
<1>3. j \in SweepJobs
  BY <1>2, JobByStep
<1>4. CASE j.rest = {} /\ Done(c) /\ UNCHANGED pre
  BY <1>1, <1>3, <1>4, GoneDone
<1>5. ASSUME NEW r \in j.rest,
             pre' = IF j.op = "reset" THEN UpsertPreplanExam(r[1], r[2]) ELSE Replaced(r[1], r[2]),
             Go(c, [j EXCEPT !.rest = @ \ {r}])
      PROVE  /\ Worked(c)
             /\ \E i \in Ids, d \in Docs :
                   /\ <<i, d>> \in j.rest
                   /\ pre' = Replaced(i, d) \/ pre' = UpsertPreplanExam(i, d)
                   /\ Kept(c, "persist") /\ job'[c].rest = j.rest \ {<<i, d>>}
  <2>1. r \in Ids \X Docs
    BY <1>3 DEF SweepJobs, Copies
  <2>2. r[1] \in Ids /\ r[2] \in Docs /\ <<r[1], r[2]>> = r
    BY <2>1
  <2> DEFINE n == [j EXCEPT !.rest = @ \ {r}]
  <2>3. n \in Jobs
    <3> HIDE DEF j
    <3>1. QED
      BY <1>2, <1>3, RestRecord
  <2>4. job'[c] = n /\ Worked(c)
    BY <1>1, <1>5, <2>3, GoneOn
  <2>6. Kept(c, "persist") /\ job'[c].rest = j.rest \ {r}
    <3> HIDE DEF j
    <3>1. QED
      BY <1>2, <1>3, <2>4, RestRecord DEF Kept, Busy, j
  <2>7. pre' = Replaced(r[1], r[2]) \/ pre' = UpsertPreplanExam(r[1], r[2])
    BY <1>5
  <2>8. QED
    BY <2>2, <2>4, <2>6, <2>7
<1>6. QED
  BY <1>1, <1>3, <1>4, <1>5

\* The lists that are carried over are lists of ancodes.
LEMMA CarriedOverShape == ASSUME Shape, NEW i PROVE CarriedOver(i) \in Carries
<1> DEFINE connected == {m \in Group(i) : Doc(m).ancode # None}
           list(m) == {Doc(o).ancode : o \in connected \ {m}}
<1>1. CarriedOver(i) = {<<Doc(m).ancode, list(m)>> : m \in connected}
  BY DEF CarriedOver
<1>2. \A m \in connected : Doc(m).ancode \in Ancodes
  <2>1. \A m \in Existing : Doc(m).ancode \in Ancodes \cup {None}
    BY DocShape DEF Docs
  <2>2. QED
    BY <2>1, GroupMembers
<1> HIDE DEF connected
<1>3. \A m \in connected : list(m) \in SUBSET Ancodes
  BY <1>2
<1> HIDE DEF list
<1>4. QED
  BY <1>1, <1>2, <1>3 DEF Carries

LEMMA SyncStep ==
    ASSUME Shape, NEW c \in Clients, Sync(c)
    PROVE  /\ Worked(c) /\ UNCHANGED <<pre, cons, plan, gaps>>
           /\ At(c, "sync") /\ job[c] \in ConnectJobs /\ Kept(c, "carry")
<1> DEFINE j == job[c]
           s == CarriedOver(j.id)
           n == [j EXCEPT !.step = "carry", !.rest = s]
<1>1. /\ At(c, "sync") /\ Go(c, n) /\ UNCHANGED <<pre, cons, plan, bounds, gaps>>
  BY DEF Sync
<1>2. j \in Jobs /\ j # Idle /\ j.step = "sync"
  BY <1>1 DEF Shape, At, Busy
<1>3. j \in ConnectJobs
  BY <1>2, JobByStep
<1>4. s \in Carries
  BY CarriedOverShape
<1> HIDE DEF j, s
<1>5. /\ n \in ConnectJobs /\ n.step = "carry" /\ n.op = j.op /\ n.id = j.id /\ n.other = j.other
      /\ n.doc = j.doc /\ n.freed = j.freed /\ n.op \in {"connect", "disconnect"}
  BY <1>3, <1>4 DEF ConnectJobs
<1>6. n \in Jobs /\ n # Idle
  BY <1>5, IdleJob DEF Jobs
<1>7. job'[c] = n /\ Worked(c)
  BY <1>1, <1>6, GoneOn
<1> HIDE DEF n
<1>8. Kept(c, "carry")
  BY <1>5, <1>6, <1>7 DEF Kept, Busy, j
<1>9. QED
  BY <1>1, <1>3, <1>7, <1>8 DEF j

\* The constraints stay lists of ancodes.
LEMMA ConstraintsShape ==
    ASSUME Shape, NEW a \in Ancodes, NEW same \in SUBSET Ancodes
    PROVE  AddConstraints(a, same) \in [Ancodes -> (SUBSET Ancodes) \cup {None}]
<1> DEFINE f(b) ==
        CASE b = a -> same
          [] b # a /\ b \in same -> (same \cup {a}) \ {b}
          [] b # a /\ b \notin same /\ cons[a] # None /\ b \in cons[a] /\ cons[b] # None -> {}
          [] OTHER -> cons[b]
<1>1. AddConstraints(a, same) = [b \in Ancodes |-> f(b)]
  BY DEF AddConstraints
<1>2. ASSUME NEW b \in Ancodes PROVE f(b) \in (SUBSET Ancodes) \cup {None}
  <2>1. cons[b] \in (SUBSET Ancodes) \cup {None}
    BY DEF Shape
  <2>2. f(b) = same \/ f(b) = (same \cup {a}) \ {b} \/ f(b) = {} \/ f(b) = cons[b]
    OBVIOUS
  <2>3. QED
    BY <2>1, <2>2
<1> HIDE DEF f
<1>3. QED
  BY <1>1, <1>2

LEMMA CarryStep ==
    ASSUME Shape, NEW c \in Clients, Carry(c)
    PROVE  LET j == job[c] IN
           /\ Worked(c) /\ UNCHANGED <<pre, plan, gaps>>
           /\ cons' \in [Ancodes -> (SUBSET Ancodes) \cup {None}]
           /\ At(c, "carry") /\ j \in ConnectJobs
           /\ \/ Kept(c, "carry")
              \/ j.op = "connect" /\ j.doc.fixed /\ j.doc.time # None /\ Kept(c, "pin")
              \/ j.op = "disconnect" /\ j.freed # None /\ Kept(c, "release")
              \/ /\ Ended(c)
                 /\ ~(j.op = "connect" /\ j.doc.fixed /\ j.doc.time # None)
                 /\ ~(j.op = "disconnect" /\ j.freed # None)
<1> DEFINE j == job[c]
<1>1. /\ At(c, "carry") /\ UNCHANGED <<pre, plan, bounds, gaps>>
      /\ \/ \E r \in j.rest : cons' = AddConstraints(r[1], r[2]) /\ Go(c, [j EXCEPT !.rest = @ \ {r}])
         \/ /\ UNCHANGED cons
            /\ CASE j.op = "connect" /\ j.doc.fixed /\ j.doc.time # None -> Go(c, [j EXCEPT !.step = "pin"])
                 [] j.op = "disconnect" /\ j.freed # None -> Go(c, [j EXCEPT !.step = "release"])
                 [] OTHER -> Done(c)
  BY DEF Carry
<1>2. j \in Jobs /\ j # Idle /\ j.step = "carry"
  BY <1>1 DEF Shape, At, Busy
<1>3. j \in ConnectJobs
  BY <1>2, JobByStep
<1> HIDE DEF j
<1>4. ASSUME NEW r \in j.rest, cons' = AddConstraints(r[1], r[2]), Go(c, [j EXCEPT !.rest = @ \ {r}])
      PROVE  Worked(c) /\ Kept(c, "carry") /\ cons' \in [Ancodes -> (SUBSET Ancodes) \cup {None}]
  <2>1. r[1] \in Ancodes /\ r[2] \in SUBSET Ancodes
    BY <1>3 DEF ConnectJobs, Carries
  <2>2. cons' \in [Ancodes -> (SUBSET Ancodes) \cup {None}]
    BY <1>4, <2>1, ConstraintsShape
  <2>3. job'[c] = [j EXCEPT !.rest = @ \ {r}] /\ Worked(c)
    BY <1>1, <1>2, <1>3, <1>4, RestRecord, GoneOn
  <2>4. Kept(c, "carry")
    BY <1>2, <1>3, <2>3, RestRecord DEF Kept, Busy, j
  <2>5. QED
    BY <2>2, <2>3, <2>4
<1>5. ASSUME NEW s \in {"pin", "release"}, Go(c, [j EXCEPT !.step = s]) PROVE Worked(c) /\ Kept(c, s)
  <2>1. job'[c] = [j EXCEPT !.step = s] /\ Worked(c)
    BY <1>1, <1>2, <1>3, <1>5, StepRecord, GoneOn
  <2>2. Kept(c, s)
    BY <1>2, <1>3, <2>1, StepRecord DEF Kept, Busy, j
  <2>3. QED
    BY <2>1, <2>2
<1>6. UNCHANGED cons => cons' \in [Ancodes -> (SUBSET Ancodes) \cup {None}]
  BY DEF Shape
<1>7. CASE /\ UNCHANGED cons
           /\ CASE j.op = "connect" /\ j.doc.fixed /\ j.doc.time # None -> Go(c, [j EXCEPT !.step = "pin"])
                [] j.op = "disconnect" /\ j.freed # None -> Go(c, [j EXCEPT !.step = "release"])
                [] OTHER -> Done(c)
  <2>1. CASE j.op = "connect" /\ j.doc.fixed /\ j.doc.time # None
    <3>1. Go(c, [j EXCEPT !.step = "pin"])
      BY <1>7, <2>1
    <3>2. QED
      BY <1>1, <1>3, <1>5, <1>6, <1>7, <2>1, <3>1 DEF j
  <2>2. CASE j.op = "disconnect" /\ j.freed # None
    <3>1. Go(c, [j EXCEPT !.step = "release"])
      BY <1>7, <2>2
    <3>2. QED
      BY <1>1, <1>3, <1>5, <1>6, <1>7, <2>2, <3>1 DEF j
  <2>3. CASE /\ ~(j.op = "connect" /\ j.doc.fixed /\ j.doc.time # None)
             /\ ~(j.op = "disconnect" /\ j.freed # None)
    <3>1. Done(c)
      BY <1>7, <2>3
    <3>2. QED
      BY <1>1, <1>3, <1>6, <1>7, <2>3, <3>1, GoneDone DEF j
  <2>4. QED
    BY <2>1, <2>2, <2>3
<1>8. QED
  BY <1>1, <1>3, <1>4, <1>7 DEF j

LEMMA PinStep ==
    ASSUME Shape, StepsOK, NEW c \in Clients, Pin(c)
    PROVE  LET d == job[c].doc IN
           /\ Worked(c) /\ Ended(c) /\ UNCHANGED <<pre, cons, gaps>>
           /\ At(c, "pin") /\ d \in Docs /\ d.ancode \in Ancodes /\ job[c].op \in {"fixed", "connect"}
           /\ d.fixed => d.time \in Times
           /\ plan' = [plan EXCEPT ![d.ancode] = IF d.fixed THEN d.time ELSE None]
<1>1. job[c] \in Jobs /\ job[c] # Idle /\ At(c, "pin")
  BY DEF Shape, Pin, At, Busy
<1>2. job[c].doc \in Docs
  BY <1>1, JobByOp
<1>3. QED
  BY <1>1, <1>2, GoneDone DEF Pin, StepsOK, StepOK

LEMMA ReleaseStep ==
    ASSUME Shape, StepsOK, NEW c \in Clients, Release(c)
    PROVE  LET j == job[c] IN
           /\ Worked(c) /\ UNCHANGED <<pre, plan, gaps>>
           /\ cons' \in [Ancodes -> (SUBSET Ancodes) \cup {None}]
           /\ At(c, "release") /\ j \in ConnectJobs
           /\ (j.doc.fixed /\ Kept(c, "unpin")) \/ (~j.doc.fixed /\ Ended(c))
<1> DEFINE j == job[c]
<1>1. /\ At(c, "release") /\ cons' = [cons EXCEPT ![j.freed] = None] /\ UNCHANGED <<pre, plan, bounds, gaps>>
      /\ IF j.doc.fixed THEN Go(c, [j EXCEPT !.step = "unpin"]) ELSE Done(c)
  BY DEF Release
<1>2. j \in Jobs /\ j # Idle /\ j.step = "release"
  BY <1>1 DEF Shape, At, Busy
<1>3. j \in ConnectJobs
  BY <1>2, JobByStep
<1>4. cons' \in [Ancodes -> (SUBSET Ancodes) \cup {None}]
  BY <1>1 DEF Shape
<1> HIDE DEF j
<1>5. CASE j.doc.fixed
  <2>1. job'[c] = [j EXCEPT !.step = "unpin"] /\ Worked(c)
    BY <1>1, <1>2, <1>3, <1>5, StepRecord, GoneOn
  <2>2. Kept(c, "unpin")
    BY <1>2, <1>3, <2>1, StepRecord DEF Kept, Busy, j
  <2>3. QED
    BY <1>1, <1>3, <1>4, <1>5, <2>1, <2>2 DEF j
<1>6. CASE ~j.doc.fixed
  BY <1>1, <1>3, <1>4, <1>6, GoneDone DEF j
<1>7. QED
  BY <1>5, <1>6

LEMMA UnpinStep ==
    ASSUME Shape, StepsOK, NEW c \in Clients, Unpin(c)
    PROVE  /\ Worked(c) /\ Ended(c) /\ UNCHANGED <<pre, cons, gaps>>
           /\ At(c, "unpin") /\ job[c].freed \in Ancodes /\ job[c].op = "disconnect" /\ job[c].doc.fixed
           /\ plan' = [plan EXCEPT ![job[c].freed] = None]
  BY GoneDone DEF Unpin, StepsOK, StepOK

LEMMA AbortStep ==
    ASSUME Shape, NEW c \in Clients, Abort(c)
    PROVE  /\ Worked(c) /\ Ended(c) /\ UNCHANGED <<pre, cons, plan>>
           /\ gaps' = gaps \cup {"failure"}
  BY GoneDone DEF Abort

-----------------------------------------------------------------------------
(* Documents and requests keep their shape. *)

Base == Shape /\ StepsOK /\ SecondsNew

LEMMA StepsOthers ==
    ASSUME StepsOK, NEW c \in Clients, OthersKept(c), StepOK(c)' PROVE StepsOK'
  BY DEF StepsOK, OthersKept, StepOK, At, Busy

LEMMA StepsEnded ==
    ASSUME StepsOK, NEW c \in Clients, OthersKept(c), Ended(c) PROVE StepsOK'
  BY StepsOthers DEF StepOK, Ended, At, Busy

LEMMA StartedBase ==
    ASSUME Base, NEW c \in Clients, Started(c), Adds(c) \/ Sweeps(c) \/ \E i \in Existing : Edits(c, i)
    PROVE  Base'
<1>1. ops' \in Nat /\ overlaps' \in Nat
  BY DEF Base, Shape, Started, Count
<1>2. Shape'
  BY <1>1 DEF Base, Shape, Started
<1>3. SecondsNew'
  BY DEF Base, SecondsNew, Started
<1>4. CASE Adds(c) \/ Sweeps(c)
  <2>1. StepOK(c)'
    BY <1>4 DEF Adds, Sweeps, StepOK, At
  <2>2. QED
    BY <1>2, <1>3, <2>1, StepsOthers DEF Base, Started
<1>5. ASSUME NEW i \in Existing, Edits(c, i) PROVE Base'
  <2>1. StepOK(c)'
    BY <1>5 DEF Edits, StepOK, At
  <2>2. QED
    BY <1>2, <1>3, <2>1, StepsOthers DEF Base, Started
<1>6. QED
  BY <1>4, <1>5

LEMMA DeleteBase ==
    ASSUME Base, NEW c \in Clients, NEW i \in Existing, DeletePreplanExam(c, i) PROVE Base'
<1>1. pre' = [pre EXCEPT ![i] = Tail(@)] /\ Count(c) /\ UNCHANGED <<cons, plan, job>>
  BY DEF DeletePreplanExam
<1>2. pre' \in [Ids -> Seq(Docs)] /\ SecondsNew'
  BY <1>1, DeletedDocs DEF Base
<1>3. ops' \in Nat /\ overlaps' \in Nat
  BY <1>1 DEF Base, Shape, Count
<1>4. Shape'
  BY <1>1, <1>2, <1>3 DEF Base, Shape
<1>5. StepsOK'
  BY <1>1 DEF Base, StepsOK, StepOK, At, Busy
<1>6. QED
  BY <1>2, <1>4, <1>5 DEF Base

\* Any other step of the request of c.
Works(c) ==
    \/ InsertPreplanExam(c) \/ Replace(c) \/ Mirror(c) \/ ReplaceOther(c) \/ Persist(c)
    \/ Sync(c) \/ Carry(c) \/ Pin(c) \/ Release(c) \/ Unpin(c) \/ Abort(c)

LEMMA WorksShape ==
    ASSUME Base, NEW c \in Clients, Works(c) PROVE Shape' /\ SecondsNew' /\ Worked(c)
<1>1. ASSUME Worked(c), pre' \in [Ids -> Seq(Docs)], cons' \in [Ancodes -> (SUBSET Ancodes) \cup {None}],
             plan' \in [Ancodes -> Times \cup {None}]
      PROVE  Shape'
  BY <1>1 DEF Base, Shape, Worked, bounds
<1>2. UNCHANGED pre => pre' \in [Ids -> Seq(Docs)] /\ SecondsNew'
  BY DEF Base, Shape, SecondsNew
<1>3. UNCHANGED cons => cons' \in [Ancodes -> (SUBSET Ancodes) \cup {None}]
  BY DEF Base, Shape
<1>4. UNCHANGED plan => plan' \in [Ancodes -> Times \cup {None}]
  BY DEF Base, Shape
<1>5. CASE InsertPreplanExam(c)
  BY <1>1, <1>3, <1>4, <1>5, InsertStep, InsertedDocs DEF Base
<1>6. CASE Replace(c)
  BY <1>1, <1>3, <1>4, <1>6, ReplaceStep, ReplacedDocs DEF Base
<1>7. CASE Mirror(c)
  BY <1>1, <1>2, <1>3, <1>4, <1>7, MirrorStep DEF Base
<1>8. CASE ReplaceOther(c)
  <2>1. job[c].doc \in Docs
    BY <1>8, ReplaceOtherStep DEF Base, LinkJobs
  <2>2. QED
    BY <1>1, <1>3, <1>4, <1>8, <2>1, ReplaceOtherStep, ReplacedDocs DEF Base
<1>9. CASE Persist(c)
  BY <1>1, <1>2, <1>3, <1>4, <1>9, PersistStep, ReplacedDocs, UpsertedDocs DEF Base
<1>10. CASE Sync(c)
  BY <1>1, <1>2, <1>3, <1>4, <1>10, SyncStep DEF Base
<1>11. CASE Carry(c)
  BY <1>1, <1>2, <1>4, <1>11, CarryStep DEF Base
<1>12. CASE Pin(c)
  <2>1. plan' \in [Ancodes -> Times \cup {None}]
    BY <1>12, PinStep DEF Base, Shape
  <2>2. QED
    BY <1>1, <1>2, <1>3, <1>12, <2>1, PinStep DEF Base
<1>13. CASE Release(c)
  BY <1>1, <1>2, <1>4, <1>13, ReleaseStep DEF Base
<1>14. CASE Unpin(c)
  <2>1. plan' \in [Ancodes -> Times \cup {None}]
    BY <1>14, UnpinStep DEF Base, Shape
  <2>2. QED
    BY <1>1, <1>2, <1>3, <1>14, <2>1, UnpinStep DEF Base
<1>15. CASE Abort(c)
  BY <1>1, <1>2, <1>3, <1>4, <1>15, AbortStep DEF Base
<1>16. QED
  BY <1>5, <1>6, <1>7, <1>8, <1>9, <1>10, <1>11, <1>12, <1>13, <1>14, <1>15 DEF Works

LEMMA WorksSteps == ASSUME Base, NEW c \in Clients, Works(c) PROVE StepsOK'
<1>1. StepsOK /\ StepOK(c) /\ OthersKept(c)
  BY WorksShape DEF Base, StepsOK, Worked
<1>2. Ended(c) => StepsOK'
  BY <1>1, StepsEnded
<1>3. CASE InsertPreplanExam(c) \/ Pin(c) \/ Unpin(c) \/ Abort(c)
  BY <1>2, <1>3, InsertStep, PinStep, UnpinStep, AbortStep DEF Base
<1>4. CASE Replace(c)
  <2>1. job[c].doc \in Docs /\ At(c, "replace")
    BY <1>4, ReplaceStep DEF Base
  <2>2. job[c].op = "fixed" /\ job[c].doc.ancode # None /\ Kept(c, "pin") => StepOK(c)'
    BY <1>1, <2>1 DEF Kept, StepOK, At, Docs
  <2>3. Kept(c, "mirror") \/ Kept(c, "sync") => StepOK(c)'
    BY <1>1, <2>1 DEF Kept, StepOK, At
  <2>4. QED
    BY <1>1, <1>2, <1>4, <2>2, <2>3, ReplaceStep, StepsOthers DEF Base
<1>5. CASE Mirror(c)
  <2>1. At(c, "mirror") /\ job[c].op \in {"pair", "same"}
    BY <1>5, MirrorStep DEF Base, LinkJobs
  <2>2. \A r \in job[c].rest : r[1] \in Existing /\ Turned(c, r) => StepOK(c)'
    BY <2>1, DocShape DEF Base, Turned, StepOK, At
  <2>3. Kept(c, "mirror") => StepOK(c)'
    BY <1>1, <2>1 DEF Kept, StepOK, At
  <2>4. QED
    BY <1>1, <1>2, <1>5, <2>2, <2>3, MirrorStep, StepsOthers DEF Base
<1>6. CASE ReplaceOther(c)
  <2>1. Kept(c, "mirror") /\ job[c].op \in {"pair", "same"}
    BY <1>6, ReplaceOtherStep DEF Base, LinkJobs
  <2>2. StepOK(c)'
    BY <2>1 DEF Kept, StepOK, At
  <2>3. QED
    BY <1>1, <2>2, StepsOthers
<1>7. CASE Persist(c)
  <2>1. At(c, "persist") /\ job[c].op \in {"reset", "generate"} /\ (Ended(c) \/ Kept(c, "persist"))
    BY <1>7, PersistStep DEF Base, SweepJobs
  <2>2. Kept(c, "persist") => StepOK(c)'
    BY <2>1 DEF Kept, StepOK, At
  <2>3. QED
    BY <1>1, <1>2, <2>1, <2>2, StepsOthers
<1>8. CASE Sync(c)
  <2>1. At(c, "sync") /\ Kept(c, "carry")
    BY <1>8, SyncStep DEF Base
  <2>2. StepOK(c)'
    BY <1>1, <2>1 DEF Kept, StepOK, At
  <2>3. QED
    BY <1>1, <2>2, StepsOthers
<1>9. CASE Carry(c)
  <2>1. At(c, "carry") /\ job[c].doc \in Docs /\ job[c].freed \in Code
    BY <1>9, CarryStep DEF Base, ConnectJobs
  <2>2. Kept(c, "carry") => StepOK(c)'
    BY <1>1, <2>1 DEF Kept, StepOK, At
  <2>3. job[c].op = "connect" /\ job[c].doc.fixed /\ job[c].doc.time # None /\ Kept(c, "pin") => StepOK(c)'
    BY <1>1, <2>1 DEF Kept, StepOK, At, Docs
  <2>4. job[c].op = "disconnect" /\ job[c].freed # None /\ Kept(c, "release") => StepOK(c)'
    BY <1>1, <2>1 DEF Kept, StepOK, At, Code
  <2>5. QED
    BY <1>1, <1>2, <1>9, <2>2, <2>3, <2>4, CarryStep, StepsOthers DEF Base
<1>10. CASE Release(c)
  <2>1. At(c, "release")
    BY <1>10, ReleaseStep DEF Base
  <2>2. job[c].doc.fixed /\ Kept(c, "unpin") => StepOK(c)'
    BY <1>1, <2>1 DEF Kept, StepOK, At
  <2>3. QED
    BY <1>1, <1>2, <1>10, <2>2, ReleaseStep, StepsOthers DEF Base
<1>11. QED
  BY <1>3, <1>4, <1>5, <1>6, <1>7, <1>8, <1>9, <1>10 DEF Works

-----------------------------------------------------------------------------
(* How many pre-exams one ancode can have. *)

LEMMA ClaimsFinite ==
    ASSUME NEW a PROVE IsFiniteSet(Claims(a)) /\ Claims(a) \subseteq Ids /\ IsFiniteSet(Ids)
<1>1. IsFiniteSet(Ids)
  <2>1. 1 \in Int /\ MaxId \in Int
    BY PreplanAssumption
  <2>2. QED
    BY <2>1, FS_Interval DEF Ids
<1>2. Claims(a) \subseteq Ids
  BY DEF Claims
<1>3. QED
  BY <1>1, <1>2, FS_Subset

\* Others hold what they held.
LEMMA OthersHold ==
    ASSUME NEW c \in Clients, OthersKept(c), NEW e \in Clients \ {c}
    PROVE  \A i, d : Holds(e, i, d)' <=> Holds(e, i, d)
  BY DEF OthersKept, Holds, At, Busy

\* What a client can hold: nothing that no step of it is about.
LEMMA HoldsBy ==
    ASSUME NEW c \in Clients, NEW i, NEW d, Holds(c, i, d)
    PROVE  /\ Busy(c) /\ job[c].step \in {"replace", "replaceOther", "persist"}
           /\ job[c].step = "replace" => i = job[c].id /\ d = job[c].doc
           /\ job[c].step = "replaceOther" => i = job[c].other /\ d = job[c].doc
           /\ job[c].step = "persist" => <<i, d>> \in job[c].rest
  BY DEF Holds, At

LEMMA ClaimsKept ==
    ASSUME NEW a, NEW c \in Clients, OthersKept(c),
           \A i \in Ids : i \in Existing' /\ Doc(i)'.ancode = a => i \in Claims(a),
           \A i \in Ids, d \in Docs : Holds(c, i, d)' /\ d.ancode = a => i \in Claims(a)
    PROVE  Claims(a)' \subseteq Claims(a)
<1> SUFFICES ASSUME NEW i \in Claims(a)' PROVE i \in Claims(a)
  OBVIOUS
<1>1. i \in Ids
  BY DEF Claims
<1>2. CASE i \in Existing' /\ Doc(i)'.ancode = a
  BY <1>1, <1>2
<1>3. ASSUME NEW e \in Clients, NEW d \in Docs, Holds(e, i, d)', d.ancode = a PROVE i \in Claims(a)
  <2>1. CASE e = c
    BY <1>1, <1>3, <2>1
  <2>2. CASE e # c
    BY <1>1, <1>3, <2>2, OthersHold DEF Claims
  <2>3. QED
    BY <2>1, <2>2
<1>4. QED
  BY <1>2, <1>3 DEF Claims

\* The stored documents and what is held are claims.
LEMMA ClaimsOf ==
    ASSUME NEW a
    PROVE  /\ \A i \in Existing : Doc(i).ancode = a => i \in Claims(a)
           /\ \A c \in Clients, i \in Ids, d \in Docs : Holds(c, i, d) /\ d.ancode = a => i \in Claims(a)
  BY DEF Claims, Existing

LEMMA WorksClaims ==
    ASSUME Base, NEW c \in Clients, Works(c), NEW a \in Ancodes PROVE Claims(a)' \subseteq Claims(a)
<1>1. OthersKept(c) /\ New.ancode # a /\ New \in Docs
  BY WorksShape, PreplanAssumption DEF Worked, New, Docs
<1>2. UNCHANGED pre => \A i \in Ids : i \in Existing' /\ Doc(i)'.ancode = a => i \in Claims(a)
  BY ClaimsOf DEF Existing, Doc
<1>3. \A i, d : Ended(c) => ~Holds(c, i, d)'
  BY DEF Ended, Holds, At, Busy
<1>4. ASSUME NEW s \in {"mirror", "sync", "carry", "pin", "release", "unpin"}, Kept(c, s)
      PROVE  \A i, d : ~Holds(c, i, d)'
  BY <1>4 DEF Kept, Holds, At
<1>5. CASE InsertPreplanExam(c)
  <2>1. PICK i \in Ids : i = job[c].id
    BY <1>5, InsertStep DEF Base
  <2>2. /\ \A k \in Existing : Doc(k)' = Doc(k)
        /\ Existing' = Existing \cup {i}
        /\ i \notin Existing => Doc(i)' = New
    BY <1>5, <2>1, InsertStep, InsertedDocs DEF Base
  <2>3. \A k \in Ids : k \in Existing' /\ Doc(k)'.ancode = a => k \in Claims(a)
    BY <1>1, <2>2, ClaimsOf
  <2>4. QED
    BY <1>1, <1>3, <1>5, <2>3, InsertStep, ClaimsKept DEF Base
<1>6. ASSUME NEW i \in Ids, NEW d \in Docs, Holds(c, i, d), pre' = Replaced(i, d) \/ pre' = UpsertPreplanExam(i, d)
      PROVE  \A k \in Ids : k \in Existing' /\ Doc(k)'.ancode = a => k \in Claims(a)
  <2>1. \A k \in Existing' : (k = i /\ Doc(k)' = d) \/ (k \in Existing /\ Doc(k)' = Doc(k))
    BY <1>6, ReplacedDocs, UpsertedDocs DEF Base
  <2>2. QED
    BY <1>6, <2>1, ClaimsOf
<1>7. CASE Replace(c)
  <2>1. Holds(c, job[c].id, job[c].doc) /\ \A i, d : ~Holds(c, i, d)'
    BY <1>3, <1>4, <1>7, ReplaceStep DEF Base, Holds
  <2>2. QED
    BY <1>1, <1>6, <1>7, <2>1, ReplaceStep, ClaimsKept DEF Base
<1>8. CASE Mirror(c)
  <2>1. UNCHANGED pre /\ job[c].op \in {"pair", "same"} /\ job[c].id \in Ids
    BY <1>8, MirrorStep DEF Base, LinkJobs
  <2>2. ASSUME NEW r \in job[c].rest, r[1] \in Existing, r[2] \in BOOLEAN, Turned(c, r),
               NEW i \in Ids, NEW d \in Docs, Holds(c, i, d)', d.ancode = a
        PROVE  i \in Claims(a)
    <3>1. i = r[1] /\ d = Linked(job[c].op, r[1], job[c].id, r[2])
      BY <2>2 DEF Turned, Holds, At
    <3>2. d.ancode = Doc(i).ancode
      BY <2>1, <2>2, <3>1, LinkedDoc DEF Base
    <3>3. QED
      BY <2>2, <3>1, <3>2, ClaimsOf
  <2>3. \A i \in Ids, d \in Docs : Holds(c, i, d)' /\ d.ancode = a => i \in Claims(a)
    BY <1>3, <1>4, <1>8, <2>2, MirrorStep DEF Base
  <2>4. QED
    BY <1>1, <1>2, <2>1, <2>3, ClaimsKept
<1>9. CASE ReplaceOther(c)
  <2>1. /\ Holds(c, job[c].other, job[c].doc) /\ \A i, d : ~Holds(c, i, d)'
        /\ job[c].other \in Ids /\ job[c].doc \in Docs
    BY <1>4, <1>9, ReplaceOtherStep DEF Base, Holds, LinkJobs
  <2>2. QED
    BY <1>1, <1>6, <1>9, <2>1, ReplaceOtherStep, ClaimsKept DEF Base
<1>10. CASE Persist(c)
  <2>1. At(c, "persist")
    BY <1>10, PersistStep DEF Base
  <2>2. CASE Ended(c) /\ UNCHANGED pre
    BY <1>1, <1>2, <1>3, <2>2, ClaimsKept
  <2>3. ASSUME NEW i \in Ids, NEW d \in Docs, <<i, d>> \in job[c].rest,
               pre' = Replaced(i, d) \/ pre' = UpsertPreplanExam(i, d),
               Kept(c, "persist"), job'[c].rest = job[c].rest \ {<<i, d>>}
        PROVE  Claims(a)' \subseteq Claims(a)
    <3>1. Holds(c, i, d)
      BY <2>1, <2>3 DEF Holds
    <3>2. \A k, e : Holds(c, k, e)' => Holds(c, k, e)
      BY <2>1, <2>3 DEF Holds, Kept, At
    <3>3. QED
      BY <1>1, <1>6, <2>3, <3>1, <3>2, ClaimsOf, ClaimsKept
  <2>4. QED
    BY <1>10, <2>2, <2>3, PersistStep DEF Base
<1>11. CASE Sync(c) \/ Carry(c) \/ Pin(c) \/ Release(c) \/ Unpin(c) \/ Abort(c)
  <2>1. UNCHANGED pre /\ \A i, d : ~Holds(c, i, d)'
    BY <1>3, <1>4, <1>11, SyncStep, CarryStep, PinStep, ReleaseStep, UnpinStep, AbortStep DEF Base
  <2>2. QED
    BY <1>1, <1>2, <2>1, ClaimsKept
<1>12. QED
  BY <1>5, <1>7, <1>8, <1>9, <1>10, <1>11 DEF Works

LEMMA DeleteClaims ==
    ASSUME Base, NEW c \in Clients, NEW i \in Existing, DeletePreplanExam(c, i), NEW a \in Ancodes
    PROVE  Claims(a)' \subseteq Claims(a)
<1>1. pre' = [pre EXCEPT ![i] = Tail(@)] /\ UNCHANGED job
  BY DEF DeletePreplanExam
<1>2. New.ancode # a /\ OthersKept(c)
  BY <1>1, PreplanAssumption DEF New, OthersKept
<1>3. \A k \in Existing' : k \in Existing /\ (Doc(k)' = New \/ Doc(k)' = Doc(k))
  BY <1>1, DeletedDocs DEF Base
<1>4. \A k \in Ids : k \in Existing' /\ Doc(k)'.ancode = a => k \in Claims(a)
  BY <1>2, <1>3, ClaimsOf
<1>5. \A k, d : Holds(c, k, d)' => Holds(c, k, d)
  BY <1>1 DEF Holds, At, Busy
<1>6. QED
  BY <1>2, <1>4, <1>5, ClaimsOf, ClaimsKept

\* Beginning a request adds no claim, except that a connect adds its pre-exam.
LEMMA StartedClaims ==
    ASSUME Base, NEW c \in Clients, Started(c), Adds(c) \/ Sweeps(c) \/ \E i \in Existing : Edits(c, i),
           NEW a \in Ancodes
    PROVE  \/ Claims(a)' \subseteq Claims(a)
           \/ \E i \in Existing : Edits(c, i) /\ job'[c].op = "connect" /\ job'[c].doc.ancode = a
<1>1. OthersKept(c) /\ UNCHANGED pre
  BY DEF Started
<1>2. \A i \in Ids : i \in Existing' /\ Doc(i)'.ancode = a => i \in Claims(a)
  BY <1>1, ClaimsOf DEF Existing, Doc
<1>3. CASE Adds(c)
  <2>1. \A i, d : ~Holds(c, i, d)'
    BY <1>3 DEF Adds, Holds, At
  <2>2. QED
    BY <1>1, <1>2, <2>1, ClaimsKept
<1>4. CASE Sweeps(c)
  <2>1. \A i \in Ids, d \in Docs : Holds(c, i, d)' => i \in Existing /\ d.ancode = Doc(i).ancode
    BY <1>4 DEF Sweeps, Holds, At
  <2>2. QED
    BY <1>1, <1>2, <2>1, ClaimsOf, ClaimsKept
<1>5. ASSUME NEW i \in Existing, Edits(c, i), ~(job'[c].op = "connect" /\ job'[c].doc.ancode = a)
      PROVE  Claims(a)' \subseteq Claims(a)
  <2>1. \A k \in Ids, d \in Docs : Holds(c, k, d)' => k = i /\ d = job'[c].doc
    BY <1>5 DEF Edits, Holds, At
  <2>2. job'[c].doc.ancode = a => Doc(i).ancode = a
    BY <1>5, PreplanAssumption DEF Edits
  <2>3. QED
    BY <1>1, <1>2, <2>1, <2>2, ClaimsOf, ClaimsKept
<1>6. QED
  BY <1>3, <1>4, <1>5

\* The bound is kept: a connect that nobody overlaps has seen that nobody else has the
\* ancode, and one that is overlapped counts.
LEMMA ConnectClaims ==
    ASSUME Base, ClaimsBounded, NEW c \in Clients, Started(c), NEW i \in Existing, Edits(c, i),
           job'[c].op = "connect", NEW a \in Ancodes, job'[c].doc.ancode = a
    PROVE  Cardinality(Claims(a)') <= 1 + overlaps'
<1>1. OthersKept(c) /\ UNCHANGED pre /\ Count(c)
  BY DEF Started
<1>2. overlaps \in Nat /\ i \in Ids
  BY DocShape DEF Base, Shape
<1>3. \A k, d : Holds(c, k, d)' => k = i
  BY DEF Edits, Holds, At
<1>4. \A k \in Claims(a)' : \/ k = i
                            \/ k \in Existing /\ Doc(k).ancode = a
                            \/ \E e \in Clients \ {c}, d \in Docs : Holds(e, k, d) /\ d.ancode = a
  <2>1. Existing' = Existing /\ \A k : Doc(k)' = Doc(k)
    BY <1>1 DEF Existing, Doc
  <2>2. \A e \in Clients \ {c} : \A k, d : Holds(e, k, d)' <=> Holds(e, k, d)
    BY <1>1, OthersHold
  <2>3. QED
    BY <1>3, <2>1, <2>2 DEF Claims
<1>5. CASE \E d \in Clients \ {c} : Busy(d)
  <2>1. overlaps' = overlaps + 1
    BY <1>1, <1>5 DEF Count
  <2>2. Claims(a)' \subseteq Claims(a) \cup {i}
    BY <1>4, ClaimsFinite DEF Claims
  <2>3. IsFiniteSet(Claims(a)) /\ Cardinality(Claims(a)) \in Nat /\ Cardinality(Claims(a)) <= 1 + overlaps
    BY ClaimsFinite, FS_CardinalityType DEF ClaimsBounded
  <2>4. IsFiniteSet(Claims(a) \cup {i}) /\ Cardinality(Claims(a) \cup {i}) <= Cardinality(Claims(a)) + 1
    BY <2>3, FS_AddElement
  <2>5. Cardinality(Claims(a)') <= Cardinality(Claims(a) \cup {i})
    BY <2>2, <2>4, FS_Subset
  <2>6. Cardinality(Claims(a)') \in Nat /\ Cardinality(Claims(a) \cup {i}) \in Nat
    BY <2>2, <2>4, FS_Subset, FS_CardinalityType
  <2>7. QED
    BY <1>2, <2>1, <2>3, <2>4, <2>5, <2>6
<1>6. CASE ~\E d \in Clients \ {c} : Busy(d)
  <2>1. overlaps' = overlaps
    BY <1>1, <1>6 DEF Count
  <2>2. \A e \in Clients \ {c} : \A k, d : ~Holds(e, k, d)
    BY <1>6, HoldsBy
  <2>3. \A k \in Existing \ {i} : Doc(k).ancode # a
    BY DEF Edits
  <2>4. Claims(a)' \subseteq {i}
    BY <1>4, <2>2, <2>3
  <2> DEFINE S == {i}
  <2>5. IsFiniteSet(S) /\ Cardinality(S) = 1
    BY FS_Singleton
  <2> HIDE DEF S
  <2>6. Cardinality(Claims(a)') <= 1 /\ Cardinality(Claims(a)') \in Nat
    BY <2>4, <2>5, FS_Subset, FS_CardinalityType DEF S
  <2>7. QED
    BY <1>2, <2>1, <2>6
<1>7. QED
  BY <1>5, <1>6

\* Fewer claims, and no fewer overlaps.
LEMMA ClaimsFewer ==
    ASSUME Shape, ClaimsBounded, NEW a \in Ancodes, Claims(a)' \subseteq Claims(a),
           overlaps' = overlaps \/ overlaps' = overlaps + 1
    PROVE  Cardinality(Claims(a)') <= 1 + overlaps'
<1>1. IsFiniteSet(Claims(a)) /\ Cardinality(Claims(a)) \in Nat /\ Cardinality(Claims(a)) <= 1 + overlaps
  BY ClaimsFinite, FS_CardinalityType DEF ClaimsBounded
<1>2. Cardinality(Claims(a)') <= Cardinality(Claims(a)) /\ Cardinality(Claims(a)') \in Nat
  BY <1>1, FS_Subset, FS_CardinalityType
<1>3. overlaps \in Nat
  BY DEF Shape
<1>4. QED
  BY <1>1, <1>2, <1>3

LEMMA ClaimsStep ==
    ASSUME Base, ClaimsBounded, NEW c \in Clients,
           Works(c) \/ (\E i \in Existing : DeletePreplanExam(c, i))
              \/ (Started(c) /\ (Adds(c) \/ Sweeps(c) \/ \E i \in Existing : Edits(c, i)))
    PROVE  ClaimsBounded'
<1> SUFFICES ASSUME NEW a \in Ancodes PROVE Cardinality(Claims(a)') <= 1 + overlaps'
  BY DEF ClaimsBounded
<1>1. overlaps' = overlaps \/ overlaps' = overlaps + 1
  BY WorksShape DEF Worked, bounds, DeletePreplanExam, Started, Count
<1>2. Claims(a)' \subseteq Claims(a) => Cardinality(Claims(a)') <= 1 + overlaps'
  BY <1>1, ClaimsFewer DEF Base
<1>3. CASE Works(c)
  BY <1>2, <1>3, WorksClaims
<1>4. CASE \E i \in Existing : DeletePreplanExam(c, i)
  BY <1>2, <1>4, DeleteClaims
<1>5. CASE Started(c) /\ (Adds(c) \/ Sweeps(c) \/ \E i \in Existing : Edits(c, i))
  BY <1>2, <1>5, StartedClaims, ConnectClaims
<1>6. QED
  BY <1>3, <1>4, <1>5

-----------------------------------------------------------------------------
(* One request at a time. *)

\* Nothing has overlapped after a step only if nothing had before, and a request that
\* began found nobody at work.
LEMMA AloneBefore ==
    ASSUME Shape, Alone', NEW c \in Clients, Count(c) \/ UNCHANGED bounds
    PROVE  Alone /\ (Count(c) => Quiet)
<1>1. overlaps \in Nat /\ overlaps' = 0 /\ (overlaps' = overlaps \/ overlaps' = overlaps + 1)
  BY DEF Shape, Alone, Count, bounds
<1>2. overlaps = 0 /\ overlaps' = overlaps
  BY <1>1
<1>3. Count(c) => ~\E d \in Clients \ {c} : Busy(d)
  BY <1>1, <1>2 DEF Count
<1>4. Count(c) => ~Busy(c)
  BY DEF Count
<1>5. QED
  BY <1>2, <1>3, <1>4 DEF Alone, Quiet

LEMMA QuietOne == ASSUME Quiet' PROVE OneAtATime'
  BY DEF Quiet, OneAtATime, Holds, At

\* The others are idle while the request of c is worked on.
LEMMA AloneIdle ==
    ASSUME Alone, OneAtATime, NEW c \in Clients, Busy(c), OthersKept(c)
    PROVE  (\A e \in Clients \ {c} : ~Busy(e) /\ ~Busy(e)') /\ (Ended(c) => Quiet')
<1>1. \A e \in Clients \ {c} : ~Busy(e)
  BY DEF OneAtATime
<1>2. QED
  BY <1>1 DEF OthersKept, Busy, Quiet, Ended

\* A request that runs alone finds the pre-exams it writes, and leaves those there are,
\* until it ends.
LEMMA WorksExisting ==
    ASSUME Base, OneAtATime, Alone, NEW c \in Clients, Works(c)
    PROVE  /\ Busy(c) /\ (InsertPreplanExam(c) \/ Existing' = Existing)
           /\ InsertPreplanExam(c) => Ended(c)
<1>1. ASSUME NEW i \in Ids, NEW d \in Docs, Holds(c, i, d), pre' = Replaced(i, d) \/ pre' = UpsertPreplanExam(i, d)
      PROVE  Existing' = Existing
  <2>1. i \in Existing
    BY <1>1 DEF OneAtATime
  <2>2. QED
    BY <1>1, <2>1, ReplacedDocs, UpsertedDocs DEF Base
<1>2. CASE InsertPreplanExam(c)
  BY <1>2, InsertStep DEF Base, At
<1>3. CASE Replace(c)
  <2>1. Holds(c, job[c].id, job[c].doc)
    BY <1>3, ReplaceStep DEF Base, Holds
  <2>2. QED
    BY <1>1, <1>2, <1>3, <2>1, ReplaceStep DEF Base, At
<1>4. CASE ReplaceOther(c)
  <2>1. Holds(c, job[c].other, job[c].doc) /\ job[c].doc \in Docs
    BY <1>4, ReplaceOtherStep DEF Base, Holds, LinkJobs
  <2>2. QED
    BY <1>1, <1>2, <1>4, <2>1, ReplaceOtherStep DEF Base, At
<1>5. CASE Persist(c)
  <2>1. \A i, d : <<i, d>> \in job[c].rest => Holds(c, i, d)
    BY <1>5, PersistStep DEF Base, Holds
  <2>2. UNCHANGED pre => Existing' = Existing
    BY DEF Existing
  <2>3. QED
    BY <1>1, <1>2, <1>5, <2>1, <2>2, PersistStep DEF Base, At
<1>6. CASE Mirror(c) \/ Sync(c) \/ Carry(c) \/ Pin(c) \/ Release(c) \/ Unpin(c) \/ Abort(c)
  <2>1. UNCHANGED pre
    BY <1>6, MirrorStep, SyncStep, CarryStep, PinStep, ReleaseStep, UnpinStep, AbortStep DEF Base
  <2>2. Busy(c)
    BY <1>6 DEF Mirror, Sync, Carry, Pin, Release, Unpin, Abort, At
  <2>3. QED
    BY <1>2, <2>1, <2>2 DEF Existing
<1>7. QED
  BY <1>2, <1>3, <1>4, <1>5, <1>6 DEF Works

\* How a request that has not ended has gone on.
LEMMA WorksOn ==
    ASSUME Base, NEW c \in Clients, Works(c)
    PROVE  \/ Ended(c)
           \/ \E s \in {"mirror", "sync", "carry", "pin", "release", "unpin"} : Kept(c, s)
           \/ Mirror(c) /\ \E r \in job[c].rest : r[1] \in Existing /\ r[2] \in BOOLEAN /\ Turned(c, r)
           \/ Persist(c) /\ Kept(c, "persist") /\ At(c, "persist") /\ job'[c].rest \subseteq job[c].rest
<1>1. CASE InsertPreplanExam(c) \/ Replace(c) \/ Mirror(c) \/ ReplaceOther(c)
  BY <1>1, InsertStep, ReplaceStep, MirrorStep, ReplaceOtherStep DEF Base
<1>2. CASE Persist(c)
  BY <1>2, PersistStep DEF Base
<1>3. CASE Sync(c) \/ Carry(c) \/ Pin(c) \/ Release(c) \/ Unpin(c) \/ Abort(c)
  BY <1>3, SyncStep, CarryStep, PinStep, ReleaseStep, UnpinStep, AbortStep DEF Base
<1>4. QED
  BY <1>1, <1>2, <1>3 DEF Works

LEMMA WorksOne ==
    ASSUME Base, OneAtATime, NEW c \in Clients, Works(c) PROVE OneAtATime'
<1> SUFFICES ASSUME Alone' PROVE OneAtATime'
  BY DEF OneAtATime
<1>1. Worked(c) /\ OthersKept(c) /\ UNCHANGED bounds
  BY WorksShape DEF Worked
<1>2. Alone
  BY <1>1, AloneBefore DEF Base
<1>3. Busy(c) /\ (Ended(c) \/ Existing' = Existing)
  BY <1>2, WorksExisting
<1>4. (\A e \in Clients \ {c} : ~Busy(e) /\ ~Busy(e)') /\ (Ended(c) => Quiet')
  BY <1>1, <1>2, <1>3, AloneIdle
<1>5. CASE Ended(c)
  BY <1>4, <1>5, QuietOne
<1>6. ASSUME Existing' = Existing, ~At(c, "insert")', \A i \in Ids, d \in Docs : Holds(c, i, d)' => i \in Existing,
             Busy(c)' => job'[c].op = job[c].op /\ job'[c].id = job[c].id
      PROVE  OneAtATime'
  <2>1. \A d, e \in Clients : Busy(d)' /\ Busy(e)' => d = e
    BY <1>4
  <2>2. \A d \in Clients : ~At(d, "insert")'
    BY <1>4, <1>6 DEF At
  <2>3. \A e \in Clients, i \in Ids, d \in Docs : Holds(e, i, d)' => i \in Existing'
    <3> SUFFICES ASSUME NEW e \in Clients, NEW i \in Ids, NEW d \in Docs, Holds(e, i, d)' PROVE i \in Existing'
      OBVIOUS
    <3>1. e = c
      BY <1>4 DEF Holds, At
    <3>2. QED
      BY <1>6, <3>1
  <2>4. \A d \in Clients : Busy(d)' /\ job'[d].op \in {"pair", "same", "connect", "disconnect", "fixed"} =>
           job'[d].id \in Existing'
    BY <1>2, <1>3, <1>4, <1>6 DEF OneAtATime
  <2>5. QED
    BY <2>1, <2>2, <2>3, <2>4 DEF OneAtATime
<1>7. ASSUME Existing' = Existing, NEW s \in {"mirror", "sync", "carry", "pin", "release", "unpin"}, Kept(c, s)
      PROVE  OneAtATime'
  <2>1. ~At(c, "insert")' /\ \A i, d : ~Holds(c, i, d)'
    BY <1>7 DEF Kept, At, Holds
  <2>2. QED
    BY <1>6, <1>7, <2>1 DEF Kept
<1>8. ASSUME Existing' = Existing, NEW r \in job[c].rest, r[1] \in Existing, Turned(c, r)
      PROVE  OneAtATime'
  <2>1. ~At(c, "insert")' /\ \A i, d : Holds(c, i, d)' => i \in Existing
    BY <1>8 DEF Turned, At, Holds
  <2>2. QED
    BY <1>6, <1>8, <2>1 DEF Turned
<1>9. ASSUME Existing' = Existing, Kept(c, "persist"), At(c, "persist"), job'[c].rest \subseteq job[c].rest
      PROVE  OneAtATime'
  <2>1. ~At(c, "insert")' /\ \A i, d : Holds(c, i, d)' => Holds(c, i, d)
    BY <1>9 DEF Kept, At, Holds
  <2>2. QED
    BY <1>2, <1>6, <1>9, <2>1 DEF Kept, OneAtATime
<1>10. QED
  BY <1>3, <1>5, <1>7, <1>8, <1>9, WorksOn

LEMMA StartedOne ==
    ASSUME Base, OneAtATime, NEW c \in Clients, Started(c), Adds(c) \/ Sweeps(c) \/ \E i \in Existing : Edits(c, i)
    PROVE  OneAtATime'
<1> SUFFICES ASSUME Alone' PROVE OneAtATime'
  BY DEF OneAtATime
<1>1. Quiet /\ OthersKept(c) /\ UNCHANGED pre /\ Busy(c)'
  BY AloneBefore DEF Base, Started
<1>2. \A e \in Clients \ {c} : ~Busy(e)'
  BY <1>1 DEF Quiet, OthersKept, Busy
<1>3. Existing' = Existing
  BY <1>1 DEF Existing
<1>4. ASSUME At(c, "insert")' => pre'[job'[c].id] = <<>>,
             \A i \in Ids, d \in Docs : Holds(c, i, d)' => i \in Existing,
             job'[c].op \in {"pair", "same", "connect", "disconnect", "fixed"} => job'[c].id \in Existing
      PROVE  OneAtATime'
  <2>1. \A d, e \in Clients : Busy(d)' /\ Busy(e)' => d = e
    BY <1>2
  <2>2. \A d \in Clients : At(d, "insert")' => pre'[job'[d].id] = <<>>
    BY <1>2, <1>4 DEF At
  <2>3. \A e \in Clients, i \in Ids, d \in Docs : Holds(e, i, d)' => i \in Existing'
    <3> SUFFICES ASSUME NEW e \in Clients, NEW i \in Ids, NEW d \in Docs, Holds(e, i, d)' PROVE i \in Existing'
      OBVIOUS
    <3>1. e = c
      BY <1>2 DEF Holds, At
    <3>2. QED
      BY <1>3, <1>4, <3>1
  <2>4. \A d \in Clients : Busy(d)' /\ job'[d].op \in {"pair", "same", "connect", "disconnect", "fixed"} =>
           job'[d].id \in Existing'
    BY <1>2, <1>3, <1>4
  <2>5. QED
    BY <2>1, <2>2, <2>3, <2>4 DEF OneAtATime
<1>5. CASE Adds(c)
  BY <1>1, <1>4, <1>5 DEF Adds, At, Holds, Existing
<1>6. CASE Sweeps(c)
  BY <1>4, <1>6 DEF Sweeps, At, Holds
<1>7. CASE \E i \in Existing : Edits(c, i)
  BY <1>4, <1>7 DEF Edits, At, Holds
<1>8. QED
  BY <1>5, <1>6, <1>7

LEMMA DeleteOne ==
    ASSUME Base, NEW c \in Clients, NEW i \in Existing, DeletePreplanExam(c, i) PROVE OneAtATime'
<1> SUFFICES ASSUME Alone' PROVE OneAtATime'
  BY DEF OneAtATime
<1>1. Quiet /\ UNCHANGED job
  BY AloneBefore DEF Base, DeletePreplanExam
<1>2. QED
  BY <1>1, QuietOne DEF Quiet, Busy

-----------------------------------------------------------------------------
(* The locked plan entries. *)

\* A request that runs alone writes one document of an existing pre-exam.
LEMMA Written ==
    ASSUME Base, OneAtATime, Alone, NEW c \in Clients, NEW i \in Ids, NEW d \in Docs, Holds(c, i, d),
           pre' = Replaced(i, d) \/ pre' = UpsertPreplanExam(i, d)
    PROVE  /\ i \in Existing /\ Existing' = Existing /\ Doc(i)' = d
           /\ \A k \in Existing \ {i} : Doc(k)' = Doc(k)
<1>1. i \in Existing
  BY DEF OneAtATime
<1>2. CASE pre' = Replaced(i, d)
  BY <1>1, <1>2, ReplacedDocs DEF Base
<1>3. CASE pre' = UpsertPreplanExam(i, d)
  <2>1. pre' = Replaced(i, d)
    BY <1>1, <1>3 DEF UpsertPreplanExam
  <2>2. QED
    BY <1>1, <2>1, ReplacedDocs DEF Base
<1>4. QED
  BY <1>2, <1>3

\* Without overlaps an ancode has at most one pre-exam.
LEMMA OnePreExam ==
    ASSUME Base, ClaimsBounded, Alone, NEW a \in Ancodes, NEW i \in Existing, NEW k \in Existing,
           Doc(i).ancode = a, Doc(k).ancode = a
    PROVE  i = k
<1> SUFFICES ASSUME i # k PROVE FALSE
  OBVIOUS
<1>1. i \in Claims(a) /\ k \in Claims(a)
  BY ClaimsOf
<1>2. IsFiniteSet(Claims(a)) /\ Cardinality(Claims(a)) <= 1
  BY ClaimsFinite DEF ClaimsBounded, Alone
<1>3. IsFiniteSet({i}) /\ Cardinality({i}) = 1
  BY FS_Singleton
<1>4. IsFiniteSet({i} \cup {k}) /\ Cardinality({i} \cup {k}) = 2
  BY <1>3, FS_AddElement
<1>5. Cardinality({i} \cup {k}) <= Cardinality(Claims(a)) /\ Cardinality(Claims(a)) \in Nat
  BY <1>1, <1>2, FS_Subset, FS_CardinalityType
<1>6. QED
  BY <1>2, <1>4, <1>5

\* What an idle client has read, and owes: nothing.
LEMMA PinFrom ==
    ASSUME NEW c \in Clients, \A e \in Clients \ {c} : ~Busy(e)', Reads(c)',
           \A a \in Ancodes, t \in Times : ~Owed(c, a)' => (plan'[a] = t <=> Pinned(a, t)')
    PROVE  PinFollows'
<1>1. \A e \in Clients : Reads(e)'
  <2> SUFFICES ASSUME NEW e \in Clients \ {c} PROVE Reads(e)'
    OBVIOUS
  <2>1. QED
    BY DEF Reads, Holds, At
<1>2. QED
  BY <1>1 DEF PinFollows

\* Before the step of a request that runs alone.
LEMMA PinBefore ==
    ASSUME OneAtATime, PinFollows, Alone, Without(PinGaps), NEW c \in Clients, \A e \in Clients \ {c} : ~Busy(e)
    PROVE  /\ Reads(c)
           /\ \A a \in Ancodes, t \in Times : ~Owed(c, a) => (plan[a] = t <=> Pinned(a, t))
<1>1. \A e \in Clients \ {c} : \A a : ~Owed(e, a)
  BY DEF Owed, At
<1>2. QED
  BY <1>1 DEF PinFollows

LEMMA PinnedSame ==
    ASSUME Existing' = Existing, \A k \in Existing : Doc(k)' = Doc(k)
    PROVE  \A a, t : Pinned(a, t)' <=> Pinned(a, t)
  BY DEF Pinned

\* Writing a document that lets the plan entry be.
LEMMA PinnedWritten ==
    ASSUME NEW i \in Existing, NEW d, Existing' = Existing, Doc(i)' = d,
           \A k \in Existing \ {i} : Doc(k)' = Doc(k), SamePin(i, d)
    PROVE  \A a, t : Pinned(a, t)' <=> Pinned(a, t)
<1> SUFFICES ASSUME NEW a, NEW t PROVE Pinned(a, t)' <=> Pinned(a, t)
  OBVIOUS
<1> DEFINE P(k) == Doc(k).ancode = a /\ Doc(k).fixed /\ Doc(k).time = t
<1>1. \A k \in Existing \ {i} : P(k)' <=> P(k)
  OBVIOUS
<1>2. P(i)' <=> d.ancode = a /\ d.fixed /\ d.time = t
  OBVIOUS
<1>3. P(i)' <=> P(i)
  BY <1>2, Zenon DEF SamePin
<1>4. Pinned(a, t)' <=> \E k \in Existing : P(k)'
  BY DEF Pinned
<1>5. Pinned(a, t) <=> \E k \in Existing : P(k)
  BY DEF Pinned
<1> HIDE DEF P
<1>6. QED
  BY <1>1, <1>3, <1>4, <1>5, Zenon

\* Requests that write copies which let the plan entries be: the copies are good for one
\* another, too.
LEMMA SamePinWritten ==
    ASSUME NEW i, NEW d, NEW e, Doc(i)' = d, SamePin(i, d), SamePin(i, e)
    PROVE  SamePin(i, e)'
<1>1. d.ancode = Doc(i).ancode /\ e.ancode = Doc(i).ancode
  BY DEF SamePin
<1>2. CASE Doc(i).fixed
  <2>1. d.fixed = Doc(i).fixed /\ d.time = Doc(i).time /\ e.fixed = Doc(i).fixed /\ e.time = Doc(i).time
    BY <1>2, Zenon DEF SamePin
  <2>2. QED
    BY <1>1, <2>1, Zenon DEF SamePin
<1>3. CASE ~Doc(i).fixed
  <2>1. ~d.fixed /\ ~e.fixed
    BY <1>3, Zenon DEF SamePin
  <2>2. QED
    BY <1>1, <2>1, Zenon DEF SamePin
<1>4. QED
  BY <1>2, <1>3

\* A request that runs alone, in a run without gaps, goes on from here.
PinStart(c) ==
    /\ Base /\ ClaimsBounded /\ OneAtATime /\ PinFollows /\ Alone /\ Without(PinGaps)
    /\ \A e \in Clients \ {c} : ~Busy(e) /\ ~Busy(e)'

LEMMA ReplacePin ==
    ASSUME NEW c \in Clients, PinStart(c), Replace(c) PROVE PinFollows'
<1> DEFINE j == job[c]
<1>1. PICK i \in Ids : i = j.id
  BY ReplaceStep DEF PinStart, Base
<1>2. PICK d \in Docs : d = j.doc
  BY ReplaceStep DEF PinStart, Base
<1>3. At(c, "replace") /\ Holds(c, i, d) /\ pre' = Replaced(i, d) /\ UNCHANGED plan
  BY <1>1, <1>2, ReplaceStep DEF PinStart, Base, Holds
<1>4. i \in Existing /\ Existing' = Existing /\ Doc(i)' = d /\ \A k \in Existing \ {i} : Doc(k)' = Doc(k)
  BY <1>3, Written DEF PinStart
<1>5. Reads(c) /\ \A a \in Ancodes, t \in Times : plan[a] = t <=> Pinned(a, t)
  <2>1. \A a : ~Owed(c, a)
    BY <1>3 DEF Owed, At
  <2>2. QED
    BY <2>1, PinBefore DEF PinStart
<1>6. \/ j.op \in {"pair", "same"} /\ Kept(c, "mirror")
      \/ j.op \in {"connect", "disconnect"} /\ Kept(c, "sync")
      \/ j.op = "fixed" /\ d.ancode # None /\ Kept(c, "pin")
      \/ j.op \in {"update", "time"} /\ Ended(c)
      \/ j.op = "fixed" /\ d.ancode = None /\ Ended(c)
  BY <1>2, ReplaceStep DEF PinStart, Base
<1>7. d.ancode \in Ancodes \cup {None} /\ Doc(i).ancode \in Ancodes \cup {None}
  BY <1>4, DocShape DEF PinStart, Base, Docs
<1>8. \A a, t : Pinned(a, t)' <=> \/ d.ancode = a /\ d.fixed /\ d.time = t
                                  \/ \E k \in Existing \ {i} : Doc(k).ancode = a /\ Doc(k).fixed /\ Doc(k).time = t
  BY <1>4 DEF Pinned
<1>9. \A a, t : Pinned(a, t) <=> \/ Doc(i).ancode = a /\ Doc(i).fixed /\ Doc(i).time = t
                                 \/ \E k \in Existing \ {i} : Doc(k).ancode = a /\ Doc(k).fixed /\ Doc(k).time = t
  BY <1>4 DEF Pinned
<1>10. \A a, t : d.ancode # a /\ Doc(i).ancode # a => (Pinned(a, t)' <=> Pinned(a, t))
  BY <1>8, <1>9
<1>11. ASSUME Reads(c)', \A a \in Ancodes, t \in Times : ~Owed(c, a)' => (Pinned(a, t)' <=> Pinned(a, t))
       PROVE  PinFollows'
  BY <1>3, <1>5, <1>11, PinFrom DEF PinStart
<1>12. CASE j.op \in {"pair", "same", "update", "time"}
  <2>1. Reads(c)'
    BY <1>6, <1>12 DEF Reads, Kept, Ended, Holds, At, Busy
  <2>2. SamePin(i, d)
    BY <1>3, <1>5, <1>12 DEF Reads
  <2>3. \A a, t : Pinned(a, t)' <=> Pinned(a, t)
    BY <1>4, <2>2, PinnedWritten
  <2>4. QED
    BY <1>11, <2>1, <2>3
<1>13. CASE j.op = "fixed" /\ d.ancode = None /\ Ended(c)
  <2>1. Reads(c)'
    BY <1>13 DEF Reads, Ended, Holds, At, Busy
  <2>2. Doc(i).ancode = None
    BY <1>1, <1>2, <1>3, <1>5, <1>13 DEF Reads
  <2>3. QED
    BY <1>10, <1>11, <1>13, <2>1, <2>2, PreplanAssumption
<1>14. CASE j.op = "fixed" /\ d.ancode # None /\ Kept(c, "pin")
  <2>1. Doc(i).ancode = d.ancode
    BY <1>1, <1>2, <1>3, <1>5, <1>14 DEF Reads
  <2>2. job'[c].doc = d /\ job'[c].id = i /\ job'[c].op = "fixed" /\ job'[c].step = "pin" /\ Busy(c)'
    BY <1>1, <1>2, <1>14 DEF Kept
  <2>3. Reads(c)'
    BY <1>4, <2>2 DEF Reads, Holds, At
  <2>4. \A a : ~Owed(c, a)' => a # d.ancode
    BY <2>2 DEF Owed, At
  <2>5. QED
    BY <1>10, <1>11, <2>1, <2>3, <2>4
<1>15. CASE j.op = "connect" /\ Kept(c, "sync")
  <2>1. /\ d.fixed = Doc(i).fixed /\ d.time = Doc(i).time /\ Doc(i).ancode \in {None, d.ancode}
        /\ \A o \in Existing \ {i} : Doc(o).ancode # d.ancode
    BY <1>1, <1>2, <1>3, <1>5, <1>15 DEF Reads
  <2>2. job'[c].doc = d /\ job'[c].id = i /\ job'[c].op = "connect" /\ job'[c].step = "sync" /\ Busy(c)'
    BY <1>1, <1>2, <1>15 DEF Kept
  <2>3. Reads(c)'
    BY <1>4, <2>2 DEF Reads, Holds, At
  <2>4. ASSUME NEW a \in Ancodes, NEW t \in Times, ~Owed(c, a)' PROVE Pinned(a, t)' <=> Pinned(a, t)
    <3>1. CASE a # d.ancode
      <4>1. Doc(i).ancode # a
        BY <2>1, <3>1, PreplanAssumption
      <4>2. QED
        BY <1>10, <3>1, <4>1
    <3>2. CASE a = d.ancode
      <4>1. ~(d.fixed /\ d.time # None)
        BY <2>2, <2>4, <3>2 DEF Owed, At
      <4>2. ~(d.fixed /\ d.time = t)
        BY <4>1, PreplanAssumption
      <4>3. ~(Doc(i).fixed /\ Doc(i).time = t)
        BY <2>1, <4>2, Zenon
      <4>4. ~Pinned(a, t)' /\ ~Pinned(a, t)
        BY <1>8, <1>9, <2>1, <3>2, <4>2, <4>3
      <4>5. QED
        BY <4>4
    <3>3. QED
      BY <3>1, <3>2
  <2>5. QED
    BY <1>11, <2>3, <2>4
<1>16. CASE j.op = "disconnect" /\ Kept(c, "sync")
  <2>1. d.fixed = Doc(i).fixed /\ d.time = Doc(i).time /\ d.ancode = None /\ j.freed = Doc(i).ancode
    BY <1>1, <1>2, <1>3, <1>5, <1>16 DEF Reads
  <2>2. /\ job'[c].doc = d /\ job'[c].id = i /\ job'[c].op = "disconnect" /\ job'[c].step = "sync" /\ Busy(c)'
        /\ job'[c].freed = Doc(i).ancode
    BY <1>1, <1>2, <1>16, <2>1 DEF Kept
  <2>3. Doc(i).ancode \in Ancodes => \A k \in Existing \ {i} : Doc(k).ancode # Doc(i).ancode
    BY <1>4, OnePreExam DEF PinStart
  <2>4. Doc(i).ancode # None => \A k \in Existing' : Doc(k)'.ancode # job'[c].freed
    BY <1>4, <1>7, <2>1, <2>2, <2>3
  <2>5. Reads(c)'
    BY <2>2, <2>4 DEF Reads, Holds, At
  <2>6. ASSUME NEW a \in Ancodes, NEW t \in Times, ~Owed(c, a)' PROVE Pinned(a, t)' <=> Pinned(a, t)
    <3>1. a # None
      BY PreplanAssumption
    <3>2. CASE a # Doc(i).ancode
      BY <1>10, <2>1, <3>1, <3>2
    <3>3. CASE a = Doc(i).ancode
      <4>1. ~d.fixed
        BY <2>2, <2>6, <3>3 DEF Owed, At
      <4>2. ~Doc(i).fixed
        BY <2>1, <4>1, Zenon
      <4>3. ~Pinned(a, t)' /\ ~Pinned(a, t)
        BY <1>8, <1>9, <2>3, <3>3, <4>1, <4>2
      <4>4. QED
        BY <4>3
    <3>4. QED
      BY <3>2, <3>3
  <2>7. QED
    BY <1>11, <2>5, <2>6
<1>17. QED
  BY <1>6, <1>12, <1>13, <1>14, <1>15, <1>16

LEMMA LinkPin ==
    ASSUME NEW c \in Clients, PinStart(c), Mirror(c) \/ ReplaceOther(c) PROVE PinFollows'
<1>1. ASSUME At(c, "mirror") \/ At(c, "replaceOther")
      PROVE  Reads(c) /\ \A a \in Ancodes, t \in Times : plan[a] = t <=> Pinned(a, t)
  <2>1. \A a : ~Owed(c, a)
    BY <1>1 DEF Owed, At
  <2>2. QED
    BY <2>1, PinBefore DEF PinStart
<1>2. CASE Mirror(c)
  <2>1. At(c, "mirror") /\ UNCHANGED <<pre, plan>> /\ job[c].op \in {"pair", "same"} /\ job[c].id \in Ids
    BY <1>2, MirrorStep DEF PinStart, Base, LinkJobs
  <2>2. Existing' = Existing /\ \A k : Doc(k)' = Doc(k)
    BY <2>1 DEF Existing, Doc
  <2>3. \A a \in Ancodes, t \in Times : plan'[a] = t <=> Pinned(a, t)'
    BY <1>1, <2>1, <2>2, PinnedSame
  <2>4. Ended(c) \/ Kept(c, "mirror") => Reads(c)'
    BY <2>1 DEF Reads, Kept, Ended, Holds, At, Busy
  <2>5. ASSUME NEW r \in job[c].rest, r[1] \in Existing, r[2] \in BOOLEAN, Turned(c, r) PROVE Reads(c)'
    <3> DEFINE d == Linked(job[c].op, r[1], job[c].id, r[2])
    <3>1. d.ancode = Doc(r[1]).ancode /\ d.fixed = Doc(r[1]).fixed /\ d.time = Doc(r[1]).time
      BY <2>1, <2>5, LinkedDoc DEF PinStart, Base
    <3>2. job'[c].op \in {"pair", "same"} /\ job'[c].step = "replaceOther" /\ Busy(c)'
          /\ job'[c].other = r[1] /\ job'[c].doc = d
      BY <2>1, <2>5 DEF Turned
    <3> HIDE DEF d
    <3>3. ASSUME NEW i, NEW x, Holds(c, i, x)' PROVE SamePin(i, x)'
      <4>1. i = r[1] /\ x = d
        BY <3>2, <3>3 DEF Holds, At
      <4>2. Doc(i)' = Doc(r[1])
        BY <2>2, <4>1
      <4>3. QED
        BY <3>1, <4>1, <4>2, Zenon DEF SamePin
    <3>4. QED
      BY <3>2, <3>3 DEF Reads, At
  <2>6. Reads(c)'
    BY <1>2, <2>4, <2>5, MirrorStep DEF PinStart, Base
  <2>7. QED
    BY <2>3, <2>6, PinFrom DEF PinStart
<1>3. CASE ReplaceOther(c)
  <2>1. PICK i \in Ids : i = job[c].other
    BY <1>3, ReplaceOtherStep DEF PinStart, Base
  <2>2. PICK d \in Docs : d = job[c].doc
    BY <1>3, ReplaceOtherStep DEF PinStart, Base, LinkJobs
  <2>3. /\ At(c, "replaceOther") /\ Holds(c, i, d) /\ pre' = Replaced(i, d) /\ UNCHANGED plan
        /\ job[c].op \in {"pair", "same"} /\ Kept(c, "mirror")
    BY <1>3, <2>1, <2>2, ReplaceOtherStep DEF PinStart, Base, Holds, LinkJobs
  <2>4. i \in Existing /\ Existing' = Existing /\ Doc(i)' = d /\ \A k \in Existing \ {i} : Doc(k)' = Doc(k)
    BY <2>3, Written DEF PinStart
  <2>5. SamePin(i, d)
    BY <1>1, <2>3 DEF Reads
  <2>6. \A a \in Ancodes, t \in Times : plan'[a] = t <=> Pinned(a, t)'
    BY <1>1, <2>3, <2>4, <2>5, PinnedWritten
  <2>7. Reads(c)'
    BY <2>3 DEF Reads, Kept, Holds, At
  <2>8. QED
    BY <2>6, <2>7, PinFrom DEF PinStart
<1>4. QED
  BY <1>2, <1>3

LEMMA PersistPin ==
    ASSUME NEW c \in Clients, PinStart(c), Persist(c) PROVE PinFollows'
<1>1. At(c, "persist") /\ UNCHANGED plan /\ job[c].op \in {"reset", "generate"}
  BY PersistStep DEF PinStart, Base, SweepJobs
<1>2. Reads(c) /\ \A a \in Ancodes, t \in Times : plan[a] = t <=> Pinned(a, t)
  <2>1. \A a : ~Owed(c, a)
    BY <1>1 DEF Owed, At
  <2>2. QED
    BY <2>1, PinBefore DEF PinStart
<1>3. CASE Ended(c) /\ UNCHANGED pre
  <2>1. Existing' = Existing /\ \A k : Doc(k)' = Doc(k)
    BY <1>3 DEF Existing, Doc
  <2>2. Reads(c)'
    BY <1>3 DEF Reads, Ended, Holds, At, Busy
  <2>3. QED
    BY <1>1, <1>2, <2>1, <2>2, PinnedSame, PinFrom DEF PinStart
<1>4. ASSUME NEW i \in Ids, NEW d \in Docs, <<i, d>> \in job[c].rest,
             pre' = Replaced(i, d) \/ pre' = UpsertPreplanExam(i, d),
             Kept(c, "persist"), job'[c].rest = job[c].rest \ {<<i, d>>}
      PROVE  PinFollows'
  <2>1. Holds(c, i, d) /\ \A k, e : Holds(c, k, e)' => Holds(c, k, e)
    BY <1>1, <1>4 DEF Holds, Kept, At
  <2>2. i \in Existing /\ Existing' = Existing /\ Doc(i)' = d /\ \A k \in Existing \ {i} : Doc(k)' = Doc(k)
    BY <1>4, <2>1, Written DEF PinStart
  <2>3. \A k \in Ids, e \in Docs : Holds(c, k, e) => SamePin(k, e) /\ k \in Existing
    BY <1>1, <1>2 DEF Reads, PinStart, OneAtATime
  <2>4. \A a \in Ancodes, t \in Times : plan'[a] = t <=> Pinned(a, t)'
    BY <1>1, <1>2, <2>1, <2>2, <2>3, PinnedWritten
  <2>5. ASSUME NEW k \in Ids, NEW e \in Docs, Holds(c, k, e)' PROVE SamePin(k, e)'
    <3>1. SamePin(k, e) /\ k \in Existing
      BY <2>1, <2>3, <2>5
    <3>2. CASE k = i
      BY <2>1, <2>2, <2>3, <3>1, <3>2, SamePinWritten
    <3>3. CASE k # i
      BY <2>2, <3>1, <3>3 DEF SamePin
    <3>4. QED
      BY <3>2, <3>3
  <2>6. Reads(c)'
    BY <1>1, <1>4, <2>5 DEF Reads, Kept, At
  <2>7. QED
    BY <2>4, <2>6, PinFrom DEF PinStart
<1>5. QED
  BY <1>3, <1>4, PersistStep DEF PinStart, Base

LEMMA InsertPin ==
    ASSUME NEW c \in Clients, PinStart(c), InsertPreplanExam(c) PROVE PinFollows'
<1>1. PICK i \in Ids : i = job[c].id
  BY InsertStep DEF PinStart, Base
<1>2. /\ At(c, "insert") /\ Ended(c) /\ UNCHANGED plan
      /\ pre' = [pre EXCEPT ![i] = Append(@, New)]
  BY <1>1, InsertStep DEF PinStart, Base
<1>3. i \notin Existing
  BY <1>1, <1>2 DEF PinStart, OneAtATime, Existing
<1>4. Existing' = Existing \cup {i} /\ Doc(i)' = New /\ \A k \in Existing : Doc(k)' = Doc(k)
  BY <1>2, <1>3, InsertedDocs DEF PinStart, Base
<1>5. New.ancode = None
  BY DEF New
<1>6. \A a \in Ancodes : \A t : Pinned(a, t)' <=> Pinned(a, t)
  BY <1>4, <1>5, PreplanAssumption DEF Pinned
<1>7. \A a \in Ancodes, t \in Times : plan[a] = t <=> Pinned(a, t)
  <2>1. \A a : ~Owed(c, a)
    BY <1>2 DEF Owed, At
  <2>2. QED
    BY <2>1, PinBefore DEF PinStart
<1>8. Reads(c)'
  BY <1>2 DEF Reads, Ended, Holds, At, Busy
<1>9. QED
  BY <1>2, <1>6, <1>7, <1>8, PinFrom DEF PinStart

\* A step that leaves documents and plan alone, and owes what it owed.
LEMMA OwedKept ==
    ASSUME NEW c \in Clients, PinStart(c), UNCHANGED <<pre, plan>>, Reads(c)',
           \A a \in Ancodes : Owed(c, a) => Owed(c, a)'
    PROVE  PinFollows'
<1>1. Existing' = Existing /\ \A k : Doc(k)' = Doc(k)
  BY DEF Existing, Doc
<1>2. \A a, t : Pinned(a, t)' <=> Pinned(a, t)
  BY <1>1, PinnedSame
<1>3. \A a \in Ancodes, t \in Times : ~Owed(c, a) => (plan[a] = t <=> Pinned(a, t))
  BY PinBefore DEF PinStart
<1>4. QED
  BY <1>2, <1>3, PinFrom DEF PinStart

\* What a connect or disconnect has written of its pre-exam stays so.
LEMMA ConnectReads ==
    ASSUME NEW c \in Clients, Busy(c), ~At(c, "replace"), Reads(c), UNCHANGED pre,
           NEW s \in {"carry", "pin", "release", "unpin"}, Kept(c, s)
    PROVE  Reads(c)'
<1>1. Existing' = Existing /\ \A k : Doc(k)' = Doc(k)
  BY DEF Existing, Doc
<1>2. \A i, d : ~Holds(c, i, d)'
  BY DEF Kept, Holds, At
<1>3. ~At(c, "replace")' /\ Busy(c)'
  BY DEF Kept, At
<1>4. /\ job'[c].op = job[c].op /\ job'[c].id = job[c].id /\ job'[c].doc = job[c].doc
      /\ job'[c].freed = job[c].freed
  BY DEF Kept
<1>5. job[c].op \in {"fixed", "connect"} => Doc(job[c].id) = job[c].doc
  BY DEF Reads
<1>6. job'[c].op \in {"fixed", "connect"} => Doc(job[c].id)' = job'[c].doc
  BY <1>4, <1>5 DEF Doc
<1>7. job[c].op = "disconnect" /\ job[c].freed # None => \A i \in Existing : Doc(i).ancode # job[c].freed
  BY DEF Reads
<1>8. job'[c].op = "disconnect" /\ job'[c].freed # None => \A i \in Existing' : Doc(i)'.ancode # job'[c].freed
  BY <1>1, <1>4, <1>7
<1>9. QED
  BY <1>2, <1>3, <1>6, <1>8 DEF Reads

LEMMA EndedReads == ASSUME NEW c \in Clients, Ended(c) PROVE Reads(c)'
  BY DEF Reads, Ended, Holds, At, Busy

LEMMA CarryPin ==
    ASSUME NEW c \in Clients, PinStart(c), Sync(c) \/ Carry(c) \/ Release(c) PROVE PinFollows'
<1>1. Reads(c)
  BY PinBefore DEF PinStart
<1>2. CASE Sync(c)
  <2>1. At(c, "sync") /\ UNCHANGED <<pre, plan>> /\ Kept(c, "carry")
    BY <1>2, SyncStep DEF PinStart, Base
  <2>2. Reads(c)'
    BY <1>1, <2>1, ConnectReads DEF At
  <2>3. \A a : Owed(c, a) => Owed(c, a)'
    BY <2>1 DEF Owed, Kept, At
  <2>4. QED
    BY <2>1, <2>2, <2>3, OwedKept
<1>3. CASE Carry(c)
  <2>1. At(c, "carry") /\ UNCHANGED <<pre, plan>> /\ job[c].op \in {"connect", "disconnect"}
    BY <1>3, CarryStep DEF PinStart, Base, ConnectJobs
  <2>2. CASE Kept(c, "carry")
    BY <1>1, <2>1, <2>2, ConnectReads, OwedKept DEF Owed, Kept, At
  <2>3. CASE job[c].op = "connect" /\ job[c].doc.fixed /\ job[c].doc.time # None /\ Kept(c, "pin")
    <3>1. Reads(c)'
      BY <1>1, <2>1, <2>3, ConnectReads DEF At
    <3>2. \A a : Owed(c, a) => Owed(c, a)'
      BY <2>1, <2>3 DEF Owed, Kept, At
    <3>3. QED
      BY <2>1, <3>1, <3>2, OwedKept
  <2>4. CASE job[c].op = "disconnect" /\ job[c].freed # None /\ Kept(c, "release")
    <3>1. Reads(c)'
      BY <1>1, <2>1, <2>4, ConnectReads DEF At
    <3>2. \A a : Owed(c, a) => Owed(c, a)'
      BY <2>1, <2>4 DEF Owed, Kept, At
    <3>3. QED
      BY <2>1, <3>1, <3>2, OwedKept
  <2>5. CASE /\ Ended(c)
             /\ ~(job[c].op = "connect" /\ job[c].doc.fixed /\ job[c].doc.time # None)
             /\ ~(job[c].op = "disconnect" /\ job[c].freed # None)
    <3>1. \A a \in Ancodes : ~Owed(c, a)
      BY <2>1, <2>5, PreplanAssumption DEF Owed, At
    <3>2. QED
      BY <2>1, <2>5, <3>1, EndedReads, OwedKept
  <2>6. QED
    BY <1>3, <2>2, <2>3, <2>4, <2>5, CarryStep DEF PinStart, Base
<1>4. CASE Release(c)
  <2>1. At(c, "release") /\ UNCHANGED <<pre, plan>>
    BY <1>4, ReleaseStep DEF PinStart, Base
  <2>2. CASE job[c].doc.fixed /\ Kept(c, "unpin")
    <3>1. Reads(c)'
      BY <1>1, <2>1, <2>2, ConnectReads DEF At
    <3>2. \A a : Owed(c, a) => Owed(c, a)'
      BY <2>1, <2>2 DEF Owed, Kept, At
    <3>3. QED
      BY <2>1, <3>1, <3>2, OwedKept
  <2>3. CASE ~job[c].doc.fixed /\ Ended(c)
    <3>1. \A a : ~Owed(c, a)
      BY <2>1, <2>3 DEF Owed, At
    <3>2. QED
      BY <2>1, <2>3, <3>1, EndedReads, OwedKept
  <2>4. QED
    BY <1>4, <2>2, <2>3, ReleaseStep DEF PinStart, Base
<1>5. QED
  BY <1>2, <1>3, <1>4

LEMMA PinPin ==
    ASSUME NEW c \in Clients, PinStart(c), Pin(c) PROVE PinFollows'
<1> DEFINE d == job[c].doc
           b == d.ancode
           v == IF d.fixed THEN d.time ELSE None
<1>1. /\ Ended(c) /\ UNCHANGED pre /\ At(c, "pin") /\ b \in Ancodes /\ job[c].op \in {"fixed", "connect"}
      /\ d.fixed => d.time \in Times
      /\ plan' = [plan EXCEPT ![b] = v]
  BY PinStep DEF PinStart, Base
<1>2. Reads(c) /\ \A a \in Ancodes, t \in Times : ~Owed(c, a) => (plan[a] = t <=> Pinned(a, t))
  BY PinBefore DEF PinStart
<1>3. \A a : Owed(c, a) => a = b
  BY <1>1 DEF Owed, At
<1>4. PICK i \in Existing : i = job[c].id
  BY <1>1 DEF PinStart, OneAtATime, At
<1>5. Doc(i) = d
  BY <1>1, <1>2, <1>4 DEF Reads, At
<1>6. \A k \in Existing : Doc(k).ancode = b => k = i
  BY <1>1, <1>4, <1>5, OnePreExam DEF PinStart
<1>7. \A t : Pinned(b, t) <=> d.fixed /\ d.time = t
  BY <1>4, <1>5, <1>6 DEF Pinned
<1>8. \A t \in Times : v = t <=> d.fixed /\ d.time = t
  BY PreplanAssumption
<1>9. plan'[b] = v /\ \A a \in Ancodes \ {b} : plan'[a] = plan[a]
  <2> HIDE DEF v, b
  <2>1. QED
    BY <1>1 DEF PinStart, Base, Shape
<1>10. \A a, t : Pinned(a, t)' <=> Pinned(a, t)
  <2>1. Existing' = Existing /\ \A k : Doc(k)' = Doc(k)
    BY <1>1 DEF Existing, Doc
  <2>2. QED
    BY <2>1, PinnedSame
<1> HIDE DEF v, b, d
<1>11. \A a \in Ancodes, t \in Times : plan'[a] = t <=> Pinned(a, t)'
  <2> SUFFICES ASSUME NEW a \in Ancodes, NEW t \in Times PROVE plan'[a] = t <=> Pinned(a, t)'
    OBVIOUS
  <2>1. CASE a = b
    BY <1>7, <1>8, <1>9, <1>10, <2>1
  <2>2. CASE a # b
    BY <1>2, <1>3, <1>9, <1>10, <2>2
  <2>3. QED
    BY <2>1, <2>2
<1>12. QED
  BY <1>1, <1>11, EndedReads, PinFrom DEF PinStart

LEMMA UnpinPin ==
    ASSUME NEW c \in Clients, PinStart(c), Unpin(c) PROVE PinFollows'
<1> DEFINE b == job[c].freed
<1>1. /\ Ended(c) /\ UNCHANGED pre /\ At(c, "unpin") /\ b \in Ancodes /\ job[c].op = "disconnect"
      /\ plan' = [plan EXCEPT ![b] = None]
  BY UnpinStep DEF PinStart, Base
<1>2. Reads(c) /\ \A a \in Ancodes, t \in Times : ~Owed(c, a) => (plan[a] = t <=> Pinned(a, t))
  BY PinBefore DEF PinStart
<1>3. \A a : Owed(c, a) => a = b
  BY <1>1 DEF Owed, At
<1>4. \A k \in Existing : Doc(k).ancode # b
  BY <1>1, <1>2, PreplanAssumption DEF Reads, At
<1>5. \A t : ~Pinned(b, t)
  BY <1>4 DEF Pinned
<1> HIDE DEF b
<1>6. plan'[b] = None /\ \A a \in Ancodes \ {b} : plan'[a] = plan[a]
  BY <1>1 DEF PinStart, Base, Shape
<1>7. \A a, t : Pinned(a, t)' <=> Pinned(a, t)
  <2>1. Existing' = Existing /\ \A k : Doc(k)' = Doc(k)
    BY <1>1 DEF Existing, Doc
  <2>2. QED
    BY <2>1, PinnedSame
<1>8. \A a \in Ancodes, t \in Times : plan'[a] = t <=> Pinned(a, t)'
  <2> SUFFICES ASSUME NEW a \in Ancodes, NEW t \in Times PROVE plan'[a] = t <=> Pinned(a, t)'
    OBVIOUS
  <2>1. CASE a = b
    BY <1>5, <1>6, <1>7, <2>1, PreplanAssumption
  <2>2. CASE a # b
    BY <1>2, <1>3, <1>6, <1>7, <2>2
  <2>3. QED
    BY <2>1, <2>2
<1>9. QED
  BY <1>1, <1>8, EndedReads, PinFrom DEF PinStart

LEMMA WorksPin ==
    ASSUME Base, ClaimsBounded, OneAtATime, PinFollows, NEW c \in Clients, Works(c) PROVE PinFollows'
<1> SUFFICES ASSUME Alone', Without(PinGaps)' PROVE PinFollows'
  BY DEF PinFollows
<1>1. OthersKept(c) /\ UNCHANGED bounds
  BY WorksShape DEF Worked
<1>2. Alone
  BY <1>1, AloneBefore DEF Base
<1>3. \A e \in Clients \ {c} : ~Busy(e) /\ ~Busy(e)'
  BY <1>1, <1>2, WorksExisting, AloneIdle
<1>4. CASE Abort(c)
  BY <1>4, AbortStep DEF Base, Without, PinGaps
<1>5. CASE ~Abort(c)
  <2>1. UNCHANGED gaps
    BY <1>5, InsertStep, ReplaceStep, MirrorStep, ReplaceOtherStep, PersistStep, SyncStep, CarryStep, PinStep,
       ReleaseStep, UnpinStep DEF Base, Works
  <2>2. PinStart(c)
    BY <1>2, <1>3, <2>1 DEF PinStart, Without
  <2>3. QED
    BY <1>5, <2>2, InsertPin, ReplacePin, LinkPin, PersistPin, CarryPin, PinPin, UnpinPin DEF Works
<1>6. QED
  BY <1>4, <1>5

LEMMA StartedPin ==
    ASSUME Base, OneAtATime, PinFollows, NEW c \in Clients, Started(c),
           Adds(c) \/ Sweeps(c) \/ \E i \in Existing : Edits(c, i)
    PROVE  PinFollows'
<1> SUFFICES ASSUME Alone', Without(PinGaps)' PROVE PinFollows'
  BY DEF PinFollows
<1>1. /\ Alone /\ Quiet /\ OthersKept(c) /\ UNCHANGED <<pre, plan>> /\ Busy(c)' /\ Without(PinGaps)
      /\ \A g \in PinGaps : g \notin gaps'
  BY AloneBefore DEF Base, Started, Without
<1>2. \A e \in Clients \ {c} : ~Busy(e) /\ ~Busy(e)'
  BY <1>1 DEF Quiet, OthersKept, Busy
<1>3. Existing' = Existing /\ \A k : Doc(k)' = Doc(k)
  BY <1>1 DEF Existing, Doc
<1>4. \A i, d : SamePin(i, d)' <=> SamePin(i, d)
  BY <1>3 DEF SamePin
<1>5. \A a \in Ancodes, t \in Times : plan'[a] = t <=> Pinned(a, t)'
  <2>1. \A a : ~Owed(c, a)
    BY <1>1 DEF Quiet, Owed, At
  <2>2. \A a, t : Pinned(a, t)' <=> Pinned(a, t)
    BY <1>3, PinnedSame
  <2>3. QED
    BY <1>1, <1>2, <2>1, <2>2, PinBefore
<1>6. CASE Adds(c)
  <2>1. Reads(c)'
    BY <1>6 DEF Adds, Reads, Holds, At
  <2>2. QED
    BY <1>2, <1>5, <2>1, PinFrom
<1>7. CASE Sweeps(c)
  <2>1. \A i \in Ids, d \in Docs : Holds(c, i, d)' => SamePin(i, d)
    BY <1>1, <1>7 DEF Sweeps, Holds, At, PinGaps
  <2>2. Reads(c)'
    BY <1>4, <1>7, <2>1 DEF Sweeps, Reads, At
  <2>3. QED
    BY <1>2, <1>5, <2>2, PinFrom
<1>8. ASSUME NEW i \in Existing, Edits(c, i) PROVE PinFollows'
  <2> DEFINE d == job'[c].doc
             o == job'[c].op
  <2>1. \A k, x : Holds(c, k, x)' => k = i /\ x = d
    BY <1>8 DEF Edits, Holds, At
  <2>2. o \in {"update", "time", "pair", "same"} => SamePin(i, d)
    <3>1. CASE o = "update"
      <4>1. d = Doc(i)
        BY <1>1, <1>8, <3>1 DEF Edits, PinGaps
      <4>2. QED
        BY <4>1 DEF SamePin
    <3>2. CASE o = "time"
      <4>1. d.ancode = Doc(i).ancode /\ d.fixed = Doc(i).fixed /\ ~d.fixed
        BY <1>1, <1>8, <3>2 DEF Edits, PinGaps
      <4>2. QED
        BY <4>1, Zenon DEF SamePin
    <3>3. CASE o \in {"pair", "same"}
      <4>1. d.ancode = Doc(i).ancode /\ d.fixed = Doc(i).fixed /\ d.time = Doc(i).time
        BY <1>8, <3>3 DEF Edits
      <4>2. QED
        BY <4>1, Zenon DEF SamePin
    <3>4. QED
      BY <3>1, <3>2, <3>3
  <2>3. o \in {"update", "time", "fixed", "pair", "same", "connect", "disconnect"}
    BY <1>8 DEF Edits
  <2>4. job'[c].id = i /\ At(c, "replace")'
    BY <1>1, <1>8 DEF Edits, At
  <2>5. o = "fixed" => d.ancode = Doc(i).ancode /\ d.time = Doc(i).time
    BY <1>8 DEF Edits
  <2>6. o \in {"connect", "disconnect"} => d.fixed = Doc(i).fixed /\ d.time = Doc(i).time
    BY <1>8 DEF Edits
  <2>7. o = "connect" => /\ Doc(i).ancode \in {None, d.ancode}
                         /\ \A k \in Existing \ {i} : Doc(k).ancode # d.ancode
    BY <1>1, <1>8 DEF Edits, PinGaps
  <2>8. o = "disconnect" => d.ancode = None /\ job'[c].freed = Doc(i).ancode
    BY <1>8 DEF Edits
  <2>9. \A k \in Ids, x \in Docs : Holds(c, k, x)' /\ o \notin {"fixed", "connect", "disconnect"} => SamePin(k, x)'
    BY <1>4, <2>1, <2>2, <2>3
  <2> HIDE DEF d, o
  <2>10. Reads(c)'
    BY <1>3, <2>4, <2>5, <2>6, <2>7, <2>8, <2>9 DEF Reads, d, o
  <2>11. QED
    BY <1>2, <1>5, <2>10, PinFrom
<1>9. QED
  BY <1>6, <1>7, <1>8

LEMMA DeletePin ==
    ASSUME NEW c \in Clients, NEW i \in Existing, DeletePreplanExam(c, i) PROVE PinFollows' /\ LinksFollow'
  BY DEF DeletePreplanExam, PinFollows, LinksFollow, Without, PinGaps, LinkGaps

-----------------------------------------------------------------------------
(* The links. *)

LEMMA SideShape ==
    ASSUME NEW op \in {"pair", "same"}, NEW d \in Docs PROVE Side(op, d) \in SUBSET Ids
  BY DEF Side, Docs

\* Documents with the same lists.
LEMMA SidesSame ==
    ASSUME NEW d, NEW e, d.notSame = e.notSame, d.same = e.same
    PROVE  \A op : Side(op, d) = Side(op, e)
  BY DEF Side

\* An idle client mends nothing.
LEMMA LinksFrom ==
    ASSUME NEW c \in Clients, \A e \in Clients \ {c} : ~Busy(e)', LinkReads(c)',
           \A op \in {"pair", "same"}, i \in Existing' : \A k \in Side(op, Doc(i)') :
               k \in Existing' /\ k # i /\ (i \in Side(op, Doc(k)') \/ Mending(c, op, i, k)')
    PROVE  LinksFollow'
<1>1. \A e \in Clients : LinkReads(e)'
  <2> SUFFICES ASSUME NEW e \in Clients \ {c} PROVE LinkReads(e)'
    OBVIOUS
  <2>1. QED
    BY DEF LinkReads, Holds, At
<1>2. \A op, d : Side(op, d)' = Side(op, d)
  BY DEF Side
<1>3. QED
  BY <1>1, <1>2 DEF LinksFollow

LEMMA LinksBefore ==
    ASSUME LinksFollow, Alone, Without(LinkGaps), NEW c \in Clients, \A e \in Clients \ {c} : ~Busy(e)
    PROVE  /\ LinkReads(c)
           /\ \A op \in {"pair", "same"}, i \in Existing : \A k \in Side(op, Doc(i)) :
                 k \in Existing /\ k # i /\ (i \in Side(op, Doc(k)) \/ Mending(c, op, i, k))
<1>1. \A e \in Clients \ {c} : \A op, i, k : ~Mending(e, op, i, k)
  BY DEF Mending
<1>2. QED
  BY <1>1 DEF LinksFollow

\* A client that is not mirroring mends nothing either.
LEMMA NotMending ==
    ASSUME NEW c, ~(At(c, "mirror") \/ At(c, "replaceOther")) PROVE \A op, i, k : ~Mending(c, op, i, k)
  BY DEF Mending, Open

LinkStart(c) ==
    /\ Base /\ OneAtATime /\ LinksFollow /\ Alone /\ Without(LinkGaps)
    /\ \A e \in Clients \ {c} : ~Busy(e) /\ ~Busy(e)'

\* Nothing about the links changes in a step outside of mirroring.
LEMMA LinksKept ==
    ASSUME NEW c \in Clients, LinkStart(c), ~(At(c, "mirror") \/ At(c, "replaceOther")), LinkReads(c)',
           Existing' = Existing,
           \A k \in Existing : Doc(k)'.notSame = Doc(k).notSame /\ Doc(k)'.same = Doc(k).same
    PROVE  LinksFollow'
<1>1. \A op \in {"pair", "same"}, i \in Existing : \A k \in Side(op, Doc(i)) :
         k \in Existing /\ k # i /\ i \in Side(op, Doc(k))
  BY LinksBefore, NotMending DEF LinkStart
<1>2. \A k \in Existing : \A op : Side(op, Doc(k)') = Side(op, Doc(k))
  BY DEF Side
<1>3. QED
  BY <1>1, <1>2, LinksFrom DEF LinkStart

LEMMA EndedLinks == ASSUME NEW c \in Clients, Ended(c) PROVE LinkReads(c)'
  BY DEF LinkReads, Ended, Holds, At, Busy

LEMMA InsertLinks ==
    ASSUME NEW c \in Clients, LinkStart(c), InsertPreplanExam(c) PROVE LinksFollow'
<1>1. PICK i \in Ids : i = job[c].id
  BY InsertStep DEF LinkStart, Base
<1>2. At(c, "insert") /\ Ended(c) /\ pre' = [pre EXCEPT ![i] = Append(@, New)]
  BY <1>1, InsertStep DEF LinkStart, Base
<1>3. i \notin Existing
  BY <1>1, <1>2 DEF LinkStart, OneAtATime, Existing
<1>4. Existing' = Existing \cup {i} /\ Doc(i)' = New /\ \A k \in Existing : Doc(k)' = Doc(k)
  BY <1>2, <1>3, InsertedDocs DEF LinkStart, Base
<1>5. \A op : Side(op, New) = {}
  BY DEF New, Side
<1>6. \A op \in {"pair", "same"}, x \in Existing : \A k \in Side(op, Doc(x)) :
         k \in Existing /\ k # x /\ x \in Side(op, Doc(k))
  BY <1>2, LinksBefore, NotMending DEF LinkStart, At
<1>7. \A op \in {"pair", "same"}, x \in Existing' : \A k \in Side(op, Doc(x)') :
         k \in Existing' /\ k # x /\ x \in Side(op, Doc(k)')
  BY <1>4, <1>5, <1>6
<1>8. QED
  BY <1>2, <1>7, EndedLinks, LinksFrom DEF LinkStart

LEMMA PersistLinks ==
    ASSUME NEW c \in Clients, LinkStart(c), Persist(c) PROVE LinksFollow'
<1>1. At(c, "persist") /\ job[c].op \in {"reset", "generate"}
  BY PersistStep DEF LinkStart, Base, SweepJobs
<1>2. ~(At(c, "mirror") \/ At(c, "replaceOther"))
  BY <1>1 DEF At
<1>3. CASE Ended(c) /\ UNCHANGED pre
  <2>1. Existing' = Existing /\ \A k : Doc(k)' = Doc(k)
    BY <1>3 DEF Existing, Doc
  <2>2. QED
    BY <1>2, <1>3, <2>1, EndedLinks, LinksKept
<1>4. ASSUME NEW i \in Ids, NEW d \in Docs, <<i, d>> \in job[c].rest,
             pre' = Replaced(i, d) \/ pre' = UpsertPreplanExam(i, d),
             Kept(c, "persist"), job'[c].rest = job[c].rest \ {<<i, d>>}
      PROVE  LinksFollow'
  <2>1. Holds(c, i, d) /\ \A k, e : Holds(c, k, e)' => Holds(c, k, e)
    BY <1>1, <1>4 DEF Holds, Kept, At
  <2>2. i \in Existing /\ Existing' = Existing /\ Doc(i)' = d /\ \A k \in Existing \ {i} : Doc(k)' = Doc(k)
    BY <1>4, <2>1, Written DEF LinkStart
  <2>3. \A k \in Ids, e \in Docs : Holds(c, k, e) =>
           k \in Existing /\ e.notSame = Doc(k).notSame /\ e.same = Doc(k).same
    BY <1>1, LinksBefore DEF LinkReads, LinkStart, OneAtATime
  <2>4. \A k \in Existing : Doc(k)'.notSame = Doc(k).notSame /\ Doc(k)'.same = Doc(k).same
    BY <2>1, <2>2, <2>3
  <2>5. \A k \in Ids, e \in Docs : Holds(c, k, e)' => e.notSame = Doc(k)'.notSame /\ e.same = Doc(k)'.same
    BY <2>1, <2>3, <2>4
  <2>6. LinkReads(c)'
    BY <1>1, <1>4, <2>5 DEF LinkReads, Kept, At
  <2>7. QED
    BY <1>2, <2>2, <2>4, <2>6, LinksKept
<1>5. QED
  BY <1>3, <1>4, PersistStep DEF LinkStart, Base

LEMMA ConnectLinks ==
    ASSUME NEW c \in Clients, LinkStart(c), Sync(c) \/ Carry(c) \/ Pin(c) \/ Release(c) \/ Unpin(c)
    PROVE  LinksFollow'
<1>1. /\ UNCHANGED pre
      /\ At(c, "sync") \/ At(c, "carry") \/ At(c, "pin") \/ At(c, "release") \/ At(c, "unpin")
      /\ Ended(c) \/ \E s \in {"carry", "pin", "release", "unpin"} : Kept(c, s)
  BY SyncStep, CarryStep, PinStep, ReleaseStep, UnpinStep DEF LinkStart, Base
<1>2. job[c].op \in {"fixed", "connect", "disconnect"}
  <2>1. CASE At(c, "pin")
    BY <2>1 DEF LinkStart, Base, StepsOK, StepOK
  <2>2. CASE ~At(c, "pin")
    <3>1. job[c] \in Jobs /\ job[c] # Idle /\ job[c].step \in {"sync", "carry", "release", "unpin"}
      BY <1>1, <2>2 DEF LinkStart, Base, Shape, At, Busy
    <3>2. QED
      BY <3>1, JobByStep DEF ConnectJobs
  <2>3. QED
    BY <2>1, <2>2
<1>3. LinkReads(c)'
  <2>1. CASE Ended(c)
    BY <2>1, EndedLinks
  <2>2. ASSUME NEW s \in {"carry", "pin", "release", "unpin"}, Kept(c, s) PROVE LinkReads(c)'
    BY <1>2, <2>2 DEF LinkReads, Kept, Holds, At
  <2>3. QED
    BY <1>1, <2>1, <2>2
<1>4. ~(At(c, "mirror") \/ At(c, "replaceOther"))
  BY <1>1 DEF At
<1>5. Existing' = Existing /\ \A k : Doc(k)' = Doc(k)
  BY <1>1 DEF Existing, Doc
<1>6. QED
  BY <1>3, <1>4, <1>5, LinksKept

\* The two lists of a document.
LEMMA TwoSides ==
    ASSUME NEW o \in {"pair", "same"}, NEW op \in {"pair", "same"}, op # o
    PROVE  \A d : Side(op, d) = Aside(o, d)
  BY DEF Side, Aside

LEMMA ReplaceLinks ==
    ASSUME NEW c \in Clients, LinkStart(c), Replace(c) PROVE LinksFollow'
<1> DEFINE j == job[c]
<1>1. PICK i \in Ids : i = j.id
  BY ReplaceStep DEF LinkStart, Base
<1>2. PICK d \in Docs : d = j.doc
  BY ReplaceStep DEF LinkStart, Base
<1>3. At(c, "replace") /\ Holds(c, i, d) /\ pre' = Replaced(i, d)
  BY <1>1, <1>2, ReplaceStep DEF LinkStart, Base, Holds
<1>4. i \in Existing /\ Existing' = Existing /\ Doc(i)' = d /\ \A k \in Existing \ {i} : Doc(k)' = Doc(k)
  BY <1>3, Written DEF LinkStart
<1>5. ~(At(c, "mirror") \/ At(c, "replaceOther"))
  BY <1>3 DEF At
<1>6. /\ LinkReads(c)
      /\ \A op \in {"pair", "same"}, x \in Existing : \A k \in Side(op, Doc(x)) :
            k \in Existing /\ k # x /\ x \in Side(op, Doc(k))
  BY <1>5, LinksBefore, NotMending DEF LinkStart
<1>7. CASE j.op \notin {"pair", "same"}
  <2>1. d.notSame = Doc(i).notSame /\ d.same = Doc(i).same
    BY <1>3, <1>6, <1>7 DEF LinkReads
  <2>2. Ended(c) \/ Kept(c, "sync") \/ Kept(c, "pin")
    BY <1>7, ReplaceStep DEF LinkStart, Base
  <2>3. LinkReads(c)'
    BY <1>7, <2>2 DEF LinkReads, Kept, Ended, Holds, At, Busy
  <2>4. QED
    BY <1>4, <1>5, <2>1, <2>3, LinksKept
<1>8. CASE j.op \in {"pair", "same"}
  <2>1. PICK o \in {"pair", "same"} : o = j.op
    BY <1>8
  <2>2. PICK rest : rest = j.rest
    OBVIOUS
  <2>3. /\ Aside(o, d) = Aside(o, Doc(i))
        /\ Side(o, d) \subseteq Existing \ {i}
        /\ \A r \in rest : r[1] # i /\ (r[2] <=> r[1] \in Side(o, d))
        /\ \A k \in Ids : (\A r \in rest : r[1] # k) => (k \in Side(o, d) <=> k \in Side(o, Doc(i)))
    BY <1>1, <1>2, <1>3, <1>6, <2>1, <2>2 DEF LinkReads
  <2>4. /\ Busy(c)' /\ job'[c].step = "mirror" /\ job'[c].op = o /\ job'[c].id = i /\ job'[c].rest = rest
    BY <1>1, <1>8, <2>1, <2>2, ReplaceStep DEF LinkStart, Base, Kept
  <2>5. \A r \in rest : r[2] <=> r[1] \in Side(o, Doc(i)')
    BY <1>4, <2>3
  <2>6. \A x, y : Side(x, y)' = Side(x, y)
    BY DEF Side
  <2>7. LinkReads(c)'
    BY <2>3, <2>4, <2>5, <2>6 DEF LinkReads, Holds, At
  <2>8. ASSUME NEW k, NEW r \in rest, r[1] = k PROVE Mending(c, o, i, k)' /\ Mending(c, o, k, i)'
    BY <2>4, <2>8 DEF Mending, Open, At
  <2>9. ASSUME NEW x \in Existing, NEW k \in Side(o, Doc(x)')
        PROVE  k \in Existing /\ k # x /\ (x \in Side(o, Doc(k)') \/ Mending(c, o, x, k)')
    <3>1. CASE x = i
      <4>1. k \in Side(o, d) /\ k \in Existing \ {i} /\ k \in Ids
        BY <1>4, <2>3, <2>9, <3>1 DEF Existing
      <4>2. CASE \E r \in rest : r[1] = k
        BY <2>8, <3>1, <4>1, <4>2
      <4>3. CASE \A r \in rest : r[1] # k
        BY <1>4, <1>6, <2>3, <3>1, <4>1, <4>3
      <4>4. QED
        BY <4>2, <4>3
    <3>2. CASE x # i
      <4>1. k \in Side(o, Doc(x)) /\ k \in Existing /\ k # x /\ x \in Side(o, Doc(k)) /\ x \in Ids
        BY <1>4, <1>6, <2>9, <3>2 DEF Existing
      <4>2. CASE k # i
        BY <1>4, <4>1, <4>2
      <4>3. CASE k = i /\ \E r \in rest : r[1] = x
        BY <2>8, <4>1, <4>3
      <4>4. CASE k = i /\ \A r \in rest : r[1] # x
        BY <1>4, <2>3, <4>1, <4>4
      <4>5. QED
        BY <4>2, <4>3, <4>4
    <3>3. QED
      BY <3>1, <3>2
  <2>10. ASSUME NEW op \in {"pair", "same"}, op # o, NEW x \in Existing, NEW k \in Side(op, Doc(x)')
         PROVE  k \in Existing /\ k # x /\ x \in Side(op, Doc(k)')
    <3>1. \A y \in Existing : Side(op, Doc(y)') = Side(op, Doc(y))
      BY <1>4, <2>3, <2>10, TwoSides
    <3>2. QED
      BY <1>6, <2>10, <3>1
  <2>11. QED
    BY <1>4, <2>7, <2>9, <2>10, LinksFrom DEF LinkStart
<1>9. QED
  BY <1>7, <1>8

LEMMA MirrorLinks ==
    ASSUME NEW c \in Clients, LinkStart(c), Mirror(c) PROVE LinksFollow'
<1> DEFINE j == job[c]
<1>1. At(c, "mirror") /\ UNCHANGED pre /\ j \in LinkJobs
  BY MirrorStep DEF LinkStart, Base
<1>2. PICK o \in {"pair", "same"}, i \in Ids, rest \in Links : o = j.op /\ i = j.id /\ rest = j.rest
  BY <1>1 DEF LinkJobs
<1>3. Existing' = Existing /\ (\A k : Doc(k)' = Doc(k)) /\ \A x, y : Side(x, y)' = Side(x, y)
  BY <1>1 DEF Existing, Doc, Side
<1>4. /\ LinkReads(c)
      /\ \A op \in {"pair", "same"}, x \in Existing : \A k \in Side(op, Doc(x)) :
            k \in Existing /\ k # x /\ (x \in Side(op, Doc(k)) \/ Mending(c, op, x, k))
  BY LinksBefore DEF LinkStart
<1>5. \A r \in rest : r[1] # i /\ (r[2] <=> r[1] \in Side(o, Doc(i)))
  BY <1>1, <1>2, <1>4 DEF LinkReads
<1>6. \A op, x, k : Mending(c, op, x, k) <=>
         /\ op = o
         /\ (x = i /\ \E r \in rest : r[1] = k) \/ (k = i /\ \E r \in rest : r[1] = x)
  BY <1>1, <1>2 DEF Mending, Open, At
<1>7. ASSUME LinkReads(c)',
             \A op \in {"pair", "same"}, x \in Existing : \A k \in Side(op, Doc(x)) :
                Mending(c, op, x, k) => x \in Side(op, Doc(k)) \/ Mending(c, op, x, k)'
      PROVE  LinksFollow'
  BY <1>3, <1>4, <1>7, LinksFrom DEF LinkStart
<1>8. CASE j.rest = {} /\ Ended(c)
  BY <1>2, <1>6, <1>7, <1>8, EndedLinks
<1>9. ASSUME NEW r \in j.rest, r[1] \in Existing, r[2] \in BOOLEAN, Turned(c, r) PROVE LinksFollow'
  <2> DEFINE d == Linked(o, r[1], i, r[2])
  <2>1. /\ Busy(c)' /\ job'[c].step = "replaceOther" /\ job'[c].op = o /\ job'[c].id = i
        /\ job'[c].other = r[1] /\ job'[c].rest = rest \ {r} /\ job'[c].doc = d
    BY <1>2, <1>9 DEF Turned
  <2>2. /\ Aside(o, d) = Aside(o, Doc(r[1])) /\ (i \in Side(o, d) <=> r[2])
        /\ \A k \in Ids \ {i} : k \in Side(o, d) <=> k \in Side(o, Doc(r[1]))
    BY <1>9, LinkedDoc DEF LinkStart, Base
  <2>3. r \in rest /\ r[1] # i /\ (r[2] <=> r[1] \in Side(o, Doc(i)))
    BY <1>2, <1>5, <1>9
  <2> HIDE DEF d
  <2>4. \A x, y : Aside(x, y)' = Aside(x, y)
    BY DEF Aside
  <2>5. LinkReads(c)'
    BY <1>3, <1>5, <2>1, <2>2, <2>3, <2>4 DEF LinkReads, Holds, At
  <2>6. \A op, x, k : Mending(c, op, x, k) => Mending(c, op, x, k)'
    BY <1>6, <2>1, <2>3 DEF Mending, Open, At
  <2>7. QED
    BY <1>7, <2>5, <2>6
<1>10. ASSUME NEW r \in j.rest, r[1] \in Existing => j.op = "same" /\ r[2] /\ j.id \in Doc(r[1]).same,
              Kept(c, "mirror"), job'[c].rest = j.rest \ {r}
       PROVE  LinksFollow'
  <2>1. /\ Busy(c)' /\ job'[c].step = "mirror" /\ job'[c].op = o /\ job'[c].id = i
        /\ job'[c].rest = rest \ {r} /\ r \in rest
    BY <1>2, <1>10 DEF Kept
  <2>2. r[1] \in Existing => r[2] /\ i \in Side(o, Doc(r[1]))
    BY <1>2, <1>10 DEF Side
  <2>3. LinkReads(c)'
    BY <1>3, <1>5, <2>1 DEF LinkReads, Holds, At
  <2>4. \A op, x, k : (op = o /\ ((x = i /\ \E q \in rest \ {r} : q[1] = k) \/ (k = i /\ \E q \in rest \ {r} : q[1] = x)))
           => Mending(c, op, x, k)'
    BY <2>1 DEF Mending, Open, At
  <2>5. ASSUME NEW op \in {"pair", "same"}, NEW x \in Existing, NEW k \in Side(op, Doc(x)), Mending(c, op, x, k)
        PROVE  x \in Side(op, Doc(k)) \/ Mending(c, op, x, k)'
    <3>1. op = o /\ k \in Existing
      BY <1>4, <1>6, <2>5
    <3>2. CASE x = i /\ k = r[1]
      BY <2>2, <3>1, <3>2
    <3>3. CASE k = i /\ x = r[1]
      BY <1>5, <2>1, <2>2, <3>1, <3>3
    <3>4. CASE ~(x = i /\ k = r[1]) /\ ~(k = i /\ x = r[1])
      BY <1>6, <2>4, <2>5, <3>4
    <3>5. QED
      BY <3>2, <3>3, <3>4
  <2>6. QED
    BY <1>7, <2>3, <2>5
<1>11. QED
  BY <1>8, <1>9, <1>10, MirrorStep DEF LinkStart, Base

LEMMA ReplaceOtherLinks ==
    ASSUME NEW c \in Clients, LinkStart(c), ReplaceOther(c) PROVE LinksFollow'
<1> DEFINE j == job[c]
<1>1. /\ At(c, "replaceOther") /\ j \in LinkJobs /\ j.other \in Ids /\ pre' = Replaced(j.other, j.doc)
      /\ Kept(c, "mirror") /\ job'[c].rest = j.rest
  BY ReplaceOtherStep DEF LinkStart, Base
<1>2. PICK o \in {"pair", "same"}, i \in Ids, rest \in Links : o = j.op /\ i = j.id /\ rest = j.rest
  BY <1>1 DEF LinkJobs
<1>3. PICK m \in Ids, d \in Docs : m = j.other /\ d = j.doc
  BY <1>1 DEF LinkJobs
<1>4. Holds(c, m, d) /\ pre' = Replaced(m, d)
  BY <1>1, <1>3 DEF Holds
<1>5. m \in Existing /\ Existing' = Existing /\ Doc(m)' = d /\ \A k \in Existing \ {m} : Doc(k)' = Doc(k)
  BY <1>4, Written DEF LinkStart
<1>6. i \in Existing
  BY <1>1, <1>2 DEF LinkStart, OneAtATime, At
<1>7. /\ LinkReads(c)
      /\ \A op \in {"pair", "same"}, x \in Existing : \A k \in Side(op, Doc(x)) :
            k \in Existing /\ k # x /\ (x \in Side(op, Doc(k)) \/ Mending(c, op, x, k))
  BY LinksBefore DEF LinkStart
<1>8. /\ \A r \in rest : r[1] # i /\ (r[2] <=> r[1] \in Side(o, Doc(i)))
      /\ m # i /\ Aside(o, d) = Aside(o, Doc(m))
      /\ i \in Side(o, d) <=> m \in Side(o, Doc(i))
      /\ \A k \in Ids \ {i} : k \in Side(o, d) <=> k \in Side(o, Doc(m))
  BY <1>1, <1>2, <1>3, <1>7 DEF LinkReads
<1>9. \A op, x, k : Mending(c, op, x, k) =>
         /\ op = o
         /\ (x = i /\ (k = m \/ \E r \in rest : r[1] = k)) \/ (k = i /\ (x = m \/ \E r \in rest : r[1] = x))
  BY <1>1, <1>2, <1>3 DEF Mending, Open, At
<1>10. Busy(c)' /\ job'[c].step = "mirror" /\ job'[c].op = o /\ job'[c].id = i /\ job'[c].rest = rest
  BY <1>1, <1>2 DEF Kept
<1>11. \A x, k : (x = i /\ \E r \in rest : r[1] = k) \/ (k = i /\ \E r \in rest : r[1] = x) => Mending(c, o, x, k)'
  BY <1>10 DEF Mending, Open, At
<1>12. LinkReads(c)'
  <2>1. Doc(i)' = Doc(i)
    BY <1>5, <1>6, <1>8
  <2>2. \A x, y : Side(x, y)' = Side(x, y)
    BY DEF Side
  <2>3. QED
    BY <1>8, <1>10, <2>1, <2>2 DEF LinkReads, Holds, At
<1>13. ASSUME NEW x \in Existing, NEW k \in Side(o, Doc(x)')
       PROVE  k \in Existing /\ k # x /\ (x \in Side(o, Doc(k)') \/ Mending(c, o, x, k)')
  <2>1. x \in Ids /\ Side(o, d) \in SUBSET Ids
    BY SideShape DEF Existing
  <2>2. CASE x = m /\ k = i
    BY <1>5, <1>6, <1>8, <1>13, <2>2
  <2>3. CASE x = m /\ k # i
    <3>1. k \in Side(o, Doc(m))
      BY <1>5, <1>8, <1>13, <2>1, <2>3
    <3>2. k \in Existing /\ k # m /\ m \in Side(o, Doc(k))
      BY <1>5, <1>7, <1>8, <1>9, <2>3, <3>1
    <3>3. QED
      BY <1>5, <2>3, <3>2
  <2>4. CASE x # m
    <3>1. k \in Side(o, Doc(x)) /\ k \in Existing /\ k # x /\ (x \in Side(o, Doc(k)) \/ Mending(c, o, x, k))
      BY <1>5, <1>7, <1>13, <2>4
    <3>2. CASE k = m /\ x = i
      BY <1>5, <1>8, <3>1, <3>2
    <3>3. CASE k = m /\ x # i
      <4>1. x \in Side(o, Doc(m))
        BY <1>8, <1>9, <3>1, <3>3
      <4>2. QED
        BY <1>5, <1>8, <2>1, <3>1, <3>3, <4>1
    <3>4. CASE k # m
      <4>1. Doc(k)' = Doc(k)
        BY <1>5, <3>1, <3>4
      <4>2. Mending(c, o, x, k) => Mending(c, o, x, k)'
        BY <1>9, <1>11, <2>4, <3>4
      <4>3. QED
        BY <3>1, <4>1, <4>2
    <3>5. QED
      BY <3>2, <3>3, <3>4
  <2>5. QED
    BY <2>2, <2>3, <2>4
<1>14. ASSUME NEW op \in {"pair", "same"}, op # o, NEW x \in Existing, NEW k \in Side(op, Doc(x)')
       PROVE  k \in Existing /\ k # x /\ x \in Side(op, Doc(k)')
  <2>1. \A y \in Existing : Side(op, Doc(y)') = Side(op, Doc(y))
    BY <1>5, <1>8, <1>14, TwoSides
  <2>2. QED
    BY <1>7, <1>9, <1>14, <2>1
<1>15. QED
  BY <1>5, <1>12, <1>13, <1>14, LinksFrom DEF LinkStart

LEMMA WorksLinks ==
    ASSUME Base, OneAtATime, LinksFollow, NEW c \in Clients, Works(c) PROVE LinksFollow'
<1> SUFFICES ASSUME Alone', Without(LinkGaps)' PROVE LinksFollow'
  BY DEF LinksFollow
<1>1. OthersKept(c) /\ UNCHANGED bounds
  BY WorksShape DEF Worked
<1>2. Alone
  BY <1>1, AloneBefore DEF Base
<1>3. \A e \in Clients \ {c} : ~Busy(e) /\ ~Busy(e)'
  BY <1>1, <1>2, WorksExisting, AloneIdle
<1>4. CASE Abort(c)
  BY <1>4, AbortStep DEF Base, Without, LinkGaps
<1>5. CASE ~Abort(c)
  <2>1. UNCHANGED gaps
    BY <1>5, InsertStep, ReplaceStep, MirrorStep, ReplaceOtherStep, PersistStep, SyncStep, CarryStep, PinStep,
       ReleaseStep, UnpinStep DEF Base, Works
  <2>2. LinkStart(c)
    BY <1>2, <1>3, <2>1 DEF LinkStart, Without
  <2>3. QED
    BY <1>5, <2>2, InsertLinks, ReplaceLinks, MirrorLinks, ReplaceOtherLinks, PersistLinks, ConnectLinks DEF Works
<1>6. QED
  BY <1>4, <1>5

LEMMA StartedLinks ==
    ASSUME Base, LinksFollow, NEW c \in Clients, Started(c),
           Adds(c) \/ Sweeps(c) \/ \E i \in Existing : Edits(c, i)
    PROVE  LinksFollow'
<1> SUFFICES ASSUME Alone', Without(LinkGaps)' PROVE LinksFollow'
  BY DEF LinksFollow
<1>1. /\ Alone /\ Quiet /\ OthersKept(c) /\ UNCHANGED pre /\ Busy(c)' /\ Without(LinkGaps)
      /\ \A g \in LinkGaps : g \notin gaps'
  BY AloneBefore DEF Base, Started, Without
<1>2. \A e \in Clients \ {c} : ~Busy(e) /\ ~Busy(e)'
  BY <1>1 DEF Quiet, OthersKept, Busy
<1>3. Existing' = Existing /\ (\A k : Doc(k)' = Doc(k)) /\ \A x, y : Side(x, y)' = Side(x, y)
  BY <1>1 DEF Existing, Doc, Side
<1>4. \A op \in {"pair", "same"}, x \in Existing : \A k \in Side(op, Doc(x)) :
         k \in Existing /\ k # x /\ x \in Side(op, Doc(k))
  <2>1. ~(At(c, "mirror") \/ At(c, "replaceOther"))
    BY <1>1 DEF Quiet, At
  <2>2. QED
    BY <1>1, <1>2, <2>1, LinksBefore, NotMending
<1>5. LinkReads(c)' => LinksFollow'
  BY <1>2, <1>3, <1>4, LinksFrom
<1>6. CASE Adds(c)
  <2>1. LinkReads(c)'
    BY <1>6 DEF Adds, LinkReads, Holds, At
  <2>2. QED
    BY <1>5, <2>1
<1>7. CASE Sweeps(c)
  <2>1. \A i \in Ids, d \in Docs : Holds(c, i, d)' => d.notSame = Doc(i).notSame /\ d.same = Doc(i).same
    BY <1>7 DEF Sweeps, Holds, At
  <2>2. LinkReads(c)'
    BY <1>3, <1>7, <2>1 DEF Sweeps, LinkReads, At
  <2>3. QED
    BY <1>5, <2>2
<1>8. ASSUME NEW i \in Existing, Edits(c, i) PROVE LinksFollow'
  <2> DEFINE d == job'[c].doc
             o == job'[c].op
             rest == job'[c].rest
  <2>1. \A k, x : Holds(c, k, x)' => k = i /\ x = d
    BY <1>8 DEF Edits, Holds, At
  <2>2. o \notin {"pair", "same"} => d.notSame = Doc(i).notSame /\ d.same = Doc(i).same
    <3>1. CASE o = "update"
      BY <1>1, <1>8, <3>1 DEF Edits, LinkGaps
    <3>2. CASE o # "update"
      BY <1>8, <3>2 DEF Edits
    <3>3. QED
      BY <3>1, <3>2
  <2>3. job'[c].id = i /\ At(c, "replace")' /\ i \in Ids
    BY <1>1, <1>8 DEF Edits, At, Existing
  <2>4. ASSUME o \in {"pair", "same"}
        PROVE  /\ Aside(o, d) = Aside(o, Doc(i)) /\ Side(o, d) \subseteq Existing \ {i}
               /\ \A r \in rest : r[1] # i /\ (r[2] <=> r[1] \in Side(o, d))
               /\ \A k \in Ids : (\A r \in rest : r[1] # k) => (k \in Side(o, d) <=> k \in Side(o, Doc(i)))
    <3>1. \A k \in Side(o, Doc(i)) : k \in Existing \ {i}
      BY <1>4, <2>4
    <3>2. QED
      BY <1>8, <2>4, <3>1 DEF Edits
  <2>5. \A k, x : Holds(c, k, x)' /\ o \notin {"pair", "same"} => x.notSame = Doc(k)'.notSame /\ x.same = Doc(k)'.same
    BY <1>3, <2>1, <2>2
  <2>6. ~At(c, "mirror")' /\ ~At(c, "replaceOther")' /\ \A x, y : Aside(x, y)' = Aside(x, y)
    BY <2>3 DEF At, Aside
  <2> HIDE DEF d, o, rest
  <2>7. LinkReads(c)'
    BY <1>3, <2>3, <2>4, <2>5, <2>6 DEF LinkReads, d, o, rest
  <2>8. QED
    BY <1>5, <2>7
<1>9. QED
  BY <1>6, <1>7, <1>8

-----------------------------------------------------------------------------
(* The invariant. *)

LEMMA InitIInv == Init => IInv
<1> SUFFICES ASSUME Init PROVE IInv
  OBVIOUS
<1>1. New \in Docs /\ New.ancode = None /\ New.notSame = {} /\ New.same = {} /\ New.fixed = FALSE
  BY DEF New, Docs
<1>2. <<New>> \in Seq(Docs) /\ <<New>> # <<>> /\ Len(<<New>>) = 1 /\ Head(<<New>>) = New
  BY <1>1
<1>3. \A i \in Ids : pre[i] = <<New>>
  BY DEF Init
<1>4. Existing = Ids /\ \A i \in Ids : Doc(i) = New
  BY <1>2, <1>3 DEF Existing, Doc
<1>5. Quiet /\ \A c \in Clients : job[c] = Idle
  BY DEF Init, Quiet, Busy
<1>6. Shape
  BY <1>2, IdleJob DEF Init, Shape
<1>7. StepsOK
  BY <1>5 DEF Quiet, StepsOK, StepOK, At
<1>8. SecondsNew
  BY <1>2, <1>3 DEF SecondsNew
<1>9. \A c \in Clients : \A i, d : ~Holds(c, i, d)
  BY <1>5 DEF Quiet, Holds, At
<1>10. ClaimsBounded
  <2> SUFFICES ASSUME NEW a \in Ancodes PROVE Cardinality(Claims(a)) <= 1 + overlaps
    BY DEF ClaimsBounded
  <2>1. Claims(a) = {}
    BY <1>1, <1>4, <1>9, PreplanAssumption DEF Claims
  <2>2. overlaps = 0
    BY DEF Init
  <2>3. QED
    BY <2>1, <2>2, FS_EmptySet
<1>11. OneAtATime
  BY <1>5, <1>9 DEF Quiet, OneAtATime, At
<1>12. PinFollows
  <2>1. \A c \in Clients : Reads(c)
    BY <1>5, <1>9 DEF Quiet, Reads, At
  <2>2. \A a \in Ancodes, t \in Times : plan[a] # t /\ ~Pinned(a, t)
    BY <1>1, <1>4, PreplanAssumption DEF Init, Pinned
  <2>3. QED
    BY <2>1, <2>2 DEF PinFollows
<1>13. LinksFollow
  <2>1. \A c \in Clients : LinkReads(c)
    BY <1>5, <1>9 DEF Quiet, LinkReads, At
  <2>2. \A op, i : i \in Existing => Side(op, Doc(i)) = {}
    BY <1>1, <1>4 DEF Side
  <2>3. QED
    BY <2>1, <2>2 DEF LinksFollow
<1>14. QED
  BY <1>6, <1>7, <1>8, <1>10, <1>11, <1>12, <1>13 DEF IInv

\* Every step is one of a request, its beginning, or a deletion.
LEMMA NextKinds ==
    ASSUME Shape, NEW c \in Clients,
           Requests(c) \/ InsertPreplanExam(c) \/ Replace(c) \/ Mirror(c) \/ ReplaceOther(c) \/ Persist(c)
              \/ Sync(c) \/ Carry(c) \/ Pin(c) \/ Release(c) \/ Unpin(c) \/ Abort(c)
    PROVE  \/ Works(c)
           \/ \E i \in Existing : DeletePreplanExam(c, i)
           \/ Started(c) /\ (Adds(c) \/ Sweeps(c) \/ \E i \in Existing : Edits(c, i))
  BY RequestKinds DEF Works

LEMMA StutterIInv == IInv /\ UNCHANGED vars => IInv'
<1> SUFFICES ASSUME IInv, UNCHANGED vars PROVE IInv'
  OBVIOUS
<1>1. UNCHANGED <<pre, cons, plan, job, ops, overlaps, gaps>>
  BY DEF vars, bounds
<1>2. Existing' = Existing /\ (\A i : Doc(i)' = Doc(i)) /\ (\A c : Busy(c)' <=> Busy(c))
      /\ (\A c, s : At(c, s)' <=> At(c, s))
  BY <1>1 DEF Existing, Doc, Busy, At
<1>3. \A c, i, d : Holds(c, i, d)' <=> Holds(c, i, d)
  BY <1>1, <1>2 DEF Holds
<1>4. Shape' /\ StepsOK' /\ SecondsNew'
  BY <1>1, <1>2 DEF IInv, Shape, StepsOK, StepOK, SecondsNew
<1>5. ClaimsBounded'
  <2>1. \A a : Claims(a)' = Claims(a)
    BY <1>2, <1>3 DEF Claims
  <2>2. QED
    BY <1>1, <2>1 DEF IInv, ClaimsBounded
<1>6. OneAtATime'
  BY <1>1, <1>2, <1>3 DEF IInv, OneAtATime, Alone
<1>7. PinFollows'
  <2>1. \A c : Reads(c)' <=> Reads(c)
    BY <1>1, <1>2, <1>3 DEF Reads, SamePin
  <2>2. \A c, a : Owed(c, a)' <=> Owed(c, a)
    BY <1>1, <1>2 DEF Owed
  <2>3. \A a, t : Pinned(a, t)' <=> Pinned(a, t)
    BY <1>2 DEF Pinned
  <2>4. QED
    BY <1>1, <2>1, <2>2, <2>3 DEF IInv, PinFollows, Alone, Without
<1>8. LinksFollow'
  <2>1. (\A x, y : Side(x, y)' = Side(x, y)) /\ (\A x, y : Aside(x, y)' = Aside(x, y))
    BY DEF Side, Aside
  <2>2. \A c : LinkReads(c)' <=> LinkReads(c)
    BY <1>1, <1>2, <1>3, <2>1 DEF LinkReads
  <2>3. \A c, op, i, k : Mending(c, op, i, k)' <=> Mending(c, op, i, k)
    BY <1>1, <1>2 DEF Mending, Open
  <2>4. QED
    BY <1>1, <1>2, <2>1, <2>2, <2>3 DEF IInv, LinksFollow, Alone, Without
<1>9. QED
  BY <1>4, <1>5, <1>6, <1>7, <1>8 DEF IInv

LEMMA NextIInv == IInv /\ [Next]_vars => IInv'
<1>1. ASSUME IInv, NEW c \in Clients, Works(c) PROVE IInv'
  <2>1. Base'
    BY <1>1, WorksShape, WorksSteps DEF IInv, Base
  <2>2. ClaimsBounded'
    BY <1>1, ClaimsStep DEF IInv, Base
  <2>3. OneAtATime'
    BY <1>1, WorksOne DEF IInv, Base
  <2>4. PinFollows' /\ LinksFollow'
    BY <1>1, WorksPin, WorksLinks DEF IInv, Base
  <2>5. QED
    BY <2>1, <2>2, <2>3, <2>4 DEF IInv, Base
<1>2. ASSUME IInv, NEW c \in Clients, NEW i \in Existing, DeletePreplanExam(c, i) PROVE IInv'
  <2>1. Base'
    BY <1>2, DeleteBase DEF IInv, Base
  <2>2. ClaimsBounded'
    BY <1>2, ClaimsStep DEF IInv, Base
  <2>3. OneAtATime'
    BY <1>2, DeleteOne DEF IInv, Base
  <2>4. PinFollows' /\ LinksFollow'
    BY <1>2, DeletePin
  <2>5. QED
    BY <2>1, <2>2, <2>3, <2>4 DEF IInv, Base
<1>3. ASSUME IInv, NEW c \in Clients, Started(c), Adds(c) \/ Sweeps(c) \/ \E i \in Existing : Edits(c, i)
      PROVE  IInv'
  <2>1. Base'
    BY <1>3, StartedBase DEF IInv, Base
  <2>2. ClaimsBounded'
    BY <1>3, ClaimsStep DEF IInv, Base
  <2>3. OneAtATime'
    BY <1>3, StartedOne DEF IInv, Base
  <2>4. PinFollows'
    BY <1>3, StartedPin DEF IInv, Base
  <2>5. LinksFollow'
    BY <1>3, StartedLinks DEF IInv, Base
  <2>6. QED
    BY <2>1, <2>2, <2>3, <2>4, <2>5 DEF IInv, Base
<1>4. IInv /\ Next => IInv'
  BY <1>1, <1>2, <1>3, NextKinds DEF Next, IInv
<1>5. QED
  BY <1>4, StutterIInv

\* The inductive invariant of pre-planning, whatever the requests and however they
\* overlap and fail.
THEOREM PreplanInvariant == Spec => []IInv
  BY InitIInv, NextIInv, PTL DEF Spec

\* ConnectPreplanExamToAncode's check: one ancode never has more pre-exams than one and
\* one for every request that began while another was under way.
THEOREM LinksCounted == Spec => []LinkedOnce
<1>1. IInv => LinkedOnce
  <2> SUFFICES ASSUME IInv, NEW a \in Ancodes
               PROVE  Cardinality({i \in Existing : Doc(i).ancode = a}) <= 1 + overlaps
    BY DEF LinkedOnce
  <2> DEFINE S == {i \in Existing : Doc(i).ancode = a}
  <2>1. S \subseteq Claims(a)
    BY ClaimsOf
  <2>2. IsFiniteSet(Claims(a)) /\ Cardinality(Claims(a)) <= 1 + overlaps /\ overlaps \in Nat
    BY ClaimsFinite DEF IInv, ClaimsBounded, Shape
  <2> HIDE DEF S
  <2>3. Cardinality(S) <= Cardinality(Claims(a)) /\ Cardinality(S) \in Nat /\ Cardinality(Claims(a)) \in Nat
    BY <2>1, <2>2, FS_Subset, FS_CardinalityType
  <2>4. QED
    BY <2>2, <2>3 DEF S
<1>2. QED
  BY <1>1, PreplanInvariant, PTL

\* The lists that setPreplanPairLink and SetPreplanExamConstraints keep on both sides
\* are symmetric whenever nobody is working, for any number of pre-exams.
THEOREM LinksAgree == Spec => []LinksSymmetric
<1>1. IInv => LinksSymmetric
  <2> SUFFICES ASSUME IInv, Quiet, Alone, Without({"failure", "update", "delete"}), NEW i \in Existing
               PROVE  /\ \A k \in Doc(i).notSame : k \in Existing /\ i \in Doc(k).notSame
                      /\ \A k \in Doc(i).same : k \in Existing /\ i \in Doc(k).same
    BY DEF LinksSymmetric
  <2>1. \A c \in Clients : \A op, x, k : ~Mending(c, op, x, k)
    BY DEF Quiet, Mending
  <2>2. \A op \in {"pair", "same"}, x \in Existing : \A k \in Side(op, Doc(x)) :
           k \in Existing /\ x \in Side(op, Doc(k))
    BY <2>1 DEF IInv, LinksFollow, LinkGaps
  <2>3. \A x : Side("pair", Doc(x)) = Doc(x).notSame /\ Side("same", Doc(x)) = Doc(x).same
    BY DEF Side
  <2>4. QED
    BY <2>2, <2>3
<1>2. QED
  BY <1>1, PreplanInvariant, PTL

\* SetPreplanExamFixed, ConnectPreplanExamToAncode and DisconnectPreplanExam: whenever
\* nobody is working the locked plan entries are those of the fixed, connected pre-exams.
THEOREM PinsFollow == Spec => []PinInSync
<1>1. IInv => PinInSync
  <2> SUFFICES ASSUME IInv, Quiet, Alone, Without(PinGaps), NEW a \in Ancodes, NEW t \in Times
               PROVE  plan[a] = t <=> Pinned(a, t)
    BY DEF PinInSync, PinGaps, Pinned
  <2>1. \A c \in Clients : ~Owed(c, a)
    BY DEF Quiet, Owed, At
  <2>2. QED
    BY <2>1 DEF IInv, PinFollows
<1>2. QED
  BY <1>1, PreplanInvariant, PTL

\* Deleted pre-exams stay deleted, and ids are given once, as long as no request begins
\* while another is under way: only the insertion of a new pre-exam adds a document.
THEOREM DeletedStays == Spec => NoSecondLife
<1> DEFINE A == Alone => \A i \in Ids : Len(pre'[i]) > Len(pre[i]) =>
                    pre[i] = <<>> /\ \E c \in Clients : At(c, "insert") /\ job[c].id = i
<1>1. ASSUME IInv, Alone, NEW c \in Clients, NEW i \in Ids, Works(c), Len(pre'[i]) > Len(pre[i])
      PROVE  pre[i] = <<>> /\ At(c, "insert") /\ job[c].id = i
  <2>1. Base /\ OneAtATime /\ Len(pre[i]) \in Nat
    BY <1>1 DEF IInv, Base, Shape
  <2>2. UNCHANGED pre => FALSE
    BY <1>1, <2>1
  <2>3. ASSUME NEW k \in Ids, NEW d \in Docs, Holds(c, k, d), pre' = Replaced(k, d) \/ pre' = UpsertPreplanExam(k, d)
        PROVE  FALSE
    <3>1. k \in Existing
      BY <1>1, <2>1, <2>3 DEF OneAtATime
    <3>2. pre' = Replaced(k, d)
      BY <2>3, <3>1 DEF UpsertPreplanExam
    <3>3. Len(pre'[i]) = Len(pre[i])
      BY <2>1, <3>2, ReplacedDocs DEF Base
    <3>4. QED
      BY <1>1, <2>1, <3>3
  <2>4. CASE InsertPreplanExam(c)
    <3>1. PICK k \in Ids : k = job[c].id
      BY <2>1, <2>4, InsertStep DEF Base
    <3>2. At(c, "insert") /\ pre' = [pre EXCEPT ![k] = Append(@, New)]
      BY <2>1, <2>4, <3>1, InsertStep DEF Base
    <3>3. pre[k] = <<>>
      BY <1>1, <2>1, <3>1, <3>2 DEF OneAtATime
    <3>4. i = k
      BY <1>1, <2>1, <3>2, InsertedDocs DEF Base
    <3>5. QED
      BY <3>1, <3>2, <3>3, <3>4
  <2>5. CASE Replace(c)
    BY <2>1, <2>3, <2>5, ReplaceStep DEF Base, Holds
  <2>6. CASE ReplaceOther(c)
    <3>1. job[c].doc \in Docs
      BY <2>1, <2>6, ReplaceOtherStep DEF Base, LinkJobs
    <3>2. QED
      BY <2>1, <2>3, <2>6, <3>1, ReplaceOtherStep DEF Base, Holds
  <2>7. CASE Persist(c)
    BY <2>1, <2>2, <2>3, <2>7, PersistStep DEF Base, Holds
  <2>8. CASE Mirror(c) \/ Sync(c) \/ Carry(c) \/ Pin(c) \/ Release(c) \/ Unpin(c) \/ Abort(c)
    BY <2>1, <2>2, <2>8, MirrorStep, SyncStep, CarryStep, PinStep, ReleaseStep, UnpinStep, AbortStep DEF Base
  <2>9. QED
    BY <1>1, <2>4, <2>5, <2>6, <2>7, <2>8 DEF Works
<1>2. ASSUME IInv, NEW c \in Clients, NEW i \in Ids, NEW k \in Existing, DeletePreplanExam(c, k)
      PROVE  ~(Len(pre'[i]) > Len(pre[i]))
  <2>1. pre' = [pre EXCEPT ![k] = Tail(@)] /\ Len(pre[i]) \in Nat
    BY <1>2 DEF DeletePreplanExam, IInv, Shape
  <2>2. (\A x \in Ids \ {k} : pre'[x] = pre[x]) /\ Len(pre'[k]) < Len(pre[k]) /\ pre' \in [Ids -> Seq(Docs)]
    BY <1>2, <2>1, DeletedDocs DEF IInv
  <2>3. Len(pre'[i]) \in Nat
    BY <2>2
  <2>4. QED
    BY <2>1, <2>2, <2>3
<1>3. ASSUME IInv, NEW i \in Ids, UNCHANGED pre PROVE ~(Len(pre'[i]) > Len(pre[i]))
  <2>1. Len(pre[i]) \in Nat
    BY <1>3 DEF IInv, Shape
  <2>2. QED
    BY <1>3, <2>1
<1>4. IInv /\ [Next]_vars => [A]_vars
  <2> SUFFICES ASSUME IInv, Next, Alone, NEW i \in Ids, Len(pre'[i]) > Len(pre[i])
               PROVE  pre[i] = <<>> /\ \E c \in Clients : At(c, "insert") /\ job[c].id = i
    OBVIOUS
  <2>1. PICK c \in Clients :
           Requests(c) \/ InsertPreplanExam(c) \/ Replace(c) \/ Mirror(c) \/ ReplaceOther(c) \/ Persist(c)
              \/ Sync(c) \/ Carry(c) \/ Pin(c) \/ Release(c) \/ Unpin(c) \/ Abort(c)
    BY DEF Next
  <2>2. CASE Works(c)
    BY <1>1, <2>2
  <2>3. CASE \E k \in Existing : DeletePreplanExam(c, k)
    BY <1>2, <2>3
  <2>4. CASE Started(c)
    BY <1>3, <2>4 DEF Started
  <2>5. QED
    BY <2>1, <2>2, <2>3, <2>4, NextKinds DEF IInv
<1>5. QED
  BY <1>4, PreplanInvariant, PTL DEF Spec, NoSecondLife

-----------------------------------------------------------------------------
(* How many documents one id can have. *)

\* The requests that will insert one for i.
Inserting(i) == {c \in Clients : At(c, "insert") /\ job[c].id = i}

\* A deleted pre-exam that a reset may still bring back.
Returns(i) == IF i \notin Existing /\ \E c \in Clients, d \in Docs : At(c, "persist") /\ <<i, d>> \in job[c].rest
              THEN 1 ELSE 0

CopiesCounted ==
    \A i \in Ids : /\ IsFiniteSet(Inserting(i))
                   /\ Len(pre[i]) + Cardinality(Inserting(i)) + Returns(i) <= 1 + overlaps

Counted == ops <= MaxOps /\ overlaps <= MaxOverlaps /\ CopiesCounted

\* The numbers that are counted.
LEMMA CountTypes ==
    ASSUME Shape, CopiesCounted, NEW i \in Ids
    PROVE  /\ IsFiniteSet(Inserting(i)) /\ Len(pre[i]) \in Nat /\ Cardinality(Inserting(i)) \in Nat
           /\ Returns(i) \in {0, 1} /\ overlaps \in Nat
           /\ Len(pre[i]) + Cardinality(Inserting(i)) + Returns(i) <= 1 + overlaps
<1>1. IsFiniteSet(Inserting(i)) /\ Len(pre[i]) + Cardinality(Inserting(i)) + Returns(i) <= 1 + overlaps
  BY DEF CopiesCounted
<1>2. Cardinality(Inserting(i)) \in Nat
  BY <1>1, FS_CardinalityType
<1>3. QED
  BY <1>1, <1>2 DEF Shape, Returns

\* A step after which no more than before counts for i.
LEMMA CountKept ==
    ASSUME Shape, Shape', CopiesCounted, NEW i \in Ids, Inserting(i)' \subseteq Inserting(i),
           Len(pre'[i]) + Returns(i)' <= Len(pre[i]) + Returns(i),
           overlaps' = overlaps \/ overlaps' = overlaps + 1
    PROVE  /\ IsFiniteSet(Inserting(i)')
           /\ Len(pre'[i]) + Cardinality(Inserting(i)') + Returns(i)' <= 1 + overlaps'
<1>1. /\ IsFiniteSet(Inserting(i)) /\ Len(pre[i]) \in Nat /\ Cardinality(Inserting(i)) \in Nat
      /\ Returns(i) \in {0, 1} /\ overlaps \in Nat
      /\ Len(pre[i]) + Cardinality(Inserting(i)) + Returns(i) <= 1 + overlaps
  BY CountTypes
<1>2. IsFiniteSet(Inserting(i)') /\ Cardinality(Inserting(i)') <= Cardinality(Inserting(i))
  BY <1>1, FS_Subset
<1>3. Cardinality(Inserting(i)') \in Nat
  BY <1>2, FS_CardinalityType
<1>4. Len(pre'[i]) \in Nat /\ Returns(i)' \in {0, 1}
  BY DEF Shape, Returns
<1> HIDE DEF Returns
<1>5. QED
  BY <1>1, <1>2, <1>3, <1>4, SMTT(30)

\* What a client that only works on its request counts for.
LEMMA WorksCount ==
    ASSUME Base, Base', NEW c \in Clients, Works(c), CopiesCounted PROVE CopiesCounted'
<1> SUFFICES ASSUME NEW i \in Ids
             PROVE  /\ IsFiniteSet(Inserting(i)')
                    /\ Len(pre'[i]) + Cardinality(Inserting(i)') + Returns(i)' <= 1 + overlaps'
  BY DEF CopiesCounted
<1>1. OthersKept(c) /\ overlaps' = overlaps
  BY WorksShape DEF Worked, bounds
<1>2. /\ Len(pre[i]) \in Nat /\ Len(pre'[i]) \in Nat /\ Returns(i) \in {0, 1} /\ Returns(i)' \in {0, 1}
      /\ overlaps \in Nat
  BY DEF Base, Shape, Returns
<1>3. ~At(c, "insert")' /\ \A d : At(c, "persist")' /\ <<i, d>> \in job'[c].rest =>
                                     At(c, "persist") /\ <<i, d>> \in job[c].rest
  <2>1. CASE Ended(c)
    BY <2>1 DEF Ended, At, Busy
  <2>2. ASSUME NEW s \in {"mirror", "sync", "carry", "pin", "release", "unpin"}, Kept(c, s)
        PROVE  ~At(c, "insert")' /\ ~At(c, "persist")'
    BY <2>2 DEF Kept, At
  <2>3. ASSUME NEW r, Turned(c, r) PROVE ~At(c, "insert")' /\ ~At(c, "persist")'
    BY <2>3 DEF Turned, At
  <2>4. CASE Kept(c, "persist") /\ At(c, "persist") /\ job'[c].rest \subseteq job[c].rest
    BY <2>4 DEF Kept, At
  <2>5. QED
    BY <2>1, <2>2, <2>3, <2>4, WorksOn
<1>4. Inserting(i)' \subseteq Inserting(i) \ {c}
  BY <1>1, <1>3 DEF Inserting, OthersKept, At, Busy
<1>5. i \notin Existing /\ Returns(i)' = 1 => Returns(i) = 1
  <2> SUFFICES ASSUME i \notin Existing, Returns(i)' = 1
               PROVE  \E e \in Clients, d \in Docs : At(e, "persist") /\ <<i, d>> \in job[e].rest
    BY DEF Returns
  <2>1. PICK e \in Clients, d \in Docs : At(e, "persist")' /\ <<i, d>> \in job'[e].rest
    BY DEF Returns
  <2>2. CASE e = c
    BY <1>3, <2>1, <2>2
  <2>3. CASE e # c
    BY <1>1, <2>1, <2>3 DEF OthersKept, At, Busy
  <2>4. QED
    BY <2>2, <2>3
<1>6. ASSUME i \in Existing' <=> i \in Existing, Len(pre'[i]) = Len(pre[i])
      PROVE  /\ IsFiniteSet(Inserting(i)')
             /\ Len(pre'[i]) + Cardinality(Inserting(i)') + Returns(i)' <= 1 + overlaps'
  <2>1. i \in Existing => Returns(i)' = 0
    BY <1>6 DEF Returns
  <2>2. Len(pre'[i]) + Returns(i)' <= Len(pre[i]) + Returns(i)
    BY <1>2, <1>5, <1>6, <2>1
  <2>3. QED
    BY <1>1, <1>4, <2>2, CountKept DEF Base
<1>7. CASE UNCHANGED pre
  BY <1>6, <1>7 DEF Existing
<1>8. ASSUME NEW k \in Ids, NEW d \in Docs, pre' = Replaced(k, d)
      PROVE  (i \in Existing' <=> i \in Existing) /\ Len(pre'[i]) = Len(pre[i])
  BY <1>8, ReplacedDocs DEF Base
<1>9. ASSUME NEW k \in Ids, NEW d \in Docs, pre' = UpsertPreplanExam(k, d), At(c, "persist"), <<k, d>> \in job[c].rest
      PROVE  /\ IsFiniteSet(Inserting(i)')
             /\ Len(pre'[i]) + Cardinality(Inserting(i)') + Returns(i)' <= 1 + overlaps'
  <2>1. CASE i # k
    BY <1>6, <1>9, <2>1, UpsertedDocs DEF Base, Existing
  <2>2. CASE i = k /\ i \in Existing
    BY <1>6, <1>9, <2>2, UpsertedDocs DEF Base
  <2>3. CASE i = k /\ i \notin Existing
    <3>1. pre'[i] = <<d>>
      BY <1>9, <2>3 DEF UpsertPreplanExam, Base, Shape
    <3>2. Len(pre'[i]) = 1 /\ i \in Existing'
      BY <3>1 DEF Existing
    <3>3. Returns(i)' = 0 /\ Returns(i) = 1 /\ Len(pre[i]) \in Nat
      BY <1>2, <1>9, <2>3, <3>2 DEF Returns
    <3>4. Len(pre'[i]) + Returns(i)' <= Len(pre[i]) + Returns(i)
      BY <3>2, <3>3
    <3>5. Inserting(i)' \subseteq Inserting(i)
      BY <1>4
    <3>6. QED
      BY <1>1, <3>4, <3>5, CountKept DEF Base
  <2>4. QED
    BY <2>1, <2>2, <2>3
<1>10. CASE InsertPreplanExam(c)
  <2>1. PICK k \in Ids : k = job[c].id
    BY <1>10, InsertStep DEF Base
  <2>2. At(c, "insert") /\ pre' = [pre EXCEPT ![k] = Append(@, New)]
    BY <1>10, <2>1, InsertStep DEF Base
  <2>3. Existing' = Existing \cup {k} /\ Len(pre'[k]) = Len(pre[k]) + 1 /\ \A x \in Ids \ {k} : pre'[x] = pre[x]
    BY <2>2, InsertedDocs DEF Base
  <2>4. CASE i # k
    BY <1>6, <2>3, <2>4
  <2>5. CASE i = k
    <3>1. c \in Inserting(i)
      BY <2>1, <2>2, <2>5 DEF Inserting
    <3>2. /\ IsFiniteSet(Inserting(i)) /\ Cardinality(Inserting(i)) \in Nat
          /\ Len(pre[i]) + Cardinality(Inserting(i)) + Returns(i) <= 1 + overlaps
      BY CountTypes DEF Base
    <3>3. IsFiniteSet(Inserting(i) \ {c}) /\ Cardinality(Inserting(i) \ {c}) = Cardinality(Inserting(i)) - 1
      BY <3>1, <3>2, FS_RemoveElement
    <3>4. IsFiniteSet(Inserting(i)') /\ Cardinality(Inserting(i)') <= Cardinality(Inserting(i)) - 1
      BY <1>4, <3>3, FS_Subset
    <3>5. Cardinality(Inserting(i)') \in Nat
      BY <3>4, FS_CardinalityType
    <3>6. Returns(i)' = 0
      BY <2>3, <2>5 DEF Returns
    <3>7. QED
      BY <1>1, <1>2, <2>3, <2>5, <3>2, <3>4, <3>5, <3>6
  <2>6. QED
    BY <2>4, <2>5
<1>11. CASE Replace(c)
  BY <1>6, <1>8, <1>11, ReplaceStep DEF Base
<1>12. CASE ReplaceOther(c)
  <2>1. job[c].doc \in Docs
    BY <1>12, ReplaceOtherStep DEF Base, LinkJobs
  <2>2. QED
    BY <1>6, <1>8, <1>12, <2>1, ReplaceOtherStep DEF Base
<1>13. CASE Persist(c)
  BY <1>6, <1>7, <1>8, <1>9, <1>13, PersistStep DEF Base
<1>14. CASE Mirror(c) \/ Sync(c) \/ Carry(c) \/ Pin(c) \/ Release(c) \/ Unpin(c) \/ Abort(c)
  BY <1>7, <1>14, MirrorStep, SyncStep, CarryStep, PinStep, ReleaseStep, UnpinStep, AbortStep DEF Base
<1>15. QED
  BY <1>10, <1>11, <1>12, <1>13, <1>14 DEF Works

\* When c begins while another request is under way, an overlap is counted.
LEMMA CountOverlap ==
    ASSUME NEW c \in Clients, Count(c), NEW e \in Clients, Busy(e)
    PROVE  overlaps' = overlaps + 1
<1>1. e # c
  BY DEF Count
<1>2. QED
  BY <1>1 DEF Count

LEMMA CountBy ==
    ASSUME NEW c \in Clients, Count(c), Shape PROVE overlaps' = overlaps \/ overlaps' = overlaps + 1
  BY DEF Count

\* A deleted pre-exam can only come back by a request that was under way.
LEMMA DeleteCount ==
    ASSUME Base, Base', NEW c \in Clients, NEW k \in Existing, DeletePreplanExam(c, k), CopiesCounted
    PROVE  CopiesCounted'
<1> SUFFICES ASSUME NEW i \in Ids
             PROVE  /\ IsFiniteSet(Inserting(i)')
                    /\ Len(pre'[i]) + Cardinality(Inserting(i)') + Returns(i)' <= 1 + overlaps'
  BY DEF CopiesCounted
<1>1. pre' = [pre EXCEPT ![k] = Tail(@)] /\ Count(c) /\ UNCHANGED job
  BY DEF DeletePreplanExam
<1>2. overlaps' = overlaps \/ overlaps' = overlaps + 1
  BY <1>1, CountBy DEF Base
<1>3. Inserting(i)' = Inserting(i)
  BY <1>1 DEF Inserting, At, Busy
<1>4. /\ Len(pre[i]) \in Nat /\ Len(pre'[i]) \in Nat /\ Returns(i) \in {0, 1} /\ Returns(i)' \in {0, 1}
      /\ overlaps \in Nat
  BY DEF Base, Shape, Returns
<1>5. CASE i # k
  <2>1. pre'[i] = pre[i]
    BY <1>1, <1>5, DeletedDocs DEF Base
  <2>2. Returns(i)' = Returns(i)
    BY <1>1, <2>1 DEF Returns, Existing, At, Busy
  <2>3. Len(pre'[i]) + Returns(i)' <= Len(pre[i]) + Returns(i)
    BY <1>4, <2>1, <2>2
  <2>4. QED
    BY <1>2, <1>3, <2>3, CountKept DEF Base
<1>6. CASE i = k
  <2>1. Len(pre'[i]) < Len(pre[i])
    BY <1>1, <1>6, DeletedDocs DEF Base
  <2>2. Returns(i) = 0
    BY <1>6 DEF Returns
  <2>3. Len(pre'[i]) + Returns(i)' <= Len(pre[i]) + Returns(i)
    BY <1>4, <2>1, <2>2
  <2>4. QED
    BY <1>2, <1>3, <2>3, CountKept DEF Base
<1>7. QED
  BY <1>5, <1>6

\* A new pre-exam gets an id that has no document: another one for it means an overlap.
LEMMA StartedCount ==
    ASSUME Base, Base', NEW c \in Clients, Started(c), Adds(c) \/ Sweeps(c) \/ \E k \in Existing : Edits(c, k),
           CopiesCounted
    PROVE  CopiesCounted'
<1> SUFFICES ASSUME NEW i \in Ids
             PROVE  /\ IsFiniteSet(Inserting(i)')
                    /\ Len(pre'[i]) + Cardinality(Inserting(i)') + Returns(i)' <= 1 + overlaps'
  BY DEF CopiesCounted
<1>1. Count(c) /\ ~Busy(c) /\ OthersKept(c) /\ UNCHANGED pre
  BY DEF Started, Count
<1>2. overlaps' = overlaps \/ overlaps' = overlaps + 1
  BY <1>1, CountBy DEF Base
<1>3. /\ Len(pre[i]) \in Nat /\ Len(pre'[i]) = Len(pre[i]) /\ Returns(i) \in {0, 1} /\ Returns(i)' \in {0, 1}
      /\ overlaps \in Nat
  BY <1>1 DEF Base, Shape, Returns
<1>4. At(c, "persist")' => \A d \in Docs : <<i, d>> \in job'[c].rest => i \in Existing
  <2>1. CASE Sweeps(c)
    BY <2>1 DEF Sweeps
  <2>2. CASE Adds(c) \/ \E k \in Existing : Edits(c, k)
    BY <2>2 DEF Adds, Edits, At
  <2>3. QED
    BY <2>1, <2>2
<1>5. Returns(i)' = 1 => Returns(i) = 1
  <2> SUFFICES ASSUME Returns(i)' = 1
               PROVE  i \notin Existing /\ \E e \in Clients, d \in Docs : At(e, "persist") /\ <<i, d>> \in job[e].rest
    BY DEF Returns
  <2>1. PICK e \in Clients, d \in Docs : At(e, "persist")' /\ <<i, d>> \in job'[e].rest
    BY DEF Returns
  <2>2. i \notin Existing
    BY <1>1 DEF Returns, Existing
  <2>3. e # c
    BY <1>4, <2>1, <2>2
  <2>4. QED
    BY <1>1, <2>1, <2>2, <2>3 DEF OthersKept, At, Busy
<1>6. Len(pre'[i]) + Returns(i)' <= Len(pre[i]) + Returns(i)
  BY <1>3, <1>5
<1>7. CASE c \notin Inserting(i)'
  <2>1. Inserting(i)' \subseteq Inserting(i)
    BY <1>1, <1>7 DEF Inserting, OthersKept, At, Busy
  <2>2. QED
    BY <1>2, <1>6, <2>1, CountKept DEF Base
<1>8. CASE c \in Inserting(i)'
  <2>1. Adds(c) /\ job'[c].id = i
    BY <1>8 DEF Inserting, Adds, Sweeps, Edits, At
  <2>2. i \notin Existing /\ Len(pre[i]) = 0
    BY <2>1 DEF Adds, Existing
  <2>3. Inserting(i)' \subseteq Inserting(i) \cup {c}
    BY <1>1 DEF Inserting, OthersKept, At, Busy
  <2>4. /\ IsFiniteSet(Inserting(i)) /\ Cardinality(Inserting(i)) \in Nat
        /\ Len(pre[i]) + Cardinality(Inserting(i)) + Returns(i) <= 1 + overlaps
    BY CountTypes DEF Base
  <2>5. /\ IsFiniteSet(Inserting(i) \cup {c}) /\ Cardinality(Inserting(i) \cup {c}) \in Nat
        /\ Cardinality(Inserting(i) \cup {c}) <= Cardinality(Inserting(i)) + 1
    <3>1. /\ IsFiniteSet(Inserting(i) \cup {c})
          /\ Cardinality(Inserting(i) \cup {c}) = IF c \in Inserting(i) THEN Cardinality(Inserting(i))
                                                                      ELSE Cardinality(Inserting(i)) + 1
      BY <2>4, FS_AddElement
    <3>2. QED
      BY <2>4, <3>1
  <2>6. /\ IsFiniteSet(Inserting(i)') /\ Cardinality(Inserting(i)') \in Nat
        /\ Cardinality(Inserting(i)') <= Cardinality(Inserting(i)) + 1
    <3>1. IsFiniteSet(Inserting(i)') /\ Cardinality(Inserting(i)') <= Cardinality(Inserting(i) \cup {c})
      BY <2>3, <2>5, FS_Subset
    <3>2. Cardinality(Inserting(i)') \in Nat
      BY <3>1, FS_CardinalityType
    <3>3. QED
      BY <2>4, <2>5, <3>1, <3>2
  <2>7. CASE Inserting(i) = {} /\ Returns(i) = 0
    <3>1. Cardinality(Inserting(i)) = 0
      BY <2>7, FS_EmptySet
    <3>2. Len(pre'[i]) = 0 /\ Returns(i)' = 0
      BY <1>3, <1>5, <2>2, <2>7
    <3>3. Cardinality(Inserting(i)') <= 1 /\ overlaps' >= 0 /\ overlaps' \in Nat
      BY <1>2, <1>3, <2>6, <3>1
    <3>4. QED
      BY <2>6, <3>2, <3>3
  <2>8. CASE Inserting(i) # {} \/ Returns(i) = 1
    <3>1. \E e \in Clients : Busy(e)
      <4>1. CASE Inserting(i) # {}
        <5>1. PICK e \in Clients : At(e, "insert")
          BY <4>1 DEF Inserting
        <5>2. QED
          BY <5>1 DEF At
      <4>2. CASE Returns(i) = 1
        <5>1. PICK e \in Clients, d \in Docs : At(e, "persist") /\ <<i, d>> \in job[e].rest
          BY <4>2 DEF Returns
        <5>2. QED
          BY <5>1 DEF At
      <4>3. QED
        BY <2>8, <4>1, <4>2
    <3>2. overlaps' = overlaps + 1
      BY <1>1, <3>1, CountOverlap
    <3>3. QED
      BY <1>3, <1>6, <2>2, <2>4, <2>6, <3>2
  <2>9. QED
    BY <1>3, <2>7, <2>8
<1>9. QED
  BY <1>7, <1>8

LEMMA InitCounted == Init => Counted
<1> SUFFICES ASSUME Init PROVE Counted
  OBVIOUS
<1>1. ops <= MaxOps /\ overlaps <= MaxOverlaps
  BY PreplanAssumption DEF Init
<1>2. ASSUME NEW i \in Ids
      PROVE  IsFiniteSet(Inserting(i)) /\ Len(pre[i]) + Cardinality(Inserting(i)) + Returns(i) <= 1 + overlaps
  <2>1. Inserting(i) = {}
    BY DEF Init, Inserting, At, Busy
  <2>2. IsFiniteSet(Inserting(i)) /\ Cardinality(Inserting(i)) = 0
    BY <2>1, FS_EmptySet
  <2>3. Returns(i) = 0
    BY DEF Init, Returns, At, Busy
  <2>4. Len(pre[i]) = 1 /\ overlaps = 0
    BY DEF Init
  <2>5. QED
    BY <2>2, <2>3, <2>4
<1>3. QED
  BY <1>1, <1>2 DEF Counted, CopiesCounted

LEMMA NextCounted == Base /\ Base' /\ Counted /\ [Next]_vars => Counted'
<1> SUFFICES ASSUME Base, Base', Counted, [Next]_vars PROVE Counted'
  OBVIOUS
<1>1. CASE UNCHANGED vars
  <2>1. UNCHANGED <<pre, job, ops, overlaps>>
    BY <1>1 DEF vars, bounds
  <2>2. \A i : Inserting(i)' = Inserting(i) /\ Returns(i)' = Returns(i)
    BY <2>1 DEF Inserting, Returns, Existing, At, Busy
  <2>3. QED
    BY <2>1, <2>2 DEF Counted, CopiesCounted
<1>2. ASSUME NEW c \in Clients, Works(c) PROVE Counted'
  <2>1. UNCHANGED <<ops, overlaps>>
    BY <1>2, WorksShape DEF Worked, bounds
  <2>2. QED
    BY <1>2, <2>1, WorksCount DEF Counted
<1>3. ASSUME NEW c \in Clients, Count(c) PROVE ops' <= MaxOps /\ overlaps' <= MaxOverlaps
  BY <1>3, PreplanAssumption DEF Count, Base, Shape, Counted
<1>4. ASSUME NEW c \in Clients, NEW i \in Existing, DeletePreplanExam(c, i) PROVE Counted'
  BY <1>3, <1>4, DeleteCount DEF Counted, DeletePreplanExam
<1>5. ASSUME NEW c \in Clients, Started(c), Adds(c) \/ Sweeps(c) \/ \E i \in Existing : Edits(c, i)
      PROVE  Counted'
  BY <1>3, <1>5, StartedCount DEF Counted, Started
<1>6. QED
  BY <1>1, <1>2, <1>4, <1>5, NextKinds DEF Next, Base

\* Types, and the number of documents an id can have without a unique index: one, and one
\* for every request that began while another was under way.
THEOREM TypeCorrect == Spec => []TypeOK
<1>1. IInv => Base
  BY DEF IInv, Base
<1>2. IInv /\ Counted => TypeOK
  <2> SUFFICES ASSUME IInv, Counted PROVE TypeOK
    OBVIOUS
  <2>1. ASSUME NEW i \in Ids PROVE Len(pre[i]) <= 1 + overlaps /\ \A k \in 1..Len(pre[i]) : pre[i][k] \in Docs
    <3>1. /\ Len(pre[i]) \in Nat /\ Cardinality(Inserting(i)) \in Nat /\ Returns(i) \in {0, 1} /\ overlaps \in Nat
          /\ Len(pre[i]) + Cardinality(Inserting(i)) + Returns(i) <= 1 + overlaps
      BY CountTypes DEF IInv, Counted
    <3>2. Len(pre[i]) <= 1 + overlaps
      BY <3>1
    <3>3. pre[i] \in Seq(Docs)
      BY DEF IInv, Shape
    <3>4. QED
      BY <3>2, <3>3
  <2>2. ops \in 0..MaxOps /\ overlaps \in 0..MaxOverlaps
    BY PreplanAssumption DEF IInv, Shape, Counted
  <2>3. QED
    BY <2>1, <2>2 DEF TypeOK, IInv, Shape
<1>3. QED
  BY <1>1, <1>2, InitCounted, NextCounted, PreplanInvariant, PTL DEF Spec

-----------------------------------------------------------------------------
(* Groups: what the iteration of preplanSameSlotGroup collects. *)

\* S is closed under the lists L, as far as they name members of E.
Closed(E, L, S) == \A x \in S : \A k \in E : k \in L[x] => k \in S

\* G is the smallest closed set with i.
IsGroup(E, L, i, G) ==
    /\ G \subseteq E /\ i \in G /\ Closed(E, L, G)
    /\ \A S \in SUBSET E : i \in S /\ Closed(E, L, S) => G \subseteq S

SameLists == [k \in Existing |-> Doc(k).same]

\* After MaxId rounds nothing is left to collect: a round that adds nothing is the last,
\* and there are no more than MaxId pre-exams to add.
LEMMA GrowthCloses ==
    ASSUME Shape, NEW i \in Existing, NEW f, Growth("group", i, f)
    PROVE  /\ Reached(f[MaxId]) = f[MaxId]
           /\ \A S \in SUBSET Existing : i \in S /\ Reached(S) \subseteq S => f[MaxId] \subseteq S
<1>1. f[0] = {i} /\ \A n \in 1..MaxId : f[n] = Reached(f[n - 1])
  <2> DEFINE next(n) == Grown("group", f[n - 1])
  <2>1. f = [n \in 0..MaxId |-> IF n = 0 THEN {i} ELSE next(n)]
    BY DEF Growth
  <2>2. /\ 0 \in 0..MaxId
        /\ \A n \in 1..MaxId : n \in 0..MaxId /\ n # 0
    BY PreplanAssumption
  <2> HIDE DEF next
  <2>3. f[0] = {i} /\ \A n \in 1..MaxId : f[n] = next(n)
    BY <2>1, <2>2
  <2>4. QED
    BY <2>3 DEF next, Grown
<1>2. MaxId \in Nat /\ MaxId \in 0..MaxId
  BY PreplanAssumption
<1>3. Existing \subseteq Ids /\ IsFiniteSet(Ids) /\ Cardinality(Ids) = MaxId
  <2>1. IsFiniteSet(1..MaxId) /\ Cardinality(1..MaxId) = MaxId
    BY <1>2, FS_Interval
  <2>2. QED
    BY <2>1 DEF Existing, Ids
<1>4. ASSUME NEW S \in SUBSET Existing, i \in S, Reached(S) \subseteq S PROVE f[MaxId] \subseteq S
  <2> DEFINE Bad == {n \in 0..MaxId : ~(f[n] \subseteq S)}
  <2>1. SUFFICES ASSUME Bad # {} PROVE FALSE
    BY <1>2
  <2>2. PICK n \in Bad : \A m \in Bad : n <= m
    <3>1. Bad \in SUBSET Nat
      OBVIOUS
    <3> HIDE DEF Bad
    <3>2. QED
      BY <2>1, <3>1, LeastNat
  <2>3. n # 0
    BY <1>1, <1>4, <2>2
  <2>4. n \in 1..MaxId /\ n - 1 \in 0..MaxId /\ n - 1 \notin Bad
    BY <1>2, <2>2, <2>3
  <2>5. f[n - 1] \subseteq S /\ f[n] = Reached(f[n - 1])
    BY <1>1, <2>4
  <2>6. f[n] \subseteq Reached(S)
    BY <2>5 DEF Reached
  <2>7. QED
    BY <1>4, <2>2, <2>6
<1>5. \A n \in 0..MaxId : f[n] \subseteq Existing
  <2> DEFINE Bad == {n \in 0..MaxId : ~(f[n] \subseteq Existing)}
  <2>1. SUFFICES ASSUME Bad # {} PROVE FALSE
    OBVIOUS
  <2>2. PICK n \in Bad : \A m \in Bad : n <= m
    <3>1. Bad \in SUBSET Nat
      OBVIOUS
    <3> HIDE DEF Bad
    <3>2. QED
      BY <2>1, <3>1, LeastNat
  <2>3. n # 0
    BY <1>1, <2>2
  <2>4. n \in 1..MaxId /\ n - 1 \in 0..MaxId /\ n - 1 \notin Bad
    BY <1>2, <2>2, <2>3
  <2>5. f[n - 1] \subseteq Existing /\ f[n] = Reached(f[n - 1])
    BY <1>1, <2>4
  <2>6. QED
    BY <2>2, <2>5 DEF Reached
<1>6. ASSUME NEW n \in 0..MaxId PROVE IsFiniteSet(f[n]) /\ Cardinality(f[n]) \in Nat /\ Cardinality(f[n]) <= MaxId
  <2>1. f[n] \subseteq Ids
    BY <1>3, <1>5
  <2>2. QED
    BY <1>3, <2>1, FS_Subset, FS_CardinalityType
<1>7. \A n \in 0..MaxId : Reached(f[n]) = f[n] \/ Cardinality(f[n]) >= n + 1
  <2> DEFINE Bad == {n \in 0..MaxId : ~(Reached(f[n]) = f[n] \/ Cardinality(f[n]) >= n + 1)}
  <2>1. SUFFICES ASSUME Bad # {} PROVE FALSE
    OBVIOUS
  <2>2. PICK n \in Bad : \A m \in Bad : n <= m
    <3>1. Bad \in SUBSET Nat
      OBVIOUS
    <3> HIDE DEF Bad
    <3>2. QED
      BY <2>1, <3>1, LeastNat
  <2>3. n # 0
    <3>1. Cardinality({i}) = 1
      BY FS_Singleton
    <3>2. 0 \notin Bad
      BY <1>1, <3>1
    <3>3. QED
      BY <2>2, <3>2
  <2>4. n \in 1..MaxId /\ n \in 0..MaxId /\ n - 1 \in 0..MaxId /\ n - 1 \notin Bad
    BY <1>2, <2>2, <2>3
  <2>5. f[n] = Reached(f[n - 1]) /\ (Reached(f[n - 1]) = f[n - 1] \/ Cardinality(f[n - 1]) >= n)
    BY <1>1, <2>4
  <2>6. CASE f[n] = f[n - 1]
    BY <2>2, <2>5, <2>6
  <2>7. CASE f[n] # f[n - 1]
    <3>1. f[n - 1] \subseteq f[n]
      BY <2>5 DEF Reached
    <3>2. Cardinality(f[n - 1]) >= n /\ Cardinality(f[n]) \in Nat /\ Cardinality(f[n - 1]) \in Nat
      BY <1>6, <2>4, <2>5, <2>7
    <3>3. Cardinality(f[n - 1]) <= Cardinality(f[n]) /\ Cardinality(f[n - 1]) # Cardinality(f[n])
      BY <1>6, <2>4, <2>7, <3>1, FS_Subset
    <3>4. Cardinality(f[n]) >= n + 1
      BY <2>4, <3>2, <3>3
    <3>5. QED
      BY <2>2, <3>4
  <2>8. QED
    BY <2>6, <2>7
<1>8. Reached(f[MaxId]) = f[MaxId]
  BY <1>2, <1>6, <1>7
<1>9. QED
  BY <1>4, <1>8

\* preplanSameSlotGroup: the group of a pre-exam is the smallest set with it that no list leaves.
LEMMA GroupIs == Shape => \A i \in Existing : IsGroup(Existing, SameLists, i, Group(i))
<1> SUFFICES ASSUME Shape, NEW i \in Existing PROVE IsGroup(Existing, SameLists, i, Group(i))
  OBVIOUS
<1> DEFINE J(f) == f = [n \in 0..MaxId |-> IF n = 0 THEN {i} ELSE Reached(f[n - 1])]
           reach == CHOOSE f : J(f)
<1>1. ASSUME NEW f PROVE J(f) <=> Growth("group", i, f)
  <2>1. \A S : Grown("group", S) = Reached(S)
    BY DEF Grown
  <2>2. \A n \in 0..MaxId : Reached(f[n - 1]) = Grown("group", f[n - 1])
    BY <2>1
  <2>3. QED
    BY <2>2, Zenon DEF Growth
<1>2. \E f : Growth("group", i, f)
  BY GrowthExists, Zenon
<1>3. Growth("group", i, reach)
  <2>1. J(reach)
    BY <1>1, <1>2, Zenon
  <2>2. QED
    BY <1>1, <2>1, Zenon
<1>4. Group(i) = reach[MaxId]
  BY DEF Group
<1> HIDE DEF reach
<1>5. /\ Group(i) \subseteq Existing /\ i \in Group(i) /\ Reached(Group(i)) = Group(i)
      /\ \A S \in SUBSET Existing : i \in S /\ Reached(S) \subseteq S => Group(i) \subseteq S
  BY <1>3, <1>4, GrowthMembers, GrowthCloses
<1>6. ASSUME NEW S \in SUBSET Existing PROVE Reached(S) \subseteq S <=> Closed(Existing, SameLists, S)
  <2>1. \A x \in S : SameLists[x] = Doc(x).same
    BY DEF SameLists
  <2>2. QED
    BY <2>1 DEF Reached, Closed
<1>7. QED
  BY <1>5, <1>6 DEF IsGroup

LEMMA GroupIsNext == Shape' => \A i \in Existing' : IsGroup(Existing', SameLists', i, Group(i)')
<1>1. (Shape => \A i \in Existing : IsGroup(Existing, SameLists, i, Group(i)))'
  BY GroupIs, PTL
<1>2. QED
  BY <1>1 DEF IsGroup, Closed

LEMMA GroupUnique ==
    ASSUME NEW E, NEW L, NEW i, NEW G, NEW H, IsGroup(E, L, i, G), IsGroup(E, L, i, H) PROVE G = H
  BY DEF IsGroup

\* The groups are the same as long as the same-slot lists are.
LEMMA GroupsKept ==
    ASSUME Shape, Shape', Existing' = Existing, \A k \in Existing : Doc(k)'.same = Doc(k).same
    PROVE  \A i \in Existing : Group(i)' = Group(i)
<1>1. SameLists' = SameLists
  BY DEF SameLists
<1>2. QED
  BY <1>1, GroupIs, GroupIsNext, GroupUnique

\* Every same-slot list names existing pre-exams only, and they name it.
Mutual == \A x \in Existing : \A k \in Doc(x).same : k \in Existing /\ x \in Doc(k).same

\* A new pre-exam joins no group.
LEMMA GroupsInserted ==
    ASSUME Shape, Shape', Mutual, NEW n \in Ids, n \notin Existing, Existing' = Existing \cup {n},
           \A k \in Existing : Doc(k)'.same = Doc(k).same
    PROVE  \A i \in Existing : Group(i)' = Group(i)
<1> SUFFICES ASSUME NEW i \in Existing PROVE Group(i)' = Group(i)
  OBVIOUS
<1>1. \A k \in Existing : SameLists[k] = Doc(k).same /\ SameLists'[k] = Doc(k).same
  BY DEF SameLists
<1>2. IsGroup(Existing, SameLists, i, Group(i))
  BY GroupIs
<1>3. Closed(Existing', SameLists', Group(i))
  BY <1>1, <1>2 DEF IsGroup, Closed, Mutual
<1>4. ASSUME NEW S \in SUBSET Existing', i \in S, Closed(Existing', SameLists', S) PROVE Group(i) \subseteq S
  <2>1. Closed(Existing, SameLists, S \cap Existing)
    BY <1>1, <1>4 DEF Closed
  <2>2. QED
    BY <1>2, <1>4, <2>1 DEF IsGroup
<1>5. IsGroup(Existing', SameLists', i, Group(i))
  BY <1>2, <1>3, <1>4 DEF IsGroup
<1>6. QED
  BY <1>5, GroupIsNext, GroupUnique

\* With mutual lists a group is that of each of its members.
LEMMA OneGroup ==
    ASSUME Shape, Mutual, NEW i \in Existing, NEW k \in Group(i)
    PROVE  k \in Existing /\ Group(k) = Group(i)
<1>1. IsGroup(Existing, SameLists, i, Group(i)) /\ k \in Existing
  BY GroupIs DEF IsGroup
<1>2. IsGroup(Existing, SameLists, k, Group(k))
  BY <1>1, GroupIs
<1>3. Group(k) \subseteq Group(i)
  BY <1>1, <1>2 DEF IsGroup
<1>4. i \in Group(k)
  <2> SUFFICES ASSUME i \notin Group(k) PROVE FALSE
    OBVIOUS
  <2> DEFINE S == Existing \ Group(k)
  <2>1. \A x \in Existing : SameLists[x] = Doc(x).same
    BY DEF SameLists
  <2>2. Closed(Existing, SameLists, S)
    BY <1>2, <2>1 DEF Closed, IsGroup, Mutual
  <2>3. Group(i) \subseteq S
    BY <1>1, <2>2 DEF IsGroup
  <2>4. QED
    BY <1>2, <2>3 DEF IsGroup
<1>5. Group(i) \subseteq Group(k)
  BY <1>1, <1>2, <1>4 DEF IsGroup
<1>6. QED
  BY <1>1, <1>3, <1>5

-----------------------------------------------------------------------------
(* What has been carried over. *)

\* The ancodes of a group, and the same-slot lists they are to have.
Codes(i) == {Doc(m).ancode : m \in Group(i)} \ {None}
Lists(i) == {<<a, Codes(i) \ {a}>> : a \in Codes(i)}

\* The constraints of a are what the groups say.
Settled(a) ==
    /\ \A i \in Existing : Doc(i).ancode = a => cons[a] = Codes(i) \ {a}
    /\ (\A i \in Existing : Doc(i).ancode # a) => cons[a] = None

\* The request of c has changed a link to an ancode, and what follows from it for the
\* constraints has still to be written.
Carrying(c) == At(c, "sync") \/ At(c, "carry")
Unsettled(c) == Carrying(c) \/ At(c, "release")
Moved(c) == IF job[c].op = "connect" THEN job[c].doc.ancode ELSE job[c].freed

GroupReads(c) ==
    LET j == job[c] IN
    /\ \A i \in Ids, d \in Docs : Holds(c, i, d) /\ j.op \notin {"connect", "disconnect"} => d.ancode = Doc(i).ancode
    /\ Busy(c) /\ j.op = "same" => \A m \in Existing : Doc(m).ancode = None
    /\ At(c, "replace") /\ j.op = "connect" =>
          Doc(j.id).ancode \in {None, j.doc.ancode} /\ \A o \in Existing \ {j.id} : Doc(o).ancode # j.doc.ancode
    /\ At(c, "replace") /\ j.op = "disconnect" => j.doc.ancode = None /\ j.freed = Doc(j.id).ancode
    /\ Carrying(c) /\ j.op = "connect" => Doc(j.id).ancode = j.doc.ancode
    /\ Unsettled(c) /\ j.op = "disconnect" /\ j.freed # None => \A i \in Existing : Doc(i).ancode # j.freed

\* The lists of the group name each other, but for the ancode that was linked or freed.
Around(C, x) ==
    \A a \in C : IF a = x THEN cons[a] = None \/ cons[a] \subseteq C
                ELSE cons[a] # None /\ cons[a] \ {x} = C \ {a, x}
Near(c) == Around(Codes(job[c].id), Moved(c))

\* The first list that is written settles the whole group.
GroupWorks(c) ==
    LET i == job[c].id IN
    /\ Carrying(c) => Near(c) /\ \A a \in Ancodes \ (Codes(i) \cup {Moved(c)}) : Settled(a)
    /\ At(c, "carry") => /\ job[c].rest \subseteq Lists(i)
                         /\ job[c].rest = Lists(i) \/ \A a \in Codes(i) : Settled(a)
    /\ At(c, "release") => \A a \in Ancodes \ {job[c].freed} : Settled(a)

GroupGaps == {"failure", "update", "delete", "late", "relink"}
GroupFollows ==
    Alone /\ Without(GroupGaps) =>
        /\ \A c \in Clients : GroupReads(c) /\ GroupWorks(c)
        /\ (\A c \in Clients : ~Unsettled(c)) => \A a \in Ancodes : Settled(a)

-----------------------------------------------------------------------------
(* Ancodes of groups. *)

LEMMA CodesMembers ==
    ASSUME Shape, NEW i \in Existing
    PROVE  /\ Codes(i) \subseteq Ancodes
           /\ \A a : a \in Codes(i) <=> a # None /\ \E m \in Group(i) : Doc(m).ancode = a
<1>1. Group(i) \subseteq Existing /\ \A m \in Existing : Doc(m).ancode \in Ancodes \cup {None}
  BY GroupMembers, DocShape DEF Docs
<1>2. QED
  BY <1>1 DEF Codes

LEMMA SettledKept ==
    ASSUME Shape, Shape', Existing' = Existing,
           \A k \in Existing : Doc(k)'.same = Doc(k).same /\ Doc(k)'.ancode = Doc(k).ancode
    PROVE  /\ \A i \in Existing : Codes(i)' = Codes(i) /\ Lists(i)' = Lists(i)
           /\ \A a : cons'[a] = cons[a] /\ Settled(a) => Settled(a)'
<1>1. \A i \in Existing : Group(i)' = Group(i) /\ Group(i) \subseteq Existing
  BY GroupsKept, GroupMembers
<1>2. ASSUME NEW i \in Existing PROVE Codes(i)' = Codes(i)
  BY <1>1 DEF Codes
<1>3. \A i \in Existing : Lists(i)' = Lists(i)
  BY <1>2 DEF Lists
<1>4. ASSUME NEW a, cons'[a] = cons[a], Settled(a) PROVE Settled(a)'
  BY <1>2, <1>4 DEF Settled
<1>5. QED
  BY <1>2, <1>3, <1>4

\* Where one ancode has one pre-exam, what CarriedOver gives is what the lists are to be.
LEMMA CarriedLists ==
    ASSUME Base, ClaimsBounded, Alone, NEW i \in Existing PROVE CarriedOver(i) = Lists(i)
<1> DEFINE connected == {m \in Group(i) : Doc(m).ancode # None}
           list(m) == {Doc(o).ancode : o \in connected \ {m}}
<1>1. CarriedOver(i) = {<<Doc(m).ancode, list(m)>> : m \in connected}
  BY DEF CarriedOver
<1>2. Group(i) \subseteq Existing /\ \A m \in Existing : Doc(m).ancode \in Ancodes \cup {None}
  BY GroupMembers, DocShape DEF Base, Docs
<1>3. ASSUME NEW m \in connected PROVE Doc(m).ancode \in Codes(i) /\ list(m) = Codes(i) \ {Doc(m).ancode}
  <2>1. Doc(m).ancode \in Codes(i) /\ Doc(m).ancode \in Ancodes /\ m \in Existing
    BY <1>2, <1>3 DEF Codes
  <2>2. ASSUME NEW o \in connected \ {m} PROVE Doc(o).ancode \in Codes(i) \ {Doc(m).ancode}
    <3>1. o \in Existing /\ Doc(o).ancode \in Codes(i)
      BY <1>2, <2>2 DEF Codes
    <3>2. QED
      BY <2>1, <2>2, <3>1, OnePreExam
  <2>3. ASSUME NEW a \in Codes(i), a # Doc(m).ancode PROVE a \in list(m)
    <3>1. PICK o \in Group(i) : Doc(o).ancode = a /\ a # None
      BY <2>3 DEF Codes
    <3>2. QED
      BY <2>3, <3>1
  <2>4. QED
    BY <2>1, <2>2, <2>3
<1>4. \A a \in Codes(i) : \E m \in connected : Doc(m).ancode = a
  BY DEF Codes
<1>5. ASSUME NEW r \in CarriedOver(i) PROVE r \in Lists(i)
  <2>1. PICK m \in connected : r = <<Doc(m).ancode, list(m)>>
    BY <1>1, <1>5, Zenon
  <2> HIDE DEF connected, list
  <2>2. r = <<Doc(m).ancode, Codes(i) \ {Doc(m).ancode}>> /\ Doc(m).ancode \in Codes(i)
    BY <1>3, <2>1
  <2>3. QED
    BY <2>2, Zenon DEF Lists
<1>6. ASSUME NEW r \in Lists(i) PROVE r \in CarriedOver(i)
  <2>1. PICK a \in Codes(i) : r = <<a, Codes(i) \ {a}>>
    BY <1>6, Zenon DEF Lists
  <2>2. PICK m \in connected : Doc(m).ancode = a
    BY <1>4
  <2>3. r = <<Doc(m).ancode, list(m)>>
    BY <1>3, <2>1, <2>2
  <2>4. QED
    BY <1>1, <2>2, <2>3, Zenon
<1>7. QED
  BY <1>5, <1>6

-----------------------------------------------------------------------------
(* Steps that have nothing to do with it. *)

\* The request of c runs alone.
GroupStart(c) ==
    /\ Base /\ Base' /\ ClaimsBounded /\ OneAtATime /\ LinksFollow /\ GroupFollows
    /\ Alone /\ Without(GroupGaps)
    /\ \A e \in Clients \ {c} : ~Busy(e) /\ ~Busy(e)'

LEMMA GroupFrom ==
    ASSUME NEW c \in Clients, \A e \in Clients \ {c} : ~Busy(e)', GroupReads(c)', GroupWorks(c)',
           ~Unsettled(c)' => \A a \in Ancodes : Settled(a)'
    PROVE  GroupFollows'
<1>1. \A e \in Clients \ {c} : GroupReads(e)' /\ GroupWorks(e)' /\ ~Unsettled(e)'
  BY DEF GroupReads, GroupWorks, Holds, Carrying, Unsettled, At
<1>2. QED
  BY <1>1 DEF GroupFollows

LEMMA GroupBefore ==
    ASSUME NEW c \in Clients, GroupFollows, Alone, Without(GroupGaps), \A e \in Clients \ {c} : ~Busy(e)
    PROVE  GroupReads(c) /\ GroupWorks(c) /\ (~Unsettled(c) => \A a \in Ancodes : Settled(a))
<1>1. \A e \in Clients \ {c} : ~Unsettled(e)
  BY DEF Carrying, Unsettled, At
<1>2. QED
  BY <1>1 DEF GroupFollows

\* The lists are mutual outside of mirroring.
LEMMA MutualNow ==
    ASSUME LinksFollow, Alone, Without(GroupGaps), NEW c \in Clients, \A e \in Clients \ {c} : ~Busy(e),
           ~(At(c, "mirror") \/ At(c, "replaceOther"))
    PROVE  Mutual
<1>1. Without(LinkGaps)
  BY DEF Without, LinkGaps, GroupGaps
<1>2. \A op \in {"pair", "same"}, i \in Existing : \A k \in Side(op, Doc(i)) :
         k \in Existing /\ i \in Side(op, Doc(k))
  BY <1>1, LinksBefore, NotMending
<1>3. QED
  BY <1>2 DEF Mutual, Side

LEMMA ReadsEnded == ASSUME NEW c \in Clients, Ended(c) PROVE GroupReads(c)' /\ GroupWorks(c)' /\ ~Unsettled(c)'
  BY DEF GroupReads, GroupWorks, Ended, Holds, Carrying, Unsettled, At, Busy

\* A step that leaves the constraints and the links to ancodes alone, and the same-slot
\* lists, too, unless nobody is connected.
LEMMA GroupUntouched ==
    ASSUME NEW c \in Clients, GroupStart(c), ~Unsettled(c), ~Unsettled(c)', GroupReads(c)', UNCHANGED cons,
           Existing' = Existing, \A k \in Existing : Doc(k)'.ancode = Doc(k).ancode,
           \/ \A k \in Existing : Doc(k)'.same = Doc(k).same
           \/ \A k \in Existing : Doc(k).ancode = None
    PROVE  GroupFollows'
<1>1. \A a \in Ancodes : Settled(a)
  BY GroupBefore DEF GroupStart
<1>2. \A a \in Ancodes : Settled(a)'
  <2>1. CASE \A k \in Existing : Doc(k)'.same = Doc(k).same
    BY <1>1, <2>1, SettledKept DEF GroupStart, Base
  <2>2. CASE \A k \in Existing : Doc(k).ancode = None
    <3>1. \A a \in Ancodes : cons[a] = None
      BY <1>1, <2>2, PreplanAssumption DEF Settled
    <3>2. \A a \in Ancodes : \A k \in Existing' : Doc(k)'.ancode # a
      BY <2>2, PreplanAssumption
    <3>3. QED
      BY <3>1, <3>2 DEF Settled
  <2>3. QED
    BY <2>1, <2>2
<1>3. GroupWorks(c)'
  BY DEF GroupWorks, Unsettled, Carrying
<1>4. QED
  BY <1>2, <1>3, GroupFrom DEF GroupStart

\* What the starting point says, in the words of the lemmas about links.
LEMMA GroupLinks ==
    ASSUME NEW c \in Clients, GroupStart(c)
    PROVE  LinkReads(c) /\ GroupReads(c) /\ GroupWorks(c) /\ (~Unsettled(c) => \A a \in Ancodes : Settled(a))
<1>1. Without(LinkGaps)
  BY DEF GroupStart, Without, LinkGaps, GroupGaps
<1>2. QED
  BY <1>1, LinksBefore, GroupBefore DEF GroupStart

LEMMA InsertGroup ==
    ASSUME NEW c \in Clients, GroupStart(c), InsertPreplanExam(c) PROVE GroupFollows'
<1>1. PICK i \in Ids : i = job[c].id
  BY InsertStep DEF GroupStart, Base
<1>2. At(c, "insert") /\ Ended(c) /\ UNCHANGED cons /\ pre' = [pre EXCEPT ![i] = Append(@, New)]
  BY <1>1, InsertStep DEF GroupStart, Base
<1>3. i \notin Existing
  BY <1>1, <1>2 DEF GroupStart, OneAtATime, Existing
<1>4. Existing' = Existing \cup {i} /\ Doc(i)' = New /\ \A k \in Existing : Doc(k)' = Doc(k)
  BY <1>2, <1>3, InsertedDocs DEF GroupStart, Base
<1>5. ~Unsettled(c) /\ ~(At(c, "mirror") \/ At(c, "replaceOther"))
  BY <1>2 DEF Unsettled, Carrying, At
<1>6. Mutual
  BY <1>5, MutualNow DEF GroupStart
<1>7. \A k \in Existing : Group(k)' = Group(k) /\ Group(k) \subseteq Existing
  BY <1>3, <1>4, <1>6, GroupsInserted, GroupMembers DEF GroupStart, Base
<1>8. \A k \in Existing : Codes(k)' = Codes(k)
  BY <1>4, <1>7 DEF Codes
<1>9. \A a \in Ancodes : Settled(a)
  BY <1>5, GroupLinks
<1>10. Doc(i)'.ancode = None
  BY <1>4 DEF New
<1>11. ASSUME NEW a \in Ancodes PROVE Settled(a)'
  <2>1. a # None
    BY PreplanAssumption
  <2>2. \A k \in Existing' : Doc(k)'.ancode = a => k \in Existing /\ Doc(k).ancode = a
    BY <1>4, <1>10, <2>1
  <2>3. \A k \in Existing : Doc(k).ancode = a => k \in Existing' /\ Doc(k)'.ancode = a
    BY <1>4
  <2>4. QED
    BY <1>2, <1>8, <1>9, <2>2, <2>3 DEF Settled
<1>12. QED
  BY <1>2, <1>11, ReadsEnded, GroupFrom DEF GroupStart

\* Documents that are written without their ancode: the same-slot list may only change
\* while nobody is connected.
LEMMA WrittenGroup ==
    ASSUME NEW c \in Clients, GroupStart(c), NEW i \in Ids, NEW d \in Docs, Holds(c, i, d),
           job[c].op \notin {"connect", "disconnect"}, ~Unsettled(c),
           pre' = Replaced(i, d) \/ pre' = UpsertPreplanExam(i, d), UNCHANGED cons,
           ~Unsettled(c)', job[c].op # "same" => d.same = Doc(i).same,
           (Existing' = Existing /\ \A k \in Existing : Doc(k)'.ancode = Doc(k).ancode) => GroupReads(c)'
    PROVE  GroupFollows'
<1>1. i \in Existing /\ Existing' = Existing /\ Doc(i)' = d /\ \A k \in Existing \ {i} : Doc(k)' = Doc(k)
  BY Written DEF GroupStart
<1>2. GroupReads(c)
  BY GroupLinks
<1>3. d.ancode = Doc(i).ancode
  BY <1>2 DEF GroupReads
<1>4. \A k \in Existing : Doc(k)'.ancode = Doc(k).ancode
  BY <1>1, <1>3
<1>5. GroupReads(c)'
  BY <1>1, <1>4
<1>6. CASE job[c].op = "same"
  <2>1. Busy(c)
    BY DEF Holds, At
  <2>2. \A k \in Existing : Doc(k).ancode = None
    BY <1>2, <1>6, <2>1 DEF GroupReads
  <2>3. QED
    BY <1>1, <1>4, <1>5, <2>2, GroupUntouched
<1>7. CASE job[c].op # "same"
  <2>1. \A k \in Existing : Doc(k)'.same = Doc(k).same
    BY <1>1, <1>7
  <2>2. QED
    BY <1>1, <1>4, <1>5, <2>1, GroupUntouched
<1>8. QED
  BY <1>6, <1>7

\* A request that has nothing to write next keeps what it has read of the groups.
LEMMA ReadsKept ==
    ASSUME NEW c \in Clients, GroupReads(c), NEW s \in {"mirror", "pin", "unpin"}, Kept(c, s),
           Existing' = Existing, \A k \in Existing : Doc(k)'.ancode = Doc(k).ancode, Busy(c)
    PROVE  GroupReads(c)' /\ ~Unsettled(c)'
<1>1. /\ Busy(c)' /\ job'[c].step = s /\ job'[c].op = job[c].op
  BY DEF Kept
<1>2. /\ \A i, d : ~Holds(c, i, d)'
      /\ ~At(c, "replace")' /\ ~Carrying(c)' /\ ~Unsettled(c)'
  BY <1>1 DEF Holds, At, Carrying, Unsettled
<1>3. job[c].op = "same" => \A m \in Existing' : Doc(m)'.ancode = None
  BY DEF GroupReads
<1>4. QED
  BY <1>1, <1>2, <1>3 DEF GroupReads

LEMMA ReplaceGroup ==
    ASSUME NEW c \in Clients, GroupStart(c), Replace(c), job[c].op \notin {"connect", "disconnect"}
    PROVE  GroupFollows'
<1> DEFINE j == job[c]
<1>1. PICK i \in Ids : i = j.id
  BY ReplaceStep DEF GroupStart, Base
<1>2. PICK d \in Docs : d = j.doc
  BY ReplaceStep DEF GroupStart, Base
<1>3. At(c, "replace") /\ Busy(c) /\ Holds(c, i, d) /\ pre' = Replaced(i, d) /\ UNCHANGED cons
  BY <1>1, <1>2, ReplaceStep DEF GroupStart, Base, Holds, At
<1>4. Ended(c) \/ \E s \in {"mirror", "pin"} : Kept(c, s)
  BY ReplaceStep DEF GroupStart, Base
<1>5. GroupReads(c) /\ LinkReads(c)
  BY GroupLinks
<1>6. ~Unsettled(c)
  BY <1>3 DEF Unsettled, Carrying, At
<1>7. j.op # "same" => d.same = Doc(i).same
  <2>1. CASE j.op = "pair"
    BY <1>1, <1>2, <1>3, <1>5, <2>1 DEF LinkReads, Aside
  <2>2. CASE j.op \notin {"pair", "same"}
    BY <1>3, <1>5, <2>2 DEF LinkReads
  <2>3. QED
    BY <2>1, <2>2
<1>8. ~Unsettled(c)'
  BY <1>4 DEF Ended, Kept, Unsettled, Carrying, At, Busy
<1>9. (Existing' = Existing /\ \A k \in Existing : Doc(k)'.ancode = Doc(k).ancode) => GroupReads(c)'
  BY <1>3, <1>4, <1>5, ReadsEnded, ReadsKept
<1>10. QED
  BY <1>3, <1>6, <1>7, <1>8, <1>9, WrittenGroup

LEMMA MirrorGroup ==
    ASSUME NEW c \in Clients, GroupStart(c), Mirror(c) PROVE GroupFollows'
<1> DEFINE j == job[c]
<1>1. At(c, "mirror") /\ Busy(c) /\ UNCHANGED <<pre, cons>> /\ j \in LinkJobs
  BY MirrorStep DEF GroupStart, Base, At
<1>2. Existing' = Existing /\ \A k : Doc(k)' = Doc(k)
  BY <1>1 DEF Existing, Doc
<1>3. ~Unsettled(c) /\ GroupReads(c)
  BY <1>1, GroupLinks DEF Unsettled, Carrying, At
<1>4. ASSUME NEW r \in j.rest, r[1] \in Existing, r[2] \in BOOLEAN, Turned(c, r)
      PROVE  GroupReads(c)' /\ ~Unsettled(c)'
  <2>1. PICK o \in {"pair", "same"}, i \in Ids : o = j.op /\ i = j.id
    BY <1>1 DEF LinkJobs
  <2> DEFINE d == Linked(o, r[1], i, r[2])
  <2>2. Busy(c)' /\ job'[c].step = "replaceOther" /\ job'[c].op = o /\ job'[c].other = r[1] /\ job'[c].doc = d
    BY <1>4, <2>1 DEF Turned
  <2>3. d.ancode = Doc(r[1]).ancode
    BY <1>4, LinkedDoc DEF GroupStart, Base
  <2> HIDE DEF d
  <2>4. \A k, e : Holds(c, k, e)' => e.ancode = Doc(k)'.ancode
    BY <1>2, <2>2, <2>3 DEF Holds, At
  <2>5. o = "same" => \A m \in Existing' : Doc(m)'.ancode = None
    BY <1>1, <1>2, <1>3, <2>1 DEF GroupReads
  <2>6. ~At(c, "replace")' /\ ~Carrying(c)' /\ ~Unsettled(c)'
    BY <2>2 DEF At, Carrying, Unsettled
  <2>7. QED
    BY <2>2, <2>4, <2>5, <2>6 DEF GroupReads
<1>5. GroupReads(c)' /\ ~Unsettled(c)'
  BY <1>1, <1>2, <1>3, <1>4, MirrorStep, ReadsEnded, ReadsKept DEF GroupStart, Base
<1>6. QED
  BY <1>1, <1>2, <1>3, <1>5, GroupUntouched

LEMMA ReplaceOtherGroup ==
    ASSUME NEW c \in Clients, GroupStart(c), ReplaceOther(c) PROVE GroupFollows'
<1> DEFINE j == job[c]
<1>1. /\ At(c, "replaceOther") /\ Busy(c) /\ j \in LinkJobs /\ j.other \in Ids /\ pre' = Replaced(j.other, j.doc)
      /\ Kept(c, "mirror") /\ UNCHANGED cons
  BY ReplaceOtherStep DEF GroupStart, Base, At
<1>2. PICK m \in Ids, d \in Docs : m = j.other /\ d = j.doc
  BY <1>1 DEF LinkJobs
<1>3. Holds(c, m, d) /\ pre' = Replaced(m, d)
  BY <1>1, <1>2 DEF Holds
<1>4. ~Unsettled(c) /\ GroupReads(c) /\ LinkReads(c)
  BY <1>1, GroupLinks DEF Unsettled, Carrying, At
<1>5. j.op \in {"pair", "same"}
  BY <1>1 DEF LinkJobs
<1>6. j.op # "same" => d.same = Doc(m).same
  BY <1>1, <1>2, <1>4, <1>5 DEF LinkReads, Aside
<1>7. ~Unsettled(c)'
  BY <1>1 DEF Kept, Unsettled, Carrying, At
<1>8. (Existing' = Existing /\ \A k \in Existing : Doc(k)'.ancode = Doc(k).ancode) => GroupReads(c)'
  BY <1>1, <1>4, ReadsKept
<1>9. QED
  BY <1>1, <1>3, <1>4, <1>5, <1>6, <1>7, <1>8, WrittenGroup

LEMMA PersistGroup ==
    ASSUME NEW c \in Clients, GroupStart(c), Persist(c) PROVE GroupFollows'
<1>1. At(c, "persist") /\ job[c].op \in {"reset", "generate"} /\ UNCHANGED cons
  BY PersistStep DEF GroupStart, Base, SweepJobs
<1>2. ~Unsettled(c) /\ GroupReads(c) /\ LinkReads(c)
  BY <1>1, GroupLinks DEF Unsettled, Carrying, At
<1>3. CASE Ended(c) /\ UNCHANGED pre
  <2>1. Existing' = Existing /\ \A k : Doc(k)' = Doc(k)
    BY <1>3 DEF Existing, Doc
  <2>2. QED
    BY <1>1, <1>2, <1>3, <2>1, ReadsEnded, GroupUntouched
<1>4. ASSUME NEW i \in Ids, NEW d \in Docs, <<i, d>> \in job[c].rest,
             pre' = Replaced(i, d) \/ pre' = UpsertPreplanExam(i, d),
             Kept(c, "persist"), job'[c].rest = job[c].rest \ {<<i, d>>}
      PROVE  GroupFollows'
  <2>1. Holds(c, i, d) /\ \A k, e : Holds(c, k, e)' => Holds(c, k, e)
    BY <1>1, <1>4 DEF Holds, Kept, At
  <2>2. d.same = Doc(i).same
    BY <1>1, <1>2, <2>1 DEF LinkReads
  <2>3. job'[c].op \in {"reset", "generate"} /\ job'[c].step = "persist" /\ Busy(c)'
    BY <1>1, <1>4 DEF Kept
  <2>4. ~Unsettled(c)' /\ ~Carrying(c)' /\ ~At(c, "replace")'
    BY <2>3 DEF Unsettled, Carrying, At
  <2>5. \A k \in Ids, e \in Docs : Holds(c, k, e) => k \in Existing /\ e.ancode = Doc(k).ancode
    BY <1>1, <1>2 DEF GroupReads, GroupStart, OneAtATime
  <2>6. (Existing' = Existing /\ \A k \in Existing : Doc(k)'.ancode = Doc(k).ancode) => GroupReads(c)'
    BY <2>1, <2>3, <2>4, <2>5 DEF GroupReads
  <2>7. QED
    BY <1>1, <1>2, <1>4, <2>1, <2>2, <2>4, <2>6, WrittenGroup
<1>5. QED
  BY <1>3, <1>4, PersistStep DEF GroupStart, Base

LEMMA PinGroup ==
    ASSUME NEW c \in Clients, GroupStart(c), Pin(c) \/ Unpin(c) PROVE GroupFollows'
<1>1. /\ At(c, "pin") \/ At(c, "unpin")
      /\ Ended(c) /\ UNCHANGED <<pre, cons>>
  BY PinStep, UnpinStep DEF GroupStart, Base
<1>2. ~Unsettled(c)
  BY <1>1 DEF Unsettled, Carrying, At
<1>3. Existing' = Existing /\ \A k : Doc(k)' = Doc(k)
  BY <1>1 DEF Existing, Doc
<1>4. QED
  BY <1>1, <1>2, <1>3, ReadsEnded, GroupUntouched

-----------------------------------------------------------------------------
(* Linking an ancode, and what follows from it for the constraints. *)

\* Where one ancode has one pre-exam and lists are mutual, a pre-exam with an ancode of a
\* group is in it.
LEMMA CodeOf ==
    ASSUME Base, ClaimsBounded, Alone, Mutual, NEW i \in Existing, NEW k \in Existing,
           Doc(k).ancode \in Codes(i)
    PROVE  k \in Group(i) /\ Codes(k) = Codes(i) /\ Group(k) = Group(i)
<1>1. PICK m \in Group(i) : Doc(m).ancode = Doc(k).ancode /\ Doc(k).ancode # None
  BY CodesMembers DEF Base
<1>2. Doc(k).ancode \in Ancodes /\ m \in Existing
  BY <1>1, CodesMembers, GroupMembers DEF Base
<1>3. m = k
  BY <1>1, <1>2, OnePreExam
<1>4. k \in Group(i) /\ Group(k) = Group(i)
  BY <1>1, <1>3, OneGroup DEF Base
<1>5. QED
  BY <1>4 DEF Codes

\* Writing the link to an ancode, or its end: the lists of the group are as they should be
\* but for this ancode, and those of the other groups are.
LEMMA ConnectGroup ==
    ASSUME NEW c \in Clients, GroupStart(c), Replace(c), job[c].op \in {"connect", "disconnect"}
    PROVE  GroupFollows'
<1> DEFINE j == job[c]
           x == Moved(c)
<1>1. PICK i \in Ids : i = j.id
  BY ReplaceStep DEF GroupStart, Base
<1>2. PICK d \in Docs : d = j.doc
  BY ReplaceStep DEF GroupStart, Base
<1>3. At(c, "replace") /\ Holds(c, i, d) /\ pre' = Replaced(i, d) /\ UNCHANGED cons /\ Kept(c, "sync")
  BY <1>1, <1>2, ReplaceStep DEF GroupStart, Base, Holds
<1>4. i \in Existing /\ Existing' = Existing /\ Doc(i)' = d /\ \A k \in Existing \ {i} : Doc(k)' = Doc(k)
  BY <1>3, Written DEF GroupStart
<1>5. ~Unsettled(c) /\ ~(At(c, "mirror") \/ At(c, "replaceOther"))
  BY <1>3 DEF Unsettled, Carrying, At
<1>6. GroupReads(c) /\ LinkReads(c) /\ Mutual /\ \A a \in Ancodes : Settled(a)
  BY <1>5, GroupLinks, MutualNow DEF GroupStart
<1>7. /\ Doc(i).ancode \in {None, x} /\ d.ancode \in {None, x}
      /\ x # None => \A o \in Existing \ {i} : Doc(o).ancode # x
  <2>1. Doc(i).ancode \in Ancodes \cup {None}
    BY <1>4, DocShape DEF GroupStart, Base, Docs
  <2>2. CASE j.op = "connect"
    BY <1>1, <1>2, <1>3, <1>6, <2>2 DEF GroupReads, Moved
  <2>3. CASE j.op = "disconnect"
    <3>1. d.ancode = None /\ x = Doc(i).ancode
      BY <1>1, <1>2, <1>3, <1>6, <2>3 DEF GroupReads, Moved
    <3>2. Doc(i).ancode # None => \A o \in Existing \ {i} : Doc(o).ancode # Doc(i).ancode
      BY <1>4, <2>1, OnePreExam DEF GroupStart
    <3>3. QED
      BY <3>1, <3>2
  <2>4. QED
    BY <2>2, <2>3
<1>8. /\ job'[c].id = i /\ job'[c].doc = d /\ job'[c].freed = j.freed /\ job'[c].op = j.op
      /\ job'[c].step = "sync" /\ Busy(c)' /\ Moved(c)' = x
  BY <1>1, <1>2, <1>3 DEF Kept, Moved
<1> HIDE DEF x
<1>9. \A k \in Existing : Doc(k)'.same = Doc(k).same
  <2>1. d.same = Doc(i).same
    BY <1>3, <1>6 DEF LinkReads
  <2>2. QED
    BY <1>4, <2>1
<1>10. \A k \in Existing : Group(k)' = Group(k) /\ Group(k) \subseteq Existing /\ k \in Group(k)
  <2>1. \A k \in Existing : Group(k)' = Group(k)
    BY <1>4, <1>9, GroupsKept DEF GroupStart, Base
  <2>2. QED
    BY <2>1, GroupMembers, GroupIs DEF IsGroup, GroupStart, Base
<1>11. \A k \in Existing : \A a : a # x => (Doc(k)'.ancode = a /\ a # None <=> Doc(k).ancode = a /\ a # None)
  BY <1>4, <1>7
<1>12. \A k \in Existing : \A a : a # x => (a \in Codes(k)' <=> a \in Codes(k))
  BY <1>10, <1>11 DEF Codes
<1>13. ASSUME NEW k \in Existing, i \notin Group(k) PROVE Codes(k)' = Codes(k)
  BY <1>4, <1>10, <1>13 DEF Codes
<1>14. \A k \in Existing : Codes(k) \subseteq Ancodes
  BY CodesMembers DEF GroupStart, Base
<1>15. ASSUME NEW a \in Codes(i)', a # x
       PROVE  a \in Ancodes /\ cons[a] # None /\ cons[a] \ {x} = Codes(i)' \ {a, x}
  <2>1. a \in Codes(i) /\ a \in Ancodes
    BY <1>4, <1>12, <1>14, <1>15
  <2>2. PICK m \in Group(i) : Doc(m).ancode = a
    BY <2>1 DEF Codes
  <2>3. m \in Existing /\ Codes(m) = Codes(i)
    BY <1>4, <1>6, <1>10, <2>1, <2>2, CodeOf DEF GroupStart
  <2>4. cons[a] = Codes(i) \ {a}
    BY <1>6, <2>1, <2>2, <2>3 DEF Settled
  <2>5. cons[a] \in SUBSET Ancodes
    BY <1>4, <1>14, <2>4
  <2>6. cons[a] # None
    BY <2>5, PreplanAssumption
  <2>7. cons[a] \ {x} = Codes(i)' \ {a, x}
    BY <1>4, <1>12, <2>4
  <2>8. QED
    BY <2>1, <2>6, <2>7
<1>16. ASSUME x \in Ancodes PROVE cons[x] = None \/ cons[x] \subseteq Codes(i)'
  <2>1. CASE Doc(i).ancode = x
    <3>1. cons[x] = Codes(i) \ {x}
      BY <1>4, <1>6, <1>16, <2>1 DEF Settled
    <3>2. QED
      BY <1>4, <1>12, <3>1
  <2>2. CASE Doc(i).ancode # x
    <3>1. \A k \in Existing : Doc(k).ancode # x
      BY <1>7, <1>16, <2>2, PreplanAssumption
    <3>2. QED
      BY <1>6, <1>16, <3>1 DEF Settled
  <2>3. QED
    BY <2>1, <2>2
<1>17. Near(c)'
  <2>1. \A a \in Codes(i)' : a = x => a \in Ancodes
    <3>1. d.ancode \in Ancodes \cup {None}
      BY DEF Docs
    <3>2. ASSUME x \in Codes(i)', x \notin Ancodes PROVE FALSE
      <4>1. PICK m \in Group(i)' : Doc(m)'.ancode = x /\ x # None
        BY <3>2 DEF Codes
      <4>2. m \in Existing /\ (m = i \/ Doc(m)' = Doc(m))
        BY <1>4, <1>10, <4>1
      <4>3. Doc(m)'.ancode \in Ancodes \cup {None}
        BY <1>4, <3>1, <4>2, DocShape DEF GroupStart, Base, Docs
      <4>4. QED
        BY <3>2, <4>1, <4>3
    <3>3. QED
      BY <3>2
  <2>2. \A a \in Codes(i)' : IF a = x THEN cons[a] = None \/ cons[a] \subseteq Codes(i)'
                             ELSE cons[a] # None /\ cons[a] \ {x} = Codes(i)' \ {a, x}
    BY <1>15, <1>16, <2>1
  <2>3. QED
    BY <1>3, <1>8, <2>2 DEF Near, Around
<1>18. ASSUME NEW a \in Ancodes \ (Codes(i)' \cup {x}) PROVE Settled(a)'
  <2>1. a # None /\ a # x /\ Settled(a)
    BY <1>6, PreplanAssumption
  <2>2. ASSUME NEW k \in Existing, Doc(k)'.ancode = a PROVE cons[a] = Codes(k)' \ {a}
    <3>1. Doc(k).ancode = a
      BY <1>11, <2>1, <2>2
    <3>2. a \in Codes(k)
      BY <1>10, <2>1, <3>1 DEF Codes
    <3>3. i \notin Group(k)
      <4>1. SUFFICES ASSUME i \in Group(k) PROVE FALSE
        OBVIOUS
      <4>2. Group(i) = Group(k)
        BY <1>6, <4>1, OneGroup DEF GroupStart, Base
      <4>3. a \in Codes(i)
        BY <3>2, <4>2 DEF Codes
      <4>4. QED
        BY <1>4, <1>12, <2>1, <4>3
    <3>4. Codes(k)' = Codes(k)
      BY <1>13, <3>3
    <3>5. QED
      BY <2>1, <3>1, <3>4 DEF Settled
  <2>3. (\A k \in Existing : Doc(k)'.ancode # a) => cons[a] = None
    BY <1>11, <2>1 DEF Settled
  <2>4. QED
    BY <1>3, <1>4, <2>2, <2>3 DEF Settled
<1>19. Unsettled(c)' /\ Carrying(c)' /\ ~At(c, "carry")' /\ ~At(c, "release")' /\ ~At(c, "replace")'
       /\ \A k, e : ~Holds(c, k, e)'
  BY <1>8 DEF Unsettled, Carrying, At, Holds
<1>20. GroupWorks(c)'
  BY <1>8, <1>17, <1>18, <1>19 DEF GroupWorks
<1>21. GroupReads(c)'
  <2>1. Doc(job[c].id)'.ancode = (job'[c].doc).ancode
    BY <1>4, <1>8 DEF Doc
  <2>2. j.op = "disconnect" /\ j.freed # None => \A k \in Existing' : Doc(k)'.ancode # j.freed
    <3>1. j.op = "disconnect" => d.ancode = None /\ x = j.freed
      BY <1>2, <1>3, <1>6 DEF GroupReads, x, Moved
    <3>2. QED
      BY <1>4, <1>7, <3>1
  <2>3. j.op # "same"
    OBVIOUS
  <2>4. QED
    BY <1>8, <1>19, <2>1, <2>2, <2>3 DEF GroupReads
<1>22. QED
  BY <1>19, <1>20, <1>21, GroupFrom DEF GroupStart

\* What is to be carried over is read once.
LEMMA SyncRest ==
    ASSUME Shape, NEW c \in Clients, Sync(c)
    PROVE  job'[c].rest = CarriedOver(job[c].id) /\ job[c].op \in {"connect", "disconnect"} /\ Busy(c)
<1> DEFINE j == job[c]
           s == CarriedOver(j.id)
           n == [j EXCEPT !.step = "carry", !.rest = s]
<1>1. /\ At(c, "sync") /\ Go(c, n) /\ j \in ConnectJobs
  BY SyncStep DEF Sync
<1> HIDE DEF s
<1>2. n.rest = s
  BY <1>1 DEF ConnectJobs
<1>3. job'[c] = n
  BY <1>1 DEF Go, Shape
<1> HIDE DEF n
<1>4. QED
  BY <1>1, <1>2, <1>3 DEF s, At, ConnectJobs

\* Each list that is written goes off the rest; with an empty rest the request goes on.
LEMMA CarryRest ==
    ASSUME Shape, NEW c \in Clients, Carry(c)
    PROVE  LET j == job[c] IN
           /\ j.op \in {"connect", "disconnect"} /\ Busy(c)
           /\ \/ \E r \in j.rest : /\ cons' = AddConstraints(r[1], r[2])
                                   /\ Kept(c, "carry") /\ job'[c].rest = j.rest \ {r}
              \/ /\ j.rest = {} /\ UNCHANGED cons
                 /\ \/ j.op = "connect" /\ Kept(c, "pin")
                    \/ j.op = "disconnect" /\ j.freed # None /\ Kept(c, "release")
                    \/ Ended(c) /\ ~(j.op = "disconnect" /\ j.freed # None)
<1> DEFINE j == job[c]
<1>1. /\ At(c, "carry") /\ j \in ConnectJobs /\ UNCHANGED bounds
      /\ \/ \E r \in j.rest : cons' = AddConstraints(r[1], r[2]) /\ Go(c, [j EXCEPT !.rest = @ \ {r}])
         \/ /\ j.rest = {} /\ UNCHANGED cons
            /\ CASE j.op = "connect" /\ j.doc.fixed /\ j.doc.time # None -> Go(c, [j EXCEPT !.step = "pin"])
                 [] j.op = "disconnect" /\ j.freed # None -> Go(c, [j EXCEPT !.step = "release"])
                 [] OTHER -> Done(c)
  BY CarryStep DEF Carry
<1>2. j \in Jobs /\ j # Idle /\ j.step = "carry" /\ j.op \in {"connect", "disconnect"}
  BY <1>1 DEF Shape, At, Busy, ConnectJobs
<1> HIDE DEF j
<1>3. ASSUME NEW r \in j.rest, Go(c, [j EXCEPT !.rest = @ \ {r}])
      PROVE  Kept(c, "carry") /\ job'[c].rest = j.rest \ {r}
  <2>1. job'[c] = [j EXCEPT !.rest = @ \ {r}]
    BY <1>1, <1>2, <1>3, RestRecord, GoneOn
  <2>2. QED
    BY <1>1, <1>2, <2>1, RestRecord DEF Kept, Busy, j
<1>4. ASSUME NEW s \in {"pin", "release"}, Go(c, [j EXCEPT !.step = s]) PROVE Kept(c, s)
  <2>1. job'[c] = [j EXCEPT !.step = s]
    BY <1>1, <1>2, <1>4, StepRecord, GoneOn
  <2>2. QED
    BY <1>1, <1>2, <2>1, StepRecord DEF Kept, Busy, j
<1>5. Done(c) => Ended(c)
  BY <1>1, GoneDone
<1>6. CASE \E r \in j.rest : cons' = AddConstraints(r[1], r[2]) /\ Go(c, [j EXCEPT !.rest = @ \ {r}])
  BY <1>1, <1>2, <1>3, <1>6 DEF j, At
<1>7. CASE /\ j.rest = {} /\ UNCHANGED cons
           /\ CASE j.op = "connect" /\ j.doc.fixed /\ j.doc.time # None -> Go(c, [j EXCEPT !.step = "pin"])
                [] j.op = "disconnect" /\ j.freed # None -> Go(c, [j EXCEPT !.step = "release"])
                [] OTHER -> Done(c)
  <2>1. CASE j.op = "connect" /\ j.doc.fixed /\ j.doc.time # None
    <3>1. Go(c, [j EXCEPT !.step = "pin"])
      BY <1>7, <2>1
    <3>2. QED
      BY <1>1, <1>2, <1>4, <1>7, <2>1, <3>1 DEF j, At
  <2>2. CASE j.op = "disconnect" /\ j.freed # None
    <3>1. Go(c, [j EXCEPT !.step = "release"])
      BY <1>7, <2>2
    <3>2. QED
      BY <1>1, <1>2, <1>4, <1>7, <2>2, <3>1 DEF j, At
  <2>3. CASE ~(j.op = "connect" /\ j.doc.fixed /\ j.doc.time # None) /\ ~(j.op = "disconnect" /\ j.freed # None)
    <3>1. Done(c)
      BY <1>7, <2>3
    <3>2. QED
      BY <1>1, <1>2, <1>5, <1>7, <2>3, <3>1 DEF j, At
  <2>4. QED
    BY <2>1, <2>2, <2>3
<1>8. QED
  BY <1>1, <1>6, <1>7

\* While a request carries over, its pre-exam exists and the lists are mutual.
LEMMA CarryingNow ==
    ASSUME NEW c \in Clients, GroupStart(c), At(c, "sync") \/ At(c, "carry"),
           job[c].op \in {"connect", "disconnect"}
    PROVE  /\ Busy(c) /\ Carrying(c) /\ job[c].id \in Existing /\ Mutual /\ GroupReads(c)
           /\ Near(c) /\ \A a \in Ancodes \ (Codes(job[c].id) \cup {Moved(c)}) : Settled(a)
           /\ At(c, "carry") => /\ job[c].rest \subseteq Lists(job[c].id)
                                /\ job[c].rest = Lists(job[c].id) \/ \A a \in Codes(job[c].id) : Settled(a)
<1>1. Busy(c) /\ Carrying(c) /\ ~(At(c, "mirror") \/ At(c, "replaceOther"))
  BY DEF At, Carrying
<1>2. GroupReads(c) /\ GroupWorks(c)
  BY GroupLinks
<1>3. job[c].id \in Existing
  BY <1>1 DEF GroupStart, OneAtATime
<1>4. Mutual
  BY <1>1, MutualNow DEF GroupStart
<1>5. QED
  BY <1>1, <1>2, <1>3, <1>4 DEF GroupWorks

\* While nothing is written to the documents the request knows what it knew of them.
LEMMA CarryReads ==
    ASSUME NEW c \in Clients, GroupReads(c), Carrying(c), job[c].op \in {"connect", "disconnect"}, UNCHANGED pre,
           NEW s \in {"carry", "release", "pin"}, Kept(c, s)
    PROVE  GroupReads(c)' /\ Moved(c)' = Moved(c)
<1>1. Existing' = Existing /\ \A k : Doc(k)' = Doc(k)
  BY DEF Existing, Doc
<1>2. /\ Busy(c)' /\ job'[c].step = s /\ job'[c].op = job[c].op /\ job'[c].id = job[c].id
      /\ job'[c].doc = job[c].doc /\ job'[c].freed = job[c].freed
  BY DEF Kept
<1>3. Moved(c)' = Moved(c)
  BY <1>2 DEF Moved
<1>4. (\A k, e : ~Holds(c, k, e)') /\ ~At(c, "replace")'
  BY <1>2 DEF Holds, At
<1>5. Doc(job[c].id)' = Doc(job[c].id)
  BY <1>2 DEF Doc
<1>6. job[c].op = "connect" => Doc(job[c].id).ancode = job[c].doc.ancode
  BY DEF GroupReads
<1>7. job[c].op = "disconnect" /\ job[c].freed # None => \A k \in Existing : Doc(k).ancode # job[c].freed
  BY DEF GroupReads, Unsettled
<1>8. QED
  BY <1>1, <1>2, <1>3, <1>4, <1>5, <1>6, <1>7 DEF GroupReads

LEMMA SyncGroup ==
    ASSUME NEW c \in Clients, GroupStart(c), Sync(c) PROVE GroupFollows'
<1>1. /\ At(c, "sync") /\ Kept(c, "carry") /\ UNCHANGED <<pre, cons>>
      /\ job'[c].rest = CarriedOver(job[c].id) /\ job[c].op \in {"connect", "disconnect"}
  BY SyncStep, SyncRest DEF GroupStart, Base
<1>2. PICK i \in Existing : i = job[c].id
  BY <1>1, CarryingNow
<1>3. /\ Carrying(c) /\ GroupReads(c) /\ Near(c) /\ \A a \in Ancodes \ (Codes(i) \cup {Moved(c)}) : Settled(a)
  BY <1>1, <1>2, CarryingNow
<1>4. GroupReads(c)' /\ Moved(c)' = Moved(c)
  BY <1>1, <1>3, CarryReads
<1>5. Existing' = Existing /\ \A k : Doc(k)' = Doc(k)
  BY <1>1 DEF Existing, Doc
<1>6. /\ \A k \in Existing : Codes(k)' = Codes(k) /\ Lists(k)' = Lists(k)
      /\ \A a : Settled(a) => Settled(a)'
  BY <1>1, <1>5, SettledKept DEF GroupStart, Base
<1>7. job'[c].rest = Lists(i)'
  BY <1>1, <1>2, <1>6, CarriedLists DEF GroupStart
<1>8. job'[c].id = i /\ job'[c].step = "carry" /\ Busy(c)'
  BY <1>1, <1>2 DEF Kept
<1>9. Codes(job[c].id)' = Codes(i) /\ Lists(job[c].id)' = Lists(i)
  <2>1. Codes(job[c].id)' = Codes(i)' /\ Lists(job[c].id)' = Lists(i)'
    BY <1>8
  <2>2. QED
    BY <1>6, <2>1
<1>10. Near(c)'
  BY <1>1, <1>2, <1>3, <1>4, <1>9 DEF Near, Around
<1>11. GroupWorks(c)'
  BY <1>3, <1>4, <1>6, <1>7, <1>8, <1>9, <1>10 DEF GroupWorks, Carrying, At
<1>12. Unsettled(c)'
  BY <1>8 DEF Unsettled, Carrying, At
<1>13. QED
  BY <1>4, <1>11, <1>12, GroupFrom DEF GroupStart

\* AddConstraints with the list that one member of a group is to have: the other members
\* get theirs, and nobody outside the group is touched.
LEMMA AddedGroup ==
    ASSUME Shape, NEW C \in SUBSET Ancodes, NEW a \in C, NEW x, Around(C, x),
           cons' = AddConstraints(a, C \ {a})
    PROVE  /\ \A b \in C : cons'[b] = C \ {b}
           /\ \A b \in Ancodes \ (C \cup {x}) : cons'[b] = cons[b]
<1> DEFINE same == C \ {a}
<1>1. \A b \in Ancodes : cons'[b] =
         CASE b = a -> same
           [] b # a /\ b \in same -> (same \cup {a}) \ {b}
           [] b # a /\ b \notin same /\ cons[a] # None /\ b \in cons[a] /\ cons[b] # None -> {}
           [] OTHER -> cons[b]
  BY DEF AddConstraints
<1>2. ASSUME NEW b \in C PROVE cons'[b] = C \ {b}
  <2>1. CASE b = a
    BY <1>1, <2>1
  <2>2. CASE b # a
    <3>1. cons'[b] = (same \cup {a}) \ {b}
      BY <1>1, <2>2
    <3>2. QED
      BY <3>1
  <2>3. QED
    BY <2>1, <2>2
<1>3. ASSUME NEW b \in Ancodes \ (C \cup {x}) PROVE cons'[b] = cons[b]
  <2>1. b # a /\ b \notin same /\ b # x
    OBVIOUS
  <2>2. ~(cons[a] # None /\ b \in cons[a])
    <3>1. CASE a = x
      BY <2>1, <3>1 DEF Around
    <3>2. CASE a # x
      <4>1. cons[a] \ {x} = C \ {a, x}
        BY <3>2 DEF Around
      <4>2. QED
        BY <2>1, <4>1
    <3>3. QED
      BY <3>1, <3>2
  <2>3. QED
    BY <1>1, <2>1, <2>2
<1>4. QED
  BY <1>2, <1>3

\* One list of the group is written.
LEMMA CarryOneGroup ==
    ASSUME NEW c \in Clients, GroupStart(c), At(c, "carry"), job[c].op \in {"connect", "disconnect"},
           UNCHANGED pre, NEW r \in job[c].rest, cons' = AddConstraints(r[1], r[2]),
           Kept(c, "carry"), job'[c].rest = job[c].rest \ {r}
    PROVE  GroupFollows'
<1>1. PICK i \in Existing : i = job[c].id
  BY CarryingNow
<1> DEFINE C == Codes(i)
           x == Moved(c)
<1>2. /\ Carrying(c) /\ Mutual /\ GroupReads(c) /\ Near(c) /\ job[c].rest \subseteq Lists(i)
      /\ \A b \in Ancodes \ (C \cup {x}) : Settled(b)
  BY <1>1, CarryingNow
<1>3. GroupReads(c)' /\ Moved(c)' = Moved(c)
  BY <1>2, CarryReads
<1>4. C \in SUBSET Ancodes
  BY CodesMembers DEF GroupStart, Base
<1>5. PICK a \in C : r = <<a, C \ {a}>>
  BY <1>2, Zenon DEF Lists
<1>6. cons' = AddConstraints(a, C \ {a})
  BY <1>5
<1>7. /\ \A b \in C : cons'[b] = C \ {b}
      /\ \A b \in Ancodes \ (C \cup {x}) : cons'[b] = cons[b]
  <2>1. Around(C, x) /\ a \in C /\ Shape
    BY <1>1, <1>2, <1>5 DEF Near, GroupStart, Base
  <2>2. PICK D \in SUBSET Ancodes, y \in {x} : D = C /\ y = x
    BY <1>4
  <2> HIDE DEF C, x
  <2>3. Shape /\ Around(D, y) /\ a \in D /\ cons' = AddConstraints(a, D \ {a})
    BY <1>6, <2>1, <2>2
  <2>4. /\ \A b \in D : cons'[b] = D \ {b}
        /\ \A b \in Ancodes \ (D \cup {y}) : cons'[b] = cons[b]
    BY ONLY <2>3, AddedGroup
  <2>5. QED
    BY <2>2, <2>4
<1>8. Existing' = Existing /\ \A k : Doc(k)' = Doc(k)
  BY DEF Existing, Doc
<1>9. /\ \A k \in Existing : Codes(k)' = Codes(k) /\ Lists(k)' = Lists(k)
      /\ \A b : cons'[b] = cons[b] /\ Settled(b) => Settled(b)'
  BY <1>8, SettledKept DEF GroupStart, Base
<1>10. ASSUME NEW b \in C PROVE Settled(b)'
  <2>1. b \in Ancodes /\ b # None
    BY <1>4, PreplanAssumption
  <2>2. PICK m \in Group(i) : Doc(m).ancode = b
    BY DEF Codes
  <2>3. m \in Existing
    BY <2>2, GroupMembers
  <2>4. ASSUME NEW k \in Existing, Doc(k).ancode = b PROVE cons'[b] = Codes(k)' \ {b}
    <3>1. Codes(k) = C
      BY <1>2, <1>10, <2>4, CodeOf DEF GroupStart
    <3>2. QED
      BY <1>7, <1>9, <3>1
  <2>5. QED
    BY <1>8, <2>2, <2>3, <2>4 DEF Settled
<1>11. \A b \in Ancodes \ (C \cup {x}) : Settled(b)'
  BY <1>2, <1>7, <1>9
<1>12. job'[c].id = i /\ job'[c].step = "carry" /\ Busy(c)'
  BY <1>1 DEF Kept
<1>13. Codes(job[c].id)' = C /\ Lists(job[c].id)' = Lists(i)
  <2>1. Codes(job[c].id)' = Codes(i)' /\ Lists(job[c].id)' = Lists(i)'
    BY <1>12
  <2>2. QED
    BY <1>9, <2>1
<1>14. Near(c)'
  <2>1. \A b \in C : IF b = x THEN cons'[b] = None \/ cons'[b] \subseteq C
                              ELSE cons'[b] # None /\ cons'[b] \ {x} = C \ {b, x}
    <3>1. \A b \in C : C \ {b} # None
      BY <1>4, PreplanAssumption
    <3>2. QED
      BY <1>7, <3>1
  <2>2. QED
    BY <1>3, <1>13, <2>1 DEF Near, Around
<1>15. GroupWorks(c)'
  <2>1. job'[c].rest \subseteq Lists(i)
    BY <1>2
  <2>2. QED
    BY <1>3, <1>10, <1>11, <1>12, <1>13, <1>14, <2>1 DEF GroupWorks, Carrying, At
<1>16. Unsettled(c)'
  BY <1>12 DEF Unsettled, Carrying, At
<1>17. QED
  BY <1>3, <1>15, <1>16, GroupFrom DEF GroupStart

LEMMA CarryGroup ==
    ASSUME NEW c \in Clients, GroupStart(c), Carry(c) PROVE GroupFollows'
<1> DEFINE j == job[c]
<1>1. At(c, "carry") /\ UNCHANGED pre /\ j.op \in {"connect", "disconnect"} /\ Busy(c)
  BY CarryStep, CarryRest DEF GroupStart, Base
<1>2. CASE \E r \in j.rest : /\ cons' = AddConstraints(r[1], r[2])
                             /\ Kept(c, "carry") /\ job'[c].rest = j.rest \ {r}
  BY <1>1, <1>2, CarryOneGroup
<1>3. CASE /\ j.rest = {} /\ UNCHANGED cons
           /\ \/ j.op = "connect" /\ Kept(c, "pin")
              \/ j.op = "disconnect" /\ j.freed # None /\ Kept(c, "release")
              \/ Ended(c) /\ ~(j.op = "disconnect" /\ j.freed # None)
  <2>1. PICK i \in Existing : i = j.id
    BY <1>1, CarryingNow
  <2>2. /\ Carrying(c) /\ GroupReads(c) /\ (Lists(i) = {} \/ \A a \in Codes(i) : Settled(a))
        /\ \A a \in Ancodes \ (Codes(i) \cup {Moved(c)}) : Settled(a)
    BY <1>1, <1>3, <2>1, CarryingNow
  <2>3. \A a \in Codes(i) : Settled(a)
    BY <2>2 DEF Lists
  <2>4. \A a \in Ancodes \ {Moved(c)} : Settled(a)
    BY <2>2, <2>3
  <2>5. Existing' = Existing /\ \A k : Doc(k)' = Doc(k)
    BY <1>1 DEF Existing, Doc
  <2>6. \A a : Settled(a) => Settled(a)'
    BY <1>3, <2>5, SettledKept DEF GroupStart, Base
  <2>7. CASE j.op = "connect"
    <3>1. Doc(i).ancode = Moved(c)
      BY <1>1, <2>1, <2>2, <2>7 DEF GroupReads, Moved
    <3>2. i \in Group(i) /\ Moved(c) # None
      <4>1. Moved(c) \in Ancodes
        BY <1>1, <2>7 DEF Moved, GroupStart, Base, StepsOK, StepOK
      <4>2. QED
        BY <4>1, GroupIs, PreplanAssumption DEF IsGroup, GroupStart, Base
    <3>3. Moved(c) \in Codes(i)
      BY <3>1, <3>2 DEF Codes
    <3>4. \A a \in Ancodes : Settled(a)'
      BY <2>3, <2>4, <2>6, <3>3
    <3>5. GroupReads(c)' /\ GroupWorks(c)' /\ ~Unsettled(c)'
      <4>1. CASE Ended(c)
        BY <4>1, ReadsEnded
      <4>2. CASE Kept(c, "pin")
        <5>1. GroupReads(c)'
          BY <1>1, <2>2, <4>2, CarryReads
        <5>2. QED
          BY <4>2, <5>1 DEF Kept, GroupWorks, Unsettled, Carrying, At
      <4>3. QED
        BY <1>3, <2>7, <4>1, <4>2
    <3>6. QED
      BY <3>4, <3>5, GroupFrom DEF GroupStart
  <2>8. CASE j.op = "disconnect" /\ j.freed # None
    <3>1. Kept(c, "release")
      BY <1>3, <2>8
    <3>2. GroupReads(c)'
      BY <1>1, <2>2, <3>1, CarryReads
    <3>3. job'[c].freed = Moved(c) /\ job'[c].step = "release" /\ Busy(c)'
      BY <2>8, <3>1 DEF Kept, Moved
    <3>4. GroupWorks(c)' /\ Unsettled(c)'
      BY <2>4, <2>6, <3>3 DEF GroupWorks, Unsettled, Carrying, At
    <3>5. QED
      BY <3>2, <3>4, GroupFrom DEF GroupStart
  <2>9. CASE j.op = "disconnect" /\ j.freed = None
    <3>1. Ended(c) /\ Moved(c) = None
      BY <1>3, <2>9 DEF Moved
    <3>2. \A a \in Ancodes : Settled(a)'
      BY <2>4, <2>6, <3>1, PreplanAssumption
    <3>3. QED
      BY <3>1, <3>2, ReadsEnded, GroupFrom DEF GroupStart
  <2>10. QED
    BY <1>1, <2>7, <2>8, <2>9
<1>4. QED
  BY <1>2, <1>3, CarryRest DEF GroupStart, Base

\* RmConstraints of an ancode that nobody has any more.
LEMMA ReleaseGroup ==
    ASSUME NEW c \in Clients, GroupStart(c), Release(c) PROVE GroupFollows'
<1> DEFINE j == job[c]
<1>1. /\ At(c, "release") /\ UNCHANGED pre /\ cons' = [cons EXCEPT ![j.freed] = None]
      /\ Ended(c) \/ Kept(c, "unpin")
  BY ReleaseStep DEF Release, GroupStart, Base
<1>2. PICK x \in Ancodes : x = j.freed /\ j.op = "disconnect"
  BY <1>1 DEF GroupStart, Base, StepsOK, StepOK
<1>3. GroupReads(c) /\ GroupWorks(c) /\ Unsettled(c) /\ Busy(c)
  BY <1>1, GroupLinks DEF Unsettled, At
<1>4. (\A a \in Ancodes \ {x} : Settled(a)) /\ \A i \in Existing : Doc(i).ancode # x
  BY <1>1, <1>2, <1>3, PreplanAssumption DEF GroupReads, GroupWorks
<1>5. Existing' = Existing /\ \A k : Doc(k)' = Doc(k)
  BY <1>1 DEF Existing, Doc
<1>6. cons'[x] = None /\ \A a \in Ancodes \ {x} : cons'[a] = cons[a]
  BY <1>1, <1>2 DEF GroupStart, Base, Shape
<1>7. \A a \in Ancodes \ {x} : Settled(a)'
  BY <1>4, <1>5, <1>6, SettledKept DEF GroupStart, Base
<1>8. Settled(x)'
  BY <1>4, <1>5, <1>6 DEF Settled
<1>9. GroupReads(c)' /\ GroupWorks(c)' /\ ~Unsettled(c)'
  <2>1. CASE Ended(c)
    BY <2>1, ReadsEnded
  <2>2. CASE Kept(c, "unpin")
    <3>1. GroupReads(c)' /\ ~Unsettled(c)'
      BY <1>3, <1>5, <2>2, ReadsKept
    <3>2. QED
      BY <3>1 DEF GroupWorks, Unsettled, Carrying
  <2>3. QED
    BY <1>1, <2>1, <2>2
<1>10. QED
  BY <1>7, <1>8, <1>9, GroupFrom DEF GroupStart

LEMMA WorksGroup ==
    ASSUME Base, Base', ClaimsBounded, OneAtATime, LinksFollow, GroupFollows, NEW c \in Clients, Works(c)
    PROVE  GroupFollows'
<1> SUFFICES ASSUME Alone', Without(GroupGaps)' PROVE GroupFollows'
  BY DEF GroupFollows
<1>1. OthersKept(c) /\ UNCHANGED bounds
  BY WorksShape DEF Worked
<1>2. Alone
  BY <1>1, AloneBefore DEF Base
<1>3. \A e \in Clients \ {c} : ~Busy(e) /\ ~Busy(e)'
  BY <1>1, <1>2, WorksExisting, AloneIdle
<1>4. CASE Abort(c)
  BY <1>4, AbortStep DEF Base, Without, GroupGaps
<1>5. CASE ~Abort(c)
  <2>1. UNCHANGED gaps
    BY <1>5, InsertStep, ReplaceStep, MirrorStep, ReplaceOtherStep, PersistStep, SyncStep, CarryStep, PinStep,
       ReleaseStep, UnpinStep DEF Base, Works
  <2>2. GroupStart(c)
    BY <1>2, <1>3, <2>1 DEF GroupStart, Without
  <2>3. QED
    BY <1>5, <2>2, InsertGroup, ReplaceGroup, ConnectGroup, MirrorGroup, ReplaceOtherGroup, PersistGroup,
       SyncGroup, CarryGroup, PinGroup, ReleaseGroup DEF Works
<1>6. QED
  BY <1>4, <1>5

-----------------------------------------------------------------------------
(* The invariant of the groups. *)

\* A request that begins has written nothing yet.
LEMMA StartedGroup ==
    ASSUME Base, Base', GroupFollows, NEW c \in Clients, Started(c),
           Adds(c) \/ Sweeps(c) \/ \E i \in Existing : Edits(c, i)
    PROVE  GroupFollows'
<1> SUFFICES ASSUME Alone', Without(GroupGaps)' PROVE GroupFollows'
  BY DEF GroupFollows
<1>1. /\ Alone /\ Quiet /\ OthersKept(c) /\ UNCHANGED <<pre, cons>> /\ Busy(c)' /\ Without(GroupGaps)
      /\ \A g \in GroupGaps : g \notin gaps'
  BY AloneBefore DEF Base, Started, Without
<1>2. \A e \in Clients \ {c} : ~Busy(e) /\ ~Busy(e)'
  BY <1>1 DEF Quiet, OthersKept, Busy
<1>3. Existing' = Existing /\ \A k : Doc(k)' = Doc(k)
  BY <1>1 DEF Existing, Doc
<1>4. \A a \in Ancodes : Settled(a)'
  <2>1. \A a \in Ancodes : Settled(a)
    BY <1>1 DEF GroupFollows, Unsettled, Carrying, At, Quiet
  <2>2. QED
    BY <1>1, <1>3, <2>1, SettledKept DEF Base
<1>5. ASSUME GroupReads(c)', job'[c].step \in {"insert", "persist", "replace"} PROVE GroupFollows'
  <2>1. ~Unsettled(c)' /\ ~Carrying(c)'
    BY <1>5 DEF Unsettled, Carrying, At
  <2>2. GroupWorks(c)'
    BY <2>1 DEF GroupWorks, Carrying, Unsettled
  <2>3. QED
    BY <1>2, <1>4, <1>5, <2>2, GroupFrom
<1>6. CASE Adds(c)
  <2>1. job'[c].op = "add" /\ job'[c].step = "insert"
    BY <1>6 DEF Adds
  <2>2. GroupReads(c)'
    BY <2>1 DEF GroupReads, Holds, At, Carrying, Unsettled
  <2>3. QED
    BY <1>5, <2>1, <2>2
<1>7. CASE Sweeps(c)
  <2>1. job'[c].op \in {"reset", "generate"} /\ job'[c].step = "persist"
    BY <1>7 DEF Sweeps
  <2>2. \A i \in Ids, d \in Docs : Holds(c, i, d)' => d.ancode = Doc(i)'.ancode
    BY <1>3, <1>7 DEF Sweeps, Holds, At
  <2>3. GroupReads(c)'
    BY <2>1, <2>2 DEF GroupReads, At, Carrying, Unsettled
  <2>4. QED
    BY <1>5, <2>1, <2>3
<1>8. ASSUME NEW i \in Existing, Edits(c, i) PROVE GroupFollows'
  <2> DEFINE d == job'[c].doc
             o == job'[c].op
  <2>1. job'[c].id = i /\ job'[c].step = "replace" /\ d \in Docs
        /\ o \in {"update", "time", "fixed", "pair", "same", "connect", "disconnect"}
    BY <1>8 DEF Edits
  <2>2. \A k, e : Holds(c, k, e)' => k = i /\ e = d
    BY <2>1 DEF Holds, At
  <2>3. o \notin {"connect", "disconnect"} => d.ancode = Doc(i).ancode
    BY <1>8 DEF Edits
  <2>4. o = "same" => \A m \in Existing : Doc(m).ancode = None
    BY <1>1, <1>8 DEF Edits, GroupGaps
  <2>5. o = "connect" => Doc(i).ancode \in {None, d.ancode} /\ \A k \in Existing \ {i} : Doc(k).ancode # d.ancode
    BY <1>1, <1>8 DEF Edits, GroupGaps
  <2>6. o = "disconnect" => d.ancode = None /\ job'[c].freed = Doc(i).ancode
    BY <1>8 DEF Edits
  <2>7. ~Carrying(c)' /\ ~Unsettled(c)'
    BY <2>1 DEF At, Carrying, Unsettled
  <2>8. Doc(job[c].id)' = Doc(i)
    BY <1>1, <2>1 DEF Doc
  <2> HIDE DEF d, o
  <2>9. GroupReads(c)'
    BY <1>3, <2>1, <2>2, <2>3, <2>4, <2>5, <2>6, <2>7, <2>8 DEF GroupReads, d, o
  <2>10. QED
    BY <1>5, <2>1, <2>9
<1>9. QED
  BY <1>6, <1>7, <1>8

LEMMA InitGroup == Init => GroupFollows
<1> SUFFICES ASSUME Init PROVE GroupFollows
  OBVIOUS
<1>1. \A c \in Clients : ~Busy(c)
  BY DEF Init, Busy
<1>2. \A c \in Clients : GroupReads(c) /\ GroupWorks(c)
  BY <1>1 DEF GroupReads, GroupWorks, Holds, Carrying, Unsettled, At
<1>3. \A i \in Existing : Doc(i).ancode = None
  <2>1. \A i \in Ids : pre[i] = <<New>>
    BY DEF Init
  <2>2. Head(<<New>>) = New /\ New.ancode = None
    BY DEF New
  <2>3. QED
    BY <2>1, <2>2 DEF Existing, Doc
<1>4. \A a \in Ancodes : Settled(a)
  BY <1>3, PreplanAssumption DEF Settled, Init
<1>5. QED
  BY <1>2, <1>4 DEF GroupFollows

LEMMA NextGroup == IInv /\ IInv' /\ GroupFollows /\ [Next]_vars => GroupFollows'
<1> SUFFICES ASSUME IInv, IInv', GroupFollows, [Next]_vars PROVE GroupFollows'
  OBVIOUS
<1>1. Base /\ Base' /\ ClaimsBounded /\ OneAtATime /\ LinksFollow /\ Shape
  BY DEF IInv, Base
<1>2. ASSUME NEW c \in Clients, Works(c) PROVE GroupFollows'
  BY <1>1, <1>2, WorksGroup
<1>3. ASSUME NEW c \in Clients, NEW i \in Existing, DeletePreplanExam(c, i) PROVE GroupFollows'
  BY <1>3 DEF DeletePreplanExam, GroupFollows, Without, GroupGaps
<1>4. ASSUME NEW c \in Clients, Started(c), Adds(c) \/ Sweeps(c) \/ \E i \in Existing : Edits(c, i)
      PROVE  GroupFollows'
  BY <1>1, <1>4, StartedGroup
<1>5. CASE Next
  BY <1>1, <1>2, <1>3, <1>4, <1>5, NextKinds DEF Next
<1>6. CASE UNCHANGED vars
  <2>1. UNCHANGED <<pre, cons, job, overlaps, gaps>>
    BY <1>6 DEF vars, bounds
  <2>2. /\ Existing' = Existing /\ (\A i : Doc(i)' = Doc(i)) /\ (\A c : Busy(c)' <=> Busy(c))
        /\ (\A c, s : At(c, s)' <=> At(c, s)) /\ (Alone' <=> Alone) /\ (Without(GroupGaps)' <=> Without(GroupGaps))
    BY <2>1 DEF Existing, Doc, Busy, At, Alone, Without
  <2>3. SUFFICES ASSUME Alone, Without(GroupGaps) PROVE GroupFollows'
    BY <2>2 DEF GroupFollows
  <2>4. /\ \A i \in Existing : Codes(i)' = Codes(i) /\ Lists(i)' = Lists(i)
        /\ \A a : Settled(a) => Settled(a)'
    BY <1>1, <2>1, <2>2, SettledKept DEF Base
  <2>5. \A c \in Clients : (Carrying(c)' <=> Carrying(c)) /\ (Unsettled(c)' <=> Unsettled(c)) /\ Moved(c)' = Moved(c)
    BY <2>1, <2>2 DEF Carrying, Unsettled, Moved
  <2>6. ASSUME NEW c \in Clients PROVE GroupReads(c)' /\ GroupWorks(c)'
    <3>1. GroupReads(c) /\ GroupWorks(c)
      BY <2>3 DEF GroupFollows
    <3>2. \A i, d : Holds(c, i, d)' <=> Holds(c, i, d)
      BY <2>1, <2>2 DEF Holds
    <3>3. GroupReads(c)'
      BY <2>1, <2>2, <2>5, <3>1, <3>2 DEF GroupReads
    <3>4. CASE ~Unsettled(c)
      <4>1. ~Carrying(c)' /\ ~At(c, "carry")' /\ ~At(c, "release")'
        BY <2>2, <2>5, <3>4 DEF Unsettled, Carrying
      <4>2. QED
        BY <3>3, <4>1 DEF GroupWorks
    <3>5. CASE At(c, "release")
      <4>1. ~Carrying(c)' /\ ~At(c, "carry")' /\ job'[c] = job[c]
        BY <2>1, <2>2, <3>5 DEF Carrying, At
      <4>2. \A a \in Ancodes \ {job[c].freed} : Settled(a)'
        BY <2>4, <3>1, <3>5 DEF GroupWorks
      <4>3. QED
        BY <3>3, <4>1, <4>2 DEF GroupWorks
    <3>6. CASE Carrying(c)
      <4>1. Busy(c) /\ job[c] \in Jobs /\ job[c] # Idle /\ job[c].step \in {"sync", "carry"}
        BY <1>1, <3>6 DEF Carrying, At, Busy, Shape
      <4>2. job[c].id \in Existing
        BY <1>1, <2>3, <4>1, JobByStep DEF OneAtATime, ConnectJobs
      <4>3. PICK i \in Existing : i = job[c].id /\ i = job'[c].id
        BY <2>1, <4>2
      <4>4. Codes(job[c].id)' = Codes(i) /\ Lists(job[c].id)' = Lists(i)
        <5>1. Codes(job[c].id)' = Codes(i)' /\ Lists(job[c].id)' = Lists(i)'
          BY <4>3
        <5>2. QED
          BY <2>4, <5>1
      <4>5. Near(c)'
        BY <2>1, <2>5, <3>1, <3>6, <4>3, <4>4 DEF GroupWorks, Near, Around
      <4>6. ~At(c, "release")'
        BY <2>2, <4>1 DEF At
      <4>7. QED
        BY <2>1, <2>2, <2>4, <2>5, <3>1, <3>3, <3>6, <4>3, <4>4, <4>5, <4>6 DEF GroupWorks
    <3>7. QED
      BY <3>3, <3>4, <3>5, <3>6 DEF Unsettled
  <2>7. (\A c \in Clients : ~Unsettled(c)') => \A a \in Ancodes : Settled(a)'
    BY <2>3, <2>4, <2>5 DEF GroupFollows
  <2>8. QED
    BY <2>6, <2>7 DEF GroupFollows
<1>7. QED
  BY <1>5, <1>6

\* syncPreplanGroupZPAConstraints and RmConstraints: whenever nobody is working, two
\* connected pre-exams name each other in the constraints if and only if they are in one
\* group, whatever the order in which they were connected and disconnected.
THEOREM GroupsCarried == Spec => []GroupCarriedOver
<1>1. IInv /\ GroupFollows => GroupCarriedOver
  <2> SUFFICES ASSUME IInv, GroupFollows, Quiet, Alone, Without(GroupGaps), NEW i \in Existing, NEW k \in Existing,
                      i # k, Doc(i).ancode # None, Doc(k).ancode # None
               PROVE  k \in Group(i) <=> cons[Doc(i).ancode] # None /\ Doc(k).ancode \in cons[Doc(i).ancode]
    BY DEF GroupCarriedOver, GroupGaps
  <2>1. Base /\ ClaimsBounded /\ LinksFollow
    BY DEF IInv, Base
  <2>2. PICK a \in Ancodes, b \in Ancodes : a = Doc(i).ancode /\ b = Doc(k).ancode
    BY <2>1, DocShape DEF Base, Docs
  <2>3. a # b
    BY <2>1, <2>2, OnePreExam
  <2>4. Settled(a)
    BY DEF GroupFollows, Unsettled, Carrying, At, Quiet
  <2>5. cons[a] = Codes(i) \ {a}
    BY <2>2, <2>4 DEF Settled
  <2>6. cons[a] # None
    <3>1. Codes(i) \subseteq Ancodes
      BY <2>1, CodesMembers DEF Base
    <3>2. QED
      BY <2>5, <3>1, PreplanAssumption
  <2>7. k \in Group(i) => b \in Codes(i)
    BY <2>2 DEF Codes
  <2>8. b \in Codes(i) => k \in Group(i)
    <3>1. SUFFICES ASSUME b \in Codes(i) PROVE k \in Group(i)
      OBVIOUS
    <3>2. PICK m \in Group(i) : Doc(m).ancode = b
      BY <3>1 DEF Codes
    <3>3. m \in Existing
      BY <3>2, GroupMembers
    <3>4. m = k
      BY <2>1, <2>2, <3>2, <3>3, OnePreExam
    <3>5. QED
      BY <3>2, <3>4
  <2>9. QED
    BY <2>2, <2>3, <2>5, <2>6, <2>7, <2>8
<1>2. Spec => [](IInv /\ GroupFollows)
  BY InitGroup, NextGroup, PreplanInvariant, PTL DEF Spec
<1>3. QED
  BY <1>1, <1>2, PTL
=============================================================================
