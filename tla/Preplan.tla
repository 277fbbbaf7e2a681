------------------------------ MODULE Preplan ------------------------------
(***************************************************************************)
(* The pre-planning of SEB and EXaHM exams: the pre-exams, their links among *)
(* each other, their connection to a ZPA exam and what is carried over to it *)
(* (preplan_exams.go, preplan_constraints.go, preplan_connect.go, the        *)
(* persistence of preplan_assign.go, db/preplan_exams.go, and the same-slot  *)
(* part of constraints.go).                                                  *)
(*                                                                          *)
(* A request reads documents, changes its copies and writes them back whole; *)
(* other clients may act between any two database calls.  Reads that follow  *)
(* each other without a write in between are one step.  notSame stands for   *)
(* either of the lists NotSameSlot and CanShareSlot, which are kept by the   *)
(* same code; a plan entry is one that pre-planning has locked.  There is no *)
(* unique index on the id: of two documents with one id the requests work on *)
(* the first, and what the readers of the whole list make of the second is   *)
(* not modelled.                                                             *)
(***************************************************************************)
EXTENDS Integers, Sequences, FiniteSets

CONSTANTS
    MaxId,      \* bound: pre-exam ids are 1..MaxId
    Ancodes, Times, Clients,
    None,       \* no time, no ancode, no constraints
    MaxOps,     \* bound on the requests
    MaxOverlaps \* bound on those that begin while another client's is under way

Ids == 1..MaxId

ASSUME PreplanAssumption ==
    /\ MaxId \in Nat /\ MaxOps \in Nat /\ MaxOverlaps \in Nat
    /\ None \notin Ancodes \cup Times /\ \A S \in SUBSET Ancodes : S # None

VARIABLES
    pre,        \* [Ids -> the documents with this id, in natural order]
    cons,       \* [Ancodes -> same-slot list of the ZPA exam's constraints, or None]
    plan,       \* [Ancodes -> start time of the locked plan entry, or None]
    job,        \* [Clients -> the request under way]
    ops,        \* requests so far
    overlaps,   \* those of them that began while another was under way
    gaps        \* history: what has happened that the code does not make up for

bounds == <<ops, overlaps>>
vars == <<pre, cons, plan, job, bounds, gaps>>

Docs == [time : Times \cup {None}, fixed : BOOLEAN, ancode : Ancodes \cup {None},
         notSame : SUBSET Ids, same : SUBSET Ids]
New == [time |-> None, fixed |-> FALSE, ancode |-> None, notSame |-> {}, same |-> {}]
Idle == [op |-> "none"]
Busy(c) == job[c] # Idle

-----------------------------------------------------------------------------
(* db/preplan_exams.go *)

Existing == {i \in Ids : pre[i] # <<>>}
Doc(i) == Head(pre[i])
\* ReplacePreplanExam: nobody looks at whether there was one.
Replaced(i, d) == IF i \in Existing THEN [pre EXCEPT ![i] = <<d>> \o Tail(@)] ELSE pre
UpsertPreplanExam(i, d) == IF i \in Existing THEN Replaced(i, d) ELSE [pre EXCEPT ![i] = <<d>>]
\* Mutant: one more than there are.
NextIdByCount == 1 + Cardinality(Existing)
\* nextPreplanExamID
NextId == IF Existing = {} THEN 1 ELSE 1 + CHOOSE i \in Existing : \A k \in Existing : k <= i

-----------------------------------------------------------------------------
(* preplan_connect.go, constraints.go *)

\* preplanSameSlotGroup: the closure of same over the existing pre-exams.
Reached(S) == S \cup {k \in Existing : \E i \in S : k \in Doc(i).same}
Group(i) ==
    LET reach[n \in 0..MaxId] == IF n = 0 THEN {i} ELSE Reached(reach[n - 1])
    IN IF i \in Existing THEN reach[MaxId] ELSE {}

\* syncPreplanGroupZPAConstraints: each connected member and its same-slot list.
CarriedOver(i) ==
    LET connected == {m \in Group(i) : Doc(m).ancode # None}
    IN {<<Doc(m).ancode, {Doc(o).ancode : o \in connected \ {m}}>> : m \in connected}

\* AddConstraints, as far as it is about the same-slot lists: the ones no longer
\* named lose their whole list, the ones named get the new group, then its own.
AddConstraints(a, same) ==
    [b \in Ancodes |->
        CASE b = a -> same
          [] b # a /\ b \in same -> (same \cup {a}) \ {b}
          [] b # a /\ b \notin same /\ cons[a] # None /\ b \in cons[a] /\ cons[b] # None -> {}
          [] OTHER -> cons[b]]

-----------------------------------------------------------------------------
(* Requests: the reads they begin with.  *)

\* A request begins.
Count(c) ==
    LET overlap == \E d \in Clients \ {c} : Busy(d) IN
    /\ ~Busy(c) /\ ops < MaxOps /\ (overlap => overlaps < MaxOverlaps)
    /\ ops' = ops + 1
    /\ overlaps' = IF overlap THEN overlaps + 1 ELSE overlaps

Begin(c, request, missed) ==
    /\ Count(c)
    /\ job' = [job EXCEPT ![c] = request]
    /\ gaps' = gaps \cup missed
    /\ UNCHANGED <<pre, cons, plan>>

Request(op, i, doc, rest) ==
    [op |-> op, id |-> i, other |-> 0, doc |-> doc, step |-> "replace", rest |-> rest, freed |-> None]

Missed(cond, what) == IF cond THEN {what} ELSE {}

AddPreplanExam(c) ==
    /\ NextId \in Ids
    /\ Begin(c, [Request("add", NextId, New, {}) EXCEPT !.step = "insert"], {})

\* Only the time and the ancode are taken over from the existing document.
UpdatePreplanExam(c, i) ==
    LET d == Doc(i)
        new == [New EXCEPT !.time = d.time, !.ancode = d.ancode]
    IN Begin(c, Request("update", i, new, {}), Missed(new # d, "update"))

SetPreplanExamTime(c, i, t) ==
    Begin(c, Request("time", i, [Doc(i) EXCEPT !.time = t], {}), Missed(Doc(i).fixed, "retime"))

SetPreplanExamFixed(c, i, fixed) ==
    /\ fixed => Doc(i).time # None
    /\ Begin(c, Request("fixed", i, [Doc(i) EXCEPT !.fixed = fixed], {}), {})

\* setPreplanPairLink, first half.
SetPreplanPairLink(c, i, other, add) ==
    /\ i # other
    /\ add => other \in Existing
    /\ LET d == Doc(i)
           new == [d EXCEPT !.notSame = IF add THEN @ \cup {other} ELSE @ \ {other}]
       IN Begin(c, Request("pair", i, new, {<<other, add>>}), {})

SetPreplanExamConstraints(c, i, same) ==
    LET old == Doc(i).same
        new == (same \cap Existing) \ {i}
    IN Begin(c, Request("same", i, [Doc(i) EXCEPT !.same = new],
                        {<<o, TRUE>> : o \in new \ old} \cup {<<o, FALSE>> : o \in old \ new}),
             Missed(\E m \in Existing : Doc(m).ancode # None, "late"))

\* Mutant: nobody asks who else has the ancode.
ConnectUnchecked(c, i, a) ==
    Begin(c, Request("connect", i, [Doc(i) EXCEPT !.ancode = a], {}),
          Missed(Doc(i).ancode \notin {None, a}, "relink"))

ConnectPreplanExamToAncode(c, i, a) ==
    /\ \A o \in Existing \ {i} : Doc(o).ancode # a
    /\ Begin(c, Request("connect", i, [Doc(i) EXCEPT !.ancode = a], {}),
             Missed(Doc(i).ancode \notin {None, a}, "relink"))

DisconnectPreplanExam(c, i) ==
    Begin(c, [Request("disconnect", i, [Doc(i) EXCEPT !.ancode = None], {})
                  EXCEPT !.freed = Doc(i).ancode], {})

\* ResetPreplanTimes: all times but the fixed ones.
ResetPreplanTimes(c) ==
    Begin(c, [Request("reset", 0, New,
                      {<<i, [Doc(i) EXCEPT !.time = None]>> :
                          i \in {k \in Existing : ~Doc(k).fixed /\ Doc(k).time # None}})
                  EXCEPT !.step = "persist"], {})

\* The units of the assignment: joined by a link on either side (union-find).
Joined(S) == S \cup {k \in Existing : \E i \in S : k \in Doc(i).same \/ i \in Doc(k).same}
Unit(i) ==
    LET join[n \in 0..MaxId] == IF n = 0 THEN {i} ELSE Joined(join[n - 1])
    IN join[MaxId]

\* GeneratePreplanAssignment: a unit with a fixed member goes where the last
\* fixed one is, and all of it is fixed; with keepAssigned a unit that is
\* together in a slot with booked rooms stays; the others go where the solver
\* puts them, or nowhere.
GeneratePreplanAssignment(c, keep, booked, solved) ==
    LET fixedIn(g) == {m \in g : Doc(m).fixed /\ Doc(m).time # None}
        stays(g) == keep /\ \E t \in booked : \A m \in g : Doc(m).time = t
        timeOf(i) ==
            LET g == Unit(i) IN
            IF fixedIn(g) # {} THEN Doc(CHOOSE m \in fixedIn(g) : \A n \in fixedIn(g) : n <= m).time
            ELSE IF stays(g) THEN Doc(i).time
            ELSE solved[CHOOSE m \in g : \A n \in g : m <= n]
        final(i) == [Doc(i) EXCEPT !.time = timeOf(i), !.fixed = fixedIn(Unit(i)) # {}]
    IN /\ Existing # {}
       /\ Begin(c, [Request("generate", 0, New, {<<i, final(i)>> : i \in Existing})
                        EXCEPT !.step = "persist"],
                Missed(\E i \in Existing : Doc(i) # final(i) /\ (Doc(i).fixed \/ final(i).fixed), "regroup"))

-----------------------------------------------------------------------------
(* The database calls that follow. *)

At(c, step) == Busy(c) /\ job[c].step = step
Go(c, j) == job' = [job EXCEPT ![c] = j]
Done(c) == Go(c, Idle)

DeletePreplanExam(c, i) ==
    /\ Count(c)
    /\ pre' = [pre EXCEPT ![i] = Tail(@)]
    /\ gaps' = gaps \cup {"delete"}
    /\ UNCHANGED <<cons, plan, job>>

InsertPreplanExam(c) ==
    /\ At(c, "insert")
    /\ pre' = [pre EXCEPT ![job[c].id] = Append(@, New)]
    /\ Done(c)
    /\ UNCHANGED <<cons, plan, bounds, gaps>>

Replace(c) ==
    LET j == job[c] IN
    /\ At(c, "replace")
    /\ pre' = Replaced(j.id, j.doc)
    /\ CASE j.op \in {"pair", "same"} -> Go(c, [j EXCEPT !.step = "mirror"])
         [] j.op \in {"connect", "disconnect"} -> Go(c, [j EXCEPT !.step = "sync"])
         [] j.op = "fixed" /\ j.doc.ancode # None -> Go(c, [j EXCEPT !.step = "pin"])
         [] OTHER -> Done(c)
    /\ UNCHANGED <<cons, plan, bounds, gaps>>

\* The document of o with the link to i added or removed.
Linked(op, o, i, add) ==
    LET Upd(S) == IF add THEN S \cup {i} ELSE S \ {i}
    IN IF op = "pair" THEN [Doc(o) EXCEPT !.notSame = Upd(@)] ELSE [Doc(o) EXCEPT !.same = Upd(@)]

\* Mutant: a link that goes away stays on the other side.
MirrorAddOnly(c) ==
    LET j == job[c] IN
    /\ At(c, "mirror")
    /\ \/ {r \in j.rest : r[2]} = {} /\ Done(c)
       \/ \E r \in j.rest : r[2] /\ r[1] \in Existing
             /\ Go(c, [j EXCEPT !.step = "replaceOther", !.rest = @ \ {r}, !.other = r[1],
                                !.doc = Linked(j.op, r[1], j.id, r[2])])
    /\ UNCHANGED <<pre, cons, plan, bounds, gaps>>

\* updatePreplanPair, addPreplanSameSlot, removePreplanSameSlot: read the other
\* side, additions first.
Mirror(c) ==
    LET j == job[c] IN
    /\ At(c, "mirror")
    /\ \/ j.rest = {} /\ Done(c)
       \/ \E r \in j.rest :
             /\ r[2] \/ \A q \in j.rest : ~q[2]
             /\ IF r[1] \in Existing /\ ~(j.op = "same" /\ r[2] /\ j.id \in Doc(r[1]).same)
                THEN Go(c, [j EXCEPT !.step = "replaceOther", !.rest = @ \ {r}, !.other = r[1],
                                     !.doc = Linked(j.op, r[1], j.id, r[2])])
                ELSE Go(c, [j EXCEPT !.rest = @ \ {r}])
    /\ UNCHANGED <<pre, cons, plan, bounds, gaps>>

ReplaceOther(c) ==
    /\ At(c, "replaceOther")
    /\ pre' = Replaced(job[c].other, job[c].doc)
    /\ Go(c, [job[c] EXCEPT !.step = "mirror"])
    /\ UNCHANGED <<cons, plan, bounds, gaps>>

\* The writes of ResetPreplanTimes and GeneratePreplanAssignment, by id.
Persist(c) ==
    LET j == job[c] IN
    /\ At(c, "persist")
    /\ \/ j.rest = {} /\ Done(c) /\ UNCHANGED pre
       \/ \E r \in j.rest :
             /\ \A q \in j.rest : r[1] <= q[1]
             /\ pre' = IF j.op = "reset" THEN UpsertPreplanExam(r[1], r[2]) ELSE Replaced(r[1], r[2])
             /\ Go(c, [j EXCEPT !.rest = @ \ {r}])
    /\ UNCHANGED <<cons, plan, bounds, gaps>>

\* Mutant: the rest of the group is not looked at again.
SyncNobody(c) ==
    LET j == job[c] IN
    /\ At(c, "sync")
    /\ Go(c, [j EXCEPT !.step = "carry", !.rest = {}])
    /\ UNCHANGED <<pre, cons, plan, bounds, gaps>>

Sync(c) ==
    LET j == job[c] IN
    /\ At(c, "sync")
    /\ Go(c, [j EXCEPT !.step = "carry", !.rest = CarriedOver(j.id)])
    /\ UNCHANGED <<pre, cons, plan, bounds, gaps>>

\* One member of the group after the other, in any order; then the plan entry of
\* a fixed pre-exam, or the constraints of the freed ancode.
Carry(c) ==
    LET j == job[c] IN
    /\ At(c, "carry")
    /\ \/ \E r \in j.rest :
             /\ cons' = AddConstraints(r[1], r[2])
             /\ Go(c, [j EXCEPT !.rest = @ \ {r}])
       \/ /\ j.rest = {} /\ UNCHANGED cons
          /\ CASE j.op = "connect" /\ j.doc.fixed /\ j.doc.time # None -> Go(c, [j EXCEPT !.step = "pin"])
               [] j.op = "disconnect" /\ j.freed # None -> Go(c, [j EXCEPT !.step = "release"])
               [] OTHER -> Done(c)
    /\ UNCHANGED <<pre, plan, bounds, gaps>>

\* AddExamToSlot with Locked, or RemovePlanEntry when it is no longer fixed.
Pin(c) ==
    LET j == job[c] IN
    /\ At(c, "pin")
    /\ plan' = [plan EXCEPT ![j.doc.ancode] = IF j.doc.fixed THEN j.doc.time ELSE None]
    /\ Done(c)
    /\ UNCHANGED <<pre, cons, bounds, gaps>>

\* RmConstraints
Release(c) ==
    LET j == job[c] IN
    /\ At(c, "release")
    /\ cons' = [cons EXCEPT ![j.freed] = None]
    /\ IF j.doc.fixed THEN Go(c, [j EXCEPT !.step = "unpin"]) ELSE Done(c)
    /\ UNCHANGED <<pre, plan, bounds, gaps>>

\* Mutant: the plan entry of a disconnected exam stays locked.
UnpinNothing(c) ==
    /\ At(c, "unpin")
    /\ Done(c)
    /\ UNCHANGED <<pre, cons, plan, bounds, gaps>>

\* RemovePlanEntry of the freed ancode.
Unpin(c) ==
    /\ At(c, "unpin")
    /\ plan' = [plan EXCEPT ![job[c].freed] = None]
    /\ Done(c)
    /\ UNCHANGED <<pre, cons, bounds, gaps>>

\* A database error, or the end of the process: nothing is rolled back.
Abort(c) ==
    /\ Busy(c)
    /\ Done(c)
    /\ gaps' = gaps \cup {"failure"}
    /\ UNCHANGED <<pre, cons, plan, bounds>>

-----------------------------------------------------------------------------
Init ==
    /\ pre = [i \in Ids |-> <<New>>]
    /\ cons = [a \in Ancodes |-> None]
    /\ plan = [a \in Ancodes |-> None]
    /\ job = [c \in Clients |-> Idle]
    /\ ops = 0 /\ overlaps = 0
    /\ gaps = {}

Requests(c) ==
    \/ AddPreplanExam(c) \/ ResetPreplanTimes(c)
    \/ \E keep \in BOOLEAN, booked \in SUBSET Times : \E solved \in [Ids -> booked \cup {None}] :
          GeneratePreplanAssignment(c, keep, booked, solved)
    \/ \E i \in Existing :
          \/ UpdatePreplanExam(c, i) \/ DeletePreplanExam(c, i) \/ DisconnectPreplanExam(c, i)
          \/ \E t \in Times \cup {None} : SetPreplanExamTime(c, i, t)
          \/ \E fixed \in BOOLEAN : SetPreplanExamFixed(c, i, fixed)
          \/ \E other \in Ids, add \in BOOLEAN : SetPreplanPairLink(c, i, other, add)
          \/ \E same \in SUBSET Ids : SetPreplanExamConstraints(c, i, same)
          \/ \E a \in Ancodes : ConnectPreplanExamToAncode(c, i, a)

Next == \E c \in Clients :
    \/ Requests(c)
    \/ InsertPreplanExam(c) \/ Replace(c) \/ Mirror(c) \/ ReplaceOther(c) \/ Persist(c)
    \/ Sync(c) \/ Carry(c) \/ Pin(c) \/ Release(c) \/ Unpin(c) \/ Abort(c)

Spec == Init /\ [][Next]_vars

-----------------------------------------------------------------------------
TypeOK ==
    /\ \A i \in Ids : Len(pre[i]) <= 1 + overlaps /\ \A k \in 1..Len(pre[i]) : pre[i][k] \in Docs
    /\ cons \in [Ancodes -> (SUBSET Ancodes) \cup {None}]
    /\ plan \in [Ancodes -> Times \cup {None}]
    /\ ops \in 0..MaxOps /\ overlaps \in 0..MaxOverlaps

Quiet == \A c \in Clients : ~Busy(c)
Alone == overlaps = 0
Without(S) == gaps \cap S = {}

\* The links "kept symmetric" (preplan_exams.go:171, preplan_constraints.go:13):
\* when nobody is working they are, and name existing pre-exams only, unless
\* requests overlapped or failed, or UpdatePreplanExam or DeletePreplanExam ran,
\* which leave the other side alone.
LinksSymmetric ==
    Quiet /\ Alone /\ Without({"failure", "update", "delete"}) =>
        \A i \in Existing :
            /\ \A k \in Doc(i).notSame : k \in Existing /\ i \in Doc(k).notSame
            /\ \A k \in Doc(i).same : k \in Existing /\ i \in Doc(k).same

\* ConnectPreplanExamToAncode: "must not already be linked by another pre-exam".
\* The check comes before the write, and other requests write back whole copies:
\* one ancode has at most one pre-exam as long as requests do not overlap, and at
\* most one more for every request that began while another was under way.
LinkedOnce ==
    \A a \in Ancodes : Cardinality({i \in Existing : Doc(i).ancode = a}) <= 1 + overlaps

\* preplan_connect.go:152: "Unconnected members are ignored; they join
\* automatically once connected".  Whatever the order of connecting and
\* disconnecting, two connected pre-exams of one group name each other in the
\* ZPA constraints, and others do not.
GroupCarriedOver ==
    Quiet /\ Alone /\ Without({"failure", "update", "delete", "late", "relink"}) =>
        \A i, k \in Existing :
            i # k /\ Doc(i).ancode # None /\ Doc(k).ancode # None =>
                LET carried == cons[Doc(i).ancode] IN
                k \in Group(i) <=> carried # None /\ Doc(k).ancode \in carried

\* preplan_exams.go:135: the locked plan entry is kept "in sync with the fix":
\* the locked entries are those of the fixed, connected pre-exams, at their time.
PinInSync ==
    Quiet /\ Alone /\ Without({"failure", "update", "delete", "retime", "regroup", "relink"}) =>
        \A a \in Ancodes, t \in Times :
            plan[a] = t <=> \E i \in Existing : Doc(i).ancode = a /\ Doc(i).fixed /\ Doc(i).time = t

\* DeletePreplanExam: a deleted pre-exam does not come back, and no two get one
\* id, unless requests overlap.
NoSecondLife ==
    [][Alone =>
          \A i \in Ids : Len(pre'[i]) > Len(pre[i]) =>
              pre[i] = <<>> /\ \E c \in Clients : At(c, "insert") /\ job[c].id = i]_vars

\* preplan_assign.go:365: "Fixed pre-exams keep their slot".
FixedKeepSlot ==
    [][\A c \in Clients, i \in Existing :
          At(c, "persist") /\ job[c].op = "generate" /\ Doc(i).fixed /\ Doc(i).time # None
             /\ Alone /\ Without({"failure"}) /\ pre'[i] # <<>>
          => pre'[i][1].time = Doc(i).time]_vars
=============================================================================
