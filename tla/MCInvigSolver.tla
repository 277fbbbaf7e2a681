--------------------------- MODULE MCInvigSolver ---------------------------
(* Two days.  Positions 1 and 2 (an NTA, long) are parallel; 3 follows 1 closely *)
(* and is the own exam of a, who supervises it (fixed); 4 follows with enough     *)
(* time; 5, a reserve, 7 right after it and 6, pre-planned for b, are the next day. *)
EXTENDS InvigSolver

MCPositions == 1..7
MCInvigilators == {"a", "b", "c", "d"}
MCFixed == {3, 6}
MCFixedTo == 3 :> "a" @@ 6 :> "b"
MCStart == <<0, 0, 70, 110, 1440, 1570, 1505>>
MCBlock == <<60, 90, 60, 60, 60, 60, 60>>
MCDayOf == <<1, 1, 1, 1, 2, 2, 2>>
MCMinutes == <<60, 90, 0, 60, 60, 60, 60>>
MCKind == <<"room", "nta", "room", "room", "reserve", "room", "room">>
MCTarget == "a" :> 90 @@ "b" :> 120 @@ "c" :> 60 @@ "d" :> 60
MCExcludedDays == "a" :> {3} @@ "b" :> {} @@ "c" :> {} @@ "d" :> {1}
MCExcludedSlots == "a" :> {} @@ "b" :> {110} @@ "c" :> {} @@ "d" :> {}
MCWindows == "a" :> {} @@ "b" :> {} @@ "d" :> {}
             @@ "c" :> {[day |-> 1, from |-> 0, until |-> 80], [day |-> 1, from |-> 100, until |-> 600]}
MCOwnExamSlots == "a" :> {70} @@ "b" :> {} @@ "c" :> {} @@ "d" :> {}
MCOwnExamDays == "a" :> {1, 3} @@ "b" :> {} @@ "c" :> {} @@ "d" :> {}
MCOwnExams == "a" :> {[day |-> 1, from |-> 70, until |-> 130]} @@ "b" :> {} @@ "c" :> {} @@ "d" :> {}
MCWeights == [coverage |-> 1000, beyond |-> 5, balance |-> 60, over |-> 2, days |-> 10,
              ownDays |-> 2, spread |-> 4, span |-> 1]
=============================================================================
