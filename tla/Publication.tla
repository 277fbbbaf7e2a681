----------------------------- MODULE Publication -----------------------------
(***************************************************************************)
(* Publishing: the send-once emails, the planning conditions they set, and  *)
(* the generators those conditions lock (plexams/planstate, plexams/email*, *)
(* graph/exclusive_op.go, roomplan_build.go, invigilation_generate.go).     *)
(*                                                                         *)
(* An email operation is exclusive (Guard).  A real run is refused while    *)
(* its condition is set, mails every recipient and then sets the condition; *)
(* a dry run is collected and goes to the test address as one mail.  The    *)
(* planner sets and clears conditions by hand through a mutation.  Room     *)
(* generation holds the guard for its whole run, invigilation generation    *)
(* only asks it before the final write.                                     *)
(***************************************************************************)
EXTENDS Guard, FiniteSets, Sequences

CONSTANTS Mailers,    \* client slots running email operations
          RoomGens,   \* slots running assignRoomsForExams
          InvigRuns,  \* slots running assignInvigilations
          Planners,   \* slots running mutations
          Emails,     \* the send-once emails in use
          NoMail      \* no collector is active

\* The emails that set a gate condition, and how they treat a failed send:
\* "draft" (two mails, to the examiners and to the student council) gives up,
\* the personal mails go on with the next recipient.
ASSUME EmailsAssumption ==
    Emails \subseteq {"draft", "publishedRooms", "publishedInvigilations"}
CondOf == [draft |-> "draftSent", publishedRooms |-> "roomPlanPublished",
           publishedInvigilations |-> "invigilationPlanPublished"]
Conds == {CondOf[k] : k \in Emails}
Recipients == <<"first", "second">>
AbortsOnError(k) == k = "draft"

\* A nil collector is no bundle of mails, not even the empty one.
ASSUME NoMailAssumption == \A mails \in SUBSET (Emails \X (1..Len(Recipients))) : NoMail # mails

VARIABLES
    cond,       \* conditions stored as set
    byMail,     \* those of them that a real run set after sending
    delivered,  \* [Emails -> [recipient -> real mails since the last clear]]
    clean,      \* [Emails -> no real run was cut short since the last clear]
    mailer,     \* [Mailers -> job]
    collector,  \* the dry-run collector of email.Sender: NoMail or its content
    roomGen,    \* [RoomGens -> place]
    invigGen,   \* [InvigRuns -> place]
    planner     \* [Planners -> pending mutation]

publicationVars == <<validations, exclusiveOps, cond, byMail, delivered, clean, mailer,
          collector, roomGen, invigGen, planner>>

\* delivered counts up to this bound: "more than once" is all that matters.
MaxCount == 2
Idle == [pc |-> "idle", kind |-> "none", run |-> FALSE, next |-> 1]
Rest == [op |-> "rest", cond |-> "none"]

PublicationTypeOK ==
    /\ GuardTypeOK
    /\ byMail \subseteq cond /\ cond \subseteq Conds
    /\ delivered \in [Emails -> [1..Len(Recipients) -> 0..MaxCount]]
    /\ clean \in [Emails -> BOOLEAN]
    /\ mailer \in [Mailers -> [pc : {"idle", "begun", "sending", "marking", "ending"},
                               kind : Emails \cup {"none"}, run : BOOLEAN, next : 1..Len(Recipients)+1]]
    /\ collector \in {NoMail} \cup SUBSET (Emails \X (1..Len(Recipients)))
    /\ roomGen \in [RoomGens -> {"idle", "begun", "solving", "writing"}]
    /\ invigGen \in [InvigRuns -> {"idle", "solving", "writing"}]
    /\ planner \in [Planners -> [op : {"rest", "set", "clear", "reset", "drop"}, cond : Conds \cup {"none"}]]

PublicationInit ==
    /\ GuardInit
    /\ cond = {} /\ byMail = {}
    /\ delivered = [k \in Emails |-> [r \in 1..Len(Recipients) |-> 0]]
    /\ clean = [k \in Emails |-> TRUE]
    /\ mailer = [m \in Mailers |-> Idle]
    /\ collector = NoMail
    /\ roomGen = [g \in RoomGens |-> "idle"]
    /\ invigGen = [g \in InvigRuns |-> "idle"]
    /\ planner = [p \in Planners |-> Rest]

stored == <<cond, byMail>>
gens == <<roomGen, invigGen>>

-----------------------------------------------------------------------------
\* Mutant: the collector is not flushed.
FlushForgotten(run) == UNCHANGED collector
\* planstate.Machine: a real send is refused while its condition is set.
EmailSendAllowed(k, run) == run => CondOf[k] \notin cond

\* planstate.Machine: generation is refused while a gate condition is set.
RoomGate == "roomPlanPublished"
InvigGate == "invigilationPlanPublished"
GenerationAllowed(gate) == gate \notin cond

\* Sender.BeginCollection and FlushCollection: a dry run opens a collector
\* that replaces any other; the flush takes and clears it, even if the
\* bundled mail cannot be sent.
BeginCollection(run) == collector' = IF run THEN collector ELSE {}
FlushCollection(run) == collector' = IF run THEN collector ELSE NoMail

\* Sender.send: a dry-run mail is captured, a real one goes out even while a
\* collector is active.
Send(k, run, r) ==
    IF run
    THEN /\ delivered' = [delivered EXCEPT ![k][r] = IF @ < MaxCount THEN @ + 1 ELSE @]
         /\ UNCHANGED collector
    ELSE /\ collector' = IF collector = NoMail THEN NoMail ELSE collector \cup {<<k, r>>}
         /\ UNCHANGED delivered

-----------------------------------------------------------------------------
\* runEmailOp: TryBeginExclusiveOp, then the goroutine.
StartMail(m, k, run) ==
    /\ mailer[m].pc = "idle"
    /\ BeginExclusiveOp
    /\ mailer' = [mailer EXCEPT ![m] = [pc |-> "begun", kind |-> k, run |-> run, next |-> 1]]
    /\ UNCHANGED <<stored, delivered, clean, collector, gens, planner>>

\* The goroutine opens the collector of a dry run and asks EmailSendAllowed.
CheckMail(m) ==
    /\ mailer[m].pc = "begun"
    /\ BeginCollection(mailer[m].run)
    /\ mailer' = [mailer EXCEPT ![m].pc =
                    IF EmailSendAllowed(mailer[m].kind, mailer[m].run) THEN "sending" ELSE "ending"]
    /\ UNCHANGED <<gvars, stored, delivered, clean, gens, planner>>

AdvanceMail(m) ==
    mailer' = [mailer EXCEPT ![m].next = @ + 1,
                             ![m].pc = IF mailer[m].next = Len(Recipients) THEN "marking" ELSE "sending"]

SendNext(m) ==
    /\ mailer[m].pc = "sending"
    /\ Send(mailer[m].kind, mailer[m].run, mailer[m].next)
    /\ AdvanceMail(m)
    /\ UNCHANGED <<gvars, stored, clean, gens, planner>>

\* A send that fails: "draft" returns the error, the others warn and go on.
SendFails(m) ==
    /\ mailer[m].pc = "sending"
    /\ \/ /\ AbortsOnError(mailer[m].kind)
          /\ mailer' = [mailer EXCEPT ![m].pc = "ending"]
          /\ clean' = [clean EXCEPT ![mailer[m].kind] = @ /\ ~mailer[m].run]
       \/ /\ ~AbortsOnError(mailer[m].kind)
          /\ AdvanceMail(m)
          /\ UNCHANGED clean
    /\ UNCHANGED <<gvars, stored, delivered, collector, gens, planner>>

\* markCondition, only for a real run.
MarkMail(m) ==
    LET c == CondOf[mailer[m].kind] IN
    /\ mailer[m].pc = "marking"
    /\ mailer' = [mailer EXCEPT ![m].pc = "ending"]
    /\ IF mailer[m].run
       THEN cond' = cond \cup {c} /\ byMail' = byMail \cup {c}
       ELSE UNCHANGED stored
    /\ UNCHANGED <<gvars, delivered, clean, collector, gens, planner>>

\* Mark is best effort: a database error is logged and forgotten.
MarkFails(m) ==
    /\ mailer[m].pc = "marking" /\ mailer[m].run
    /\ mailer' = [mailer EXCEPT ![m].pc = "ending"]
    /\ clean' = [clean EXCEPT ![mailer[m].kind] = FALSE]
    /\ UNCHANGED <<gvars, stored, delivered, collector, gens, planner>>

EndMail(m) ==
    /\ mailer[m].pc = "ending"
    /\ FlushCollection(mailer[m].run)
    /\ EndExclusiveOp
    /\ mailer' = [mailer EXCEPT ![m] = Idle]
    /\ UNCHANGED <<stored, delivered, clean, gens, planner>>

-----------------------------------------------------------------------------
\* Mutant: the generation does not ask the guard.
RoomGenStartUnguarded(g) ==
    /\ roomGen[g] = "idle"
    /\ roomGen' = [roomGen EXCEPT ![g] = "begun"]
    /\ exclusiveOps' = exclusiveOps + 1
    /\ UNCHANGED <<validations, stored, delivered, clean, mailer, collector, invigGen, planner>>

\* AssignRoomsForExams / GenerateRoomPlan: exclusive for the whole run.
RoomGenStart(g) ==
    /\ roomGen[g] = "idle"
    /\ BeginExclusiveOp
    /\ roomGen' = [roomGen EXCEPT ![g] = "begun"]
    /\ UNCHANGED <<stored, delivered, clean, mailer, collector, invigGen, planner>>

RoomGenCheck(g) ==
    /\ roomGen[g] = "begun"
    /\ GenerationAllowed(RoomGate)
    /\ roomGen' = [roomGen EXCEPT ![g] = "solving"]
    /\ UNCHANGED <<gvars, stored, delivered, clean, mailer, collector, invigGen, planner>>

RoomGenWrite(g) ==
    /\ roomGen[g] = "solving"
    /\ roomGen' = [roomGen EXCEPT ![g] = "writing"]
    /\ UNCHANGED <<gvars, stored, delivered, clean, mailer, collector, invigGen, planner>>

\* Locked, dry run, hard violations, write error or done.
RoomGenEnd(g) ==
    /\ \/ roomGen[g] = "begun" /\ ~GenerationAllowed(RoomGate)
       \/ roomGen[g] \in {"solving", "writing"}
    /\ EndExclusiveOp
    /\ roomGen' = [roomGen EXCEPT ![g] = "idle"]
    /\ UNCHANGED <<stored, delivered, clean, mailer, collector, invigGen, planner>>

\* AssignInvigilations: the gate is asked first, the guard only before the
\* write, and neither again.
InvigRunStart(g) ==
    /\ invigGen[g] = "idle"
    /\ GenerationAllowed(InvigGate)
    /\ invigGen' = [invigGen EXCEPT ![g] = "solving"]
    /\ UNCHANGED <<gvars, stored, delivered, clean, mailer, collector, roomGen, planner>>

InvigRunWrite(g) ==
    /\ invigGen[g] = "solving"
    /\ WritesAllowed
    /\ invigGen' = [invigGen EXCEPT ![g] = "writing"]
    /\ UNCHANGED <<gvars, stored, delivered, clean, mailer, collector, roomGen, planner>>

InvigRunEnd(g) ==
    /\ invigGen[g] \in {"solving", "writing"}
    /\ invigGen' = [invigGen EXCEPT ![g] = "idle"]
    /\ UNCHANGED <<gvars, stored, delivered, clean, mailer, collector, roomGen, planner>>

-----------------------------------------------------------------------------
\* A mutation of the planner is admitted by the server (WritesAllowed) and
\* takes effect later: setPlanningCondition by hand, or resetRoomsForExams.
AdmitPlanner(p, op, c) ==
    /\ planner[p] = Rest
    /\ WritesAllowed
    /\ planner' = [planner EXCEPT ![p] = [op |-> op, cond |-> c]]
    /\ UNCHANGED <<gvars, stored, delivered, clean, mailer, collector, gens>>

\* SetCondition(key, true).
SetCondition(p) ==
    /\ planner[p].op = "set"
    /\ cond' = cond \cup {planner[p].cond}
    /\ planner' = [planner EXCEPT ![p] = Rest]
    /\ UNCHANGED <<gvars, byMail, delivered, clean, mailer, collector, gens>>

\* SetCondition(key, false): the planner allows the email to go out again.
ClearCondition(p) ==
    LET c == planner[p].cond
        cleared == {k \in Emails : CondOf[k] = c}
    IN
    /\ planner[p].op = "clear"
    /\ cond' = cond \ {c} /\ byMail' = byMail \ {c}
    /\ delivered' = [k \in Emails |-> IF k \in cleared THEN [r \in 1..Len(Recipients) |-> 0]
                                                        ELSE delivered[k]]
    /\ clean' = [k \in Emails |-> IF k \in cleared THEN TRUE ELSE clean[k]]
    /\ planner' = [planner EXCEPT ![p] = Rest]
    /\ UNCHANGED <<gvars, mailer, collector, gens>>

\* ResetRoomsForExams: gate check, then the drop of the room plan.
ResetCheck(p) ==
    /\ planner[p].op = "reset"
    /\ planner' = [planner EXCEPT ![p] = IF GenerationAllowed(RoomGate)
                                         THEN [@ EXCEPT !.op = "drop"] ELSE Rest]
    /\ UNCHANGED <<gvars, stored, delivered, clean, mailer, collector, gens>>

ResetDrop(p) ==
    /\ planner[p].op = "drop"
    /\ planner' = [planner EXCEPT ![p] = Rest]
    /\ UNCHANGED <<gvars, stored, delivered, clean, mailer, collector, gens>>

\* The server dies and comes back: the database stays, memory is fresh.  A real
\* run that was sending has not marked its condition.
PublicationRestart ==
    /\ GuardReset
    /\ mailer' = [m \in Mailers |-> Idle]
    /\ collector' = NoMail
    /\ roomGen' = [g \in RoomGens |-> "idle"]
    /\ invigGen' = [g \in InvigRuns |-> "idle"]
    /\ planner' = [p \in Planners |-> Rest]
    /\ clean' = [k \in Emails |-> /\ clean[k]
                                  /\ ~\E m \in Mailers : /\ mailer[m].pc \in {"sending", "marking"}
                                                         /\ mailer[m].kind = k /\ mailer[m].run]
    /\ UNCHANGED <<stored, delivered>>

PublicationNext ==
    \/ \E m \in Mailers :
          \/ \E k \in Emails, run \in BOOLEAN : StartMail(m, k, run)
          \/ CheckMail(m) \/ SendNext(m) \/ SendFails(m)
          \/ MarkMail(m) \/ MarkFails(m) \/ EndMail(m)
    \/ \E g \in RoomGens : RoomGenStart(g) \/ RoomGenCheck(g) \/ RoomGenWrite(g) \/ RoomGenEnd(g)
    \/ \E g \in InvigRuns : InvigRunStart(g) \/ InvigRunWrite(g) \/ InvigRunEnd(g)
    \/ \E p \in Planners :
          \/ \E op \in {"set", "clear"}, c \in Conds : AdmitPlanner(p, op, c)
          \/ AdmitPlanner(p, "reset", "none")
          \/ SetCondition(p) \/ ClearCondition(p) \/ ResetCheck(p) \/ ResetDrop(p)
    \/ PublicationRestart

PublicationSpec == PublicationInit /\ [][PublicationNext]_publicationVars

-----------------------------------------------------------------------------
\* planstate.go:149: a send-once email reaches each recipient at most once
\* between two clears of its condition, as long as no real run was cut short
\* (a failed draft part, a lost Mark, a restart).  Two runs that overlap would
\* both pass EmailSendAllowed, so this rests on the exclusive guard.
SendOnce ==
    \A k \in Emails : clean[k] => \A r \in 1..Len(Recipients) : delivered[k][r] <= 1

\* The collector belongs to the one dry run in progress: it is there from the
\* first mail to the last, holds only mails of that run, and does not outlive
\* it, so no bundle mixes runs (exclusive_op.go:61-72, sender.go:382-392).
CollectorOwned ==
    /\ \A m \in Mailers :
          mailer[m].pc \in {"sending", "marking"} /\ ~mailer[m].run
             => collector # NoMail /\ collector \subseteq {mailer[m].kind} \X (1..mailer[m].next - 1)
    /\ collector # NoMail => \E m \in Mailers : mailer[m].pc # "idle" /\ ~mailer[m].run

\* A room plan the recipients were told of is not regenerated underneath: while
\* the generator is past its gate check, no email run publishes the rooms
\* (roomplan_build.go:310 with the guard of room.resolvers.go:184).
RoomGenerationLocked ==
    \A g \in RoomGens : roomGen[g] \in {"solving", "writing"} => RoomGate \notin byMail
=============================================================================
