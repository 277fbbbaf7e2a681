------------------------------ MODULE Exclusion ------------------------------
(***************************************************************************)
(* What the operation guard promises, without counters: shared operations   *)
(* (validations) may overlap each other, an exclusive one runs alone, and a *)
(* server restart ends them all.                                            *)
(***************************************************************************)
CONSTANTS Shared, Exclusive

VARIABLE running

Init == running = {}

Begin(o) ==
    /\ o \notin running
    /\ running \cap Exclusive = {}
    /\ o \in Exclusive => running = {}
    /\ running' = running \cup {o}

End(o) ==
    /\ o \in running
    /\ running' = running \ {o}

Restart == running' = {}

Next ==
    \/ \E o \in Shared \cup Exclusive : Begin(o) \/ End(o)
    \/ Restart

Spec == Init /\ [][Next]_running
=============================================================================
