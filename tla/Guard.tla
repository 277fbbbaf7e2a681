-------------------------------- MODULE Guard --------------------------------
(***************************************************************************)
(* The operation guard of the server (plexams/guard.go): two counters under *)
(* one mutex.  Every method holds the mutex for its whole body, so each is  *)
(* one atomic step.  The Try... methods are split into the step that        *)
(* registers and the test that refuses; the callers of the guard            *)
(* (OpGuard, Publication) compose them with their own control.              *)
(***************************************************************************)
EXTENDS Naturals

VARIABLES validations,   \* number of registered validations
          exclusiveOps   \* number of registered exclusive operations

gvars == <<validations, exclusiveOps>>

GuardTypeOK == validations \in Nat /\ exclusiveOps \in Nat

GuardInit == validations = 0 /\ exclusiveOps = 0

\* Mutants of the operators below: the shapes a slip in guard.go would have.
AnyValidation == TRUE
ExclusiveIgnoringValidations == exclusiveOps = 0
ExclusiveIgnoringOthers == validations = 0
DroppedDecrement == UNCHANGED gvars
WritesIgnoringExclusive == validations = 0

-----------------------------------------------------------------------------
\* TryBeginValidation: refused while an exclusive operation is registered.
MayBeginValidation == exclusiveOps = 0

BeginValidation ==
    /\ MayBeginValidation
    /\ validations' = validations + 1
    /\ UNCHANGED exclusiveOps

EndValidation ==
    /\ validations' = IF validations > 0 THEN validations - 1 ELSE validations
    /\ UNCHANGED exclusiveOps

\* TryBeginExclusiveOp: refused while anything at all is registered.
MayBeginExclusiveOp == validations = 0 /\ exclusiveOps = 0

BeginExclusiveOp ==
    /\ MayBeginExclusiveOp
    /\ exclusiveOps' = exclusiveOps + 1
    /\ UNCHANGED validations

EndExclusiveOp ==
    /\ exclusiveOps' = IF exclusiveOps > 0 THEN exclusiveOps - 1 ELSE exclusiveOps
    /\ UNCHANGED validations

\* WritesAllowed only answers a question: the caller is not registered.
WritesAllowed == validations = 0 /\ exclusiveOps = 0

\* The guard lives in memory; a restarted server starts with an empty one.
GuardReset == validations' = 0 /\ exclusiveOps' = 0
=============================================================================
