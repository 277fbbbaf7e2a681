----------------------------- MODULE DirtyCache -----------------------------
(***************************************************************************)
(* A derived collection with a dirty flag: the assembled exams, and in the  *)
(* same shape the prepared student registrations (plexams/assembledExams.go,*)
(* prepare.go, *_state.go, graph/*_dirty.go).  A middleware sets the flag   *)
(* after an operation that changes an input; the regeneration reads the     *)
(* inputs, replaces the collection (Drop, InsertMany) and clears the flag.  *)
(* The GUI shows a "regenerate" banner while the flag is set.               *)
(*                                                                         *)
(* The inputs are one version number.  A result in the collection is the    *)
(* version it was computed from, the client that inserted it, and whether   *)
(* it is whole: computed from all of the inputs, and stored completely.     *)
(***************************************************************************)
EXTENDS Guard, FiniteSets

CONSTANTS Clients,   \* client slots: edits, regeneration, reset
          Imports,   \* importExamsFromZPA, importStudentsFromZPA (subscriptions)
          Silent,    \* changes the middleware does not see: nightly sync, uploads
          MaxInput   \* bound on the number of input changes

ASSUME MaxInputAssumption == MaxInput \in Nat

VARIABLES
    input,     \* version of the inputs
    cache,     \* set of cached results; empty before the first generation
    dirty,     \* the stored flag
    client,    \* [Clients -> place, version read, and whether all of it was read]
    import,    \* [Imports -> place of the import and of its middleware]
    silent,    \* [Silent -> place]
    excused    \* ghost: something happened that may leave a stale cache unflagged

cacheVars == <<validations, exclusiveOps, input, cache, dirty, client, import, silent, excused>>
data == <<input, cache, dirty>>

CacheIdle == [pc |-> "idle", snap |-> 0, full |-> TRUE]
AtRest == [op |-> "idle", flag |-> "none"]
Regenerating == {"drop", "insert", "clear"}
Resetting == {"resetCache", "resetState"}

CacheTypeOK ==
    /\ GuardTypeOK
    /\ input \in 0..MaxInput
    /\ cache \in SUBSET [by : Clients, version : 0..MaxInput, whole : BOOLEAN]
    /\ dirty \in BOOLEAN /\ excused \in BOOLEAN
    /\ client \in [Clients -> [pc : {"idle", "edit", "count", "mark", "read"} \cup Regenerating \cup Resetting,
                               snap : 0..MaxInput, full : BOOLEAN]]
    /\ import \in [Imports -> [op : {"idle", "begun"}, flag : {"none", "count", "mark"}]]
    /\ silent \in [Silent -> {"idle", "sync", "upload"}]

CacheInit ==
    /\ GuardInit
    /\ input = 0 /\ cache = {} /\ dirty = FALSE /\ excused = FALSE
    /\ client = [c \in Clients |-> CacheIdle]
    /\ import = [i \in Imports |-> AtRest]
    /\ silent = [s \in Silent |-> "idle"]

\* Ghost: a regeneration that has read its inputs, or a reset, is under way.
UnderWriter == \E c \in Clients : client[c].pc \in Regenerating \cup Resetting
\* Ghost: an import has not yet both written and been flagged.
Importing == \E i \in Imports : import[i] # AtRest
Change(seen) ==
    /\ input < MaxInput
    /\ input' = input + 1
    /\ excused' = (excused \/ UnderWriter \/ ~seen)

ClientGoto(c, from, to) == client[c].pc = from /\ client' = [client EXCEPT ![c].pc = to]

-----------------------------------------------------------------------------
\* A mutation is admitted while nothing exclusive runs.
Admit(c, pc) ==
    /\ WritesAllowed
    /\ ClientGoto(c, "idle", pc)
    /\ UNCHANGED <<gvars, data, import, silent, excused>>

\* Mutant: the flag is set before the resolver runs.
MarkBeforeEdit(c) ==
    /\ client[c].pc = "edit"
    /\ \/ dirty' = (cache # {}) /\ UNCHANGED <<input, excused, client>>
       \/ Change(TRUE) /\ ClientGoto(c, "edit", "idle") /\ UNCHANGED dirty
    /\ UNCHANGED <<gvars, cache, import, silent>>

\* The resolver changes an input; the middleware marks only after a success.
Edit(c) ==
    /\ Change(TRUE)
    /\ ClientGoto(c, "edit", "count")
    /\ UNCHANGED <<gvars, cache, dirty, import, silent>>

EditFails(c) ==
    /\ \/ Change(FALSE)
       \/ UNCHANGED <<input, excused>>
    /\ ClientGoto(c, "edit", "idle")
    /\ UNCHANGED <<gvars, cache, dirty, import, silent>>

\* MarkAssembledExamsDirty: nothing is stale before the first generation.
CountCached(c) ==
    /\ ClientGoto(c, "count", IF cache = {} THEN "idle" ELSE "mark")
    /\ UNCHANGED <<gvars, data, import, silent, excused>>

\* The flag is stored, or the error is logged and forgotten.
SetDirty(c) ==
    /\ ClientGoto(c, "mark", "idle")
    /\ \/ dirty' = TRUE /\ UNCHANGED excused
       \/ excused' = TRUE /\ UNCHANGED dirty
    /\ UNCHANGED <<gvars, input, cache, import, silent>>

-----------------------------------------------------------------------------
\* PrepareAssembledExams and PrepareStudentRegs.  A failing read of the ZPA
\* students (assembledExams.go:48, prepare.go:125) or of the external exams
\* (exam.go:410) is swallowed: the regeneration goes on without them.  Other
\* failing reads end it, see GenerateFails.
ReadInputs(c) ==
    /\ client[c].pc = "read"
    /\ \E full \in BOOLEAN :
          client' = [client EXCEPT ![c] = [pc |-> "drop", snap |-> input, full |-> full]]
    /\ excused' = (excused \/ UnderWriter \/ Importing)
    /\ UNCHANGED <<gvars, data, import, silent>>

Result(c, version, whole) == [by |-> c, version |-> version, whole |-> whole]

\* Mutant: the collection is not dropped before the new result goes in.
DropForgotten(c) ==
    /\ ClientGoto(c, "drop", "insert")
    /\ UNCHANGED <<gvars, data, import, silent, excused>>

\* CacheAssembledExams, SaveStudentRegs: Drop, then InsertMany.
DropCache(c) ==
    /\ ClientGoto(c, "drop", "insert")
    /\ cache' = {}
    /\ UNCHANGED <<gvars, input, dirty, import, silent, excused>>

InsertCache(c) ==
    /\ ClientGoto(c, "insert", "clear")
    /\ cache' = cache \cup {Result(c, client[c].snap, client[c].full)}
    /\ excused' = (excused \/ ~client[c].full)
    /\ UNCHANGED <<gvars, input, dirty, import, silent>>

\* An error ends the regeneration and leaves the flag as it is; InsertMany may
\* have stored a part of the result.
GenerateFails(c) ==
    /\ client[c].pc \in {"read", "drop", "insert"}
    /\ client' = [client EXCEPT ![c] = CacheIdle]
    /\ \/ UNCHANGED <<cache, excused>>
       \/ /\ client[c].pc = "insert"
          /\ cache' = cache \cup {Result(c, client[c].snap, FALSE)}
          /\ excused' = TRUE
    /\ UNCHANGED <<gvars, input, dirty, import, silent>>

\* "in sync with its inputs again": the flag is cleared unconditionally; an
\* error is logged and the flag stays.
ClearDirty(c) ==
    LET alone == \A d \in Clients \ {c} : client[d].pc \notin Regenerating \cup Resetting
    IN
    /\ client[c].pc = "clear"
    /\ client' = [client EXCEPT ![c] = CacheIdle]
    /\ dirty' \in {FALSE, dirty}
    /\ excused' = (excused /\ ~(alone /\ ~Importing /\ cache = {Result(c, input, TRUE)}))
    /\ UNCHANGED <<gvars, input, cache, import, silent>>

\* ResetAssembledExams: asks the guard once more, drops the collection, then
\* the state document.
ResetCache(c) ==
    /\ WritesAllowed
    /\ ClientGoto(c, "resetCache", "resetState")
    /\ cache' = {}
    /\ UNCHANGED <<gvars, input, dirty, import, silent, excused>>

\* Refused by the guard, or the second drop fails: the flag outlives the cache.
ResetFails(c) ==
    /\ \/ ~WritesAllowed /\ ClientGoto(c, "resetCache", "idle")
       \/ ClientGoto(c, "resetState", "idle")
    /\ UNCHANGED <<gvars, data, import, silent, excused>>

ResetState(c) ==
    /\ ClientGoto(c, "resetState", "idle")
    /\ dirty' = FALSE
    /\ UNCHANGED <<gvars, input, cache, import, silent, excused>>

-----------------------------------------------------------------------------
\* An import runs in a goroutine of runExclusiveOp.  Its resolver returns the
\* stream at once, also when the guard refuses, so the middleware marks while
\* the import has just begun.
StartImport(i) ==
    /\ import[i] = AtRest
    /\ \/ BeginExclusiveOp /\ import' = [import EXCEPT ![i] = [op |-> "begun", flag |-> "count"]]
       \/ /\ ~MayBeginExclusiveOp
          /\ import' = [import EXCEPT ![i].flag = "count"]
          /\ UNCHANGED gvars
    /\ excused' = (excused \/ UnderWriter)
    /\ UNCHANGED <<data, client, silent>>

MarkImport(i) ==
    /\ \/ /\ import[i].flag = "count"
          /\ import' = [import EXCEPT ![i].flag = IF cache = {} THEN "none" ELSE "mark"]
          /\ UNCHANGED <<dirty, excused>>
       \/ /\ import[i].flag = "mark"
          /\ import' = [import EXCEPT ![i].flag = "none"]
          /\ \/ dirty' = TRUE /\ UNCHANGED excused
             \/ excused' = TRUE /\ UNCHANGED dirty
    /\ UNCHANGED <<gvars, input, cache, client, silent>>

ImportChange(i) ==
    /\ import[i].op = "begun"
    /\ Change(TRUE)
    /\ UNCHANGED <<gvars, cache, dirty, client, import, silent>>

EndImport(i) ==
    /\ import[i].op = "begun"
    /\ EndExclusiveOp
    /\ import' = [import EXCEPT ![i].op = "idle"]
    /\ UNCHANGED <<data, client, silent, excused>>

-----------------------------------------------------------------------------
\* RunScheduledSync (exclusive) and the HTTP uploads (WritesAllowed) change the
\* inputs outside the GraphQL fields the middleware looks at.
StartSilent(s) ==
    /\ silent[s] = "idle"
    /\ \/ BeginExclusiveOp /\ silent' = [silent EXCEPT ![s] = "sync"]
       \/ WritesAllowed /\ silent' = [silent EXCEPT ![s] = "upload"] /\ UNCHANGED gvars
    /\ UNCHANGED <<data, client, import, excused>>

SilentChange(s) ==
    /\ silent[s] # "idle"
    /\ Change(FALSE)
    /\ UNCHANGED <<gvars, cache, dirty, client, import, silent>>

EndSilent(s) ==
    /\ \/ silent[s] = "sync" /\ EndExclusiveOp
       \/ silent[s] = "upload" /\ UNCHANGED gvars
    /\ silent' = [silent EXCEPT ![s] = "idle"]
    /\ UNCHANGED <<data, client, import, excused>>

CacheNext ==
    \/ \E c \in Clients :
          \/ \E pc \in {"edit", "read", "resetCache"} : Admit(c, pc)
          \/ Edit(c) \/ EditFails(c) \/ CountCached(c) \/ SetDirty(c)
          \/ ReadInputs(c) \/ DropCache(c) \/ InsertCache(c) \/ GenerateFails(c) \/ ClearDirty(c)
          \/ ResetCache(c) \/ ResetFails(c) \/ ResetState(c)
    \/ \E i \in Imports : StartImport(i) \/ MarkImport(i) \/ ImportChange(i) \/ EndImport(i)
    \/ \E s \in Silent : StartSilent(s) \/ SilentChange(s) \/ EndSilent(s)

CacheSpec == CacheInit /\ [][CacheNext]_cacheVars

-----------------------------------------------------------------------------
\* No operation is under way.
Quiet ==
    /\ \A c \in Clients : client[c].pc = "idle"
    /\ \A i \in Imports : import[i] = AtRest
    /\ \A s \in Silent : silent[s] = "idle"

Stale == cache # {} /\ ~\E d \in cache : cache = {d} /\ d.version = input /\ d.whole

\* assembled_exams_dirty.go:51: a stale collection is flagged, so that the GUI
\* shows its banner, except after one of these: an input changed, or an import
\* ran, while a regeneration or a reset was under way, two regenerations
\* overlapped, a regeneration's read of an input failed and was swallowed, so that
\* an incomplete result was stored and the flag cleared, an edit or an InsertMany
\* failed half-way, the flag could not be stored, or the change came from outside
\* the middleware.  No other order of edits, imports (flagged before they write),
\* refused imports, failed regenerations and resets leaves a stale collection
\* unflagged.
StaleFlagged == Quiet /\ Stale => dirty \/ excused

\* db/assembledExams.go:11: overlapping regenerations leave at most one result per
\* client that regenerates: copies do not pile up over repeated regenerations.
CopiesBounded == \A d, e \in cache : d.by = e.by => d = e
=============================================================================
