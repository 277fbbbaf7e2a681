------------------------------ MODULE Semester ------------------------------
(***************************************************************************)
(* One server, several semester databases: which of them is current, what   *)
(* the server keeps of it in memory, its protection, and the dumps and      *)
(* restores of a whole database (semester_switch.go, semester_config.go,    *)
(* dump.go, db/semester_meta.go, db/active_semester.go, db/raw_import.go,   *)
(* graph/readonly.go and the admission in graph/server.go).                 *)
(*                                                                          *)
(* Every database call reads db.databaseName anew, so a request under way   *)
(* follows a switch into the other database.  A collection is one token of  *)
(* Docs (or Configs), or Empty; the order in which a dump or a restore      *)
(* walks through the collections is left open; the mutation log and the     *)
(* schema version are left out, as is the YAML file from which a semester   *)
(* config was once migrated.  Consecutive database calls of one request     *)
(* that touch documents nobody else writes are one step.                    *)
(***************************************************************************)
EXTENDS Guard, FiniteSets

CONSTANTS
    Databases,   \* names of databases; the semester derived from a name is the same token
    First,       \* the database the server has been started with
    DataColls,   \* collections of planning data
    Docs,        \* contents of a collection of planning data
    Configs,     \* contents of a semester's configuration
    Empty,       \* a collection that is missing or has no documents
    None,        \* no semester, no override
    Clients,
    MaxOps,      \* bound on the requests and faults together
    MaxOverlaps, \* bound on those that begin while another client's is under way
    MaxFaults    \* bound on the failing database calls and restarts

Input  == "semester_config_input"
Config == "semester_config"
Colls  == DataColls \cup {Input, Config}

ASSUME SemesterAssumption ==
    /\ First \in Databases /\ None \notin Databases
    /\ Empty \notin Docs \cup Configs /\ {Input, Config} \cap DataColls = {}
    /\ MaxOps \in Nat /\ MaxOverlaps \in Nat /\ MaxFaults \in Nat

VARIABLES
    databaseName,   \* db.databaseName
    semester,       \* p.semester, db.semester
    semesterConfig, \* p.semesterConfig: what it was derived from, Empty for nil
    readOnly,       \* p.readOnly
    store,          \* [Databases -> [Colls -> contents]]
    meta,           \* semester_meta of every database
    active,         \* plexams.active_semester
    zip,            \* the dump last downloaded
    job,            \* [Clients -> the request under way]
    crossed,        \* history: clients whose request a switch or protection overlaps
    mixed,          \* history: clients during whose request another one has written
    sure,           \* history: the flag in memory was last set by one request alone that read it
    remembered,     \* history: the last switch or start has made its records without a failing call
    ops, overlaps, faults  \* counters for the bounds

memory  == <<databaseName, semester, semesterConfig, readOnly>>
history == <<crossed, mixed, sure, remembered>>
vars == <<memory, gvars, store, meta, active, zip, job, history, ops, overlaps, faults>>

NoMeta == [readOnly |-> FALSE, semester |-> None]
Idle == [op |-> "none"]
\* The requests that move the server to another database or change its protection.
Moves == {"switchTo", "loadConfig", "saveConfig", "clearFlag", "loadFlag", "finish", "protect"}
Moving(k) == job[k].op \in Moves
Quiet == \A k \in Clients : ~Moving(k)
NoZip == [files |-> [c \in {} |-> Empty], whole |-> FALSE, source |-> [c \in Colls |-> Empty]]

Stored(d, c, x) == store' = [store EXCEPT ![d][c] = x]
\* A database call may fail, as often as the bound allows; whatever else fails with it is
\* not counted again.
Fails == faults < MaxFaults /\ ops + faults < MaxOps /\ faults' = faults + 1
Works == UNCHANGED faults

\* SemesterForDatabase: the stored semester, else the one the name suggests.
SemesterForDatabase(d) == IF meta[d].semester # None THEN meta[d].semester ELSE d
HasConfig(d) == store[d][Input] # Empty

-----------------------------------------------------------------------------
(* Admission (graph/server.go, graph/readonly.go, the upload handlers): asked *)
(* once, before the request runs.                                             *)

\* Within the bounds, an idle client sends a request.
Counted(k) ==
    /\ job[k] = Idle /\ ops + faults < MaxOps
    /\ ops' = ops + 1
    /\ overlaps' = IF \E i \in Clients : job[i] # Idle THEN overlaps + 1 ELSE overlaps
    /\ overlaps' <= MaxOverlaps
Begins(k, j) == Counted(k) /\ job' = [job EXCEPT ![k] = j]
Continues(k, j) == job' = [job EXCEPT ![k] = j] /\ UNCHANGED <<ops, overlaps>>
Ends(k) == Continues(k, Idle)

\* Mutant: the guard only.
AdmitsAnyDatabase == WritesAllowed
\* A data-changing mutation, and the uploads that ask both questions.
Admits == WritesAllowed /\ ~readOnly

-----------------------------------------------------------------------------
(* Writers *)

\* A request to write one collection; asked: whether the protection was asked for first.
WriteJob(op, c, x, asked) ==
    [op |-> op, home |-> databaseName, coll |-> c, docs |-> x, asked |-> asked]

\* A mutation that writes one collection of the current database.
Mutate(k) ==
    /\ Admits
    /\ \E c \in DataColls, x \in Docs \cup {Empty} : Begins(k, WriteJob("mutate", c, x, TRUE))
    /\ UNCHANGED <<memory, gvars, store, meta, active, zip, faults>>

\* The uploads of e-mail attachments ask for the running operations only.
HTTPUploadEmailAttachment(k) ==
    /\ WritesAllowed
    /\ \E c \in DataColls, x \in Docs : Begins(k, WriteJob("mutate", c, x, FALSE))
    /\ UNCHANGED <<memory, gvars, store, meta, active, zip, faults>>

MutateWrite(k) ==
    /\ job[k].op = "mutate"
    /\ Stored(databaseName, job[k].coll, job[k].docs)
    /\ Ends(k) /\ Works
    /\ UNCHANGED <<memory, gvars, meta, active, zip>>

\* setSemesterConfigInput: input and derived config are written, memory with them.
SetSemesterConfigInput(k) ==
    /\ Admits
    /\ \E x \in Configs : Begins(k, [op |-> "config", home |-> databaseName, docs |-> x])
    /\ UNCHANGED <<memory, gvars, store, meta, active, zip, faults>>

SaveConfigInput(k) ==
    /\ job[k].op = "config"
    /\ store' = [store EXCEPT ![databaseName][Input] = job[k].docs, ![databaseName][Config] = job[k].docs]
    /\ semesterConfig' = job[k].docs
    /\ Ends(k) /\ Works
    /\ UNCHANGED <<databaseName, semester, readOnly, gvars, meta, active, zip>>

\* An exclusive operation: it holds the guard until it has written.
GenerateJob(c, x, asked) ==
    [op |-> "generate", home |-> databaseName, coll |-> c, docs |-> x, asked |-> asked,
     late |-> ~Quiet]

\* A generation or import that a client starts.
Generate(k) ==
    /\ ~readOnly /\ BeginExclusiveOp
    /\ \E c \in DataColls, x \in Docs : Begins(k, GenerateJob(c, x, TRUE))
    /\ UNCHANGED <<memory, store, meta, active, zip, faults>>

\* The nightly sync imports without a request: nobody asks for the protection.
RunScheduledSync(k) ==
    /\ BeginExclusiveOp
    /\ \E c \in DataColls, x \in Docs : Begins(k, GenerateJob(c, x, FALSE))
    /\ UNCHANGED <<memory, store, meta, active, zip, faults>>

GenerateWrite(k) ==
    /\ job[k].op = "generate"
    /\ Stored(databaseName, job[k].coll, job[k].docs)
    /\ EndExclusiveOp
    /\ Ends(k) /\ Works
    /\ UNCHANGED <<memory, meta, active, zip>>

-----------------------------------------------------------------------------
(* SwitchSemester *)

\* Mutant: nobody asks the guard.
MaySwitchAnyTime == TRUE
\* WritesAllowed, asked by the admission and by SwitchSemester itself.
MaySwitch == WritesAllowed

SwitchSemester(k) ==
    /\ MaySwitch
    /\ \E d \in Databases, override \in Databases \cup {None} :
         Begins(k, [op |-> "switchTo", db |-> d, override |-> override])
    /\ UNCHANGED <<memory, gvars, store, meta, active, zip, faults>>

\* db.SwitchTo; a stored semester that cannot be read counts as none.
SwitchTo(d, override) ==
    /\ \/ /\ semester' = IF override # None THEN override ELSE SemesterForDatabase(d)
          /\ Works
       \/ override = None /\ semester' = d /\ Fails
    /\ databaseName' = d

SwitchRepoint(k) ==
    /\ job[k].op = "switchTo"
    /\ SwitchTo(job[k].db, job[k].override)
    /\ Continues(k, [job[k] EXCEPT !.op = "loadConfig"])
    /\ UNCHANGED <<semesterConfig, readOnly, gvars, store, meta, active, zip>>

\* loadSemesterConfig: without a stored config memory keeps what it has.
LoadedConfig(d) == IF HasConfig(d) THEN store[d][Input] ELSE semesterConfig

SwitchLoadConfig(k) ==
    /\ job[k].op = "loadConfig"
    /\ \/ semesterConfig' = LoadedConfig(databaseName) /\ Works
       \/ semesterConfig' = semesterConfig /\ Fails
    /\ Continues(k, [job[k] EXCEPT !.op = "saveConfig"])
    /\ UNCHANGED <<databaseName, semester, readOnly, gvars, store, meta, active, zip>>

\* SaveSemesterConfig, also into a protected database; EnsureMeta only stamps the version.
SwitchSaveConfig(k) ==
    /\ job[k].op = "saveConfig"
    /\ \/ /\ store' = IF semesterConfig # Empty
                      THEN [store EXCEPT ![databaseName][Config] = semesterConfig] ELSE store
          /\ Works
       \/ store' = store /\ Fails
    /\ Continues(k, [job[k] EXCEPT !.op = "clearFlag"])
    /\ UNCHANGED <<memory, gvars, meta, active, zip>>

\* loadSemesterMeta: the flag is cleared and then set as the database says, if it answers.
SwitchClearFlag(k) ==
    /\ job[k].op = "clearFlag"
    /\ readOnly' = FALSE
    /\ Continues(k, [job[k] EXCEPT !.op = "loadFlag"]) /\ Works
    /\ UNCHANGED <<databaseName, semester, semesterConfig, gvars, store, meta, active, zip>>

\* Mutant: the flag of the database is not looked up.
LoadedFlagNone(d) == FALSE
LoadedFlag(d) == meta[d].readOnly

SwitchLoadFlag(k) ==
    /\ job[k].op = "loadFlag"
    /\ \/ readOnly' = LoadedFlag(databaseName) /\ Works
          /\ Continues(k, [job[k] EXCEPT !.op = "finish"])
       \/ readOnly' = readOnly /\ Fails
          /\ Continues(k, [op |-> "finish", db |-> job[k].db, override |-> job[k].override,
                           failed |-> TRUE])
    /\ UNCHANGED <<databaseName, semester, semesterConfig, gvars, store, meta, active, zip>>

\* Mutants: an override is not persisted; the request's database is remembered.
PersistNothing(override) == UNCHANGED meta
RememberRequested(k) == active' = [semester |-> semester, database |-> job[k].db]

\* PersistSemester, for an explicit semester only
PersistSemester(override) ==
    meta' = IF override # None THEN [meta EXCEPT ![databaseName].semester = semester] ELSE meta

\* RememberActiveSemester
RememberActiveSemester(k) == active' = [semester |-> semester, database |-> databaseName]

\* Both writes are logged and passed over when they fail.
SwitchFinish(k) ==
    /\ job[k].op = "finish"
    /\ \/ PersistSemester(job[k].override) /\ RememberActiveSemester(k) /\ Works
       \/ PersistSemester(job[k].override) /\ active' = active /\ Fails
       \/ meta' = meta /\ RememberActiveSemester(k) /\ Fails
       \/ meta' = meta /\ active' = active /\ Fails
    /\ Ends(k)
    /\ UNCHANGED <<memory, gvars, store, zip>>

-----------------------------------------------------------------------------
(* Protection and new databases: allowed on a protected database *)

SetSemesterReadOnly(k) ==
    /\ WritesAllowed
    /\ \E b \in BOOLEAN :
         /\ Begins(k, [op |-> "protect", flag |-> b])
         /\ meta' = [meta EXCEPT ![databaseName].readOnly = b]
    /\ UNCHANGED <<memory, gvars, store, active, zip, faults>>

ProtectMemory(k) ==
    /\ job[k].op = "protect"
    /\ readOnly' = job[k].flag
    /\ Ends(k) /\ Works
    /\ UNCHANGED <<databaseName, semester, semesterConfig, gvars, store, meta, active, zip>>

\* CreateWorkspace: the config of another semester and its logical semester.
CreateWorkspace(k) ==
    /\ WritesAllowed /\ Counted(k)
    /\ \E d, from \in Databases :
         /\ ~HasConfig(d) /\ HasConfig(from)
         /\ Stored(d, Input, store[from][Input])
         /\ meta' = [meta EXCEPT ![d].semester = SemesterForDatabase(from)]
    /\ UNCHANGED <<memory, gvars, active, zip, job, faults>>

\* createSemesterWithInput: a given config, and the semester the database is named after.
CreateSemester(k) ==
    /\ Admits /\ Counted(k)
    /\ \E d \in Databases, x \in Configs :
         /\ ~HasConfig(d)
         /\ Stored(d, Input, x)
         /\ meta' = [meta EXCEPT ![d].semester = d]
    /\ UNCHANGED <<memory, gvars, active, zip, job, faults>>

-----------------------------------------------------------------------------
(* Dump and restore *)

\* SemesterDumpZip: the names first, then collection by collection.  A download is a
\* query: nobody asks for the guard.
SemesterDumpZip(k) ==
    /\ Begins(k, [op |-> "dump", home |-> databaseName, source |-> store[databaseName],
                  left |-> {c \in Colls : store[databaseName][c] # Empty},
                  files |-> NoZip.files])
    /\ UNCHANGED <<memory, gvars, store, meta, active, zip, faults>>

Extended(f, c, x) == [i \in DOMAIN f \cup {c} |-> IF i = c THEN x ELSE f[i]]

DumpCollection(k) ==
    /\ job[k].op = "dump"
    /\ \E c \in job[k].left :
         Continues(k, [job[k] EXCEPT !.left = @ \ {c},
                                     !.files = Extended(@, c, store[databaseName][c])])
    /\ Works
    /\ UNCHANGED <<memory, gvars, store, meta, active, zip>>

DumpDone(k) ==
    /\ job[k].op = "dump" /\ job[k].left = {}
    /\ zip' = [files |-> job[k].files, whole |-> k \notin crossed \cup mixed,
               source |-> job[k].source]
    /\ Ends(k) /\ Works
    /\ UNCHANGED <<memory, gvars, store, meta, active>>

\* Mutant: any database will do.
IsFreshAlways(d) == TRUE

\* The emptiness check: bookkeeping collections do not count.
IsFresh(d) == \A c \in DataColls : store[d][c] = Empty

UploadSemesterDump(k) ==
    /\ Admits /\ zip # NoZip
    /\ Begins(k, [op |-> "restore", home |-> databaseName, checked |-> FALSE,
                  zip |-> zip, left |-> DOMAIN zip.files, asked |-> TRUE])
    /\ UNCHANGED <<memory, gvars, store, meta, active, zip, faults>>

RestoreCheck(k) ==
    /\ job[k].op = "restore" /\ ~job[k].checked
    /\ IF IsFresh(databaseName) THEN Continues(k, [job[k] EXCEPT !.checked = TRUE]) ELSE Ends(k)
    /\ Works
    /\ UNCHANGED <<memory, gvars, store, meta, active, zip>>

\* ReplaceRawCollection drops and inserts; a failing insert leaves nothing and ends the
\* restore, whatever has been restored before stays.
RestoreCollection(k) ==
    /\ job[k].op = "restore" /\ job[k].checked
    /\ \E c \in job[k].left :
         \/ /\ Stored(databaseName, c, job[k].zip.files[c])
            /\ Continues(k, [job[k] EXCEPT !.left = @ \ {c}]) /\ Works
         \/ Stored(databaseName, c, Empty) /\ Ends(k) /\ Fails
    /\ UNCHANGED <<memory, gvars, meta, active, zip>>

RestoreDone(k) ==
    /\ job[k].op = "restore" /\ job[k].checked /\ job[k].left = {}
    /\ Ends(k) /\ Works
    /\ UNCHANGED <<memory, gvars, store, meta, active, zip>>

\* RestoreDataset of a dataset that is one collection: replaced, fresh or not.
UploadDataset(k) ==
    /\ Admits
    /\ \E c \in DataColls, x \in Docs : Begins(k, WriteJob("dataset", c, x, TRUE))
    /\ UNCHANGED <<memory, gvars, store, meta, active, zip, faults>>

\* The import of the Primuss ZIP replaces collections too, but asks for the running
\* operations only.
HTTPUploadPrimussZip(k) ==
    /\ WritesAllowed
    /\ \E c \in DataColls, x \in Docs : Begins(k, WriteJob("dataset", c, x, FALSE))
    /\ UNCHANGED <<memory, gvars, store, meta, active, zip, faults>>

RestoreDataset(k) ==
    /\ job[k].op = "dataset"
    /\ \/ Stored(databaseName, job[k].coll, job[k].docs) /\ Works
       \/ Stored(databaseName, job[k].coll, Empty) /\ Fails
    /\ Ends(k)
    /\ UNCHANGED <<memory, gvars, meta, active, zip>>

-----------------------------------------------------------------------------
(* Start and restart *)

Compatible == {d \in Databases : HasConfig(d)}

\* ResolveStartSemester: the last active database if it has a config, else another one.
\* last: whether that record can be read.  A stored semester that cannot be read counts as none.
StartDatabases(last) ==
    IF last /\ HasConfig(active.database) THEN {active.database} ELSE Compatible
StartSemesters(d, last) ==
    LET derived == IF last /\ d = active.database THEN active.semester ELSE d
    IN  {derived, IF meta[d].semester # None THEN meta[d].semester ELSE derived}

\* NewPlexams: the config is loaded and its derived form saved, the flag is loaded.
Load(d) ==
    /\ semesterConfig' \in {store[d][Input], Empty}
    /\ store' \in {store, IF semesterConfig' # Empty
                          THEN [store EXCEPT ![d][Config] = semesterConfig'] ELSE store}
    /\ \/ readOnly' = meta[d].readOnly /\ sure' = TRUE
       \/ readOnly' = FALSE /\ sure' = FALSE

\* The process ends, with whatever it was doing, and is started without a pinned semester.
\* Each read and write of the start may fail; all but the choice of a database go on.
Restart ==
    /\ Fails
    /\ \E last \in BOOLEAN : \E d \in StartDatabases(last) :
         databaseName' = d /\ semester' \in StartSemesters(d, last) /\ Load(d)
    /\ \/ active' = [semester |-> semester', database |-> databaseName'] /\ remembered' = TRUE
       \/ active' = active /\ remembered' = FALSE
    /\ GuardReset
    /\ job' = [k \in Clients |-> Idle]
    /\ crossed' = {} /\ mixed' = {}
    /\ UNCHANGED <<meta, zip, ops, overlaps>>

Init ==
    /\ databaseName = First /\ semester = First /\ readOnly = FALSE
    /\ \E x \in Configs, rest \in [DataColls -> Docs \cup {Empty}] :
         /\ store = [d \in Databases |-> [c \in Colls |->
                       IF d # First THEN Empty ELSE IF c \in DataColls THEN rest[c] ELSE x]]
         /\ semesterConfig = x
    /\ meta = [d \in Databases |-> NoMeta]
    /\ active = [semester |-> First, database |-> First]
    /\ zip = NoZip
    /\ job = [k \in Clients |-> Idle]
    /\ crossed = {} /\ mixed = {} /\ sure = TRUE /\ remembered = TRUE
    /\ GuardInit /\ ops = 0 /\ overlaps = 0 /\ faults = 0

Request(k) ==
    \/ Mutate(k) \/ SetSemesterConfigInput(k) \/ Generate(k) \/ RunScheduledSync(k)
    \/ SwitchSemester(k) \/ SetSemesterReadOnly(k) \/ CreateWorkspace(k) \/ CreateSemester(k)
    \/ SemesterDumpZip(k) \/ UploadSemesterDump(k) \/ UploadDataset(k)
    \/ HTTPUploadPrimussZip(k) \/ HTTPUploadEmailAttachment(k)

Move(k) ==
    \/ SwitchRepoint(k) \/ SwitchLoadConfig(k) \/ SwitchSaveConfig(k)
    \/ SwitchClearFlag(k) \/ SwitchLoadFlag(k) \/ SwitchFinish(k) \/ ProtectMemory(k)

Work(k) ==
    \/ MutateWrite(k) \/ SaveConfigInput(k) \/ GenerateWrite(k)
    \/ DumpCollection(k) \/ DumpDone(k)
    \/ RestoreCheck(k) \/ RestoreCollection(k) \/ RestoreDone(k) \/ RestoreDataset(k)

\* What the history variables record of a step of client k.
Recorded(k) ==
    /\ crossed' = {j \in Clients : /\ job'[j] # Idle
                                   /\ \/ j \in crossed
                                      \/ \E i \in Clients \ {j} : Moving(i) \/ Moving(i)'}
    /\ mixed' = {j \in Clients : /\ job'[j] # Idle
                                 /\ j \in mixed \/ (j # k /\ <<store, meta>>' # <<store, meta>>)}
    /\ sure' = IF Moving(k) /\ job'[k] = Idle
               THEN k \notin crossed /\ "failed" \notin DOMAIN job[k] ELSE sure
    /\ remembered' = IF job[k].op = "finish" THEN faults' = faults ELSE remembered

Next ==
    \/ \E k \in Clients : (Request(k) \/ Move(k) \/ Work(k)) /\ Recorded(k)
    \/ Restart

Spec == Init /\ [][Next]_vars

-----------------------------------------------------------------------------
(* Properties *)

\* The current database is one the server knows; what is kept of it has its type.
TypeOK ==
    /\ databaseName \in Databases /\ semester \in Databases
    /\ semesterConfig \in Configs \cup {Empty} /\ readOnly \in BOOLEAN
    /\ store \in [Databases -> [Colls -> Docs \cup Configs \cup {Empty}]]
    /\ meta \in [Databases -> [readOnly : BOOLEAN, semester : Databases \cup {None}]]
    /\ active \in [semester : Databases, database : Databases]
    /\ DOMAIN zip.files \subseteq Colls
    /\ GuardTypeOK
    /\ DOMAIN job = Clients /\ crossed \cup mixed \subseteq Clients
    /\ {sure, remembered} \subseteq BOOLEAN

Data(d) == [c \in DataColls |-> store[d][c]]
\* k's request is the one that took the step, and it changed the data of d.
Writes(k, d) == job[k] # Idle /\ job'[k] # job[k] /\ Data(d)' # Data(d)

\* IsReadOnly (semester_switch.go:21): the flag that every request is admitted by is the
\* one stored in the current database - whenever no switch or protection is under way,
\* and the last one, or the start since, neither overlapped another nor failed to read
\* the flag (semester_switch.go:37: memory then says "not protected").
FlagAgrees == Quiet /\ sure => readOnly = meta[databaseName].readOnly

\* graph/server.go:107: the planning data of a protected database does not change through
\* whatever sequence of switches, protections and restarts, by a request that was asked for
\* the protection - unless a switch or protection was under way beside it, or the flag is
\* in doubt.  The nightly sync, the Primuss ZIP and e-mail attachments are never asked:
\* they write into a protected database whenever they come (autosync.go:120).
ProtectedUnchanged ==
    [][\A k \in Clients, d \in Databases :
         Writes(k, d) /\ meta[d].readOnly => k \in crossed \/ ~sure \/ ~job[k].asked]_vars

\* semester_switch.go:75: an operation that holds the guard writes into the database it was
\* started on, because no switch begins while it runs - unless a switch already past its
\* question was under way when the operation began.  Any other request writes where it was
\* admitted unless a switch overlapped it.
WritesHome ==
    [][\A k \in Clients, d \in Databases :
         Writes(k, d) =>
           \/ job[k].home = d
           \/ IF job[k].op = "generate" THEN job[k].late ELSE k \in crossed]_vars

\* semester_switch.go:70: a switch that nothing overlapped leaves in memory what the
\* database says: its own stored semester (the override, from now on), and its config -
\* as long as no call has failed.
SwitchLoads ==
    [][\A k \in Clients :
         job[k].op = "finish" /\ job'[k] = Idle /\ k \notin crossed \cup mixed /\ faults' = 0
         => /\ databaseName' = job[k].db
            /\ semester' = SemesterForDatabase(databaseName)'
            /\ HasConfig(databaseName)' => semesterConfig' = store'[databaseName'][Input]
       ]_vars

\* RememberActiveSemester (semester_switch.go:171): with no switch under way the database
\* recorded as the last active one is the current one, even after switches that
\* overlapped: the next start resumes it.  Unless a write at the end of the last switch or
\* start has failed: that is logged and passed over.
ActiveIsCurrent ==
    Quiet /\ remembered => active = [semester |-> semester, database |-> databaseName]

\* RestoreSemesterDump (dump.go:130): a restore that no other write and no switch overlaps
\* makes the data of the current database exactly what the dumped database held when its
\* dump was begun - if nothing disturbed the dump - and never mixes it with other data:
\* one that fails leaves a part of the dump and nothing else.
RestoreExact ==
    [][\A k \in Clients :
         job[k].op = "restore" /\ job[k].checked /\ job[k].zip.whole
           /\ k \notin crossed \cup mixed /\ job'[k] # job[k]
         => LET source == [c \in DataColls |-> job[k].zip.source[c]]
                target == [c \in DataColls |-> store'[job[k].home][c]]
            IN /\ \A c \in DataColls : target[c] \in {Empty, source[c]}
               /\ job[k].left = {} => target = source]_vars
=============================================================================
