--------------------------- MODULE SemesterProofs ---------------------------
(***************************************************************************)
(* Proofs about semester switches, protection, dumps and restores for any   *)
(* number of clients, databases and collections: the remembered database is *)
(* the current one, the flag in memory agrees with the stored one, a        *)
(* protected database keeps its data, requests write where they were        *)
(* admitted, a switch loads what the database says, and a restore is exact. *)
(***************************************************************************)
EXTENDS Semester, TLAPS

-----------------------------------------------------------------------------
(* The shape of what is stored and of the requests under way. *)

\* What a collection may hold: planning data, or a configuration.
Content(c) == IF c \in DataColls THEN Docs \cup {Empty} ELSE Configs \cup {Empty}
Stores == {f \in [Colls -> Docs \cup Configs \cup {Empty}] : \A c \in Colls : f[c] \in Content(c)}
Files == {f \in UNION {[D -> Docs \cup Configs \cup {Empty}] : D \in SUBSET Colls} :
            \A c \in DOMAIN f : f[c] \in Content(c)}
Zips == [files : Files, whole : BOOLEAN, source : Stores]

SwitchOps == {"switchTo", "loadConfig", "saveConfig", "clearFlag", "loadFlag", "finish"}
WriteJobs == [op : {"mutate", "dataset"}, home : Databases, coll : DataColls, docs : Docs \cup {Empty},
              asked : BOOLEAN]
ConfigJobs == [op : {"config"}, home : Databases, docs : Configs]
GenerateJobs == [op : {"generate"}, home : Databases, coll : DataColls, docs : Docs, asked : BOOLEAN,
                 late : BOOLEAN]
SwitchJobs == [op : SwitchOps, db : Databases, override : Databases \cup {None}]
FailedJobs == [op : {"finish"}, db : Databases, override : Databases \cup {None}, failed : {TRUE}]
ProtectJobs == [op : {"protect"}, flag : BOOLEAN]
DumpJobs == [op : {"dump"}, home : Databases, source : Stores, left : SUBSET Colls, files : Files]
RestoreJobs == [op : {"restore"}, home : Databases, checked : BOOLEAN, zip : Zips, left : SUBSET Colls,
                asked : {TRUE}]
Jobs == {Idle} \cup WriteJobs \cup ConfigJobs \cup GenerateJobs \cup SwitchJobs \cup FailedJobs
          \cup ProtectJobs \cup DumpJobs \cup RestoreJobs

Shape ==
    /\ databaseName \in Databases /\ semester \in Databases
    /\ semesterConfig \in Configs \cup {Empty} /\ readOnly \in BOOLEAN
    /\ store \in [Databases -> Stores]
    /\ meta \in [Databases -> [readOnly : BOOLEAN, semester : Databases \cup {None}]]
    /\ active \in [semester : Databases, database : Databases]
    /\ zip \in Zips
    /\ job \in [Clients -> Jobs]
    /\ ops \in Nat /\ overlaps \in Nat /\ faults \in Nat

HistoryShape == crossed \cup mixed \subseteq Clients /\ sure \in BOOLEAN /\ remembered \in BOOLEAN

-----------------------------------------------------------------------------
(* The inductive invariant. *)

\* The guard is held by one generation at most, and free only without one.
GenerateAlone ==
    /\ validations = 0 /\ exclusiveOps \in {0, 1}
    /\ exclusiveOps = 0 => \A k \in Clients : job[k].op # "generate"
    /\ \A i, k \in Clients : job[i].op = "generate" /\ job[k].op = "generate" => i = k

\* A request that nothing has crossed has no mover beside it.
UncrossedAlone ==
    \A k \in Clients : job[k] # Idle /\ k \notin crossed => \A i \in Clients \ {k} : ~Moving(i)

\* A switch that has repointed the server and not yet remembered it.
Repointed(k) == job[k].op \in SwitchOps \ {"switchTo"}
ActiveUnlessRepointed ==
    (\A k \in Clients : ~Repointed(k)) /\ remembered =>
        active = [semester |-> semester, database |-> databaseName]

\* What an uncrossed request knows of the flag of the current database.
FlagKnown ==
    \A k \in Clients : k \notin crossed =>
        /\ job[k].op = "protect" => meta[databaseName].readOnly = job[k].flag
        /\ job[k].op = "finish" /\ "failed" \notin DOMAIN job[k] =>
              readOnly = meta[databaseName].readOnly
        /\ job[k].op \in {"mutate", "dataset", "generate", "restore"} /\ job[k].asked /\ sure =>
              ~meta[databaseName].readOnly

\* Where requests were admitted is where the server still is.
AtHome ==
    \A k \in Clients :
        /\ job[k].op \in {"mutate", "config", "dataset", "dump", "restore"} /\ k \notin crossed =>
              job[k].home = databaseName
        /\ job[k].op = "generate" /\ ~job[k].late => job[k].home = databaseName /\ Quiet

\* What a switch that nothing disturbed has loaded so far.
Loaded(k) ==
    /\ databaseName = job[k].db
    /\ semester = (IF job[k].override # None THEN job[k].override ELSE SemesterForDatabase(databaseName))
    /\ job[k].op # "loadConfig" /\ HasConfig(databaseName) =>
          semesterConfig = store[databaseName][Input]
SwitchLoading ==
    \A k \in Clients : k \notin crossed \cup mixed /\ faults = 0 /\ Repointed(k) => Loaded(k)

\* A finished dump that nothing disturbed, and one under way.
Faithful(z) ==
    /\ DOMAIN z.files = {c \in Colls : z.source[c] # Empty}
    /\ \A c \in DOMAIN z.files : z.files[c] = z.source[c]
DumpSoFar(k) ==
    /\ job[k].source = store[databaseName]
    /\ DOMAIN job[k].files \cup job[k].left = {c \in Colls : job[k].source[c] # Empty}
    /\ \A c \in DOMAIN job[k].files : job[k].files[c] = job[k].source[c]
\* What a restore that nothing disturbed has restored so far.
RestoredSoFar(k) ==
    \A c \in DataColls :
        store[databaseName][c] = IF c \in DOMAIN job[k].zip.files \ job[k].left
                                 THEN job[k].zip.files[c] ELSE Empty
DumpsFaithful ==
    /\ zip.whole => Faithful(zip)
    /\ \A k \in Clients :
          /\ job[k].op = "dump" /\ k \notin crossed \cup mixed => DumpSoFar(k)
          /\ job[k].op = "restore" => /\ job[k].zip.whole => Faithful(job[k].zip)
                                      /\ job[k].left \subseteq DOMAIN job[k].zip.files
          /\ job[k].op = "restore" /\ job[k].checked /\ k \notin crossed \cup mixed => RestoredSoFar(k)
          /\ job[k].op = "restore" /\ ~job[k].checked => job[k].left = DOMAIN job[k].zip.files

IInv ==
    /\ Shape /\ HistoryShape /\ GenerateAlone /\ UncrossedAlone /\ ActiveUnlessRepointed
    /\ FlagAgrees /\ FlagKnown /\ AtHome /\ SwitchLoading /\ DumpsFaithful

-----------------------------------------------------------------------------
(* Lemmas on shapes. *)

\* What the operation of a request says about its record.
LEMMA JobByOp ==
    ASSUME NEW j \in Jobs
    PROVE  /\ j.op \in {"none", "mutate", "dataset", "config", "generate", "protect", "dump", "restore"} \cup SwitchOps
           /\ j.op = "none" => j = Idle
           /\ j.op \in {"mutate", "dataset"} => j \in WriteJobs
           /\ j.op = "config" => j \in ConfigJobs
           /\ j.op = "generate" => j \in GenerateJobs
           /\ j.op \in SwitchOps \ {"finish"} => j \in SwitchJobs
           /\ j.op = "finish" => j \in SwitchJobs \cup FailedJobs
           /\ j.op = "protect" => j \in ProtectJobs
           /\ j.op = "dump" => j \in DumpJobs
           /\ j.op = "restore" => j \in RestoreJobs
<1>1. CASE j = Idle
  BY <1>1 DEF Idle, SwitchOps
<1>2. CASE j \in WriteJobs
  BY <1>2 DEF WriteJobs, SwitchOps
<1>3. CASE j \in ConfigJobs
  BY <1>3 DEF ConfigJobs, SwitchOps
<1>4. CASE j \in GenerateJobs
  BY <1>4 DEF GenerateJobs, SwitchOps
<1>5. CASE j \in SwitchJobs
  BY <1>5 DEF SwitchJobs, SwitchOps
<1>6. CASE j \in FailedJobs
  BY <1>6 DEF FailedJobs, SwitchOps
<1>7. CASE j \in ProtectJobs
  BY <1>7 DEF ProtectJobs, SwitchOps
<1>8. CASE j \in DumpJobs
  BY <1>8 DEF DumpJobs, SwitchOps
<1>9. CASE j \in RestoreJobs
  BY <1>9 DEF RestoreJobs, SwitchOps
<1>10. QED
  BY <1>1, <1>2, <1>3, <1>4, <1>5, <1>6, <1>7, <1>8, <1>9 DEF Jobs

\* An idle client is none of the movers, and the operations are told apart by name.
LEMMA IdleOp == Idle.op = "none" /\ Idle \in Jobs
  BY DEF Idle, Jobs

\* The collections: data and configuration are kept apart.
LEMMA CollKinds ==
    /\ Input \in Colls /\ Config \in Colls /\ Input # Config
    /\ Input \notin DataColls /\ Config \notin DataColls /\ DataColls \subseteq Colls
    /\ Empty \notin Docs \cup Configs /\ None \notin Databases
  BY SemesterAssumption DEF Input, Config, Colls

\* Writing a fitting content into a collection keeps the store well-formed and
\* everything else as it is.
LEMMA StoredShape ==
    ASSUME store \in [Databases -> Stores], NEW d \in Databases, NEW c \in Colls,
           NEW x \in Content(c), Stored(d, c, x)
    PROVE  /\ store' \in [Databases -> Stores]
           /\ store'[d][c] = x
           /\ \A e \in Databases, b \in Colls : e # d \/ b # c => store'[e][b] = store[e][b]
<1>1. store' = [store EXCEPT ![d] = [store[d] EXCEPT ![c] = x]]
  BY DEF Stored
<1>2. store[d] \in [Colls -> Docs \cup Configs \cup {Empty}] /\ \A b \in Colls : store[d][b] \in Content(b)
  BY DEF Stores
<1>3. x \in Docs \cup Configs \cup {Empty}
  BY DEF Content
<1>4. [store[d] EXCEPT ![c] = x] \in Stores
  BY <1>2, <1>3 DEF Stores
<1>5. \A e \in Databases : store[e] \in [Colls -> Docs \cup Configs \cup {Empty}]
  BY DEF Stores
<1>6. QED
  BY <1>1, <1>2, <1>4, <1>5

\* The next place of a switch.
LEMMA SwitchedOn ==
    ASSUME NEW j \in SwitchJobs, NEW o \in SwitchOps
    PROVE  /\ [j EXCEPT !.op = o] \in SwitchJobs
           /\ [j EXCEPT !.op = o].op = o /\ [j EXCEPT !.op = o].db = j.db
           /\ [j EXCEPT !.op = o].override = j.override
           /\ "failed" \notin DOMAIN [j EXCEPT !.op = o]
  BY DEF SwitchJobs

\* Well-formed requests are well-formed whatever they do.
LEMMA JobKinds ==
    /\ WriteJobs \subseteq Jobs /\ ConfigJobs \subseteq Jobs /\ GenerateJobs \subseteq Jobs
    /\ SwitchJobs \subseteq Jobs /\ FailedJobs \subseteq Jobs /\ ProtectJobs \subseteq Jobs
    /\ DumpJobs \subseteq Jobs /\ RestoreJobs \subseteq Jobs /\ Idle \in Jobs
  BY DEF Jobs

\* A collection read into a dump.
LEMMA ExtendedFiles ==
    ASSUME NEW f \in Files, NEW c \in Colls, NEW x \in Content(c)
    PROVE  /\ Extended(f, c, x) \in Files
           /\ DOMAIN Extended(f, c, x) = DOMAIN f \cup {c}
           /\ Extended(f, c, x)[c] = x
           /\ \A b \in DOMAIN f : b # c => Extended(f, c, x)[b] = f[b]
<1> DEFINE V == Docs \cup Configs \cup {Empty}
           g == Extended(f, c, x)
<1>1. PICK D \in SUBSET Colls : f \in [D -> V]
  BY DEF Files
<1>2. x \in V
  BY DEF Content
<1>3. /\ DOMAIN g = D \cup {c} /\ g \in [D \cup {c} -> V]
      /\ g[c] = x /\ \A b \in D : b # c => g[b] = f[b]
  BY <1>1, <1>2 DEF Extended
<1>4. D \cup {c} \in SUBSET Colls
  BY <1>1
<1>5. \A b \in DOMAIN g : g[b] \in Content(b)
  BY <1>1, <1>3 DEF Files
<1>6. g \in Files
  <2>1. g \in UNION {[E -> V] : E \in SUBSET Colls}
    BY <1>3, <1>4
  <2> HIDE DEF g
  <2>2. QED
    BY <1>5, <2>1 DEF Files
<1>7. QED
  BY <1>1, <1>3, <1>6

\* The file list a dump begins with.
LEMMA NoFiles == NoZip \in Zips /\ NoZip.files \in Files /\ DOMAIN NoZip.files = {} /\ ~NoZip.whole
<1> DEFINE e == [c \in {} |-> Empty]
<1>1. e \in [{} -> Docs \cup Configs \cup {Empty}] /\ DOMAIN e = {}
  OBVIOUS
<1>2. e \in Files
  BY <1>1 DEF Files
<1>3. [c \in Colls |-> Empty] \in Stores
  BY DEF Stores, Content
<1> HIDE DEF e
<1>4. [files |-> e, whole |-> FALSE, source |-> [c \in Colls |-> Empty]] \in Zips
  BY <1>2, <1>3 DEF Zips
<1>5. NoZip = [files |-> e, whole |-> FALSE, source |-> [c \in Colls |-> Empty]]
  BY DEF NoZip, e
<1>6. QED
  BY <1>1, <1>2, <1>4, <1>5

-----------------------------------------------------------------------------
(* Shapes survive every step, and a step of k leaves the other requests alone. *)

\* The request of another client is not touched.
OthersKept(k) == \A i \in Clients \ {k} : job'[i] = job[i]

\* A request that begins, goes on or ends as a well-formed one.
LEMMA JobKept ==
    ASSUME Shape, NEW k \in Clients, NEW j \in Jobs, job' = [job EXCEPT ![k] = j]
    PROVE  job' \in [Clients -> Jobs] /\ OthersKept(k) /\ job'[k] = j
  BY DEF Shape, OthersKept

\* Beginning a request counts it.
LEMMA CountedShape ==
    ASSUME Shape, NEW k \in Clients, Counted(k)
    PROVE  ops' \in Nat /\ overlaps' \in Nat
  BY SemesterAssumption DEF Shape, Counted

\* The requests that write one collection, without the guard and with it.
BeginsWrite(k) ==
    Mutate(k) \/ HTTPUploadEmailAttachment(k) \/ UploadDataset(k) \/ HTTPUploadPrimussZip(k)
BeginsGuarded(k) == Generate(k) \/ RunScheduledSync(k)

\* They begin at home, and those that are asked only while the flag is not set.
LEMMA WriteBegun ==
    ASSUME Shape, NEW k \in Clients, BeginsWrite(k)
    PROVE  /\ \E j \in WriteJobs : Begins(k, j) /\ j.home = databaseName /\ (j.asked => ~readOnly)
           /\ UNCHANGED <<memory, gvars, store, meta, active, zip, faults>>
<1>1. UNCHANGED <<memory, gvars, store, meta, active, zip, faults>>
  BY DEF BeginsWrite, Mutate, HTTPUploadEmailAttachment, UploadDataset, HTTPUploadPrimussZip
<1>2. \E op \in {"mutate", "dataset"}, c \in DataColls, x \in Docs \cup {Empty}, b \in BOOLEAN :
         Begins(k, WriteJob(op, c, x, b)) /\ (b => ~readOnly)
  BY DEF BeginsWrite, Mutate, HTTPUploadEmailAttachment, UploadDataset, HTTPUploadPrimussZip, Admits
<1>3. PICK op \in {"mutate", "dataset"}, c \in DataColls, x \in Docs \cup {Empty}, b \in BOOLEAN :
         Begins(k, WriteJob(op, c, x, b)) /\ (b => ~readOnly)
  BY <1>2
<1> DEFINE j == WriteJob(op, c, x, b)
<1>4. j \in WriteJobs /\ j.home = databaseName /\ j.asked = b
  BY DEF WriteJob, WriteJobs, Shape
<1>5. Begins(k, j)
  BY <1>3
<1> HIDE DEF j
<1>6. QED
  BY <1>1, <1>3, <1>4, <1>5

LEMMA GuardedBegun ==
    ASSUME Shape, NEW k \in Clients, BeginsGuarded(k)
    PROVE  /\ \E j \in GenerateJobs : Begins(k, j) /\ j.home = databaseName /\ (j.asked => ~readOnly)
           /\ UNCHANGED <<memory, store, meta, active, zip, faults>>
<1>1. UNCHANGED <<memory, store, meta, active, zip, faults>>
  BY DEF BeginsGuarded, Generate, RunScheduledSync
<1>2. PICK c \in DataColls, x \in Docs, b \in BOOLEAN :
         Begins(k, GenerateJob(c, x, b)) /\ (b => ~readOnly)
  BY DEF BeginsGuarded, Generate, RunScheduledSync
<1>3. PICK l \in BOOLEAN : l = ~Quiet
  OBVIOUS
<1> DEFINE j == [op |-> "generate", home |-> databaseName, coll |-> c, docs |-> x, asked |-> b,
                 late |-> l]
<1>4. j \in GenerateJobs /\ j.home = databaseName /\ j.asked = b
  BY DEF GenerateJobs, Shape
<1>5. Begins(k, j)
  BY <1>2, <1>3 DEF GenerateJob
<1> HIDE DEF j
<1>6. QED
  BY <1>1, <1>2, <1>4, <1>5

\* Every request begins well-formed.
LEMMA RequestShape == ASSUME Shape, NEW k \in Clients, Request(k) PROVE Shape' /\ OthersKept(k)
<1> USE DEF memory
<1>1. CASE BeginsWrite(k)
  <2>1. PICK j \in WriteJobs : Begins(k, j)
    BY <1>1, WriteBegun
  <2>2. QED
    BY <1>1, <2>1, WriteBegun, JobKinds, JobKept, CountedShape DEF Begins, Shape
<1>2. CASE SetSemesterConfigInput(k)
  <2>1. PICK x \in Configs : Begins(k, [op |-> "config", home |-> databaseName, docs |-> x])
    BY <1>2 DEF SetSemesterConfigInput
  <2>2. [op |-> "config", home |-> databaseName, docs |-> x] \in Jobs
    BY JobKinds DEF ConfigJobs, Shape
  <2>3. QED
    BY <1>2, <2>1, <2>2, JobKept, CountedShape DEF SetSemesterConfigInput, Begins, Shape
<1>3. CASE BeginsGuarded(k)
  <2>1. PICK j \in GenerateJobs : Begins(k, j)
    BY <1>3, GuardedBegun
  <2>2. QED
    BY <1>3, <2>1, GuardedBegun, JobKinds, JobKept, CountedShape DEF Begins, Shape
<1>4. CASE SwitchSemester(k)
  <2>1. PICK d \in Databases, override \in Databases \cup {None} :
           Begins(k, [op |-> "switchTo", db |-> d, override |-> override])
    BY <1>4 DEF SwitchSemester
  <2>2. [op |-> "switchTo", db |-> d, override |-> override] \in Jobs
    BY JobKinds DEF SwitchJobs, SwitchOps
  <2>3. QED
    BY <1>4, <2>1, <2>2, JobKept, CountedShape DEF SwitchSemester, Begins, Shape
<1>5. CASE SetSemesterReadOnly(k)
  <2>1. PICK b \in BOOLEAN : /\ Begins(k, [op |-> "protect", flag |-> b])
                             /\ meta' = [meta EXCEPT ![databaseName].readOnly = b]
    BY <1>5 DEF SetSemesterReadOnly
  <2>2. [op |-> "protect", flag |-> b] \in Jobs
    BY JobKinds DEF ProtectJobs
  <2>3. meta' \in [Databases -> [readOnly : BOOLEAN, semester : Databases \cup {None}]]
    BY <2>1 DEF Shape
  <2>4. QED
    BY <1>5, <2>1, <2>2, <2>3, JobKept, CountedShape DEF SetSemesterReadOnly, Begins, Shape
<1>6. CASE CreateWorkspace(k)
  <2>1. PICK d \in Databases, from \in Databases :
           /\ Stored(d, Input, store[from][Input])
           /\ meta' = [meta EXCEPT ![d].semester = SemesterForDatabase(from)]
    BY <1>6 DEF CreateWorkspace
  <2>2. store[from][Input] \in Content(Input)
    BY CollKinds DEF Shape, Stores
  <2>3. store' \in [Databases -> Stores]
    BY <2>1, <2>2, StoredShape, CollKinds DEF Shape
  <2>4. meta' \in [Databases -> [readOnly : BOOLEAN, semester : Databases \cup {None}]]
    BY <2>1 DEF Shape, SemesterForDatabase
  <2>5. QED
    BY <1>6, <2>3, <2>4, CountedShape DEF CreateWorkspace, Shape, OthersKept
<1>7. CASE CreateSemester(k)
  <2>1. PICK d \in Databases, x \in Configs :
           Stored(d, Input, x) /\ meta' = [meta EXCEPT ![d].semester = d]
    BY <1>7 DEF CreateSemester
  <2>2. x \in Content(Input)
    BY CollKinds DEF Content
  <2>3. store' \in [Databases -> Stores]
    BY <2>1, <2>2, StoredShape, CollKinds DEF Shape
  <2>4. meta' \in [Databases -> [readOnly : BOOLEAN, semester : Databases \cup {None}]]
    BY <2>1 DEF Shape
  <2>5. QED
    BY <1>7, <2>3, <2>4, CountedShape DEF CreateSemester, Shape, OthersKept
<1>8. CASE SemesterDumpZip(k)
  <2> DEFINE left == {c \in Colls : store[databaseName][c] # Empty}
             j == [op |-> "dump", home |-> databaseName, source |-> store[databaseName],
                   left |-> left, files |-> NoZip.files]
  <2>1. left \in SUBSET Colls /\ store[databaseName] \in Stores
    BY DEF Shape
  <2> HIDE DEF left
  <2>2. j \in Jobs
    BY <2>1, JobKinds, NoFiles DEF DumpJobs, Shape
  <2>3. Begins(k, j)
    BY <1>8 DEF SemesterDumpZip, left
  <2> HIDE DEF j
  <2>4. QED
    BY <1>8, <2>2, <2>3, JobKept, CountedShape DEF SemesterDumpZip, Begins, Shape
<1>9. CASE UploadSemesterDump(k)
  <2> DEFINE j == [op |-> "restore", home |-> databaseName, checked |-> FALSE,
                   zip |-> zip, left |-> DOMAIN zip.files, asked |-> TRUE]
  <2>1. DOMAIN zip.files \in SUBSET Colls
    BY DEF Shape, Zips, Files
  <2>2. j \in Jobs
    BY <2>1, JobKinds DEF RestoreJobs, Shape
  <2>3. Begins(k, j)
    BY <1>9 DEF UploadSemesterDump
  <2> HIDE DEF j
  <2>4. QED
    BY <1>9, <2>2, <2>3, JobKept, CountedShape DEF UploadSemesterDump, Begins, Shape
<1>10. QED
  BY <1>1, <1>2, <1>3, <1>4, <1>5, <1>6, <1>7, <1>8, <1>9 DEF Request, BeginsWrite, BeginsGuarded

\* Every step of a switch or protection leaves well-formed state.
LEMMA MoveShape == ASSUME Shape, NEW k \in Clients, Move(k) PROVE Shape' /\ OthersKept(k)
<1> USE DEF memory, Works, Continues, Ends
<1>j. job[k] \in Jobs
  BY DEF Shape
<1>s. job[k].op \in SwitchOps \ {"finish"} => job[k] \in SwitchJobs
  BY <1>j, JobByOp
<1>1. CASE SwitchRepoint(k)
  <2>1. job[k] \in SwitchJobs
    BY <1>1, <1>s DEF SwitchRepoint, SwitchOps
  <2>2. [job[k] EXCEPT !.op = "loadConfig"] \in Jobs
    BY <2>1, SwitchedOn, JobKinds DEF SwitchOps
  <2>3. semester' \in Databases /\ databaseName' \in Databases
    BY <1>1, <2>1 DEF SwitchRepoint, SwitchTo, SwitchJobs, SemesterForDatabase, Shape
  <2>4. faults' \in Nat
    BY <1>1 DEF SwitchRepoint, SwitchTo, Fails, Shape
  <2>5. QED
    BY <1>1, <2>2, <2>3, <2>4, JobKept DEF SwitchRepoint, Shape
<1>2. CASE SwitchLoadConfig(k)
  <2>1. [job[k] EXCEPT !.op = "saveConfig"] \in Jobs
    BY <1>2, <1>s, SwitchedOn, JobKinds DEF SwitchLoadConfig, SwitchOps
  <2>2. store[databaseName][Input] \in Configs \cup {Empty}
    BY CollKinds DEF Shape, Stores, Content
  <2>3. semesterConfig' \in Configs \cup {Empty} /\ faults' \in Nat
    BY <1>2, <2>2 DEF SwitchLoadConfig, LoadedConfig, Fails, Shape
  <2>4. QED
    BY <1>2, <2>1, <2>3, JobKept DEF SwitchLoadConfig, Shape
<1>3. CASE SwitchSaveConfig(k)
  <2>1. [job[k] EXCEPT !.op = "clearFlag"] \in Jobs
    BY <1>3, <1>s, SwitchedOn, JobKinds DEF SwitchSaveConfig, SwitchOps
  <2>2. semesterConfig \in Content(Config)
    BY CollKinds DEF Shape, Content
  <2>3. store' \in [Databases -> Stores] /\ faults' \in Nat
    BY <1>3, <2>2, CollKinds, StoredShape DEF SwitchSaveConfig, Shape, Stored, Fails
  <2>4. QED
    BY <1>3, <2>1, <2>3, JobKept DEF SwitchSaveConfig, Shape
<1>4. CASE SwitchClearFlag(k)
  <2>1. [job[k] EXCEPT !.op = "loadFlag"] \in Jobs
    BY <1>4, <1>s, SwitchedOn, JobKinds DEF SwitchClearFlag, SwitchOps
  <2>2. QED
    BY <1>4, <2>1, JobKept DEF SwitchClearFlag, Shape
<1>5. CASE SwitchLoadFlag(k)
  <2>1. job[k] \in SwitchJobs
    BY <1>5, <1>s DEF SwitchLoadFlag, SwitchOps
  <2>2. [job[k] EXCEPT !.op = "finish"] \in Jobs
    BY <2>1, SwitchedOn, JobKinds DEF SwitchOps
  <2>3. [op |-> "finish", db |-> job[k].db, override |-> job[k].override, failed |-> TRUE] \in Jobs
    BY <2>1, JobKinds DEF SwitchJobs, FailedJobs
  <2>4. readOnly' \in BOOLEAN /\ faults' \in Nat
    BY <1>5 DEF SwitchLoadFlag, LoadedFlag, Fails, Shape
  <2>5. job' \in [Clients -> Jobs] /\ OthersKept(k)
    BY <1>5, <2>2, <2>3, JobKept DEF SwitchLoadFlag
  <2>6. QED
    BY <1>5, <2>4, <2>5 DEF SwitchLoadFlag, Shape
<1>6. CASE SwitchFinish(k)
  <2>1. meta' \in [Databases -> [readOnly : BOOLEAN, semester : Databases \cup {None}]]
    BY <1>6 DEF SwitchFinish, PersistSemester, Shape
  <2>2. active' \in [semester : Databases, database : Databases]
    BY <1>6 DEF SwitchFinish, RememberActiveSemester, Shape
  <2>3. faults' \in Nat
    BY <1>6 DEF SwitchFinish, Fails, Shape
  <2>4. QED
    BY <1>6, <2>1, <2>2, <2>3, JobKept, IdleOp DEF SwitchFinish, Shape
<1>7. CASE ProtectMemory(k)
  <2>1. job[k].flag \in BOOLEAN
    BY <1>7, <1>j, JobByOp DEF ProtectMemory, ProtectJobs
  <2>2. QED
    BY <1>7, <2>1, JobKept, IdleOp DEF ProtectMemory, Shape
<1>8. QED
  BY <1>1, <1>2, <1>3, <1>4, <1>5, <1>6, <1>7 DEF Move

\* Every step of a writer, a dump or a restore leaves well-formed state.
LEMMA WorkShape ==
    ASSUME Shape, NEW k \in Clients, Work(k),
           job[k].op = "restore" => job[k].left \subseteq DOMAIN job[k].zip.files
    PROVE  Shape' /\ OthersKept(k)
<1> USE DEF memory, Works, Continues, Ends
<1>j. /\ job[k] \in Jobs /\ databaseName \in Databases /\ store \in [Databases -> Stores]
      /\ \A c \in DataColls : Docs \cup {Empty} = Content(c) /\ c \in Colls
  BY CollKinds DEF Shape, Content
<1>1. CASE MutateWrite(k)
  <2>1. job[k].coll \in DataColls /\ job[k].docs \in Docs \cup {Empty}
    BY <1>1, <1>j, JobByOp DEF MutateWrite, WriteJobs
  <2>2. store' \in [Databases -> Stores]
    BY <1>1, <1>j, <2>1, StoredShape DEF MutateWrite
  <2>3. QED
    BY <1>1, <2>2, JobKept, IdleOp DEF MutateWrite, Shape
<1>2. CASE SaveConfigInput(k)
  <2> DEFINE x == job[k].docs
             s == [store[databaseName] EXCEPT ![Input] = x, ![Config] = x]
  <2>1. x \in Configs
    BY <1>2, <1>j, JobByOp DEF SaveConfigInput, ConfigJobs
  <2>2. store' = [store EXCEPT ![databaseName] = s]
    BY <1>2, <1>j DEF SaveConfigInput, Stores
  <2>3. s \in Stores
    BY <1>j, <2>1, CollKinds DEF Stores, Content
  <2>4. store' \in [Databases -> Stores]
    BY <1>j, <2>2, <2>3
  <2>5. QED
    BY <1>2, <2>1, <2>4, JobKept, IdleOp DEF SaveConfigInput, Shape
<1>3. CASE GenerateWrite(k)
  <2>1. job[k].coll \in DataColls /\ job[k].docs \in Docs \cup {Empty}
    BY <1>3, <1>j, JobByOp DEF GenerateWrite, GenerateJobs
  <2>2. store' \in [Databases -> Stores]
    BY <1>3, <1>j, <2>1, StoredShape DEF GenerateWrite
  <2>3. QED
    BY <1>3, <2>2, JobKept, IdleOp DEF GenerateWrite, Shape
<1>4. CASE DumpCollection(k)
  <2>1. job[k] \in DumpJobs
    BY <1>4, <1>j, JobByOp DEF DumpCollection
  <2>2. PICK c \in job[k].left :
           job' = [job EXCEPT ![k] = [job[k] EXCEPT !.left = @ \ {c},
                                                    !.files = Extended(@, c, store[databaseName][c])]]
    BY <1>4 DEF DumpCollection
  <2>3. c \in Colls /\ store[databaseName][c] \in Content(c)
    BY <1>j, <2>1 DEF DumpJobs, Stores
  <2>4. Extended(job[k].files, c, store[databaseName][c]) \in Files
    BY <2>1, <2>3, ExtendedFiles DEF DumpJobs
  <2>5. [job[k] EXCEPT !.left = @ \ {c}, !.files = Extended(@, c, store[databaseName][c])] \in DumpJobs
    BY <2>1, <2>4 DEF DumpJobs
  <2>6. QED
    BY <1>4, <2>2, <2>5, JobKept, JobKinds DEF DumpCollection, Shape
<1>5. CASE DumpDone(k)
  <2>1. job[k] \in DumpJobs
    BY <1>5, <1>j, JobByOp DEF DumpDone
  <2>2. PICK b \in BOOLEAN : b = (k \notin crossed \cup mixed)
    OBVIOUS
  <2>3. zip' \in Zips
    BY <1>5, <2>1, <2>2 DEF DumpDone, DumpJobs, Zips
  <2>4. QED
    BY <1>5, <2>3, JobKept, IdleOp DEF DumpDone, Shape
<1>6. CASE RestoreCheck(k)
  <2>1. [job[k] EXCEPT !.checked = TRUE] \in Jobs
    BY <1>6, <1>j, JobByOp, JobKinds DEF RestoreCheck, RestoreJobs
  <2>2. job' \in [Clients -> Jobs] /\ OthersKept(k)
    BY <1>6, <2>1, JobKept, IdleOp DEF RestoreCheck
  <2>3. QED
    BY <1>6, <2>2 DEF RestoreCheck, Shape
<1>7. CASE RestoreCollection(k)
  <2>1. job[k] \in RestoreJobs
    BY <1>7, <1>j, JobByOp DEF RestoreCollection
  <2>2. PICK c \in job[k].left :
         \/ /\ Stored(databaseName, c, job[k].zip.files[c])
            /\ job' = [job EXCEPT ![k] = [job[k] EXCEPT !.left = @ \ {c}]]
            /\ UNCHANGED <<ops, overlaps, faults>>
         \/ /\ Stored(databaseName, c, Empty)
            /\ job' = [job EXCEPT ![k] = Idle]
            /\ Fails /\ UNCHANGED <<ops, overlaps>>
    BY <1>7 DEF RestoreCollection
  <2>3. c \in Colls /\ job[k].zip.files[c] \in Content(c) /\ Empty \in Content(c)
    BY <1>7, <2>1 DEF RestoreCollection, RestoreJobs, Zips, Files, Content
  <2>4. store' \in [Databases -> Stores]
    BY <1>j, <2>2, <2>3, StoredShape
  <2>5. [job[k] EXCEPT !.left = @ \ {c}] \in Jobs
    BY <2>1, JobKinds DEF RestoreJobs
  <2>6. job' \in [Clients -> Jobs] /\ OthersKept(k)
    BY <2>2, <2>5, JobKept, IdleOp
  <2>7. ops' \in Nat /\ overlaps' \in Nat /\ faults' \in Nat
    BY <2>2 DEF Fails, Shape
  <2>8. QED
    BY <1>7, <2>4, <2>6, <2>7 DEF RestoreCollection, Shape
<1>8. CASE RestoreDone(k)
  BY <1>8, JobKept, IdleOp DEF RestoreDone, Shape
<1>9. CASE RestoreDataset(k)
  <2>1. job[k].coll \in DataColls /\ job[k].docs \in Docs \cup {Empty}
    BY <1>9, <1>j, JobByOp DEF RestoreDataset, WriteJobs
  <2>2. store' \in [Databases -> Stores] /\ faults' \in Nat
    BY <1>9, <1>j, <2>1, StoredShape DEF RestoreDataset, Fails, Shape
  <2>3. QED
    BY <1>9, <2>2, JobKept, IdleOp DEF RestoreDataset, Shape
<1>10. QED
  BY <1>1, <1>2, <1>3, <1>4, <1>5, <1>6, <1>7, <1>8, <1>9 DEF Work

\* A restart resumes a database that has a configuration, whatever of it can be read.
LEMMA Restarted ==
    ASSUME Shape, Restart
    PROVE  \E d \in Databases :
             /\ databaseName' = d /\ semester' \in Databases
             /\ Load(d)
             /\ \/ active' = [semester |-> semester', database |-> databaseName']
                \/ active' = active /\ remembered' = FALSE
             /\ remembered' \in BOOLEAN
<1>1. PICK last \in BOOLEAN :
         \E d \in StartDatabases(last) :
           databaseName' = d /\ semester' \in StartSemesters(d, last) /\ Load(d)
  BY DEF Restart
<1>2. PICK d \in StartDatabases(last) :
         databaseName' = d /\ semester' \in StartSemesters(d, last) /\ Load(d)
  BY <1>1
<1>3. d \in Databases
  BY DEF StartDatabases, Compatible, Shape
<1>4. semester' \in Databases
  BY <1>2, <1>3 DEF StartSemesters, Shape
<1>5. QED
  BY <1>2, <1>3, <1>4 DEF Restart

LEMMA RestartShape == ASSUME Shape, Restart PROVE Shape'
<1>1. PICK d \in Databases : /\ databaseName' = d /\ semester' \in Databases
                             /\ Load(d)
                             /\ \/ active' = [semester |-> semester', database |-> databaseName']
                                \/ active' = active
  BY Restarted
<1>2. store[d][Input] \in Configs \cup {Empty} /\ store[d][Input] \in Content(Config)
      /\ Empty \in Content(Config)
  BY CollKinds DEF Shape, Stores, Content
<1>3. semesterConfig' \in Configs \cup {Empty} /\ semesterConfig' \in Content(Config)
  BY <1>1, <1>2 DEF Load
<1>4. store' \in [Databases -> Stores]
  BY <1>1, <1>3, CollKinds, StoredShape DEF Load, Shape, Stored
<1>5. readOnly' \in BOOLEAN
  BY <1>1 DEF Load, Shape
<1>6. job' \in [Clients -> Jobs]
  BY IdleOp DEF Restart
<1>7. active' \in [semester : Databases, database : Databases]
  BY <1>1 DEF Shape
<1>8. QED
  BY <1>1, <1>3, <1>4, <1>5, <1>6, <1>7 DEF Restart, Fails, Shape

-----------------------------------------------------------------------------
(* What a step does that is no part of a switch or protection. *)

OrdinaryRequest(k) ==
    \/ BeginsWrite(k) \/ BeginsGuarded(k) \/ SetSemesterConfigInput(k)
    \/ CreateWorkspace(k) \/ CreateSemester(k) \/ SemesterDumpZip(k) \/ UploadSemesterDump(k)

\* It moves nothing and touches no flag.
Unmoved(k) ==
    /\ ~Moving(k) /\ ~Moving(k)'
    /\ UNCHANGED <<databaseName, semester, readOnly, active>>
    /\ \A d \in Databases : meta'[d].readOnly = meta[d].readOnly
    /\ semesterConfig' \in {semesterConfig, store'[databaseName][Input]}
    /\ faults' \in {faults, faults + 1}

\* It begins at home and admitted, goes on, or ends.
Lifecycle(k) ==
    \/ job'[k] = Idle
    \/ job'[k].op = job[k].op /\ job'[k].home = job[k].home /\ job[k].op \in {"dump", "restore"}
    \/ /\ job[k] = Idle /\ job'[k].home = databaseName
       /\ job'[k].op = "generate" => (job'[k].late <=> ~Quiet)
       /\ job'[k].op \in {"mutate", "dataset", "generate", "restore"} /\ job'[k].asked => ~readOnly

\* It takes the guard only for a generation, and gives it back after one.
GuardUse(k) ==
    \/ UNCHANGED gvars /\ job[k].op # "generate" /\ job'[k].op # "generate"
    \/ BeginExclusiveOp /\ job[k].op = "none"
    \/ EndExclusiveOp /\ job[k].op = "generate" /\ job'[k] = Idle

Ordinary(k) == Unmoved(k) /\ Lifecycle(k) /\ GuardUse(k)

\* A request that starts as the record j.
LEMMA BegunJob ==
    ASSUME Shape, NEW k \in Clients, NEW j, Begins(k, j)
    PROVE  job[k] = Idle /\ job'[k] = j /\ job[k].op = "none"
  BY IdleOp DEF Begins, Counted, Shape

\* Requests that do not switch or protect.
LEMMA OrdinaryRequestStep ==
    ASSUME Shape, NEW k \in Clients, OrdinaryRequest(k) PROVE Ordinary(k)
<1> USE DEF memory, gvars, Ordinary, Unmoved, Lifecycle, GuardUse, Moving, Moves
<1>1. CASE BeginsWrite(k)
  <2>1. PICK j \in WriteJobs : Begins(k, j) /\ j.home = databaseName /\ (j.asked => ~readOnly)
    BY <1>1, WriteBegun
  <2>2. j.op \in {"mutate", "dataset"}
    BY DEF WriteJobs
  <2>3. job[k] = Idle /\ job[k].op = "none" /\ job'[k] = j
    BY <2>1, BegunJob
  <2>4. QED
    BY <1>1, <2>1, <2>2, <2>3, WriteBegun
<1>2. CASE SetSemesterConfigInput(k)
  <2>1. PICK x \in Configs : Begins(k, [op |-> "config", home |-> databaseName, docs |-> x])
    BY <1>2 DEF SetSemesterConfigInput
  <2>2. /\ job[k] = Idle /\ job[k].op = "none" /\ job'[k].op = "config"
        /\ job'[k].home = databaseName
    BY <2>1, BegunJob
  <2>3. QED
    BY <1>2, <2>2 DEF SetSemesterConfigInput
<1>3. CASE BeginsGuarded(k)
  <2>1. PICK j \in GenerateJobs : Begins(k, j) /\ j.home = databaseName /\ (j.asked => ~readOnly)
    BY <1>3, GuardedBegun
  <2>2. j.op = "generate"
    BY DEF GenerateJobs
  <2>3. job[k] = Idle /\ job[k].op = "none" /\ job'[k] = j
    BY <2>1, BegunJob
  <2>4. job'[k].late <=> ~Quiet
    <3>1. PICK c \in DataColls, x \in Docs, b \in BOOLEAN : Begins(k, GenerateJob(c, x, b))
      BY <1>3 DEF BeginsGuarded, Generate, RunScheduledSync
    <3>2. job'[k] = GenerateJob(c, x, b)
      BY <3>1, BegunJob
    <3>3. PICK l \in BOOLEAN : l = ~Quiet
      OBVIOUS
    <3>4. job'[k].late = l
      BY <3>2, <3>3 DEF GenerateJob
    <3>5. QED
      BY <3>3, <3>4
  <2>5. BeginExclusiveOp
    BY <1>3 DEF BeginsGuarded, Generate, RunScheduledSync
  <2>6. QED
    BY <1>3, <2>1, <2>2, <2>3, <2>4, <2>5, GuardedBegun
<1>4. CASE CreateWorkspace(k) \/ CreateSemester(k)
  <2>1. job[k] = Idle /\ job' = job /\ job[k].op = "none"
    BY <1>4, IdleOp DEF CreateWorkspace, CreateSemester, Counted
  <2>2. \A d \in Databases : meta'[d].readOnly = meta[d].readOnly
    BY <1>4 DEF CreateWorkspace, CreateSemester, Shape
  <2>3. QED
    BY <1>4, <2>1, <2>2 DEF CreateWorkspace, CreateSemester
<1>5. CASE SemesterDumpZip(k)
  <2>1. /\ job[k] = Idle /\ job[k].op = "none" /\ job'[k].op = "dump"
        /\ job'[k].home = databaseName
    BY <1>5, BegunJob DEF SemesterDumpZip
  <2>2. QED
    BY <1>5, <2>1 DEF SemesterDumpZip
<1>6. CASE UploadSemesterDump(k)
  <2>1. /\ job[k] = Idle /\ job[k].op = "none" /\ job'[k].op = "restore"
        /\ job'[k].home = databaseName
    BY <1>6, BegunJob DEF UploadSemesterDump
  <2>2. QED
    BY <1>6, <2>1 DEF UploadSemesterDump, Admits
<1>7. QED
  BY <1>1, <1>2, <1>3, <1>4, <1>5, <1>6 DEF OrdinaryRequest

\* A request that ends.
LEMMA EndedJob ==
    ASSUME Shape, NEW k \in Clients, Ends(k) PROVE job'[k] = Idle /\ job'[k].op = "none"
  BY IdleOp DEF Ends, Continues, Shape

\* The steps of writers, dumps and restores.
LEMMA WorkStep == ASSUME Shape, NEW k \in Clients, Work(k) PROVE Ordinary(k)
<1> USE DEF memory, gvars, Ordinary, Unmoved, Lifecycle, GuardUse, Moving, Moves, Works, Fails
<1>1. CASE MutateWrite(k)
  BY <1>1, EndedJob DEF MutateWrite
<1>2. CASE SaveConfigInput(k)
  <2>1. store'[databaseName][Input] = job[k].docs
    BY <1>2, CollKinds DEF SaveConfigInput, Shape, Stores
  <2>2. QED
    BY <1>2, <2>1, EndedJob DEF SaveConfigInput
<1>3. CASE GenerateWrite(k)
  BY <1>3, EndedJob DEF GenerateWrite
<1>4. CASE DumpCollection(k)
  <2>1. job[k] \in DumpJobs
    BY <1>4, JobByOp DEF DumpCollection, Shape
  <2>2. job'[k].op = "dump" /\ job'[k].home = job[k].home
    BY <1>4, <2>1 DEF DumpCollection, Continues, DumpJobs, Shape
  <2>3. QED
    BY <1>4, <2>2 DEF DumpCollection
<1>5. CASE DumpDone(k)
  BY <1>5, EndedJob DEF DumpDone
<1>6. CASE RestoreCheck(k)
  <2>1. job[k] \in RestoreJobs
    BY <1>6, JobByOp DEF RestoreCheck, Shape
  <2>2. \/ job'[k].op = "restore" /\ job'[k].home = job[k].home
        \/ job'[k] = Idle /\ job'[k].op = "none"
    BY <1>6, <2>1, EndedJob DEF RestoreCheck, Continues, RestoreJobs, Shape
  <2>3. QED
    BY <1>6, <2>2 DEF RestoreCheck
<1>7. CASE RestoreCollection(k)
  <2>1. job[k] \in RestoreJobs
    BY <1>7, JobByOp DEF RestoreCollection, Shape
  <2>2. \/ job'[k].op = "restore" /\ job'[k].home = job[k].home
        \/ job'[k] = Idle /\ job'[k].op = "none"
    BY <1>7, <2>1, EndedJob DEF RestoreCollection, Continues, RestoreJobs, Shape
  <2>3. QED
    BY <1>7, <2>2 DEF RestoreCollection
<1>8. CASE RestoreDone(k)
  BY <1>8, EndedJob DEF RestoreDone
<1>9. CASE RestoreDataset(k)
  BY <1>9, EndedJob DEF RestoreDataset
<1>10. QED
  BY <1>1, <1>2, <1>3, <1>4, <1>5, <1>6, <1>7, <1>8, <1>9 DEF Work

-----------------------------------------------------------------------------
(* The history of a step. *)

\* A bystander that is still undisturbed was so before, saw no mover and, if not
\* mixed, no write.
LEMMA Bystander ==
    ASSUME NEW k \in Clients, NEW i \in Clients \ {k}, Recorded(k), OthersKept(k),
           job[i] # Idle, i \notin crossed'
    PROVE  /\ i \notin crossed /\ ~Moving(k) /\ ~Moving(k)'
           /\ i \notin mixed' => i \notin mixed /\ store' = store /\ meta' = meta
  BY DEF Recorded, OthersKept

\* The same for the client that takes the step.
LEMMA Oneself ==
    ASSUME NEW k \in Clients, Recorded(k), job'[k] # Idle, k \notin crossed'
    PROVE  /\ k \notin crossed /\ \A i \in Clients \ {k} : ~Moving(i) /\ ~Moving(i)'
           /\ k \notin mixed' => k \notin mixed
  BY DEF Recorded

\* The history keeps its type, and an uncrossed request stays free of movers.
LEMMA HistoryStep ==
    ASSUME HistoryShape, NEW k \in Clients, Recorded(k)
    PROVE  (HistoryShape /\ UncrossedAlone)'
<1>1. crossed' \cup mixed' \subseteq Clients
  BY DEF Recorded
<1>2. sure' \in BOOLEAN
  BY Zenon DEF Recorded, HistoryShape
<1>h. remembered' \in BOOLEAN
  BY Zenon DEF Recorded, HistoryShape
<1>3. UncrossedAlone'
  BY DEF Recorded, UncrossedAlone
<1>4. QED
  BY <1>1, <1>2, <1>h, <1>3 DEF HistoryShape

-----------------------------------------------------------------------------
(* The steps of movers. *)

\* Where a mover's request stands before and after the step.
Mover(k) == SwitchSemester(k) \/ SetSemesterReadOnly(k) \/ Move(k)

\* A switch goes on to its next place with the same database and override.
Progress(k, from, to) ==
    /\ job[k] \in SwitchJobs /\ job[k].op = from /\ job'[k].op = to
    /\ job'[k].db = job[k].db /\ job'[k].override = job[k].override

\* The places a switch goes through; only a flag that could not be read marks it failed.
LEMMA SwitchProgress ==
    ASSUME Shape, NEW k \in Clients
    PROVE  /\ SwitchRepoint(k) => Progress(k, "switchTo", "loadConfig")
           /\ SwitchLoadConfig(k) => Progress(k, "loadConfig", "saveConfig")
           /\ SwitchSaveConfig(k) => Progress(k, "saveConfig", "clearFlag")
           /\ SwitchClearFlag(k) => Progress(k, "clearFlag", "loadFlag")
           /\ SwitchLoadFlag(k) =>
                /\ Progress(k, "loadFlag", "finish")
                /\ \/ readOnly' = meta[databaseName].readOnly
                   \/ "failed" \in DOMAIN job'[k]
<1>1. job[k].op \in SwitchOps \ {"finish"} => job[k] \in SwitchJobs
  BY JobByOp DEF Shape
<1>2. ASSUME NEW o \in SwitchOps, job[k] \in SwitchJobs, Continues(k, [job[k] EXCEPT !.op = o])
      PROVE  job'[k].op = o /\ job'[k].db = job[k].db /\ job'[k].override = job[k].override
  <2> DEFINE j == [job[k] EXCEPT !.op = o]
  <2>1. j.op = o /\ j.db = job[k].db /\ j.override = job[k].override
    BY <1>2, SwitchedOn
  <2>2. job'[k] = j
    BY <1>2 DEF Continues, Shape
  <2> HIDE DEF j
  <2>3. QED
    BY <2>1, <2>2
<1>3. SwitchRepoint(k) => Progress(k, "switchTo", "loadConfig")
  BY <1>1, <1>2 DEF SwitchRepoint, Progress, SwitchOps
<1>4. SwitchLoadConfig(k) => Progress(k, "loadConfig", "saveConfig")
  BY <1>1, <1>2 DEF SwitchLoadConfig, Progress, SwitchOps
<1>5. SwitchSaveConfig(k) => Progress(k, "saveConfig", "clearFlag")
  BY <1>1, <1>2 DEF SwitchSaveConfig, Progress, SwitchOps
<1>6. SwitchClearFlag(k) => Progress(k, "clearFlag", "loadFlag")
  BY <1>1, <1>2 DEF SwitchClearFlag, Progress, SwitchOps
<1>7. ASSUME SwitchLoadFlag(k)
      PROVE  /\ Progress(k, "loadFlag", "finish")
             /\ readOnly' = meta[databaseName].readOnly \/ "failed" \in DOMAIN job'[k]
  <2>1. job[k] \in SwitchJobs /\ job[k].op = "loadFlag"
    BY <1>1, <1>7 DEF SwitchLoadFlag, SwitchOps
  <2>2. CASE readOnly' = LoadedFlag(databaseName) /\ Continues(k, [job[k] EXCEPT !.op = "finish"])
    BY <1>2, <2>1, <2>2 DEF Progress, SwitchOps, LoadedFlag
  <2>3. CASE Continues(k, [op |-> "finish", db |-> job[k].db, override |-> job[k].override, failed |-> TRUE])
    <3> DEFINE f == [op |-> "finish", db |-> job[k].db, override |-> job[k].override, failed |-> TRUE]
    <3>1. /\ f.op = "finish" /\ f.db = job[k].db /\ f.override = job[k].override
          /\ "failed" \in DOMAIN f
      OBVIOUS
    <3>2. job'[k] = f
      BY <2>3 DEF Continues, Shape
    <3> HIDE DEF f
    <3>3. QED
      BY <2>1, <3>1, <3>2 DEF Progress
  <2>4. QED
    BY <1>7, <2>2, <2>3 DEF SwitchLoadFlag
<1>8. QED
  BY <1>3, <1>4, <1>5, <1>6, <1>7

\* The request that begins a switch or a protection.
LEMMA MoverBegins ==
    ASSUME Shape, NEW k \in Clients, SwitchSemester(k) \/ SetSemesterReadOnly(k)
    PROVE  /\ job[k] = Idle /\ job[k].op = "none" /\ WritesAllowed
           /\ SwitchSemester(k) => job'[k].op = "switchTo"
           /\ SetSemesterReadOnly(k) =>
                job'[k].op = "protect" /\ meta'[databaseName].readOnly = job'[k].flag
<1>1. CASE SwitchSemester(k)
  <2>1. PICK d \in Databases, override \in Databases \cup {None} :
           Begins(k, [op |-> "switchTo", db |-> d, override |-> override])
    BY <1>1 DEF SwitchSemester
  <2>2. job[k] = Idle /\ job[k].op = "none" /\ job'[k].op = "switchTo"
    BY <2>1, BegunJob
  <2>3. ~SetSemesterReadOnly(k)
    <3>1. SUFFICES ASSUME NEW b \in BOOLEAN, Begins(k, [op |-> "protect", flag |-> b]) PROVE FALSE
      BY DEF SetSemesterReadOnly
    <3>2. job'[k].op = "protect"
      BY <3>1, BegunJob
    <3>3. QED
      BY <2>2, <3>2
  <2>4. QED
    BY <1>1, <2>2, <2>3 DEF SwitchSemester, MaySwitch
<1>2. CASE SetSemesterReadOnly(k)
  <2>1. PICK b \in BOOLEAN : /\ Begins(k, [op |-> "protect", flag |-> b])
                             /\ meta' = [meta EXCEPT ![databaseName].readOnly = b]
    BY <1>2 DEF SetSemesterReadOnly
  <2>2. job[k] = Idle /\ job[k].op = "none" /\ job'[k].op = "protect" /\ job'[k].flag = b
    BY <2>1, BegunJob
  <2>3. meta'[databaseName].readOnly = b
    BY <2>1 DEF Shape
  <2>4. ~SwitchSemester(k)
    <3>1. SUFFICES ASSUME NEW d \in Databases, NEW override \in Databases \cup {None},
                          Begins(k, [op |-> "switchTo", db |-> d, override |-> override])
                   PROVE  FALSE
      BY DEF SwitchSemester
    <3>2. job'[k].op = "switchTo"
      BY <3>1, BegunJob
    <3>3. QED
      BY <2>2, <3>2
  <2>5. QED
    BY <1>2, <2>2, <2>3, <2>4 DEF SetSemesterReadOnly
<1>3. QED
  BY <1>1, <1>2

\* Every step of a mover is one while the request is a mover's.
LEMMA MoverStep ==
    ASSUME Shape, NEW k \in Clients, Mover(k)
    PROVE  /\ Moving(k) \/ (job[k] = Idle /\ Moving(k)' /\ WritesAllowed)
           /\ Moving(k)' \/ job'[k] = Idle
           /\ UNCHANGED gvars /\ job[k].op # "generate" /\ job'[k].op # "generate"
           /\ faults' \in {faults, faults + 1}
<1> USE DEF Moving, Moves, Works, Fails, gvars
<1>1. CASE SwitchSemester(k)
  BY <1>1, MoverBegins DEF SwitchSemester
<1>2. CASE SetSemesterReadOnly(k)
  BY <1>2, MoverBegins DEF SetSemesterReadOnly
<1>3. CASE SwitchRepoint(k)
  BY <1>3, SwitchProgress DEF SwitchRepoint, SwitchTo, Progress
<1>4. CASE SwitchLoadConfig(k)
  BY <1>4, SwitchProgress DEF SwitchLoadConfig, Progress
<1>5. CASE SwitchSaveConfig(k)
  BY <1>5, SwitchProgress DEF SwitchSaveConfig, Progress
<1>6. CASE SwitchClearFlag(k)
  BY <1>6, SwitchProgress DEF SwitchClearFlag, Progress
<1>7. CASE SwitchLoadFlag(k)
  BY <1>7, SwitchProgress DEF SwitchLoadFlag, Progress
<1>8. CASE SwitchFinish(k)
  BY <1>8, EndedJob DEF SwitchFinish
<1>9. CASE ProtectMemory(k)
  BY <1>9, EndedJob DEF ProtectMemory
<1>10. QED
  BY <1>1, <1>2, <1>3, <1>4, <1>5, <1>6, <1>7, <1>8, <1>9 DEF Mover, Move

\* A step of a mover crosses every other request under way.
LEMMA MoverCrosses ==
    ASSUME Shape, NEW k \in Clients, Mover(k), Recorded(k), OthersKept(k),
           NEW i \in Clients \ {k}, job[i] # Idle
    PROVE  i \in crossed'
  BY MoverStep, Bystander

\* Every step is a mover's, an ordinary one, a restart or no step at all.
LEMMA StepKinds ==
    ASSUME IInv, [Next]_vars
    PROVE  \/ \E k \in Clients : Mover(k) /\ Recorded(k) /\ OthersKept(k)
           \/ \E k \in Clients : /\ OrdinaryRequest(k) \/ Work(k)
                                 /\ Ordinary(k) /\ Recorded(k) /\ OthersKept(k)
           \/ Restart
           \/ UNCHANGED vars
<1>1. Shape /\ \A k \in Clients : job[k].op = "restore" => job[k].left \subseteq DOMAIN job[k].zip.files
  BY DEF IInv, DumpsFaithful
<1>2. ASSUME NEW k \in Clients, Request(k) \/ Move(k) \/ Work(k) PROVE OthersKept(k)
  BY <1>1, <1>2, RequestShape, MoveShape, WorkShape
<1>3. ASSUME NEW k \in Clients, OrdinaryRequest(k) \/ Work(k) PROVE Ordinary(k)
  BY <1>1, <1>3, OrdinaryRequestStep, WorkStep
<1>4. QED
  BY <1>2, <1>3 DEF Next, Request, OrdinaryRequest, BeginsWrite, BeginsGuarded, Mover

\* Shapes survive every step.
LEMMA ShapeStep == ASSUME IInv, [Next]_vars PROVE Shape'
<1>1. Shape /\ \A k \in Clients : job[k].op = "restore" => job[k].left \subseteq DOMAIN job[k].zip.files
  BY DEF IInv, DumpsFaithful
<1>2. CASE UNCHANGED vars
  BY <1>1, <1>2 DEF Shape, vars, memory
<1>3. QED
  BY <1>1, <1>2, RequestShape, MoveShape, WorkShape, RestartShape DEF Next

-----------------------------------------------------------------------------
(* The parts of the invariant, one by one. *)

\* Only a generation holds the guard, and only one.
LEMMA GenerateStep == ASSUME IInv, [Next]_vars PROVE GenerateAlone'
<1>t. Shape /\ GenerateAlone
  BY DEF IInv
<1>1. ASSUME NEW k \in Clients, Mover(k), OthersKept(k) PROVE GenerateAlone'
  BY <1>t, <1>1, MoverStep DEF GenerateAlone, OthersKept, gvars
<1>2. ASSUME NEW k \in Clients, Ordinary(k), OthersKept(k) PROVE GenerateAlone'
  <2>1. CASE UNCHANGED gvars /\ job[k].op # "generate" /\ job'[k].op # "generate"
    BY <1>t, <1>2, <2>1 DEF GenerateAlone, OthersKept, gvars
  <2>2. CASE BeginExclusiveOp /\ job[k].op = "none"
    BY <1>t, <1>2, <2>2 DEF GenerateAlone, OthersKept, BeginExclusiveOp, MayBeginExclusiveOp
  <2>3. CASE EndExclusiveOp /\ job[k].op = "generate" /\ job'[k] = Idle
    BY <1>t, <1>2, <2>3, IdleOp DEF GenerateAlone, OthersKept, EndExclusiveOp
  <2>4. QED
    BY <1>2, <2>1, <2>2, <2>3 DEF Ordinary, GuardUse
<1>3. CASE Restart
  BY <1>3, IdleOp DEF Restart, GuardReset, GenerateAlone
<1>4. CASE UNCHANGED vars
  BY <1>t, <1>4 DEF vars, gvars, GenerateAlone
<1>5. QED
  BY <1>1, <1>2, <1>3, <1>4, StepKinds

\* History: who has been crossed.
LEMMA UncrossedStep == ASSUME IInv, [Next]_vars PROVE (HistoryShape /\ UncrossedAlone)'
<1>t. HistoryShape /\ UncrossedAlone
  BY DEF IInv
<1>s. Shape
  BY DEF IInv
<1>1. CASE \E k \in Clients : Recorded(k)
  BY <1>t, <1>1, HistoryStep
<1>2. CASE Restart
  <2>1. sure' \in BOOLEAN /\ remembered' \in BOOLEAN
    BY <1>2, <1>s, Restarted DEF Load
  <2>2. QED
    BY <1>2, <2>1, IdleOp DEF Restart, HistoryShape, UncrossedAlone
<1>3. CASE UNCHANGED vars
  BY <1>t, <1>3 DEF vars, history, HistoryShape, UncrossedAlone, Moving
<1>4. QED
  BY <1>1, <1>2, <1>3 DEF Next

\* Only the step that remembers the current database ends a switch that has
\* repointed the server.
LEMMA ActiveStep == ASSUME IInv, [Next]_vars PROVE ActiveUnlessRepointed'
<1>t. Shape /\ ActiveUnlessRepointed
  BY DEF IInv
<1> USE DEF ActiveUnlessRepointed
<1>r. ASSUME NEW k \in Clients, Recorded(k), job[k].op # "finish" PROVE remembered' = remembered
  BY <1>r, Zenon DEF Recorded
<1>1. ASSUME NEW k \in Clients, Ordinary(k), OthersKept(k), Recorded(k) PROVE ActiveUnlessRepointed'
  <2>1. remembered' = remembered
    BY <1>1, <1>r DEF Ordinary, Unmoved, Moving, Moves
  <2>2. QED
    BY <1>t, <1>1, <2>1 DEF Ordinary, Unmoved, Moving, Moves, OthersKept, Repointed, SwitchOps
<1>2. ASSUME NEW k \in Clients, SwitchSemester(k) \/ SetSemesterReadOnly(k) \/ ProtectMemory(k), OthersKept(k),
             Recorded(k)
      PROVE  ActiveUnlessRepointed'
  <2>1. job[k].op \in {"none", "protect"}
    BY <1>t, <1>2, MoverBegins DEF ProtectMemory
  <2>2. UNCHANGED <<databaseName, semester, active>>
    BY <1>2 DEF SwitchSemester, SetSemesterReadOnly, ProtectMemory, memory
  <2>3. remembered' = remembered
    BY <1>2, <1>r, <2>1
  <2>4. QED
    BY <1>t, <1>2, <2>1, <2>2, <2>3 DEF OthersKept, Repointed, SwitchOps
<1>3. ASSUME NEW k \in Clients,
             SwitchRepoint(k) \/ SwitchLoadConfig(k) \/ SwitchSaveConfig(k) \/ SwitchClearFlag(k) \/ SwitchLoadFlag(k)
      PROVE  Repointed(k)'
  BY <1>t, <1>3, SwitchProgress DEF Progress, Repointed, SwitchOps
<1>4. ASSUME NEW k \in Clients, SwitchFinish(k), Recorded(k) PROVE ActiveUnlessRepointed'
  <2>1. job[k].op = "finish" /\ UNCHANGED <<databaseName, semester>>
    BY <1>4 DEF SwitchFinish, memory
  <2>2. ASSUME remembered' PROVE RememberActiveSemester(k)
    <3>1. faults' = faults
      BY <1>4, <2>1, <2>2, Zenon DEF Recorded
    <3>2. ~Fails
      BY <1>t, <3>1 DEF Fails, Shape
    <3>3. QED
      BY <1>4, <3>2 DEF SwitchFinish
  <2>3. QED
    BY <2>1, <2>2 DEF RememberActiveSemester
<1>5. CASE Restart
  <2>1. remembered' => active' = [semester |-> semester', database |-> databaseName']
    BY <1>t, <1>5, Restarted
  <2>2. QED
    BY <2>1
<1>6. CASE UNCHANGED vars
  BY <1>t, <1>6 DEF vars, memory, history, Repointed
<1>7. QED
  BY <1>1, <1>2, <1>3, <1>4, <1>5, <1>6, StepKinds DEF Mover, Move

\* An ordinary step leaves the movers, the flags and what is sure of them alone.
LEMMA OrdinaryFlag ==
    ASSUME Shape, HistoryShape, NEW k \in Clients, Ordinary(k), Recorded(k), OthersKept(k)
    PROVE  /\ \A i \in Clients : Moving(i)' <=> Moving(i)
           /\ Quiet' <=> Quiet
           /\ sure' = sure /\ readOnly' = readOnly /\ databaseName' = databaseName
           /\ meta'[databaseName].readOnly = meta[databaseName].readOnly
<1>1. \A i \in Clients : Moving(i)' <=> Moving(i)
  BY DEF Ordinary, Unmoved, OthersKept, Moving
<1>2. Quiet' <=> Quiet
  BY <1>1 DEF Quiet
<1>3. sure' = sure
  BY Zenon DEF Ordinary, Unmoved, Recorded
<1>4. QED
  BY <1>1, <1>2, <1>3 DEF Ordinary, Unmoved, Shape

\* The flag in memory and what the requests know of it.
LEMMA FlagStep == ASSUME IInv, [Next]_vars PROVE (FlagAgrees /\ FlagKnown)'
<1>t. Shape /\ HistoryShape /\ FlagAgrees /\ FlagKnown
  BY DEF IInv
<1>1. ASSUME NEW k \in Clients, Ordinary(k), Recorded(k), OthersKept(k)
      PROVE  (FlagAgrees /\ FlagKnown)'
  <2>1. FlagAgrees'
    BY <1>t, <1>1, OrdinaryFlag DEF FlagAgrees
  <2>2. ASSUME NEW i \in Clients, i \notin crossed', i # k
        PROVE  /\ (job[i].op = "protect" => meta[databaseName].readOnly = job[i].flag)'
               /\ (job[i].op = "finish" /\ "failed" \notin DOMAIN job[i] =>
                     readOnly = meta[databaseName].readOnly)'
               /\ (job[i].op \in {"mutate", "dataset", "generate", "restore"} /\ job[i].asked /\ sure =>
                     ~meta[databaseName].readOnly)'
    <3>1. job'[i] = job[i]
      BY <1>1, <2>2 DEF OthersKept
    <3>2. CASE job[i] = Idle
      BY <3>1, <3>2, IdleOp
    <3>3. CASE job[i] # Idle
      BY <1>t, <1>1, <2>2, <3>1, <3>3, Bystander, OrdinaryFlag DEF FlagKnown
    <3>4. QED
      BY <3>2, <3>3
  <2>3. ASSUME k \notin crossed'
        PROVE  /\ job'[k].op \notin Moves
               /\ job'[k].op \in {"mutate", "dataset", "generate", "restore"} /\ job'[k].asked /\ sure' =>
                     ~meta'[databaseName'].readOnly
    <3>1. job'[k].op \notin Moves
      BY <1>1 DEF Ordinary, Unmoved, Moving
    <3>2. CASE job'[k] = Idle
      BY <3>1, <3>2, IdleOp
    <3>3. CASE job'[k].op = job[k].op /\ job[k].op \in {"dump", "restore"}
      <4>1. k \notin crossed
        BY <1>1, <2>3, <3>3, IdleOp, Oneself
      <4>2. job[k].op = "restore" => job[k].asked = TRUE
        <5>1. job[k].op = "restore" => job[k] \in RestoreJobs
          BY <1>t, JobByOp DEF Shape
        <5>2. QED
          BY <5>1 DEF RestoreJobs
      <4>3. QED
        BY <1>t, <1>1, <3>1, <3>3, <4>1, <4>2, OrdinaryFlag DEF FlagKnown
    <3>4. CASE /\ job[k] = Idle /\ job'[k] # Idle
               /\ job'[k].op \in {"mutate", "dataset", "generate", "restore"} /\ job'[k].asked => ~readOnly
      <4>1. Quiet
        BY <1>1, <2>3, <3>4, Oneself DEF Ordinary, Unmoved, Quiet
      <4>2. QED
        BY <1>t, <1>1, <3>1, <3>4, <4>1, OrdinaryFlag DEF FlagAgrees
    <3>5. QED
      BY <1>1, <3>2, <3>3, <3>4 DEF Ordinary, Lifecycle
  <2>4. FlagKnown'
    BY <2>2, <2>3 DEF FlagKnown, Moves
  <2>5. QED
    BY <2>1, <2>4
<1>2. ASSUME NEW k \in Clients, Mover(k), Recorded(k), OthersKept(k)
      PROVE  (FlagAgrees /\ FlagKnown)'
  <2> USE DEF memory
  <2>1. ASSUME Quiet', sure' PROVE readOnly' = meta'[databaseName'].readOnly
    <3>1. Moving(k) /\ job'[k] = Idle
      BY <1>t, <1>2, <2>1, MoverStep DEF Quiet
    <3>2. k \notin crossed /\ "failed" \notin DOMAIN job[k]
      BY <1>2, <2>1, <3>1, Zenon DEF Recorded
    <3>3. CASE SwitchFinish(k)
      <4>1. meta'[databaseName].readOnly = meta[databaseName].readOnly
        BY <1>t, <3>3 DEF SwitchFinish, PersistSemester, Shape
      <4>2. QED
        BY <1>t, <3>2, <3>3, <4>1 DEF SwitchFinish, FlagKnown
    <3>4. CASE ProtectMemory(k)
      BY <1>t, <3>2, <3>4 DEF ProtectMemory, FlagKnown
    <3>5. job'[k].op = "none"
      BY <3>1, IdleOp
    <3>6. QED
      BY <1>t, <1>2, <3>1, <3>3, <3>4, <3>5, SwitchProgress, MoverBegins DEF Mover, Move, Progress
  <2>2. ASSUME NEW i \in Clients, i \notin crossed', i # k PROVE job'[i].op = "none"
    <3>1. job'[i] = job[i] /\ job[i] = Idle
      BY <1>t, <1>2, <2>2, MoverCrosses DEF OthersKept
    <3>2. QED
      BY <3>1, IdleOp
  <2>3. job'[k].op = "protect" => meta'[databaseName'].readOnly = job'[k].flag
    <3>1. CASE SetSemesterReadOnly(k)
      BY <1>t, <3>1, MoverBegins DEF SetSemesterReadOnly
    <3>2. CASE Move(k) \/ SwitchSemester(k)
      BY <1>t, <3>2, SwitchProgress, MoverBegins, EndedJob DEF Move, Progress, SwitchFinish, ProtectMemory
    <3>3. QED
      BY <1>2, <3>1, <3>2 DEF Mover
  <2>4. job'[k].op = "finish" /\ "failed" \notin DOMAIN job'[k] =>
           readOnly' = meta'[databaseName'].readOnly
    <3>1. CASE SwitchLoadFlag(k)
      BY <1>t, <3>1, SwitchProgress DEF SwitchLoadFlag
    <3>2. CASE ~SwitchLoadFlag(k)
      BY <1>t, <1>2, <3>2, SwitchProgress, MoverBegins, EndedJob
         DEF Mover, Move, Progress, SwitchFinish, ProtectMemory
    <3>3. QED
      BY <3>1, <3>2
  <2>5. job'[k].op \notin {"mutate", "dataset", "generate", "restore"}
    BY <1>t, <1>2, MoverStep, IdleOp DEF Moving, Moves
  <2>6. QED
    BY <2>1, <2>2, <2>3, <2>4, <2>5 DEF FlagAgrees, FlagKnown
<1>3. CASE Restart
  <2>1. \A i \in Clients : job'[i].op = "none"
    BY <1>3, IdleOp DEF Restart
  <2>2. sure' => readOnly' = meta'[databaseName'].readOnly
    BY <1>t, <1>3, Restarted DEF Restart, Load
  <2>3. QED
    BY <2>1, <2>2 DEF FlagAgrees, FlagKnown
<1>4. CASE UNCHANGED vars
  BY <1>t, <1>4 DEF vars, memory, history, FlagAgrees, FlagKnown, Quiet, Moving
<1>5. QED
  BY <1>1, <1>2, <1>3, <1>4, StepKinds

\* Where requests were admitted is where the server still is.
LEMMA HomeStep == ASSUME IInv, [Next]_vars PROVE AtHome'
<1>t. Shape /\ HistoryShape /\ GenerateAlone /\ AtHome
  BY DEF IInv
<1> DEFINE H(i) == job[i].op \in {"mutate", "config", "dataset", "dump", "restore"} /\ i \notin crossed =>
                      job[i].home = databaseName
           G(i) == job[i].op = "generate" /\ ~job[i].late => job[i].home = databaseName /\ Quiet
<1>d. AtHome <=> \A i \in Clients : H(i) /\ G(i)
  BY DEF AtHome
<1>p. AtHome' <=> \A i \in Clients : H(i)' /\ G(i)'
  BY DEF AtHome
<1>1. ASSUME NEW k \in Clients, Ordinary(k), Recorded(k), OthersKept(k), NEW i \in Clients
      PROVE  H(i)' /\ G(i)'
  <2>1. databaseName' = databaseName /\ (Quiet' <=> Quiet)
    BY <1>t, <1>1, OrdinaryFlag
  <2>2. CASE i # k /\ job[i] = Idle
    <3>1. job'[i].op = "none"
      BY <1>1, <2>2, IdleOp DEF OthersKept
    <3>2. QED
      BY <3>1
  <2>3. CASE i # k /\ job[i] # Idle
    <3>1. job'[i] = job[i]
      BY <1>1, <2>3 DEF OthersKept
    <3>2. i \notin crossed' => i \notin crossed
      BY <1>1, <2>3, Bystander
    <3>3. H(i) /\ G(i)
      BY <1>t, <1>d
    <3>4. QED
      BY <2>1, <3>1, <3>2, <3>3
  <2>4. CASE i = k /\ job'[k] = Idle
    BY <2>4, IdleOp
  <2>5. CASE i = k /\ job'[k].op = job[k].op /\ job'[k].home = job[k].home /\ job[k].op \in {"dump", "restore"}
    <3>1. k \notin crossed' => k \notin crossed
      BY <1>1, <2>5, IdleOp, Oneself
    <3>2. H(k)
      BY <1>t, <1>d
    <3>3. QED
      BY <2>1, <2>5, <3>1, <3>2
  <2>6. CASE /\ i = k /\ job'[k].home = databaseName
             /\ job'[k].op = "generate" => (job'[k].late <=> ~Quiet)
    <3>1. job'[k].op = "generate" /\ ~job'[k].late => Quiet
      BY <2>6
    <3>2. QED
      BY <2>1, <2>6, <3>1
  <2>7. QED
    BY <1>1, <2>2, <2>3, <2>4, <2>5, <2>6 DEF Ordinary, Lifecycle
<1>2. ASSUME NEW k \in Clients, Mover(k), Recorded(k), OthersKept(k), NEW i \in Clients
      PROVE  H(i)' /\ G(i)'
  <2>1. CASE i = k
    <3>1. job'[k].op \in Moves \cup {"none"}
      BY <1>t, <1>2, MoverStep, IdleOp DEF Moving
    <3>2. QED
      BY <2>1, <3>1 DEF Moves
  <2>2. CASE i # k /\ job[i] = Idle
    <3>1. job'[i].op = "none"
      BY <1>2, <2>2, IdleOp DEF OthersKept
    <3>2. QED
      BY <3>1
  <2>3. CASE i # k /\ job[i] # Idle
    <3>1. i \in crossed' /\ job'[i] = job[i]
      BY <1>t, <1>2, <2>3, MoverCrosses DEF OthersKept
    <3>2. ASSUME job[i].op = "generate", ~job[i].late PROVE FALSE
      <4>1. Quiet
        BY <1>t, <3>2 DEF AtHome
      <4>2. WritesAllowed
        BY <1>t, <1>2, <4>1, MoverStep DEF Quiet
      <4>3. QED
        BY <1>t, <3>2, <4>2 DEF GenerateAlone, WritesAllowed
    <3>3. QED
      BY <3>1, <3>2
  <2>4. QED
    BY <2>1, <2>2, <2>3
<1>3. CASE Restart
  <2>1. \A i \in Clients : job'[i].op = "none"
    BY <1>3, IdleOp DEF Restart
  <2>2. QED
    BY <2>1 DEF AtHome
<1>4. CASE UNCHANGED vars
  BY <1>t, <1>4 DEF vars, memory, history, AtHome, Quiet, Moving
<1>5. QED
  <2>1. ASSUME NEW k \in Clients, Ordinary(k) \/ Mover(k), Recorded(k), OthersKept(k) PROVE AtHome'
    <3>1. \A i \in Clients : H(i)' /\ G(i)'
      BY <1>1, <1>2, <2>1
    <3> HIDE DEF H, G
    <3>2. QED
      BY <1>p, <3>1
  <2>2. QED
    BY <1>3, <1>4, <2>1, StepKinds

\* A switch that nothing disturbs has loaded what the database says.
LEMMA LoadStep == ASSUME IInv, [Next]_vars PROVE SwitchLoading'
<1>t. Shape /\ SwitchLoading
  BY DEF IInv
<1> USE DEF Loaded, HasConfig, SemesterForDatabase
<1>1. ASSUME NEW k \in Clients, Ordinary(k), Recorded(k), OthersKept(k), NEW i \in Clients,
             i \notin (crossed \cup mixed)', faults' = 0, Repointed(i)'
      PROVE  Loaded(i)'
  <2>1. i # k
    BY <1>1 DEF Ordinary, Unmoved, Moving, Moves, Repointed, SwitchOps
  <2>2. job'[i] = job[i] /\ job[i] # Idle
    BY <1>1, <2>1, IdleOp DEF OthersKept, Repointed, SwitchOps
  <2>3. i \notin crossed \cup mixed /\ store' = store /\ meta' = meta
    BY <1>1, <2>1, <2>2, Bystander
  <2>4. /\ faults = 0 /\ databaseName' = databaseName /\ semester' = semester
        /\ semesterConfig' \in {semesterConfig, store'[databaseName][Input]}
    BY <1>t, <1>1 DEF Ordinary, Unmoved, Shape
  <2>5. Loaded(i)
    BY <1>t, <1>1, <2>2, <2>3, <2>4 DEF SwitchLoading, Repointed
  <2>6. QED
    BY <2>2, <2>3, <2>4, <2>5
<1>2. ASSUME NEW k \in Clients, Mover(k), Recorded(k), OthersKept(k), NEW i \in Clients,
             i \notin (crossed \cup mixed)', faults' = 0, Repointed(i)'
      PROVE  Loaded(i)'
  <2>1. i = k
    BY <1>t, <1>2, IdleOp, MoverCrosses DEF OthersKept, Repointed, SwitchOps
  <2>2. job'[k] # Idle /\ job'[k].op \in SwitchOps \ {"switchTo"}
    BY <1>2, <2>1, IdleOp DEF Repointed, SwitchOps
  <2>3. k \notin crossed \cup mixed /\ faults = 0
    BY <1>t, <1>2, <2>1, <2>2, Oneself, MoverStep DEF Shape
  <2>4. Repointed(k) => Loaded(k)
    BY <1>t, <2>3 DEF SwitchLoading
  <2>5. CASE SwitchRepoint(k)
    <3>1. Progress(k, "switchTo", "loadConfig")
      BY <1>t, <2>5, SwitchProgress
    <3>2. SwitchTo(job[k].db, job[k].override) /\ faults' = faults
      BY <1>2, <2>3, <2>5 DEF SwitchRepoint
    <3>3. ~Fails
      BY <1>2, <2>3 DEF Fails
    <3>4. QED
      BY <2>1, <2>5, <3>1, <3>2, <3>3 DEF SwitchRepoint, SwitchTo, Progress
  <2>6. CASE SwitchLoadConfig(k)
    <3>1. Progress(k, "loadConfig", "saveConfig")
      BY <1>t, <2>6, SwitchProgress
    <3>2. semesterConfig' = LoadedConfig(databaseName)
      BY <1>2, <2>3, <2>6 DEF SwitchLoadConfig, Fails
    <3>3. Loaded(k)
      BY <2>4, <3>1 DEF Progress, Repointed, SwitchOps
    <3>4. QED
      BY <2>1, <2>6, <3>1, <3>2, <3>3 DEF SwitchLoadConfig, LoadedConfig, Progress
  <2>7. CASE SwitchSaveConfig(k)
    <3>1. Progress(k, "saveConfig", "clearFlag")
      BY <1>t, <2>7, SwitchProgress
    <3>2. Loaded(k)
      BY <2>4, <3>1 DEF Progress, Repointed, SwitchOps
    <3>3. store'[databaseName][Input] = store[databaseName][Input]
      BY <1>t, <2>7, CollKinds DEF SwitchSaveConfig, Shape, Stores
    <3>4. QED
      BY <2>1, <2>7, <3>1, <3>2, <3>3 DEF SwitchSaveConfig, Progress, memory
  <2>8. CASE SwitchClearFlag(k)
    <3>1. Progress(k, "clearFlag", "loadFlag")
      BY <1>t, <2>8, SwitchProgress
    <3>2. Loaded(k)
      BY <2>4, <3>1 DEF Progress, Repointed, SwitchOps
    <3>3. QED
      BY <2>1, <2>8, <3>1, <3>2 DEF SwitchClearFlag, Progress
  <2>9. CASE SwitchLoadFlag(k)
    <3>1. Progress(k, "loadFlag", "finish")
      BY <1>t, <2>9, SwitchProgress
    <3>2. Loaded(k)
      BY <2>4, <3>1 DEF Progress, Repointed, SwitchOps
    <3>3. QED
      BY <2>1, <2>9, <3>1, <3>2 DEF SwitchLoadFlag, Progress
  <2>10. QED
    BY <1>t, <1>2, <2>2, <2>5, <2>6, <2>7, <2>8, <2>9, MoverBegins, EndedJob
       DEF Mover, Move, SwitchFinish, ProtectMemory, SwitchOps
<1>3. CASE Restart
  <2>1. \A i \in Clients : job'[i].op = "none"
    BY <1>3, IdleOp DEF Restart
  <2>2. QED
    BY <2>1 DEF SwitchLoading, Repointed, SwitchOps
<1>4. CASE UNCHANGED vars
  BY <1>t, <1>4 DEF vars, memory, history, SwitchLoading, Repointed
<1>5. QED
  <2>1. ASSUME NEW k \in Clients, Ordinary(k) \/ Mover(k), Recorded(k), OthersKept(k) PROVE SwitchLoading'
    BY <1>1, <1>2, <2>1 DEF SwitchLoading
  <2>2. QED
    BY <1>3, <1>4, <2>1, StepKinds

\* What a dump or restore of k promises.
DumpPart(k) ==
    /\ job[k].op = "dump" /\ k \notin crossed \cup mixed => DumpSoFar(k)
    /\ job[k].op = "restore" => /\ job[k].zip.whole => Faithful(job[k].zip)
                                /\ job[k].left \subseteq DOMAIN job[k].zip.files
    /\ job[k].op = "restore" /\ job[k].checked /\ k \notin crossed \cup mixed => RestoredSoFar(k)
    /\ job[k].op = "restore" /\ ~job[k].checked => job[k].left = DOMAIN job[k].zip.files

\* A step of k does not disturb the dumps and restores of others, or marks them.
LEMMA DumpBystander ==
    ASSUME Shape, HistoryShape, NEW k \in Clients, Mover(k) \/ Ordinary(k), Recorded(k), OthersKept(k),
           NEW i \in Clients \ {k}, DumpPart(i)
    PROVE  DumpPart(i)'
<1>1. job'[i] = job[i]
  BY DEF OthersKept
<1>2. CASE job[i] = Idle
  BY <1>1, <1>2, IdleOp DEF DumpPart
<1>3. CASE job[i] # Idle
  <2>1. ASSUME i \notin (crossed \cup mixed)'
        PROVE  i \notin crossed \cup mixed /\ store' = store /\ databaseName' = databaseName
    <3>1. /\ i \notin crossed /\ ~Moving(k) /\ ~Moving(k)'
          /\ i \notin mixed /\ store' = store
      BY <1>3, <2>1, Bystander
    <3>2. Ordinary(k)
      BY <3>1, MoverStep
    <3>3. QED
      BY <3>1, <3>2 DEF Ordinary, Unmoved
  <2>2. QED
    BY <1>1, <2>1 DEF DumpPart, DumpSoFar, RestoredSoFar
<1>4. QED
  BY <1>2, <1>3

\* A request that is no dump and no restore after the step owes nothing.
LEMMA NoDump ==
    ASSUME NEW k \in Clients, job'[k].op \notin {"dump", "restore"} PROVE DumpPart(k)'
  BY DEF DumpPart

\* The requests and steps beside dump and restore.
LEMMA OtherJobs ==
    ASSUME Shape, NEW k \in Clients,
           \/ Mover(k) \/ BeginsWrite(k) \/ BeginsGuarded(k) \/ SetSemesterConfigInput(k)
           \/ CreateWorkspace(k) \/ CreateSemester(k) \/ MutateWrite(k) \/ SaveConfigInput(k)
           \/ GenerateWrite(k) \/ RestoreDone(k) \/ RestoreDataset(k)
    PROVE  zip' = zip /\ job'[k].op \notin {"dump", "restore"}
<1>1. CASE Mover(k)
  <2>1. zip' = zip
    BY <1>1 DEF Mover, Move, SwitchSemester, SetSemesterReadOnly, SwitchRepoint, SwitchLoadConfig,
       SwitchSaveConfig, SwitchClearFlag, SwitchLoadFlag, SwitchFinish, ProtectMemory
  <2>2. QED
    BY <1>1, <2>1, MoverStep, IdleOp DEF Moving, Moves
<1>2. CASE BeginsWrite(k)
  <2>1. PICK j \in WriteJobs : Begins(k, j)
    BY <1>2, WriteBegun
  <2>2. job'[k].op \in {"mutate", "dataset"}
    BY <2>1, BegunJob DEF WriteJobs
  <2>3. QED
    BY <1>2, <2>2, WriteBegun
<1>3. CASE SetSemesterConfigInput(k)
  <2>1. PICK x \in Configs : Begins(k, [op |-> "config", home |-> databaseName, docs |-> x])
    BY <1>3 DEF SetSemesterConfigInput
  <2>2. job'[k].op = "config"
    BY <2>1, BegunJob
  <2>3. QED
    BY <1>3, <2>2 DEF SetSemesterConfigInput
<1>4. CASE BeginsGuarded(k)
  <2>1. PICK j \in GenerateJobs : Begins(k, j)
    BY <1>4, GuardedBegun
  <2>2. job'[k].op = "generate"
    BY <2>1, BegunJob DEF GenerateJobs
  <2>3. QED
    BY <1>4, <2>2, GuardedBegun
<1>5. CASE CreateWorkspace(k) \/ CreateSemester(k)
  BY <1>5, IdleOp DEF CreateWorkspace, CreateSemester, Counted
<1>6. CASE MutateWrite(k) \/ SaveConfigInput(k) \/ GenerateWrite(k) \/ RestoreDone(k) \/ RestoreDataset(k)
  <2>1. Ends(k) /\ zip' = zip
    BY <1>6 DEF MutateWrite, SaveConfigInput, GenerateWrite, RestoreDone, RestoreDataset
  <2>2. QED
    BY <2>1, EndedJob
<1>7. QED
  BY <1>1, <1>2, <1>3, <1>4, <1>5, <1>6

\* The steps of a dump.
LEMMA DumpOwnStep ==
    ASSUME Shape, NEW k \in Clients, SemesterDumpZip(k) \/ DumpCollection(k) \/ DumpDone(k),
           Recorded(k), DumpPart(k), zip.whole => Faithful(zip)
    PROVE  DumpPart(k)' /\ (zip.whole => Faithful(zip))'
<1> USE DEF memory
<1>1. CASE SemesterDumpZip(k)
  <2> DEFINE left == {c \in Colls : store[databaseName][c] # Empty}
             j == [op |-> "dump", home |-> databaseName, source |-> store[databaseName],
                   left |-> left, files |-> NoZip.files]
  <2>1. Begins(k, j)
    BY <1>1 DEF SemesterDumpZip
  <2>2. job'[k] = j
    BY <2>1, BegunJob
  <2>3. j.op = "dump" /\ j.source = store[databaseName] /\ j.left = left /\ j.files = NoZip.files
    OBVIOUS
  <2>4. databaseName' = databaseName /\ store' = store /\ zip' = zip
    BY <1>1 DEF SemesterDumpZip
  <2> HIDE DEF j
  <2>5. DumpSoFar(k)'
    BY <2>2, <2>3, <2>4, NoFiles DEF DumpSoFar
  <2>6. QED
    BY <2>2, <2>3, <2>4, <2>5 DEF DumpPart, Faithful
<1>2. CASE DumpCollection(k)
  <2>1. job[k] \in DumpJobs /\ job[k].op = "dump"
    BY <1>2, JobByOp DEF DumpCollection, Shape
  <2>2. PICK c \in job[k].left :
           Continues(k, [job[k] EXCEPT !.left = @ \ {c}, !.files = Extended(@, c, store[databaseName][c])])
    BY <1>2 DEF DumpCollection
  <2> DEFINE f == Extended(job[k].files, c, store[databaseName][c])
             j == [job[k] EXCEPT !.left = job[k].left \ {c}, !.files = f]
  <2>3. c \in Colls /\ store[databaseName][c] \in Content(c) /\ job[k].files \in Files
    BY <2>1 DEF DumpJobs, Shape, Stores
  <2>4. /\ DOMAIN f = DOMAIN job[k].files \cup {c} /\ f[c] = store[databaseName][c]
        /\ \A b \in DOMAIN job[k].files : b # c => f[b] = job[k].files[b]
    BY <2>3, ExtendedFiles
  <2>5. job'[k] = j
    BY <2>2 DEF Continues, Shape
  <2> HIDE DEF f
  <2>6. j.op = "dump" /\ j.source = job[k].source /\ j.left = job[k].left \ {c} /\ j.files = f
    BY <2>1 DEF DumpJobs
  <2> HIDE DEF j
  <2>7. databaseName' = databaseName /\ store' = store /\ zip' = zip
    BY <1>2 DEF DumpCollection
  <2>8. ASSUME k \notin (crossed \cup mixed)' PROVE DumpSoFar(k)'
    <3>1. job'[k] # Idle
      BY <2>5, <2>6, IdleOp
    <3>2. DumpSoFar(k)
      BY <2>1, <2>8, <3>1, Oneself DEF DumpPart
    <3>3. QED
      BY <2>1, <2>4, <2>5, <2>6, <2>7, <3>2 DEF DumpSoFar
  <2>9. QED
    BY <2>5, <2>6, <2>7, <2>8 DEF DumpPart, Faithful
<1>3. CASE DumpDone(k)
  <2>1. DumpPart(k)'
    BY <1>3, EndedJob, NoDump DEF DumpDone
  <2>2. ASSUME zip'.whole PROVE Faithful(zip)'
    <3>1. /\ zip'.files = job[k].files /\ zip'.source = job[k].source
          /\ k \notin crossed \cup mixed
      BY <1>3, <2>2 DEF DumpDone
    <3>2. DumpSoFar(k) /\ job[k].left = {}
      BY <1>3, <3>1 DEF DumpDone, DumpPart
    <3>3. QED
      BY <3>1, <3>2 DEF Faithful, DumpSoFar
  <2>3. QED
    BY <2>1, <2>2
<1>4. QED
  BY <1>1, <1>2, <1>3

\* What one collection restored makes of the database.
LEMMA RestoreCollectionStep ==
    ASSUME Shape, NEW k \in Clients, RestoreCollection(k), DumpPart(k)
    PROVE  /\ zip' = zip /\ databaseName' = databaseName
           /\ \E c \in job[k].left :
                /\ c \in Colls /\ c \in DOMAIN job[k].zip.files
                /\ \A b \in Colls : b # c => store'[databaseName][b] = store[databaseName][b]
                /\ \/ /\ store'[databaseName][c] = job[k].zip.files[c]
                      /\ job'[k].op = "restore" /\ job'[k].checked = job[k].checked
                      /\ job'[k].zip = job[k].zip /\ job'[k].left = job[k].left \ {c}
                   \/ store'[databaseName][c] = Empty /\ job'[k] = Idle
<1>1. job[k] \in RestoreJobs /\ job[k].op = "restore"
  BY JobByOp DEF RestoreCollection, Shape
<1>2. PICK c \in job[k].left :
         \/ /\ Stored(databaseName, c, job[k].zip.files[c])
            /\ Continues(k, [job[k] EXCEPT !.left = @ \ {c}])
         \/ Stored(databaseName, c, Empty) /\ Ends(k)
  BY DEF RestoreCollection
<1>3. /\ c \in Colls /\ c \in DOMAIN job[k].zip.files
      /\ job[k].zip.files[c] \in Content(c) /\ Empty \in Content(c)
  BY <1>1 DEF RestoreJobs, Zips, Files, Content, DumpPart
<1>4. databaseName \in Databases /\ store \in [Databases -> Stores]
  BY DEF Shape
<1>5. CASE /\ Stored(databaseName, c, job[k].zip.files[c])
           /\ Continues(k, [job[k] EXCEPT !.left = @ \ {c}])
  <2> DEFINE j == [job[k] EXCEPT !.left = job[k].left \ {c}]
  <2>1. job'[k] = j
    BY <1>5 DEF Continues, Shape
  <2>2. /\ j.op = "restore" /\ j.checked = job[k].checked /\ j.zip = job[k].zip
        /\ j.left = job[k].left \ {c}
    BY <1>1 DEF RestoreJobs
  <2> HIDE DEF j
  <2>3. /\ store'[databaseName][c] = job[k].zip.files[c]
        /\ \A b \in Colls : b # c => store'[databaseName][b] = store[databaseName][b]
    BY <1>3, <1>4, <1>5, StoredShape
  <2>4. QED
    BY <1>3, <2>1, <2>2, <2>3 DEF RestoreCollection, memory
<1>6. CASE Stored(databaseName, c, Empty) /\ Ends(k)
  <2>1. /\ store'[databaseName][c] = Empty
        /\ \A b \in Colls : b # c => store'[databaseName][b] = store[databaseName][b]
    BY <1>3, <1>4, <1>6, StoredShape
  <2>2. job'[k] = Idle
    BY <1>6, EndedJob
  <2>3. QED
    BY <1>3, <2>1, <2>2 DEF RestoreCollection, memory
<1>7. QED
  BY <1>2, <1>5, <1>6

\* The steps of a restore.
LEMMA RestoreOwnStep ==
    ASSUME Shape, NEW k \in Clients, UploadSemesterDump(k) \/ RestoreCheck(k) \/ RestoreCollection(k),
           Recorded(k), DumpPart(k), zip.whole => Faithful(zip)
    PROVE  DumpPart(k)' /\ zip' = zip
<1> USE DEF memory
<1>1. CASE UploadSemesterDump(k)
  <2> DEFINE j == [op |-> "restore", home |-> databaseName, checked |-> FALSE,
                   zip |-> zip, left |-> DOMAIN zip.files, asked |-> TRUE]
  <2>1. job'[k] = j
    BY <1>1, BegunJob DEF UploadSemesterDump
  <2>2. j.op = "restore" /\ ~j.checked /\ j.zip = zip /\ j.left = DOMAIN zip.files
    OBVIOUS
  <2>3. zip' = zip
    BY <1>1 DEF UploadSemesterDump
  <2> HIDE DEF j
  <2>4. QED
    BY <2>1, <2>2, <2>3 DEF DumpPart, Faithful
<1>2. CASE RestoreCheck(k)
  <2>1. job[k] \in RestoreJobs /\ job[k].op = "restore" /\ ~job[k].checked
    BY <1>2, JobByOp DEF RestoreCheck, Shape
  <2>2. databaseName' = databaseName /\ store' = store /\ zip' = zip
    BY <1>2 DEF RestoreCheck
  <2>3. CASE Ends(k)
    BY <2>2, <2>3, EndedJob, NoDump
  <2>4. CASE IsFresh(databaseName) /\ Continues(k, [job[k] EXCEPT !.checked = TRUE])
    <3> DEFINE j == [job[k] EXCEPT !.checked = TRUE]
    <3>1. job'[k] = j
      BY <2>4 DEF Continues, Shape
    <3>2. j.op = "restore" /\ j.checked /\ j.zip = job[k].zip /\ j.left = job[k].left
      BY <2>1 DEF RestoreJobs
    <3> HIDE DEF j
    <3>3. job[k].left = DOMAIN job[k].zip.files /\ (job[k].zip.whole => Faithful(job[k].zip))
      BY <2>1 DEF DumpPart
    <3>4. RestoredSoFar(k)'
      BY <2>2, <2>4, <3>1, <3>2, <3>3 DEF RestoredSoFar, IsFresh
    <3>5. QED
      BY <2>2, <3>1, <3>2, <3>3, <3>4 DEF DumpPart, Faithful
  <2>5. QED
    BY <1>2, <2>3, <2>4 DEF RestoreCheck
<1>3. CASE RestoreCollection(k)
  <2>1. job[k].op = "restore" /\ job[k].checked
    BY <1>3 DEF RestoreCollection
  <2>2. PICK c \in job[k].left :
           /\ c \in Colls /\ c \in DOMAIN job[k].zip.files
           /\ \A b \in Colls : b # c => store'[databaseName][b] = store[databaseName][b]
           /\ \/ /\ store'[databaseName][c] = job[k].zip.files[c]
                 /\ job'[k].op = "restore" /\ job'[k].checked = job[k].checked
                 /\ job'[k].zip = job[k].zip /\ job'[k].left = job[k].left \ {c}
              \/ store'[databaseName][c] = Empty /\ job'[k] = Idle
    BY <1>3, RestoreCollectionStep
  <2>3. zip' = zip /\ databaseName' = databaseName
    BY <1>3, RestoreCollectionStep
  <2>4. CASE job'[k] = Idle
    BY <2>3, <2>4, IdleOp, NoDump
  <2>5. CASE /\ store'[databaseName][c] = job[k].zip.files[c]
             /\ job'[k].op = "restore" /\ job'[k].checked = job[k].checked
             /\ job'[k].zip = job[k].zip /\ job'[k].left = job[k].left \ {c}
    <3>1. /\ job[k].zip.whole => Faithful(job[k].zip)
          /\ job[k].left \subseteq DOMAIN job[k].zip.files
      BY <2>1 DEF DumpPart
    <3>2. ASSUME k \notin (crossed \cup mixed)' PROVE RestoredSoFar(k)'
      <4>1. RestoredSoFar(k)
        BY <2>1, <2>5, <3>2, IdleOp, Oneself DEF DumpPart
      <4>2. QED
        BY <2>2, <2>3, <2>5, <3>1, <4>1, CollKinds DEF RestoredSoFar
    <3>3. QED
      BY <2>1, <2>3, <2>5, <3>1, <3>2 DEF DumpPart, Faithful
  <2>6. QED
    BY <2>2, <2>4, <2>5
<1>4. QED
  BY <1>1, <1>2, <1>3

\* Dumps and restores stay faithful.
LEMMA DumpStep == ASSUME IInv, [Next]_vars PROVE DumpsFaithful'
<1>t. Shape /\ HistoryShape /\ (zip.whole => Faithful(zip)) /\ \A i \in Clients : DumpPart(i)
  BY DEF IInv, DumpsFaithful, DumpPart
<1>g. SUFFICES (zip.whole => Faithful(zip))' /\ \A i \in Clients : DumpPart(i)'
  BY DEF DumpsFaithful, DumpPart
<1>1. ASSUME NEW k \in Clients, Mover(k) \/ OrdinaryRequest(k) \/ Work(k), Recorded(k)
      PROVE  DumpPart(k)' /\ (zip.whole => Faithful(zip))'
  <2>1. CASE zip' = zip /\ DumpPart(k)'
    BY <1>t, <2>1 DEF Faithful
  <2>2. QED
    BY <1>t, <1>1, <2>1, OtherJobs, NoDump, DumpOwnStep, RestoreOwnStep DEF OrdinaryRequest, Work
<1>2. ASSUME NEW k \in Clients, Mover(k) \/ Ordinary(k), Recorded(k), OthersKept(k)
      PROVE  \A i \in Clients \ {k} : DumpPart(i)'
  BY <1>t, <1>2, DumpBystander
<1>3. CASE Restart
  <2>1. \A i \in Clients : job'[i].op = "none"
    BY <1>3, IdleOp DEF Restart
  <2>2. QED
    BY <1>t, <1>3, <2>1 DEF Restart, DumpPart, Faithful
<1>4. CASE UNCHANGED vars
  BY <1>t, <1>4 DEF vars, memory, history, DumpPart, Faithful, DumpSoFar, RestoredSoFar
<1>5. QED
  BY <1>1, <1>2, <1>3, <1>4, StepKinds

\* The invariant holds at the start.
LEMMA InitIInv == Init => IInv
<1> SUFFICES ASSUME Init PROVE IInv
  OBVIOUS
<1>1. \A k \in Clients : job[k] = Idle /\ job[k].op = "none"
  BY IdleOp DEF Init
<1>2. Shape
  <2>1. PICK x \in Configs, rest \in [DataColls -> Docs \cup {Empty}] :
         /\ store = [d \in Databases |-> [c \in Colls |->
                       IF d # First THEN Empty ELSE IF c \in DataColls THEN rest[c] ELSE x]]
         /\ semesterConfig = x
    BY DEF Init
  <2>2. store \in [Databases -> Stores]
    <3>1. ASSUME NEW d \in Databases PROVE store[d] \in Stores
      <4>1. store[d] = [c \in Colls |->
                          IF d # First THEN Empty ELSE IF c \in DataColls THEN rest[c] ELSE x]
        BY <2>1
      <4>2. \A c \in Colls : store[d][c] \in Content(c)
        BY <2>1, <4>1 DEF Content
      <4>3. store[d] \in [Colls -> Docs \cup Configs \cup {Empty}]
        BY <2>1, <4>1
      <4>4. QED
        BY <4>2, <4>3 DEF Stores
    <3>2. QED
      BY <2>1, <3>1
  <2>3. meta \in [Databases -> [readOnly : BOOLEAN, semester : Databases \cup {None}]]
    BY DEF Init, NoMeta
  <2>4. job \in [Clients -> Jobs]
    BY IdleOp DEF Init
  <2>5. QED
    BY <2>1, <2>2, <2>3, <2>4, NoFiles, SemesterAssumption DEF Init, Shape
<1>3. FlagAgrees
  BY SemesterAssumption DEF Init, FlagAgrees, NoMeta
<1>4. HistoryShape /\ GenerateAlone /\ UncrossedAlone /\ ActiveUnlessRepointed
  BY <1>1 DEF Init, GuardInit, HistoryShape, GenerateAlone, UncrossedAlone, ActiveUnlessRepointed
<1>5. FlagKnown /\ AtHome
  BY <1>1 DEF FlagKnown, AtHome
<1>6. SwitchLoading
  BY <1>1 DEF SwitchLoading, Repointed, SwitchOps
<1>7. DumpsFaithful
  BY <1>1, NoFiles DEF Init, DumpsFaithful
<1>8. QED
  BY <1>2, <1>3, <1>4, <1>5, <1>6, <1>7 DEF IInv

-----------------------------------------------------------------------------
(* Theorems. *)

\* The inductive invariant holds in every reachable state.
THEOREM SemesterInvariant == Spec => []IInv
<1>1. ASSUME IInv, [Next]_vars PROVE IInv'
  BY <1>1, ShapeStep, UncrossedStep, GenerateStep, ActiveStep, FlagStep, HomeStep, LoadStep, DumpStep DEF IInv
<1>2. QED
  BY <1>1, InitIInv, PTL DEF Spec

\* Everything kept has its type: the current database, its memory, the stores and flags.
THEOREM TypeCorrect == Spec => []TypeOK
<1>1. IInv => TypeOK
  <2> SUFFICES ASSUME IInv PROVE TypeOK
    OBVIOUS
  <2>1. Shape /\ HistoryShape /\ GenerateAlone
    BY DEF IInv
  <2>2. store \in [Databases -> [Colls -> Docs \cup Configs \cup {Empty}]]
    BY <2>1 DEF Shape, Stores
  <2>3. DOMAIN zip.files \subseteq Colls
    BY <2>1 DEF Shape, Zips, Files
  <2>4. GuardTypeOK
    BY <2>1 DEF GenerateAlone, GuardTypeOK
  <2>5. QED
    BY <2>1, <2>2, <2>3, <2>4 DEF TypeOK, Shape, HistoryShape
<1>2. QED
  BY <1>1, SemesterInvariant, PTL

\* RememberActiveSemester (semester_switch.go:171): with no switch under way the database
\* recorded as the last active one is the current one, whatever switches overlapped,
\* failed half-way or were cut off by a restart - unless a write at the end of the last
\* switch or start failed, which the code logs and passes over.
THEOREM ActiveRemembered == Spec => []ActiveIsCurrent
<1>1. IInv => ActiveIsCurrent
  BY DEF IInv, ActiveUnlessRepointed, ActiveIsCurrent, Quiet, Moving, Moves, Repointed, SwitchOps
<1>2. QED
  BY <1>1, SemesterInvariant, PTL

\* IsReadOnly (semester_switch.go:21): the flag every request is admitted by is the one
\* stored in the current database, whenever no switch or protection is under way and the
\* last one, or the start since, neither overlapped another nor failed to read it.
THEOREM FlagInMemory == Spec => []FlagAgrees
<1>1. IInv => FlagAgrees
  BY DEF IInv
<1>2. QED
  BY <1>1, SemesterInvariant, PTL

\* The client whose request changes takes the step, unless the server restarts.
LEMMA ActingClient ==
    ASSUME IInv, [Next]_vars, NEW k \in Clients, job'[k] # job[k]
    PROVE  Mover(k) \/ OrdinaryRequest(k) \/ Work(k) \/ Restart
  BY StepKinds DEF OthersKept, vars

\* A restart writes derived configurations only.
LEMMA RestartKeepsData ==
    ASSUME Shape, Restart, NEW d \in Databases, NEW c \in DataColls
    PROVE  store'[d][c] = store[d][c]
<1>1. PICK e \in Databases : Load(e)
  BY Restarted
<1>2. CASE store' = [store EXCEPT ![e][Config] = semesterConfig']
  BY <1>2, CollKinds DEF Shape, Stores
<1>3. QED
  BY <1>1, <1>2 DEF Load

\* Requests begin at idle clients.
LEMMA RequestFromIdle ==
    ASSUME Shape, NEW k \in Clients,
           OrdinaryRequest(k) \/ SwitchSemester(k) \/ SetSemesterReadOnly(k)
    PROVE  job[k] = Idle
<1>1. CASE BeginsWrite(k) \/ BeginsGuarded(k)
  BY <1>1, WriteBegun, GuardedBegun DEF Begins, Counted
<1>2. CASE ~BeginsWrite(k) /\ ~BeginsGuarded(k)
  BY <1>2 DEF OrdinaryRequest, SetSemesterConfigInput, CreateWorkspace, CreateSemester, SemesterDumpZip,
     UploadSemesterDump, SwitchSemester, SetSemesterReadOnly, Begins, Counted
<1>3. QED
  BY <1>1, <1>2

\* Planning data is written by a request under way, of one of four kinds, and only in
\* the current database.
LEMMA DataWrites ==
    ASSUME IInv, [Next]_vars, NEW k \in Clients, NEW d \in Databases, Writes(k, d)
    PROVE  d = databaseName /\ job[k].op \in {"mutate", "generate", "restore", "dataset"}
<1>t. Shape /\ DumpPart(k) /\ databaseName \in Databases /\ store \in [Databases -> Stores]
  BY DEF IInv, DumpsFaithful, DumpPart, Shape
<1>w. job[k] # Idle /\ job'[k] # job[k] /\ Data(d)' # Data(d)
  BY DEF Writes
<1>1. PICK c \in DataColls : store'[d][c] # store[d][c]
  BY <1>w DEF Data
<1>2. CASE Mover(k)
  <2>1. SwitchSaveConfig(k) \/ store' = store
    BY <1>2 DEF Mover, Move, SwitchSemester, SetSemesterReadOnly, SwitchRepoint, SwitchLoadConfig,
       SwitchClearFlag, SwitchLoadFlag, SwitchFinish, ProtectMemory
  <2>2. SwitchSaveConfig(k) => store'[d][c] = store[d][c]
    <3>1. semesterConfig \in Content(Config)
      BY <1>t, CollKinds DEF Shape, Content
    <3>2. QED
      BY <1>t, <3>1, CollKinds, StoredShape DEF SwitchSaveConfig, Stored
  <2>3. QED
    BY <1>1, <2>1, <2>2
<1>3. CASE OrdinaryRequest(k)
  <2>1. job[k] = Idle
    BY <1>t, <1>3, RequestFromIdle
  <2>2. QED
    BY <1>w, <2>1
<1>4. CASE Work(k)
  <2>1. CASE MutateWrite(k) \/ GenerateWrite(k) \/ RestoreDataset(k)
    <3>1. job[k].op \in {"mutate", "generate", "dataset"}
      BY <2>1 DEF MutateWrite, GenerateWrite, RestoreDataset
    <3>2. PICK b, x : store' = [store EXCEPT ![databaseName][b] = x]
      BY <2>1 DEF MutateWrite, GenerateWrite, RestoreDataset, Stored
    <3>3. d = databaseName
      BY <1>t, <1>1, <3>2
    <3>4. QED
      BY <3>1, <3>3
  <2>2. CASE SaveConfigInput(k)
    <3>1. store'[d][c] = store[d][c]
      BY <1>t, <2>2, CollKinds DEF SaveConfigInput, Stores
    <3>2. QED
      BY <1>1, <3>1
  <2>3. CASE DumpCollection(k) \/ DumpDone(k) \/ RestoreCheck(k) \/ RestoreDone(k)
    BY <1>1, <2>3 DEF DumpCollection, DumpDone, RestoreCheck, RestoreDone
  <2>4. CASE RestoreCollection(k)
    <3>1. PICK b, x : store' = [store EXCEPT ![databaseName][b] = x]
      BY <2>4 DEF RestoreCollection, Stored
    <3>2. d = databaseName
      BY <1>t, <1>1, <3>1
    <3>3. QED
      BY <2>4, <3>2 DEF RestoreCollection
  <2>5. QED
    BY <1>4, <2>1, <2>2, <2>3, <2>4 DEF Work
<1>5. CASE Restart
  <2>1. store'[d][c] = store[d][c]
    BY <1>t, <1>5, RestartKeepsData
  <2>2. QED
    BY <1>1, <2>1
<1>6. QED
  BY <1>w, <1>2, <1>3, <1>4, <1>5, ActingClient

\* graph/server.go:107: the planning data of a protected database does not change, through
\* whatever sequence of switches, protections and restarts, by a request that was asked for
\* the protection - unless it was under way during a switch or protection, or the flag is in
\* doubt.  The nightly sync, the Primuss ZIP and e-mail attachments are never asked.
THEOREM ProtectionHolds == Spec => ProtectedUnchanged
<1>1. ASSUME IInv, [Next]_vars, NEW k \in Clients, NEW d \in Databases,
             Writes(k, d), meta[d].readOnly
      PROVE  k \in crossed \/ ~sure \/ ~job[k].asked
  BY <1>1, DataWrites DEF IInv, FlagKnown
<1>2. IInv /\ [Next]_vars =>
      [\A k \in Clients, d \in Databases :
         Writes(k, d) /\ meta[d].readOnly => k \in crossed \/ ~sure \/ ~job[k].asked]_vars
  BY <1>1
<1>3. QED
  BY <1>2, SemesterInvariant, PTL DEF Spec, ProtectedUnchanged

\* semester_switch.go:75: an operation that holds the guard writes into the database it was
\* started on, unless a switch already past its question was under way when it began; any
\* other request writes where it was admitted unless a switch overlapped it.
THEOREM WritesAreHome == Spec => WritesHome
<1>1. ASSUME IInv, [Next]_vars, NEW k \in Clients, NEW d \in Databases, Writes(k, d)
      PROVE  \/ job[k].home = d
             \/ IF job[k].op = "generate" THEN job[k].late ELSE k \in crossed
  BY <1>1, DataWrites DEF IInv, AtHome
<1>2. IInv /\ [Next]_vars =>
      [\A k \in Clients, d \in Databases :
         Writes(k, d) =>
           \/ job[k].home = d
           \/ IF job[k].op = "generate" THEN job[k].late ELSE k \in crossed]_vars
  BY <1>1
<1>3. QED
  BY <1>2, SemesterInvariant, PTL DEF Spec, WritesHome

\* semester_switch.go:70: a switch that nothing overlapped leaves in memory what the
\* database says: its own stored semester (the override, from now on), and its config -
\* as long as no call has failed.
THEOREM SwitchHasLoaded == Spec => SwitchLoads
<1>1. ASSUME IInv, [Next]_vars, NEW k \in Clients, job[k].op = "finish", job'[k] = Idle,
             k \notin crossed \cup mixed, faults' = 0
      PROVE  /\ databaseName' = job[k].db
             /\ semester' = SemesterForDatabase(databaseName)'
             /\ HasConfig(databaseName)' => semesterConfig' = store'[databaseName'][Input]
  <2>1. Shape /\ SwitchLoading
    BY <1>1 DEF IInv
  <2>2. SwitchFinish(k)
    <3>1. job[k] # Idle
      BY <1>1, IdleOp
    <3>2. ~Restart
      BY <1>1, <2>1 DEF Restart, Fails, Shape
    <3>3. ~OrdinaryRequest(k) /\ ~SwitchSemester(k) /\ ~SetSemesterReadOnly(k)
      BY <2>1, <3>1, RequestFromIdle
    <3>4. ~Work(k)
      BY <1>1 DEF Work, MutateWrite, SaveConfigInput, GenerateWrite, DumpCollection, DumpDone,
         RestoreCheck, RestoreCollection, RestoreDone, RestoreDataset
    <3>5. QED
      BY <1>1, <3>1, <3>2, <3>3, <3>4, ActingClient DEF Mover, Move, SwitchRepoint, SwitchLoadConfig,
         SwitchSaveConfig, SwitchClearFlag, SwitchLoadFlag, ProtectMemory
  <2>3. /\ databaseName' = databaseName /\ semester' = semester /\ store' = store
        /\ semesterConfig' = semesterConfig /\ faults' = faults
        /\ PersistSemester(job[k].override)
    <3>1. ~Fails
      BY <1>1, <2>1 DEF Fails, Shape
    <3>2. QED
      BY <2>2, <3>1 DEF SwitchFinish, memory, Works
  <2>4. Loaded(k)
    BY <1>1, <2>1, <2>3 DEF SwitchLoading, Repointed, SwitchOps
  <2>5. semester = (IF meta'[databaseName].semester # None THEN meta'[databaseName].semester ELSE databaseName)
    <3>1. CASE job[k].override # None
      <4>1. meta'[databaseName].semester = semester /\ semester \in Databases
        BY <2>1, <2>3, <3>1 DEF PersistSemester, Shape
      <4>2. QED
        BY <4>1, CollKinds
    <3>2. CASE job[k].override = None
      BY <2>3, <2>4, <3>2 DEF PersistSemester, Loaded, SemesterForDatabase
    <3>3. QED
      BY <3>1, <3>2
  <2>6. QED
    BY <1>1, <2>3, <2>4, <2>5 DEF Loaded, SemesterForDatabase, HasConfig
<1>2. IInv /\ [Next]_vars =>
      [\A k \in Clients :
         job[k].op = "finish" /\ job'[k] = Idle /\ k \notin crossed \cup mixed /\ faults' = 0
         => /\ databaseName' = job[k].db
            /\ semester' = SemesterForDatabase(databaseName)'
            /\ HasConfig(databaseName)' => semesterConfig' = store'[databaseName'][Input]
       ]_vars
  BY <1>1
<1>3. QED
  BY <1>2, SemesterInvariant, PTL DEF Spec, SwitchLoads

\* RestoreSemesterDump (dump.go:130): a restore that no other write and no switch overlaps
\* makes the data of the current database what the dumped one held when its dump was begun
\* - if nothing disturbed the dump - and one that fails leaves a part of it and nothing else.
THEOREM RestoreIsExact == Spec => RestoreExact
<1>1. ASSUME IInv, [Next]_vars, NEW k \in Clients,
             job[k].op = "restore", job[k].checked, job[k].zip.whole,
             k \notin crossed \cup mixed, job'[k] # job[k]
      PROVE  LET source == [c \in DataColls |-> job[k].zip.source[c]]
                 target == [c \in DataColls |-> store'[job[k].home][c]]
             IN  /\ \A c \in DataColls : target[c] \in {Empty, source[c]}
                 /\ job[k].left = {} => target = source
  <2>1. /\ Shape /\ DumpPart(k) /\ job[k].home = databaseName
        /\ Faithful(job[k].zip) /\ RestoredSoFar(k)
    BY <1>1 DEF IInv, DumpsFaithful, DumpPart, AtHome
  <2>2. ASSUME NEW c \in DataColls
        PROVE  /\ store[databaseName][c] \in {Empty, job[k].zip.source[c]}
               /\ job[k].left = {} => store[databaseName][c] = job[k].zip.source[c]
    BY <2>1, <2>2, CollKinds DEF RestoredSoFar, Faithful
  <2>3. CASE \A c \in DataColls : store'[databaseName][c] = store[databaseName][c]
    BY <2>1, <2>2, <2>3
  <2>4. CASE RestoreCollection(k)
    <3>1. PICK c \in job[k].left :
             /\ c \in DOMAIN job[k].zip.files
             /\ \A b \in Colls : b # c => store'[databaseName][b] = store[databaseName][b]
             /\ store'[databaseName][c] \in {Empty, job[k].zip.files[c]}
      BY <2>1, <2>4, RestoreCollectionStep
    <3>2. \A b \in DataColls : store'[databaseName][b] \in {Empty, job[k].zip.source[b]}
      BY <2>1, <2>2, <3>1, CollKinds DEF Faithful
    <3>3. QED
      BY <2>1, <3>1, <3>2
  <2>5. CASE Restart
    <3>1. \A c \in DataColls : store'[databaseName][c] = store[databaseName][c]
      BY <2>1, <2>5, RestartKeepsData DEF Shape
    <3>2. QED
      BY <2>3, <3>1
  <2>6. RestoreCollection(k) \/ RestoreDone(k) \/ Restart
    <3>1. job[k] # Idle
      BY <1>1, IdleOp
    <3>2. ~OrdinaryRequest(k) /\ ~SwitchSemester(k) /\ ~SetSemesterReadOnly(k)
      BY <2>1, <3>1, RequestFromIdle
    <3>3. ~Move(k)
      BY <1>1 DEF Move, SwitchRepoint, SwitchLoadConfig, SwitchSaveConfig, SwitchClearFlag,
         SwitchLoadFlag, SwitchFinish, ProtectMemory
    <3>4. QED
      BY <1>1, <3>2, <3>3, ActingClient DEF Mover, Work, MutateWrite, SaveConfigInput, GenerateWrite,
         DumpCollection, DumpDone, RestoreCheck, RestoreDataset
  <2>7. QED
    BY <2>3, <2>4, <2>5, <2>6 DEF RestoreDone
<1>2. IInv /\ [Next]_vars =>
      [\A k \in Clients :
         job[k].op = "restore" /\ job[k].checked /\ job[k].zip.whole
           /\ k \notin crossed \cup mixed /\ job'[k] # job[k]
         => LET source == [c \in DataColls |-> job[k].zip.source[c]]
                target == [c \in DataColls |-> store'[job[k].home][c]]
            IN /\ \A c \in DataColls : target[c] \in {Empty, source[c]}
               /\ job[k].left = {} => target = source]_vars
  BY <1>1
<1>3. QED
  BY <1>2, SemesterInvariant, PTL DEF Spec, RestoreExact
=============================================================================
