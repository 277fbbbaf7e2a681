# A TLA+ model of plexams.go

plexams.go is a GraphQL and HTTP server with which one faculty plans its exams:
it imports exams and registrations, generates the exam schedule, the room plan
and the invigilations with local search, and publishes each step by email. The
state is a MongoDB database per semester (plus a global one); the server holds
a guard, an email sender and a scheduler in memory. Clients work concurrently,
long operations run in goroutines behind GraphQL subscriptions, and nothing in
the database is transactional. The models here are about that: what happens
when operations overlap, fail half-way, or are cut off.

## Inventory

| Component | State | Operations | Interacts with | Correct when |
|---|---|---|---|---|
| operation guard (`plexams/guard.go`) | two counters | begin/end of validations and exclusive operations, `WritesAllowed` | every resolver, the uploads, the auto-sync | counters are exact, exclusive operations are alone, writes enter only into quiet |
| auto-sync (`plexams/autosync.go`) | the retry in progress | acquire with retries, import, report | guard, scheduler, ZPA/Anny | always ends, never runs beside another exclusive operation |
| scheduler (`plexams/scheduler`, `graph/scheduler.go`) | loop, timer, stop channel, persisted anchor | start with catch-up, fire, shutdown | auto-sync, process life | one recorded run per fire time, none lost, shutdown drains and ends |
| planning state (`plexams/planstate`) | set conditions | set, clear, mark, gate and send-once checks | emails, generators | a gate locks generation, a condition says what happened |
| email (`plexams/email*.go`) | dry-run collector | send-once emails, dry runs | guard, planning state | nobody is mailed twice, bundles do not mix |
| exam plan (`db/plan.go`, `plexams/plan.go`) | plan entries, locks, freezes | place, pin, drop, freeze, reset, two-phase generation | planning state, pre-planning, joint import | fixed entries stay, the written plan is the solver's, no duplicates pile up |
| assembled exams, student registrations | derived collection, dirty flag | edit inputs, regenerate, reset | imports, middleware | a stale collection is flagged |
| exam solver (`plexams/examplan`, `optimize`) | assignment, seat counts, cost totals, best state | construct, move, swap, undo, restore best | exam plan | every visited state is feasible, totals are exact, the best state is the result |
| pre-planning (`plexams/preplan_*.go`) | pre-exams, links, ancodes | add, edit, delete, link, connect, fix, generate | exam plan, constraints, bookings | links symmetric, one link per ancode, a fix and its lock agree |
| semester switch, read-only (`semester_switch.go`, `semester_config.go`) | current database, config and flag in memory, active database | switch, create, protect, edit the config, start | everything | memory says what the current database says, protected data stays |
| dump and restore (`dump.go`) | the file | dump, restore, replace one dataset | semester databases | a restore gives back what was dumped |
| room plan (`plexams/roomplan`) | room of every seat, counters | construct, move, swap, undo, generate, reset | planning state, guard, bookings | hard rules hold in every state, published plans are not regenerated |
| invigilations (`plexams/invigplan`) | person of every position, inverse index | greedy, move, swap, undo, generate | planning state, guard | nobody has two positions at a time, the index is exact |
| joint programs, room requests, Primuss | collections of their own | import, approve, replace | exam plan, caches | replaced as a whole or not at all |
| documents, accounts, secrets, JIRA | none that others read | formatting, storage | – | not modelled |

The hard behaviours are: a check and the write it allows are separate steps
(`WritesAllowed`, the gates, the fixed entries of a generation, links of
pre-exams, the question a switch asks); replacements are a delete and an
insert, or one collection after the other; a long operation outlives
what it read; failures are often logged and forgotten (marks, flags, mails);
the process can end anywhere. In the solvers it is the length of the sequences:
thousands of moves, exchanges and undone moves update counters that are never
recomputed. `PROJECT.json` lists them as hazards, at the line.

## Modules

| Module | Models |
|---|---|
| `Guard` | `guard.go`: each method is one atomic step, since it holds the mutex. Shared by the modules below |
| `OpGuard` | the callers of the guard: validations, exclusive operations, syncs with retries, mutations, and the two generators that do not (`ExamGens`) or only late (`InvigGens`) ask it |
| `Exclusion` | what the guard promises: shared operations overlap, an exclusive one is alone |
| `Publication` | send-once emails, conditions, gates, room and invigilation generation |
| `ExamPlan` | the plan collection and its writers, generation in phases A (EXaHM/SEB) and B |
| `Scheduler` | the daily loop, its anchor in the database, the life of the server |
| `DirtyCache` | a derived collection with a dirty flag |
| `ExamSolver` | the exam schedule solver: state, construction, annealing |
| `RoomSolver` | the room solver |
| `InvigSolver` | the invigilation solver |
| `Preplan` | pre-exams, their links, connection, fixes and generated assignment |
| `Semester` | several databases: switch, protection, config, dump, restore; uses `Guard` |
| `OperationsProofs` | theorems about `OpGuard`, `Scheduler`, `DirtyCache` and `Publication` |
| `ExamPlanProofs`, `SemesterProofs`, `PreplanProofs`, `ExamSolverProofs`, `RoomSolverProofs`, `InvigSolverProofs` | theorems about the module of that name |
| `SetFolds` | lemmas on folds and sums over finite sets, for the solvers |
| `MC*` | the small instances for TLC |

The four modules that `OperationsProofs` extends name their parts with a prefix
(`OpInit`, `SchedulerNext`, `CacheSpec`, `PublicationTypeOK`); the others have
`Init`, `Next`, `Spec` and `TypeOK`.

How state and actions correspond to the code:

* **OpGuard.** A slot is a client that issues one kind of operation again and
  again; `pc` is where it is. `StartValidation`/`StartExclusiveOp` are the
  TryBegin calls before the goroutine starts, the Finish actions the deferred
  End calls. `SyncStart`, `SyncRetry`, `SyncGiveUp`, `SyncCancelled` are the
  paths through `acquireExclusiveOp`. A refused operation changes nothing and is
  no action. A panic in a resolver's goroutine ends the process:
  `OpRestart`.
* **Publication.** `mailer` is the goroutine of `runEmailOp`: begun, sending to
  one recipient after the other, marking, ending. `byMail`, `delivered` and
  `clean` are history. The three emails are those whose condition is a gate;
  they stand for the two treatments of a failed mail (`AbortsOnError`). Two
  recipients are the two draft mails, and "some, but not all" for the others.
* **ExamPlan.** A document carries the writer that inserted it, because equal
  documents of two writers are two documents. A job is what is left of an
  operation in single database writes. `Solve` picks any slots: the properties
  hold for whatever the solver returns. `disturbed` is history: another writer
  changed the plan since this run's build. Exams without registrations are
  neither moved nor obstacles. The build sees one document of an exam, the
  delete takes all of them.
* **Scheduler.** hh:mm is tick 0 of a day of `Day` ticks. Instants are kept as
  ages and distances, so the state space is finite without a horizon; an age
  beyond the previous fire time is `Old`. Reading the clock and recording the
  fire are one step. Civil-time jumps (DST) are not modelled.
* **DirtyCache.** The inputs are a version. `Imports` are subscriptions: the
  middleware runs when the stream is returned, before the import writes.
  `Silent` are the changes no flagged field makes. A regeneration may read its
  inputs incompletely and go on (`full`), because some failing reads are logged
  and dropped; a result that is not `whole` counts as stale. `excused` is
  history: it names the events after which a stale collection may be unflagged.
* **ExamSolver.** `slotOf`, `load` and `total` are the fields of `State`;
  `InitCost` is what `initCost` computes from nothing, `MoveTotal` what
  `moveUnit` adds and subtracts. `ConstructWarm` and `FillRemaining` place one
  unit per step; `Relocate` and `Swap` are the two proposals, `undo` the saved
  values of their closures; `Accept`, `Reject` and `Finish` are the engine. An
  uphill move may always be accepted in the normal mode and never in the mode
  that only improves. Rooms stay occupied in later slots (`Overrun`), as
  `overrunTargets` computes. Separations are an input by ordered pair.
* **RoomSolver.** The same engine over single seats. `cells` are the counters,
  `Added` and `Removed` the structural updates, `Affected` the exams whose
  buffer a move can change. An exchange is two or four single-seat moves,
  undone last to first.
* **InvigSolver.** `plan.assign` and `plan.by` are `Assign` and `byInvig`, the
  latter as sorted lists with the binary search of the code. `Allows` is the
  conjunction of the hard rules, which read `by` only. A proposal is applied,
  checked and, if it is not feasible, taken back within one step.
* **Preplan.** A request is a list of database calls; other clients act between
  them. Documents are written back whole, from the copy the request has read.
  `gaps` is history: the events the code does not make up for, named where they
  happen (`update` and `delete` touch only one side; `late`: constraints set
  when a member is already connected elsewhere; `relink`: connecting to another
  ancode without disconnecting; `retime` and `regroup`: a fixed pre-exam gets
  another time without its lock; `failure`: a call in the middle failed). The
  properties say what holds in their absence, so each such name is also a
  statement about the code.
* **Semester.** A switch is its single steps (`SwitchRepoint`,
  `SwitchLoadConfig`, `SwitchSaveConfig`, `SwitchClearFlag`, `SwitchLoadFlag`,
  `SwitchFinish`), because each reads or writes what others use. Every write
  goes to `databaseName` as it is then. `home` is where a request was admitted.
  `crossed`, `mixed`, `sure` and `remembered` are history: which requests a
  switch or a protection overlapped, which saw another's write, whether the flag
  in memory was last set without such an overlap or a failed read, and whether
  the last switch or start has made its records. Every database call of a switch
  may fail, and every one of a start (`Restart`, `Load`), with what the code does
  then: it goes on. `asked` tells the writers that were asked for the protection
  from those that were not: `RunScheduledSync` begins with the guard alone,
  `HTTPUploadPrimussZip` and `HTTPUploadEmailAttachment` with `WritesAllowed`
  alone. The generators that do not hold the guard are in `OpGuard` only.

## Runs

| Run | Question | Distinct states |
|---|---|---|
| `op_guard` | exact counters, exclusion, admission, refinement of `Exclusion`, a waiting sync is answered | 17 472 |
| `publication` | send once, owned collector, rooms locked once published | 914 328 |
| `exam_plan` | an undisturbed generation writes the solver's plan and takes no document from an exam that has none it may move; documents per exam | about 1.2 million views |
| `scheduler` | once per day, drained before exit, shutdown ends, every fire time is served | 5 699 |
| `dirty_cache` | stale or incomplete is flagged, copies do not pile up | 305 084 |
| `exam_solver` | feasibility of every visited state, exact totals, best state | 2 451 |
| `room_solver` | exact counters, room rules, turnaround and cooling | 6 160 |
| `invig_solver` | exact index, hard rules, complete greedy pass, best plan | 2 619 |
| `preplan` | symmetric links, one link per ancode and overlap, carried-over groups, fixes and locks, no id twice | 826 379 |
| `semester` | flag, config and active database agree with the current one, protected data stays, writes go home, restores are exact; with failing calls and restarts | 3 084 403 |

Two runs show a disagreement between a comment and the code (findings in
`PROJECT.json`):

* `exam_solver_swap_clash`: `canSwap` leaves out the pair it exchanges, and the
  separation of two exams depends on which comes first. With exams of different
  length an exchange of two conflicting exams on one day can leave the later
  one starting before the earlier one is over. `exam_solver` and the theorem
  show that with equal separations in both orders this cannot happen.
* `preplan_fixed_moved`: two fixed pre-exams with different slots that are
  linked as same-slot get the slot of one of them when the assignment is
  generated.

**Bounds.** Two slots of a kind are enough for that kind to overlap itself; one
is used where the kind only has to overlap others. `exclusiveOpRetries` has the
code's value. `delivered` counts to two, because only "more than once" matters.
The exam plan has one exam of each kind (own, EXaHM/SEB, foreign, the foreign
one without registrations), two interchangeable slots, so that a wrong slot can
be told from the solver's, one generator and one client; the number of
overlapping writers is general in the proof. `PlanView` (`MCExamPlan`) leaves
out what no action and no property reads: the conditions other than the gate,
the inserting writer of a document, slots already written. Three ticks are the shortest day
with an instant that is neither at nor next to the fire time on both sides.
`MaxRestarts` bounds the outages: after the last one the server stays up, which
is what "served in the end" needs.

The instance of `exam_solver` has a fixed and four movable units, a slot that is
full, one without a cap, one on another day, two EXaHM exams of which one
overruns, and three start plans (none, feasible, outdated); `room_solver` has
seats of parallel, following and pre-planned exams, so that a room is entered
from both sides; `invig_solver` has parallel, close and following positions.
The solvers' state spaces are small because the random choices are the only
source of branching; iterations are not bounded. In `preplan` and `semester`
`MaxOps` requests with `MaxOverlaps` overlaps let two requests meet in every
pair of steps after others have prepared the ground; `MaxFaults` is one
failing call or restart (the calls of one start may fail together, as in an
outage). In `semester` requests and faults share a bound of four: a dump, a
switch, a restore and a write beside it, or a protection, a switch, a restart
and a request after it. Clients, ancodes, collections and contents are
interchangeable (symmetry).

**Fairness.** `Fairness` of `OpGuard`: a running validation, exclusive operation or
sync ends, and a waiting sync's retry timer expires; that is goroutine
scheduling and timers. Clients starting something, cancellation and crashes
have no fairness. `SchedulerFairSpec` of `Scheduler`: time passes, goroutines are scheduled,
the grace period is a timer, and the container is restarted (`restart:
unless-stopped` in `deploy/docker-compose.yml`). A run has no fairness: it may
hang for ever, and `FireTimeServed` says what holds if none does.

The solver runs turn the deadlock check off, because a solver ends (`phase =
"done"`), and `preplan` and `semester`, because their requests are bounded. The
other runs check it.

## Observations without a run

What the models show besides, or what reading for them showed:

* `guard.go:8-10` says no write runs while a validation is in progress.
  `WritesAllowed` registers nothing, so a mutation admitted before goes on.
* `planstate.go:151` speaks of a successful send before the condition is marked.
  `SendEmailPublishedRooms` and `SendEmailPublishedInvigilations` only warn
  about failed mails and mark the condition.
* `SendEmailDraft` returns the error of its second mail before it marks, so the
  repeated run mails the first recipients again.
* `AssignInvigilations` asks the gate once, before it solves; invigilations
  published meanwhile are overwritten (`planning_state.go:13-14`).
* `problem.go:135` says that `Unplaced` dominates everything so that all exams are
  placed first. With the default weights a slot's load costs 2 times the square
  of its deviation from the ideal: with slots of 1000 seats and an ideal of 600,
  placing an exam of 500 seats on top costs 2 (900² - 400²) = 1.3 million, more
  than the 1 million of leaving it out. The engine may visit a state with the exam placed
  and keep the one without it. This is phase B; phase A has no load term.
* `examplan_build.go:838` says that locked and external entries stay untouched.
  Two writers that overlapped can leave an exam with a locked and a movable
  document; a later generation that nobody disturbs sees the movable one, and
  `AddExamToSlot` (`db/plan.go:25`) deletes both. `FixedEntriesKept` names the case.
* `assembledExams.go:326` and `prepare.go:163` say that the collection is in sync
  with its inputs when the flag is cleared. Failing reads of the ZPA students
  (`assembledExams.go:48`, `prepare.go:125`) and of the external exams
  (`exam.go:410`) are swallowed, and what was assembled without them counts as
  current. `StaleFlagged` names the case.
* `graph/semesterconfig.graphqls:47` says that a protected database rejects all
  data-changing operations. The nightly sync (`autosync.go:120`), the Primuss
  upload (`primuss_import_http.go:19`) and the attachment uploads
  (`email_attachments.go:104`, `158`) never ask; `ProtectedUnchanged` is about
  the requests that were asked.
* An entry locked while the exam solver runs is overwritten by its write loop
  and loses the lock (`examplan_build.go:837-838`).
* A regeneration clears the dirty flag an edit has set after the inputs were
  read (`assembledExams.go:326`), and the nightly sync and the Primuss upload
  set none (`assembled_exams_state.go:14`).
* At a start the flag in memory is FALSE until the meta document is read, and
  stays so if that fails (`plexams.go:263`, `semester_switch.go:37`): a restart
  can leave a protected database writable. A failing `RememberActiveSemester`
  lets the next start resume another database (`semester_switch.go:177`).
* After a switch to a database without a config the old one stays in memory
  (`loadSemesterConfig` returns early) and is saved into the new database,
  where `semester_switch.go:76-77` says the config is nil. `SwitchLoads`
  therefore speaks of databases with a config.
* A deleted pre-exam that had the largest id leaves links of others to it
  behind, and the next pre-exam gets that id and inherits them
  (`db/preplan_exams.go:48`).
* A restore also replaces the config collections, which `dump.go:30-32` says are
  "never overwritten by it"; only `semester_meta` is skipped.
* `overrunC.Check` of the room solver combines the longest duration, teardown
  and set-up of a cell although they may belong to different exams
  (`roomplan/solve.go:199`), so it may report what the moves allow; `GapsKept`
  compares the exams themselves.
* The overflow penalty of the exam solver's phase A is reported by the registry
  but is not a part of `State.Cost` (`examplan/problem.go:176`,
  `examplan/model.go:471`).

## Proofs

`tlapm` checks, for every value of the constants:

* **OperationsProofs**, on the guard. The inductive invariant is `OpTypeOK /\
  GuardCounts /\ ExclusiveAlone`: exclusion alone is not inductive, since it is
  the counters that tell the Try methods what runs, so they must be known to be
  exact. `StepIsMove` reduces every action to one of six moves of the sets of
  running operations; the rest is about these moves. It assumes that the slots
  of validations, exclusive operations and syncs are finite (the counters are
  cardinalities) and that the kinds are disjoint. Results: `OpTypeCorrect`,
  `CountsExact`, `Exclusive`, `WritesAdmitted`, `Refinement`.
* **OperationsProofs**, on the scheduler. `OncePerDay` needs to know why a
  recorded fire keeps the loop from a second one: the anchor is younger than the
  last fire time, so a start does not catch up; the timer does not expire before
  the next fire time; a run in flight can only write back an anchor of today;
  and before a run is recorded nothing is (`DayInv`). `DrainedBeforeExit` needs
  in addition that only a running server is asked to stop. It assumes a day of
  at least one tick.
* **OperationsProofs**, on derived collections. `StaleFlagged` speaks of quiet
  states. What is kept in between (`FlagInv`) is who will still set the flag,
  that a regeneration without an excuse is the only one and works on the current
  inputs, and that an import that still writes has flagged the collection or is
  about to. `CopiesBounded` needs `InsertFresh`: a client about to insert has no
  result in the collection.
* **OperationsProofs**, on publishing. `SendOnce`, `CollectorOwned` and
  `RoomGenerationLocked` rest on the guard being held once (`HolderAlone`: a free
  guard means that no email run and no room generation is under way). `SendOnce`
  needs in addition how far a run has come: it has mailed nobody it has still to
  mail, and without a run and without the condition nobody was mailed
  (`DeliveredSoFar`). It assumes that a nil collector differs from every bundle
  (`NoMailAssumption`).
* **ExamPlanProofs.** `EntriesBounded` follows from `OneEach`: an exam has at
  most one document per writer, and none of a writer that has deleted and not
  yet inserted. The documents then inject into the writers. `GeneratedAsSolved`
  and `FixedEntriesKept` need to know what an undisturbed run relies on from its
  build on (`RunOK`): an exam it has still to write has no document or one that is
  not fixed in its phase, the exam between its delete and its insert has no
  document, and the written ones have the solver's slot. Every step is one of
  the run itself, ends it, or is a bystander's (`StepsByWriter`), and a
  bystander who changes the plan marks the run as disturbed. It assumes
  finitely many writers, and that generators and clients are different slots.
* **SemesterProofs.** The invariant keeps, for every request that no switch or
  protection has crossed: no mover runs beside it (`UncrossedAlone`), the server
  still points to its home (`AtHome`), what it knows of the flag (`FlagKnown`);
  for a switch what it has loaded so far (`SwitchLoading`); for a dump and a
  restore what has been copied so far (`DumpsFaithful`). The guard has one
  holder (`GenerateAlone`), and only a switch that has repointed the server and
  not yet ended, or a failed record, lets `active` lag behind
  (`ActiveUnlessRepointed`). `Restarted` says what a start leaves, whichever of
  its calls fail. Results: the
  type invariant, two invariants and the four action properties of the run.
* **PreplanProofs.** Requests are classified by what they have read when they
  begin (`Adds`, `Edits`, `Sweeps`) and by their single writes. `LinkedOnce`
  counts, besides the linked pre-exams, those a request is about to write with
  the ancode (`Claims`): each claim beyond the first costs an overlap, and a
  copy written back late adds none. `PinInSync` and `LinksSymmetric` hold in
  quiet states; in between the plan entry that the request has still to change
  (`Owed`), the links whose other side it has still to write (`Mending`), and
  what its copies agree in with the stored documents (`Reads`, `LinkReads`) are
  part of the invariant.
  `NoSecondLife` needs that without overlaps nobody has taken away what the one
  request under way has read (`OneAtATime`). The type invariant bounds the
  documents with one id in the same way, by counting the inserts under way and
  the copies a reset can still bring back (`CopiesCounted`). That a unit of the
  generated assignment stays within the existing pre-exams is proved with the
  least number of rounds that would leave them (`LeastNat`), since the closure
  is a recursive function. The assumptions are natural bounds, and that None
  differs from ancodes, times and lists; clients, ancodes and times may be infinite.
* **PreplanProofs**, on groups. `GroupCarriedOver` compares the closure of the
  same-slot links with what a sequence of `AddConstraints` calls leaves. The
  closure is shown to be the smallest closed set (`GroupIs`: after `MaxId` rounds
  nothing can be added any more, by cardinality), and with mutual lists a group is
  that of each of its members (`OneGroup`). `GroupFollows` holds in all states
  without the named gaps and overlaps: in quiet ones every ancode has the list of
  its group (`Settled`); while a request still has to carry over, the lists of
  the group name each other but for the ancode just linked or freed (`Near`). From
  there the first `AddConstraints` settles the whole group, since the code goes
  through all it names (`AddedGroup`), and the further ones change nothing;
  `RmConstraints` settles the ancode that was freed.
* **ExamSolverProofs**, on assignments. `DomainCorrect` and `ClashFreeCorrect`,
  for every problem and every sequence of choices. The invariant has to hold of
  three assignments: the current one, the kept best one and the one the undo
  closures would go back to (`Before`); only then do `Reject` and `Finish`
  preserve it. `MoveKeepsClashFree` and `SwapKeepsClashFree` are the facts about
  one move. The second needs `SymmetricSep`, a hypothesis of the theorem about
  `NoClash` and not of the one about `DomainKept`; the run
  `exam_solver_swap_clash` shows that it cannot be dropped.
* **ExamSolverProofs**, on the books. A state is `Canonical` when its seat counts
  and totals are those of its assignment from scratch; the current, the best and
  the earlier state (`Earlier`) are (`BooksKept`), because what `moveUnit` adds
  and subtracts is the difference of the sums. `CapacityCorrect` follows for
  problems whose fixed units alone fit (`FixedFits`; the solver never moves
  them), through `FitKept`. `BestIsCheapest` holds for all weights, through
  `CheapestKept`: the engine keeps a state when it is cheaper than the best one,
  and no proposal takes a placed unit out, so what is open now was open in every
  earlier state. That the best state also places what the current one places
  would need that `Unplaced` dominates the rest of the cost, which the default
  weights do not give (see above). `MCHypotheses` checks
  that the instance of the run satisfies `FixedFits`.
* **RoomSolverProofs.** (Costs are integers here; the rounding of the code's
  floating-point totals is not modelled.) The current state and the one that taking back the undo
  list gives are `Canonical`: all counters and totals are what a rebuild of the
  assignment gives (`Fresh`), and the assignment keeps the hard rules
  (`HardOK`). The two facts go together: the moves ask the counters, so the rules
  hold only if the counters are exact. `OtherBuffers` shows that a move changes
  the buffers of no exam besides those the code recounts (`Affected`).
  Results: `CountersAreExact`, `PlacesAreKept`, `GapsAreKept`, `TypeCorrect`.
* **InvigSolverProofs.** A plan is `Good` when every list of the index increases
  strictly and holds the positions of that person; `SearchInts` cuts such a list
  where the smaller elements end, so insertion and removal keep it good, and a
  good plan is determined by its assignment: taking a proposal back gives the
  plan there was. `Hard` is the hard rules read from the assignment instead of
  the index. `GreedyLeavesNothingOpen` rests on monotony: a further assignment
  frees nobody, so a position passed over can be taken by no one later.
  `Bounded` says that no accepted plan is cheaper than the kept one. The typing is
  a part of `IndexExact`. `FixedTo` names people of the pool; one whom the code
  takes out of it (`invigilation_generate.go:566`) and who holds an own or a
  pre-planned position is covered as a person excluded on every day, whose
  positions are constant and add a constant to the cost. Results: `IndexIsExact`, `PlansStayHardFeasible`,
  `GreedyLeavesNothingOpen`, `BestIsRestored`.
* **SetFolds.** The folds of the community modules take an element out with
  CHOOSE. The lemmas show that a sum over a finite set can be taken apart at any
  element and compared by differences. Induction over a set is an argument about
  a family of subsets that is closed under adding an element (the library's rule
  takes an operator, which the provers cannot instantiate).

A failed proof corrected the model once: `LinkedOnce` used to bound the
pre-exams of one ancode by the number of clients. That is false, because one
client's late copies can bring back a link after another request has made a new
one, again and again; the number of overlaps is the bound.

Every invariant and every action property of the passing runs is stated by a
theorem. The type invariants are proved as well and not repeated in the runs.
Only model-checked are the liveness properties: fairness and ENABLED are outside
what these provers handle. Induction over data is not available as a rule; where
it was needed it is an argument about a least counterexample.

No module here uses RECURSIVE.

## Plan

1. Room requests: approval and activity of a request against the applied preview.
2. Joint import and the merges of the ZPA and Primuss imports by ancode.
3. The pre-planning solver (`preplan_solve.go`) against `Preplan`'s choice.

## Not modelled

Documents, accounts, secrets, JIRA and the HTTP clients, which have no state
other operations rely on; room requests, the merges of the imports and the
validation checks, which are single-document edits or queries; generated code;
DST; the content of emails; rounding of floating-point costs; a second meta
document from two requests that create it at once; MongoDB failures other than a call that returns an
error with or without its effect.

`graph/generated/generated.go` and `graph/model/models_gen.go` are generated and
make up 112 592 of the 160 602 lines of the implementation; much of the rest is
formatting, resolvers that only delegate, and queries. The definitions
of these modules stand for the parts that keep state others rely on.
