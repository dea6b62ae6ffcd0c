# A formal model of Testo's interpreter

Testo runs system tests on virtual machines. A test inherits the machines and flash
drives of its parents in the state in which the parents left them; that state is kept
in snapshots, and a test whose snapshots are there and whose checksum has not changed
is *cached* and not run again. The value of the tool hangs on two promises: a cached
test is one that would pass again, and a test that is run starts from what its parents
made. Both are kept by code that spans several controllers, several files per
controller, several launches and the possibility of Ctrl-C at any point, and this is
the part of the program that is modelled here first. The second part is the byte stream
to the guest additions, on which a test's commands copy files and run programs.

Paths below are relative to `src/testo` of the sources unless they begin with `docs/`
or `tests/`.

## 1. The system

| Component | State it keeps | Operations | Interacts with | What is hard | What makes it correct |
|---|---|---|---|---|---|
| **Snapshot store** (`IR/Controller`, `IR/Machine`, `IR/FlashDrive`, `backends/qemu`) | per controller: a main metadata file, one JSON file per snapshot (checksum, parent, children, opaque data), the hypervisor's snapshots; `current_state` in memory | create, undefine, create_snapshot, restore_snapshot, delete_snapshot_with_children, delete_hypervisor_snapshot | called by the interpreter; calls the hypervisor | a record, its parent's children array and the hypervisor are changed one after the other; recursive deletion driven by what files say; crashes in between | children arrays name existing snapshots, deletion terminates and removes exactly a subtree, a kept snapshot can be restored |
| **Test hierarchy and planner** (`IR/Program`, `IR/Test`, `VisitorInterpreter::build_test_plan`) | selected tests, parents and children, `snapshot_refs`, `tests_runs` | setup_tests_parents, get_topmost_uncached_tests, get_leaf_tests_in_dfs_order, add_test_to_plan | reads the store through `cache_status`; its plan drives `visit` | tests without snapshots run again on the way to a child; several parents; dependencies across subtrees | everything uncached runs, nothing in vain, each run can have its parents' states, dependencies come first |
| **Interpreter launch** (`VisitorInterpreter`) | status of the runs, what each controller currently holds | invalidate, check_cache_missed_tests, visit, visit_test, stop_all_vms | planner, store, command interpreter, reporter | failures leave the loop body in the middle; temporary snapshots; machines kept suspended; kills | cached means passed as it is now; the environment of a run is what its parents left; launches end |
| **Checksums** (`VisitorSemantic`) | `cksum_input` | visit_test and the visitors below it | files, params, macros | what is left out of it | equal checksums only for equal tests |
| **Command interpreter** (`VisitorInterpreterAction*`) | the `Timeout` of the present action, held keys and buttons, the stack of macro calls | wait, check, mouse, exec, copy, plug, ... | QEMU devices, guest additions, recognition | timeouts racing answers, partial failure | an action ends in time; a failure is reported once |
| **Guest additions** (`testo_guest_additions`, `testo_guest_additions_protocol`, `QemuGuestAdditions`) | one byte stream per machine, which outlives the host's connections; the handler's position in it; variables of the running command and the mutex around them | check_avaliable, get_tmp_dir, copy_file, copy_files_out, execute, set_var, get_var | command interpreter; any process of the guest through the command line tool | late answers, errors before raw bytes are read, ends of the stream lost with a connection, a command that outlives its action, a second thread | the answer read is the answer to the request sent, a copy that succeeds is whole, variables come back, an action ends |
| **Recognition** (`NNClient`, `testo_nn_server`) | a TCP connection | one request, one answer | command interpreter | reconnects | as above |
| **Reporter** (`report/`) | index of the current run, report files | test_begin ... launch_end | interpreter | index kept apart from the interpreter's | both walk the same run |
| **Language** (`lexer`, `parser`, `resolver`, `IR`, `VisitorSemantic`) | AST, scopes | parse, resolve, check | gives the program to the planner | precedence, macro scopes | a pure function of the text |
| **Networks** (`IR/Network`) | the configuration each was created with | check_config_relevance, create | machines' configurations, cache check | a network is shared by machines of different tests, of which a launch may select some | a cached test ran on the networks as they are now |
| **Clean mode** (`main/ModeClean`) | - | remove what has the project's prefix | store, networks | part of it may fail | nothing that is left passes for a cache |
| **Hyper-V, command line, JavaScript** | - | - | - | - | - |

`PROJECT.json` lists every component with the files it lives in and what is modelled
of it, and the hazards at the lines where they bite.

## 2. Plan

Modules, most important first. Those marked done are in this directory.

1. `SnapshotForest` (done): the abstract promise of the store, a forest that grows at
   leaves and from which whole subtrees are removed. Proofs in `SnapshotForest_proofs`.
2. `SnapshotStore` (done): the files and the hypervisor of one controller;
   implements `SnapshotForest`. Proofs in `SnapshotStore_proofs`, of the refinement in
   `SnapshotRefinement_proofs` (done).
3. `TestPlan` (done): planning as pure operators; `Planning` (done): its promises over
   all small programs and caches. Proofs about the operators in `TestPlan_proofs` (the
   runs) and `TestWalks_proofs` (selection, walks, whole plans and their order), of the
   promises in `Planning_proofs` (done).
4. `Launch` (done): launches over several controllers, composed of `TestPlan` and a
   coarser store, with failures, edits, networks, held keys, clean mode and kills.
   Proofs in `Launch_proofs` (done).
5. `VarSession` (done): what the service promises about the variables of a command;
   `ExecContext` (done): the mutex and the variables, implements `VarSession`.
6. `GuestChannel` (done): host and guest on one byte stream, composed with
   `ExecContext`; `GuestChannelInv` (done): its inductive invariant. Proofs in
   `GuestChannel_proofs` (done).

What is left, in this order: shared folders as further requests of `GuestChannel`; the
connection to the recognition server.

## 3. The modules

### SnapshotStore and SnapshotForest

One controller. Variables on disk: `domain` (the hypervisor knows it), `main` (the main
file), `stale` (the configuration has been edited since), `file` and `meta` (the record
of every snapshot), `hyp`, `base`, `at` (the hypervisor's snapshots, its own tree, its
current snapshot). In memory: `cur` (`Controller::current_state`), `phase`, `trusted`,
`pc`, `arg`, and `stack`, the activations of `delete_snapshot_with_children`. Each step
is one file write or one hypervisor call, so `Crash` comes between any two; with
`TornWrites` it also comes inside a write and leaves a file that does not parse.

The recursion is an explicit stack because the recursive call is where the code reads
what an earlier call may have changed. A `children` array is a bag: the order in which
children are deleted is left open, and duplicates are possible (`push_back` does not
look), bounded by `MaxLinks`. Machines and flash drives differ in what they do first,
in who destroys the hypervisor's snapshots and in what `undefine` deletes; `IsMachine`
chooses. Two hypervisor operations of several calls are one step each, and nothing that is
checked depends on what lies between: stopping a machine, removing its disks and
snapshots and undefining it (`IR/Machine.cpp:80`, `QemuVM.cpp:890`), which the next
creation tries again (if the old configuration is put back in between, there is none and
restoring `_init` ends the launch), and replacing a snapshot with those on top of it
(`QemuVM.cpp:958`). `SnapshotForest` knows only which snapshots exist, what each was taken
on and which subtree is being deleted; `ImplementsForest` is the refinement under the mapping
`Stored`: the records that parse, as long as the hypervisor knows the controller.

### TestPlan and Planning

A program is a record of declared tests, parents, `depends_on`, the controllers each
test mentions and the snapshot policies. Each C++ function is an operator of the same
name; recursion is by recursive functions and folds. `IsProgram` is what the parser and
`setup_test_parents` make sure of, `Valid` what the semantic check adds. `FollowedRuns` is the backwards
search of `add_test_to_plan` for a run whose result can still be had, `refs` are the
`snapshot_refs`. `Planning` draws a program, a set of up-to-date tests that is closed
upwards and a choice of which of them hold hypervisor snapshots, and plans once;
`Programs` is a constant: `MC_Planning` gives it generated families of programs and
those of `tests/scheduler` (`PlanExamples`).

### Launch

The user works on one `project`, a set of versions of a program, and starts launch
after launch with any of them. State: per controller the configuration it was created with (`made`), its snapshots
with what they contain (`snaps`), what is on it now (`live`) and its power state; the
launch in progress with its plan, the index and the status of the runs and
`current_state`. Further there are the mode each network was created with (`nets`), the
machines in which a key is down (`keys`) and those of which the interpreter believes it
(`held`: the two differ after a failure, which stops the machine and forgets nothing).
Contents are histories: `Made(cksum, found)` says which version of
which test was run on which contents, so that two contents are equal only if they
came about in the same way. `left` (what the last passed run of each test left) and
`passed` (the lineages of the tests that passed: their own checksum, the
configurations of their controllers, the lineages of their parents) only observe.

`Begin` .. `BuildPlan` are `init()`, `NextRun` .. `Passed` the body of the loop of
`visit()`, one step per controller where the code loops over controllers. `Kill` ends
the process at any point in `Kills`; any exception that is not a failed action does the
same; in the middle of a test's commands it leaves machines turned on or off and with the
key down or not (`CutShort`). Taking and deleting a controller's snapshots are one step
each: what a death between a record and its link (`IR/Machine.cpp:203`, `:211`) or inside
a deletion (`:256`, `:283`) leaves behind is in `SnapshotStore` only. Names of tests that
begin with an underscore, which `--invalidate` passes over
(`VisitorInterpreter.cpp:44`), are not in the instances. The exception for keys that are
still held has its own step, `SnapshotThrows`. `Clean`
takes the place of a launch and may leave any set in `Uncleaned` behind. A test is
selected by being declared, so that `--test_spec` is one more way in which versions of a
project differ. Waiting for the user in
`check_cache_missed_tests` is the choice between `Decline` and `CheckCache`.

### ExecContext and VarSession

The handler of the host's requests owns the mutex of `ExecuteContext` except while a
command runs (`Unlock`, `Lock`); a call of the command line tool tries it (`TryLock`)
and works under it (`ServeCall`). A call that does not get it changes nothing and is not
a step. `VarSession` says what this is for: values change one at a time, only in an open
session. The mapping is `open <- holder # "handler"`.

### GuestChannel and GuestChannelInv

One machine and the actions `copyto`, `copyfrom` and `exec` on it, one after another,
each over a connection of its own as in `visit_copy` and `visit_exec`. `toGuest` and
`toHost` are what is written and not yet read; an item is a request, an answer or the
length and content of one file. `pc` is the answer the host's coroutine waits for, so
each `Host..` action is the code from one `recv` to the next. `at` is where the guest's
one handler is. Both sides write before they read and read what comes: where the bytes
are not what the code takes them for, `HostMisreads`, `GuestMistakesRequest` and
`GuestMistakesContent` say what becomes of it (a length far too large, which the reader
then waits for, an exception, a file with a request for its content).

What is left in the stream when an action ends is the point of the model. The host's
socket is closed, so its unread answers are gone, an end of what it sent may be lost
(`End`), and what the guest has yet to write waits in its driver for the next
connection (`GuestWrites`). Timeouts are an exception at whatever wait the coroutine is
in: `Expire` for the three seconds of a check, `TimeIsUp` for the action's own.
`GiveUpRecheck` is the handler that catches both in `copy_to_guest`.

`quiet` and `acked` only observe: `quiet` says that the guest was waiting for a request
on an empty stream when the action began, and that no check has been given up since;
`acked` is what the callers of the command line tool were told.


## 4. The runs

| Run | Instance and bounds | Shows |
|---|---|---|
| `store_crash` | a machine, two tests whose parents change freely, two checksums, every crash point, edits between launches, up to two links per child | `NoDanglingChild`, `DeleteFindsChildren`; `StoreInv` before it is proved |
| `store_forest` | a machine, a base test with a child and a grandchild, no crash between a record and its link | refinement of `SnapshotForest`, leaves first; `ForestInv` before it is proved |
| `store_torn` | a flash drive, truncated files | no endless deletion, whatever the files say (`NoReentry`); where any snapshot has a record, the main file can be read (`MainReadable`) |
| `planning` | all hierarchies of four tests over two controllers, in two file orders, with all policies; all with one parent each and up to three dependencies; the repository's scheduler tests; each with every cache | `RunsWhatItShould`, `ParentStatesAvailable`; the greedy walk misses no order and reports only real cycles (`FindsASchedule`); the expected orders (`ExpectedPlans`) |
| `launch_cache` | four projects: a fork of three tests on one machine, 5 versions, 3 launches; a test with two parents on a machine each and a child, 4 versions, 3 launches; four tests on a machine with the policies of the upper two and the body of a leaf changing, 2 launches; two machines on one network, its mode and the selection of tests changing, 3 launches; failures, invalidation, keys held and forgotten, clean mode, a kill at every point | `CacheSound`, `EnvironmentIsRight`, `KeysUp`, `CacheUpdated`, `MachinesStopped` |
| `launch_auto` | the third of these on a flash drive; a test that waits for another, which may fail, or in a cycle with it; 3 launches | temporary snapshots are there when needed, gone after; every launch ends |
| `guest_channel` | two actions out of `copyto` (nothing, or a good and a bad file), `copyfrom` (both), `exec`; the guest may refuse the bad file at any of its chances; one variable, two values; writes of the guest block after two unread items | `AnswerIsOwn`, `CopiesAreWhole`, `VariablesArrive`, `ActionEnds`, refinement of `VarSession`; `ChannelInv` before it is proved |

Why the bounds are enough. The store's interactions need a parent, a child and a change
of place, which two names give; the third test of `store_forest` gives a grandchild. A wrong plan needs two subtrees competing for a controller and a test to
return to, which four tests on two controllers give. A stale cache needs one launch to
make it, one to change something and one to trust it: three launches. What one action
leaves in the stream is met by the next, so two actions are enough to see it and the
first of them to make it; two unread items are the least with which an answer can wait
behind another. Deadlock is not checked where the program really stops: after planning,
and after `MaxLaunches` or `MaxActions`.

### Disagreements found

Five runs are expected to find a counterexample; `PROJECT.json` quotes the sentence
that is contradicted and the lines that do it. In short:

* `store_opaque`: a hypervisor part taken later for a recorded test leaves its opaque
  data in the main file, and rollback cannot restore it;
* `plan_multi`: with two parents, `depends_on` is not honoured for tests pulled in as
  parents;
* `launch_flash`: a flash drive keeps the changes of a failed test for the next one: A
  passes, its child B fails, its child C starts on the drive B left;
* `launch_moved`: a test that is edited to use another machine has no snapshot to delete
  there, and its child's stay: the child fails on the edited test, and the next launch
  takes it for cached (met as a hypothesis that the proof of `CacheIsSound` cannot do
  without, section 6);
* `copy_deadline`: the timeout of a `copyto` is swallowed by the second availability
  check, and the copying goes on without one.

More came up on the way. Each is reproduced by changing the constants of a run
as stated:

* A kill between the write of a snapshot's record (`IR/Machine.cpp:203`) and of its
  link (`:211`) leaves a record no children array names; the deletion of the parent
  leaves it behind and it passes for cached again (`store_forest` with
  `CrashPoints <- Anywhere` violates `AncestorsPresent`).
* A flash drive whose configuration file changes during a launch is created again
  while `current_state` is still `_init`, so `_init` becomes its own child
  (`IR/FlashDrive.cpp:128`) and its deletion never returns (`store_torn` with
  `TornWrites = FALSE`, no crashes and `EditPhases = {"plan", "run"}` violates `NoReentry`).
* A machine's main file is rewritten with its snapshots in place when a hypervisor part
  is taken later (`IR/Machine.cpp:177`). A kill inside that write leaves it truncated, and
  every later launch ends on reading it (`store_torn` with `IsMachine = TRUE` violates
  `MainReadable`). A truncated record of a child does the same to every deletion that comes
  to it (`VisitChildThrows`).
* A test that is moved under another test that has to run keeps its old snapshot
  and checksum, because only topmost uncached tests are deleted and `has_snapshot`
  ignores checksums (`VisitorInterpreter.cpp:273`, `:484`): it passes and is not cached
  (`CacheUpdated`, with versions of a project that differ in `parents`). The same
  happens to a child of two tests of which one is out of date.
* The temporary snapshot of an `auto` test stays when its last child fails, because
  the exception leaves `visit_test` before
  `delete_parents_hypervisor_snapshots_if_needed` (`launch_auto` with `"D"` in `Failing`
  violates `NoTemporaryLeft`).
* A machine stays suspended when the child it was kept for is skipped: `continue`
  (`VisitorInterpreter.cpp:341`) comes before `stop_all_vms` (`launch_auto` with
  `Machines = {"f"}` and the invariant `MachinesStopped`).
* A controller the edited parent does not use keeps the child's old snapshot
  (`VisitorInterpreter.cpp:484`), and a grandchild is put on a mixture of old and new
  (`launch_moved` with `Projects <- Second`, nothing in `Failing` and the invariant
  `EnvironmentIsRight`): `WholeTests` in section 6.
* A temporary snapshot is dropped controller by controller. A launch killed in between
  leaves it on one machine of two. When the test is run again, with its policy still
  "auto", only the other machine's is taken, and the next child is started on the first
  one's old state and the second one's new one: here the test left its machines on the
  first time and off the second (`launch_moved` with `Projects <- Pair`,
  `Failing = {"B"}`, `PoweredOff = {"A"}`, `Kills = {"drop"}` and the same invariant):
  `TemporaryOnOne` in section 6.
* Clean mode that cannot remove one of two machines (`launch_cache` with
  `Uncleaned = {{}, {"m"}}`) leaves old snapshots behind on it, and `CacheUpdated` fails
  in the same way.
* Keys recorded as held are never forgotten: neither a failure nor a stop nor a rollback
  clears them. After a test that failed between `hold` and `release`, another test on
  that machine is refused its `hold`, or its snapshot throws and the launch ends
  (`HoldRefused`, `SnapshotThrows` in `launch_cache`).
* After a second check that was given up, its late answer is read as the answer to the
  first file: a `copyto` whose only file the guest then refuses succeeds. The unread
  check of an action that gave up does the same to the next one: its `copyfrom` takes the
  second of two answers for an empty listing and succeeds without a file (both:
  `guest_channel` without `quiet` in `CopiesAreWhole`).
* The copying of an `exec`'s script has no timeout
  (`VisitorInterpreterActionMachine.cpp:1056`, whose comment speaks of five seconds): a guest
  that hangs there hangs the interpreter (`ActionEnds` without its last disjunct).

The passing runs leave out just these situations: in `launch_cache` a test that can
lose its cache while a test below it keeps snapshots has all the controllers of that
test, the hierarchy and each test's controllers are fixed and there are no dependencies;
in `launch_auto` nothing fails on top of an `auto` test, and clean mode leaves nothing but
networks; `store_forest` has no kill at the two windows; the
configuration of a controller changes only between launches. The safety properties of
`GuestChannel` are about actions that began undisturbed (`quiet`); type correctness, the
session and `ActionEnds` are about all.

## 5. Fairness

`SnapshotStore`, `SnapshotForest` and `Planning` state none: their properties are
safety. `Launch` assumes weak fairness of the launch's own steps, in four parts that are
never enabled together: the deletion of snapshots, the answer of the user to the one
question asked, the plan, the walk of the plan. The interpreter is one coroutine and goes
on as long as it can; that the commands of a test come to an end is part of it, and is
what `GuestChannel` asks of three of them. The part for the plan is stated over `pc`
(`WF_pc(Plans)`): a step that plans changes it, and whether one can be taken is seen
without computing the plan. Nothing is assumed of the user starting a launch or of
signals. The REPL, which waits for its user, is not modelled.

`GuestChannel` assumes weak fairness of the host's reads and of each of its two kinds of
timers, which `coro` guarantees as long as the thread's loop runs. Nothing is assumed of
the guest, which is the system under test: it may hang, and `ActionEnds` holds
nevertheless wherever a timer is set.

## 6. What is proved

`SnapshotStore_proofs`, for every set of tests, checksums, parents, either kind of
controller and any set of crash points:

* `TypeCorrect`: `Spec => []TypeOK`, with no further assumption.
* `MainFileReadable`: `MachinesWhole /\ Spec => []MainReadable`, with torn writes and any
  edits for a flash drive, without torn writes for a machine (`MachinesWhole`, see section
  4). Its invariant, `MainInv`, follows the directory of a controller from its removal
  before the hypervisor knows the controller until the main file is written.
* `StoreConsistent`: `CalmDisk /\ Spec => []StoreInv`, where `CalmDisk` says that
  writes are not torn and that the configuration is not edited while tests run. Both
  assumptions are needed: `store_torn` has reachable states outside `StoreInv`
  and an edit during a run makes a flash drive's `_init` its own child.
* `ChildrenExist`, `DeletionCompletes`, `DeletionDescends`: `NoDanglingChild`,
  `DeleteFindsChildren` and `NoReentry` from it.

`NoDanglingChild` is not inductive. Whether a child's record may be removed depends on
who else lists it, which depends on every snapshot recording the parent it is linked
to, on a parent being linked only after the record is written, and on the parent having
been there then, which depends on what the cache check established at the start of the
run (`TrustInv`). A deletion in progress adds the conditions on its activations: each
frame's name is the parent in the record of the frame above it (`PathInv`), what is still
to visit is still linked (`FrameInv`), and a record is removed only when nothing hangs on
it (`RemoveInv`). `TakeInv` and `CreationInv` say the same of a snapshot being taken and
a controller being created. `Acyclic` is what keeps the recursion from meeting itself:
it is stated by sets closed under "parent of" instead of by counting, so that no
induction over data is needed. The proof has one lemma per action, each over the
conjuncts the action disturbs.

`SnapshotRefinement_proofs` adds three assumptions, which with `CalmDisk` make
`CalmStore`:

* `NoWindow`: no crash comes between the write of a record and of its link, nor between
  the removal of the link and of the record, because a record without a link is left
  behind by the deletion of its parent (section 4);
* `NoLoops`: the hierarchy the tests are declared in has no cycle in it, over all
  versions. With parents that may trade places between launches, a snapshot can be taken
  on a name whose record, of an earlier version, descends from it.

It proves `ForestConsistent` (`ForestInv` with `StoreInv`), `AncestorsKept`
(`AncestorsPresent`) and `StoreImplementsForest`: every step of the files, crashes
included, is a step of `SnapshotForest` or stutters. What the refinement needs beyond
`StoreInv` is that every record is linked from its parent's file or about to be
(`Linked`), that a deletion has visited or will visit all that is linked (`ToVisit`), so
that it removes leaves only, that a snapshot is only taken on a state its test can be run on
(`ParentsRecorded`), and that a deletion on the way to it keeps away from that state
(`StateKept`; this is where `NoLoops` comes in). `SnapshotForest_proofs` says what this gives the user of the forest
(`ForestStays`): parents are present and every chain of parents comes to a root, the
second again stated by closed sets.

`TestWalks_proofs` and `Planning_proofs`, for any set of programs of any size and all they may find on their
disks, assuming only that each program is one (`IsProgram`) and `Valid`:

* `PlanIsBuilt`: `build_test_plan` gives a good plan, or none where the walk is stuck.
* `TypeCorrect`: `Spec => []TypeOK`.
* `EveryTestRuns`: `Spec => []RunsWhatItShould`.
* `ParentStatesKept`: `Spec => []ParentStatesAvailable`.
* `ScheduleIsFound`: `Spec => []FindsASchedule`, and two results the run does not reach:
  `NoOrderIsMissed`, with any number of tests and of parents the planner gives up only
  when there is no schedule; `DependenciesComeFirst`, with one parent each the tests run
  after those they depend on (with two, section 4 has the counterexample).

All the work is in the recursive operators. A recursive function is a `CHOOSE` of a
function that satisfies its equation, so that before anything can be said of it one has
to be shown to exist; this is where termination comes in. It is shown without induction
on data, by a set that is closed under what the recursion does: for `add_test_to_plan`
and `get_all_controllers` the domain grows a test at a time, parents first (`GrowsToAll`,
`AddExists`); `setup_test_parents`, whose calls thread a state through, is solved for
the states with fewer than k tests still to select, k from 0 upwards (`SetupExists`);
the two walks are loops (`LoopExists`), and that they come to an end is the statement
that a set that contains the final states and all states from which a step leads into it
contains all states (`TopEnds`, `DfsEnds`), proved from `Hierarchy` by what stands on the
worklist or the stack. Folds are related to sequences of intermediate results once
(`FoldExists`, `FoldSteps`, `FoldUnique`).

The invariant of the plan under construction is `WellPlanned`: parents come first, and
the parents of a run are the last runs of their tests before it (`LinksBack`); nothing
is repeated but "never" tests whose controllers another run has used in between
(`NotInVain`); and each run has its parents (`HasParents`): a parent's snapshot is on
the disk and kept for this run, or its last run is one of the run's parents and nothing
has used its controllers since or its snapshot is kept. It holds after every call of
`add_test_to_plan`, with what the caller relies on: the returned run is the last of its
test and can be followed now, and only runs of ancestors were added (`AllAdded`). With
several parents the work for the second must not disturb the first: their ancestors have
only controllers of their own, and those are disjoint (`Apart`, from `Valid`;
`FoundStays`). That no uncached test is missed is `LeavesReached`: a topmost uncached
test is above everything uncached, and the walk keeps every childless test below it
covered by an entry on its stack until it is in the list.

A schedule is an order of the uncached tests that keeps every subtree in one piece, its
root first, and puts every test after those it depends on. That the walk finds one if
there is one is `WalkInOrder`, by an invariant in two parts. `Standing` holds whatever
the number of parents: a test that has been visited and left again has been walked
through to its leaves, and of an entry on the stack all children are visited or still to
visit. When none of the children left is ready, the one among them that would be first
in a schedule needs a test below another of them, which comes later: there is no
schedule (`StuckForGood`). `InLine` needs one parent each (`Single`), so that the tests
above a test are those on the stack: the leaves below a test follow each other; those
below a test on the stack are the last ones so far, or no more will come; and the leaves
below a dependency come before those of the test that needs it. The plan has the order
of the leaves, as a leaf adds runs of its ancestors only, behind all others
(`LeavesInOrder`), and a test's ancestors come before it (`AncestorsSooner`). What this
supposes of a program, besides that its hierarchy has no cycle, is that no test depends
on one below it (`Waiting`, from `Valid`).

`Launch_proofs`, for any projects, any controllers and networks, any number of launches
and any sets of what may fail, be invalidated, be left by clean mode or be killed:

* `CacheIsSound`: `UsualProjects => (Spec => []CacheSound)`.
* `StateIsTyped`: `UsualProjects => (Spec => []TypeOK)`.
* `RestoreIsPossible`: `UsualProjects /\ TemporariesOnFlash => (Spec => []RestoreSucceeds)`.
* `KeysReleased`: `UsualProjects /\ HoldersOnMachines => (Spec => []KeysUp)`.
* `CacheIsUpdated`: `UsualProjects /\ EditsAreWhole => (Spec => []CacheUpdated)`.
* `EnvironmentRight`: `UsualProjects /\ WholeTests /\ TemporaryOnOne /\ FailuresOnMachines
  => (Spec => []EnvironmentIsRight)`.
* `MachinesAreStopped`: `UsualProjects /\ NoDependencies /\ SkippedAreWhole
  => (Spec => []MachinesStopped)`.
* `NoTemporaryStays`: `UsualProjects /\ EditsAreWhole /\ TemporariesOnFlash /\ KeysComeUp
  /\ FailuresElsewhere /\ Unkilled => (Spec => []NoTemporaryLeft)`.

`UsualProjects` says three things of the versions of a project, and holds of the projects
of all passing runs:

* `HierarchyStays`: a test keeps its parents and the controllers its commands mention.
  Bodies, policies, configurations, networks and the selection may change. The code
  enforces nothing of the kind, and without it the theorem is false: `launch_moved` is a
  test that changes its controllers by what it mentions, and a test that gets another
  parent changes them by what it inherits.
* Tests use controllers. A test without any is always up to date (`IR/Test.cpp:218`).
* No test is called `_init`, which is a legal name and that of the initial snapshot.

`CacheSound` is about what a launch has found out; what it finds is on the disk, and may
have been put there by any earlier launch of any version. The core of the invariant,
`LaunchInv`, is therefore `Sound`: what the disk *would* let a launch of *any* version of
the project take for up to date has passed in that version, at every step, with a launch
under way or not. A step that only removes snapshots, or creates a controller (which
removes them all), keeps it (`CachedShrinks`). The one that can break it is
`TakeSnapshot`, when it completes a test for this version or for another. For that,
each of the other conjuncts has its part:

* `DiskInv`: on each controller, for each version, a snapshot's recorded parent is what
  the version says it should be (`OnParent`), so that the deletion of a snapshot takes
  those of all tests below it on that controller (`ColumnChain`); this is where
  `HierarchyStays` is used.
* `DeleteInv` and `VisitInv`: once the uncached tests' snapshots are deleted, every
  selected test has a controller on which its snapshot is of its present version or
  absent. A snapshot that is kept whatever its checksum (`Kept`) can then not be the
  reason why a test is taken for up to date.
* `VisitInv` and `RunInv`: the tests whose state can be had (`Done`: up to date, or passed
  in this launch) have their snapshots and are closed under parents, and `current_state`
  of the controllers of the present run names the right parent (`Ready`), so that the
  record to be written satisfies `DiskInv`; and by the time it is written the test has
  passed as it is now.
* `PlanInv`: each parent of a planned run is up to date or has an earlier run
  (`PlanIsBuilt`); a test planned twice has the policy "never".

A snapshot of another version that is completed by this one has passed in that one as
well: equal checksums and configurations, on ancestors of which the same is true, give
equal lineages (`TakenIsSound`).

What a launch restores is promised by its plan and kept by its runs, so that
`RestoreIsPossible` (`UsualProjects /\ TemporariesOnFlash => (Spec => []RestoreSucceeds)`)
needs an invariant of both on top of `LaunchInv`. `TemporariesOnFlash` is there because of
the finding `store_opaque`: a machine's record first written without a hypervisor snapshot
never gets, when one is taken later, the part its rollback reads. `Coming` says of a run still to come
that the state of each parent will be there if the run it follows passes: the parent was
up to date and its snapshots are kept for this run; or nothing uses its controllers
between the two runs, and as soon as the parent has passed they are as it left them
(`Loaded`); or its snapshot is taken, and kept for this run. It holds of a fresh plan by
`PlanIsBuilt` (`ComingBuilt`), and each step of a run between the two keeps it
(`ComingKept`, `OthersStay`, `ImageStays`): a temporary snapshot is dropped only when no
run refers to it, and a run stops its machines only when no run follows it
(`PassedLeaves`). `OpaqueInv` says of the disk, whoever wrote it, that a machine's
hypervisor snapshots can be rolled back to.

The other five theorems add to `LaunchInv` an invariant of what they are about. Their
hypotheses are what the proofs needed and the code does not enforce:

* `KeysReleased`. A key that a test puts down comes up when it is released, when a
  failure stops the machine, or when the machine is restored or created again; a kill
  leaves it down. What keeps the next test from it is that a machine whose
  `current_state` is known has no key down (`KeyInv`) and that no snapshot has one in it
  (`ReleasedInv`): a test that forgets a key is refused its snapshot, as the interpreter
  knows of the key, and having none from before either it never passes (`ForgetfulStop`).
  `HoldersOnMachines` says that tests which leave keys down use machines only.
* `CacheIsUpdated`. A snapshot that exists is kept whatever its checksum, so that
  everything on the disk has to be of the present version by the time the plan is walked
  (`CurrentInv`). Every snapshot is of some version of its test (`VersionedInv`), and an
  outdated one is deleted with those on top of it, on the controllers of the outdated
  test: `EditsAreWhole` asks of a test that is edited that each of its ancestors uses all
  its controllers. `AllHaveRuns` (from `PlanIsBuilt`) and `NetInv` do the rest.
* `EnvironmentRight`. What is on a controller (`LiveInv`) is what the last passed run of
  the test named by `current_state` left there, or is being changed by the present run;
  what is in a snapshot (`ImageInv`) is what the last passed run of its test left. The
  danger is a test that runs again while a snapshot of its earlier run is there: that
  snapshot would be kept. `BareInv` says that a test still to run has none.
  Three hypotheses rule out what section 4 shows to happen: `WholeTests`, a test uses no
  controller that its parents do not use (a grandchild on a mixture); `TemporaryOnOne`,
  temporary snapshots are of one controller (the kill between two drops);
  `FailuresOnMachines`, a test that may fail uses machines only (`launch_flash`).
* `MachinesAreStopped`. A machine of an earlier run is off, or a run that uses it and
  will not be skipped is still to come (`PowerInv`). The run for which `stop_all_vms`
  keeps a parent's machines on is linked to it by the plan, and to no earlier run of the
  same test (`LinkInv`, from the strengthened `LinksBack`). It will not be skipped: its
  other parents have passed or cannot fail, which takes `NoDependencies` (no test waits
  for another than its parents; section 4 has the counterexample) and `SkippedAreWhole`:
  a test below one that may fail uses no controller that the latter does not use. Without
  it a skipped test's own machine may still be on from a launch that was killed.
* `NoTemporaryStays`. References are to runs to come, and a run takes its own away when
  it starts (`RefsInv`). A hypervisor snapshot of an "auto" test is there in a visit only,
  and then some run still refers to it, or it is a parent's and the present run has yet to
  drop it (`TemporaryInv`). Whatever keeps the present run from getting there leaves it
  behind for good, as no later launch looks for it while it is up to date. Each
  hypothesis excludes one way: the run fails (`FailuresElsewhere`, section 4), its own
  snapshot is refused for a key (`KeysComeUp`), a rollback throws (`TemporariesOnFlash`,
  the finding `store_opaque`), the process is killed (`Unkilled`; in the two phases before
  a visit it may be). `EditsAreWhole` is there for a test that becomes "auto" and keeps
  the snapshot it took as "always" on a controller its outdated ancestor does not use.

All of them hold for any edits, invalidations, kills and sets left by clean mode that
these hypotheses admit. Of the projects of `launch_cache` all meet `UsualProjects`,
`HoldersOnMachines`, `TemporaryOnOne`, `FailuresOnMachines`, `NoDependencies` and
`SkippedAreWhole`; the fork, the chain and the two machines on a network meet
`EditsAreWhole` and `WholeTests` as well, and the test with two parents on a machine
each meets neither, so that there the two properties rest on the run, in which its
parents are never edited. The projects of `launch_auto` meet what `NoTemporaryStays` and
`RestoreIsPossible` suppose, but tests fail there on a flash drive
(`FailuresOnMachines`), so that `EnvironmentIsRight` rests on the run. `LinkInv` and
`PowerInv` were checked on the instance of `launch_cache`, `RefsInv` and `TemporaryInv`
on that of `launch_auto`, before they were proved.

`GuestChannel_proofs`, for every set of files, actions, names, values and every
capacity, with no assumption but those the module states about its constants:

* `TypesCorrect`: `Spec => []TypeOK`.
* `ChannelConsistent`: `Spec => []ChannelInv`, and from it `AnswersAreOwn`,
  `CopiesArriveWhole` and `VariablesReturn`.
* `SessionKeepsPromise`: `Spec => Session!Spec`, the refinement of `VarSession`.

`AnswerIsOwn` says nothing of answers still to be written. `Phase` does: for each answer
the host may wait for, the request is on its way, or the handler is at work on it and
both queues are empty, or its answer is the only item and the handler waits again. A file
being copied adds the raw bytes behind the request, and a refusal leaves them to be
misread, but only after the answer that ends the action (`Copying`). A listing is
followed by one item per file, each still awaited and none twice (`Stream`). A command's
answers are any number of pending ones and then the last, which carries the variables as
they were acknowledged (`Running`, `Carries`); that they can no longer change then is the
mutex's part (`GuestInv`). `Over` keeps what an action has achieved until the next one
begins. The proof takes the host's steps, which know where they are in `Phase`, one by
one, and shows of the guest's steps that each keeps every phase.

Only model-checked: of `Planning` the expected plans of the repository's examples,
`ExpectedPlans`, which are computations; and all liveness, `LaunchEnds` and `ActionEnds`,
which is out of the prover's reach, as `ENABLED` is.

## 7. Not modelled

Of the store and the launch: external snapshots of UEFI machines
(`use_external_snapshots`), the variables stored with a machine's snapshots, tests
skipped for a REPL, the metadata version check, links other than parent and child.
Strings are distinct names, so the matching of snapshot names in `qemu-img`'s listing is
not there. Programs whose `parents` form a cycle are excluded by `Valid`: the code does
not return from them. The checksum's text is abstracted to a version of the test's body.
A network is created in one step, and what a running machine notices of it is libvirt's.

Of the guest additions: a file that becomes shorter, or an error in reading it, after its
length has been sent, which `MessageHandler.cpp:323` does not notice; `mount`, `umount` and the status of shared folders; the channels
of Windows and Hyper-V; guests older than 2.2.8, which send files inside the messages;
`ExecuteContext` being unlocked by another thread than the one that locked it.

Of the command interpreter: the loops of `wait` and `check`, which poll a picture until a
deadline and share nothing; `type`, `press`, `mouse`, `plug`, `start` and `stop`, which
are calls of the hypervisor one by one; macros, which only nest.

Not at all, each with its reason in `PROJECT.json`: the language (pure functions of the
text), recognition, the report files, the libvirt XML of devices, Hyper-V, and the
libraries under `3rd_party`. These libraries (a JavaScript engine, JSON, XML, images, a
unit test framework, command line parsing) are most of the lines in the repository:
nothing of Testo's own behaviour is in them, so the models cover a small share of all its
lines.
