------------------------------- MODULE Launch ------------------------------
(***************************************************************************)
(* Launches of the interpreter, one after another, over the same disk and  *)
(* the same machines, with the program edited in between: a launch decides *)
(* which tests have kept their cache, deletes the snapshots of the others, *)
(* plans its runs (TestPlan) and walks the plan, putting controllers into  *)
(* the states of the parents, running commands and taking snapshots.       *)
(* Source: visitors/VisitorInterpreter.cpp, IR/Test.cpp, IR/Network.cpp,   *)
(* main/ModeClean.cpp.                                                     *)
(*                                                                         *)
(* A step is one operation on one controller; SnapshotStore has the file   *)
(* and hypervisor operations inside it.  The launch may be killed between  *)
(* any two steps; exceptions other than a failed action have that effect.  *)
(***************************************************************************)
EXTENDS TestPlan

CONSTANTS
    Projects,     \* what the user may ask to run: for each project its versions,
                  \* declarations as in TestPlan, with the version of each test's
                  \* body and of each controller's config, the networks the NICs of
                  \* each controller are attached to and the mode of each network
    Machines,     \* the controllers that are machines; the others are flash drives
    Controllers,
    Networks,
    Invalidated,  \* the sets of tests --invalidate may match, without those whose names
                  \* begin with an underscore, which the code passes over
    MaxLaunches,  \* bound on the number of launches of each project, clean mode counted
    Uncleaned,    \* the sets of controllers and networks clean mode may fail to remove
    Kills,        \* the program points at which a launch may be killed
    Failing,      \* the tests whose commands may fail
    PoweredOff,   \* the tests that may power their machines off
    Holders,      \* the tests, each with the version of its body, whose commands hold
                  \* a key down, the same key, and release it again
    Forgetful     \* those of them that do not release it

Points == {"invalidate", "delete", "next", "skip", "restore", "networks", "install",
           "commands", "drop", "snapshot"}

ASSUME MachinesAssumption == Machines \subseteq Controllers
Programs == UNION {Projects[x] : x \in DOMAIN Projects}

ASSUME ProgramsAssumption ==
    /\ \A x \in DOMAIN Projects : Projects[x] # {}
    /\ \A d \in Programs :
          /\ IsProgram(d) /\ Valid(setup_tests_parents(d))
          /\ \A t \in DOMAIN d.mentions : d.mentions[t] \subseteq Controllers
          /\ {"body", "config", "nics", "mode"} \subseteq DOMAIN d
          /\ DOMAIN d.body = DOMAIN d.parents /\ DOMAIN d.config = Controllers
          /\ d.nics \in [Controllers -> SUBSET Networks] /\ DOMAIN d.mode = Networks
ASSUME HoldersAssumption == Forgetful \subseteq Holders
ASSUME BoundsAssumption == MaxLaunches \in [DOMAIN Projects -> Nat] /\ Kills \subseteq Points

VARIABLES
    project,  \* the project the user works on
    made,     \* the config each controller was created with, or Nothing
    nets,     \* the mode each network was created with, or 0
    snaps,    \* the snapshots on each controller's disk
    live,     \* what is on each controller now
    power,    \* "stopped", "running" or "suspended"
    keys,     \* the machines in which the key is down
    launches, \* how many launches there have been
    prog, pc, \* the launch: its program and what it is doing
    ok,       \* the tests whose cache_status is OK
    queue,    \* the tests whose snapshots are to be deleted
    pending,  \* the controllers the present operation has yet to visit
    plan,     \* tests_runs and snapshot_refs
    idx,      \* current_test_run_index, from 1
    status,   \* the exec_status of each run
    cur,      \* Controller::current_state of each controller, "" if unknown
    held,     \* the machines with the key among their current_held_keyboard_buttons
    left,     \* what the last passed run of each test left on its controllers
    passed    \* the lineages of the tests that have passed

disk == <<made, nets, snaps>>
world == <<live, power, keys>>
known == <<cur, held>>
launch == <<project, launches, prog>>
ghosts == <<left, passed>>
vars == <<project, made, nets, snaps, live, power, keys, launches, prog, pc, ok, queue, pending,
          plan, idx, status, cur, held, left, passed>>

Names == UNION {DOMAIN d.parents : d \in Programs}
Initial == "_init"

\* What is on a controller: nothing yet, the debris of a failed run, or what a
\* test made of the controllers it found.
Fresh == <<>>
Nothing == <<>>
Dirty == <<"dirty">>
Made(cksum, found) == <<cksum, found>>

NoImage == [content |-> Fresh, on |-> FALSE, key |-> FALSE, taken |-> FALSE]
Image(content, on, key) == [content |-> content, on |-> on, key |-> key, taken |-> TRUE]

\* The metadata of a snapshot, with what the hypervisor holds for it.
Record(cksum_, parent, image, opaque) ==
    [cksum |-> cksum_, parent |-> parent, image |-> image, opaque |-> opaque]
WithImage(r, image) == Record(r.cksum, r.parent, image, r.opaque)
WithRecord(records, s, r) == [n \in DOMAIN records \cup {s} |-> IF n = s THEN r ELSE records[n]]

----------------------------------------------------------------------------
(* Reading the program and the disk                                        *)

Controls(t) == get_all_controllers(prog)[t]
Inherited(t) == UNION {Controls(q) : q \in ParentSet(prog, t)}

\* Those attached to the machines of its commands, and of its parents.
get_all_networks(p) ==
    LET networks[t \in Selected(p)] ==
            (UNION {p.nics[c] : c \in p.mentions[t]})
            \cup UNION {networks[q] : q \in ParentSet(p, t)}
    IN  networks

\* (mutant) The modes of the networks are left to the networks.
ConfigAlone(p, c) == <<p.config[c], {}>>

\* The config of a machine has the mode of the network of each NIC as well.
Config(p, c) == <<p.config[c], {<<n, p.mode[n]>> : n \in p.nics[c]}>>

\* What goes into the checksum of a test: not its parents' checksums.
cksum(p, t) == <<ParentSet(p, t), p.policy[t], p.body[t]>>

\* All that the outcome of a test depends on.
Lineage(p) ==
    LET lineage[t \in Selected(p)] ==
            <<cksum(p, t),
              {<<c, p.config[c], {p.mode[n] : n \in p.nics[c]}>> : c \in p.mentions[t]},
              {lineage[q] : q \in ParentSet(p, t)}>>
    IN  lineage

has_snapshot(c, s) == s \in DOMAIN snaps[c]
has_hypervisor_snapshot(c, s) == has_snapshot(c, s) /\ snaps[c][s].image.taken
Relevant(p, c) == made[c] = Config(p, c) /\ has_snapshot(c, Initial)
NetworkReady(p, n) == nets[n] = p.mode[n]

\* rollback needs the hypervisor's snapshot, and for a machine what make_snapshot
\* returned when it was taken.
CanRestore(c, s) ==
    has_hypervisor_snapshot(c, s) /\ (c \in Machines => snaps[c][s].opaque)

\* The tests whose cache_status is OK.
is_cache_ok(p) ==
    LET valid[t \in Selected(p)] ==
            /\ \A q \in ParentSet(p, t) : valid[q]
            /\ \A n \in get_all_networks(p)[t] : NetworkReady(p, n)
            /\ \A c \in get_all_controllers(p)[t] :
                  /\ Relevant(p, c) /\ has_snapshot(c, t)
                  /\ snaps[c][t].cksum = cksum(p, t)
    IN  {t \in Selected(p) : valid[t]}

\* A launch asks before it goes on without these caches.
is_cache_miss(p) ==
    LET missed[t \in Selected(p)] ==
            \/ \E q \in ParentSet(p, t) : missed[q]
            \/ \E n \in get_all_networks(p)[t] : nets[n] # 0 /\ ~NetworkReady(p, n)
            \/ \E c \in get_all_controllers(p)[t] :
                  /\ made[c] # Nothing /\ has_snapshot(c, t)
                  /\ (snaps[c][t].cksum # cksum(p, t) \/ made[c] # Config(p, c))
    IN  {t \in Selected(p) : t \notin is_cache_ok(p) /\ missed[t]}

\* A snapshot and those taken on top of it.
Subtree(c, s) ==
    {n \in DOMAIN snaps[c] : \A S \in SUBSET DOMAIN snaps[c] :
        (s \in S /\ \A m \in DOMAIN snaps[c] : snaps[c][m].parent \in S => m \in S) => n \in S}

\* (mutant) The snapshots on top stay.
DeleteSnapshotAlone(c, s) == [n \in DOMAIN snaps[c] \ {s} |-> snaps[c][n]]

delete_snapshot_with_children(c, s) ==
    [n \in DOMAIN snaps[c] \ Subtree(c, s) |-> snaps[c][n]]

Run == plan.runs[idx]
Test == Run.test
Policy(t) == prog.policy[t]

is_hypervisor_snapshot_needed(t) ==
    Policy(t) = "always" \/ (Policy(t) = "auto" /\ plan.refs[t] # {})

----------------------------------------------------------------------------
(* init: which tests to run                                                *)

NothingDone ==
    /\ ok' = {} /\ queue' = <<>> /\ pending' = {} /\ idx' = 1 /\ status' = <<>>
    /\ plan' = [stuck |-> FALSE, runs |-> <<>>, refs |-> <<>>]
    /\ cur' = [c \in Controllers |-> ""]
    /\ held' = {}

\* The process is gone, and with it all it knew.
Ended == pc' = "idle" /\ NothingDone

\* The selected tests among names, in the order of their selection.
tests_to_invalidate(p, names) ==
    FoldLeft(LAMBDA found, t : IF t \in names THEN Append(found, t) ELSE found, <<>>, p.tests)

Begin(names) ==
    /\ pc = "idle" /\ launches < MaxLaunches[project]
    /\ launches' = launches + 1
    /\ \E d \in Projects[project] : prog' = setup_tests_parents(d)
    /\ queue' = tests_to_invalidate(prog', names)
    /\ pending' = Controllers
    /\ pc' = "invalidate"
    /\ UNCHANGED <<project, disk, world, ok, plan, idx, status, known, ghosts>>

\* The snapshots of the first test in the queue go, with all those taken on top,
\* from one of its controllers.
DeleteSnapshots(c) ==
    /\ pc \in {"invalidate", "delete"} /\ queue # <<>> /\ c \in pending
    /\ LET t == Head(queue)
       IN  snaps' = IF c \in Controls(t) /\ made[c] # Nothing /\ has_snapshot(c, t)
                    THEN [snaps EXCEPT ![c] = delete_snapshot_with_children(c, t)]
                    ELSE snaps
    /\ queue' = IF pending = {c} THEN Tail(queue) ELSE queue
    /\ pending' = IF pending = {c} THEN Controllers ELSE pending \ {c}
    /\ UNCHANGED <<made, nets, world, launch, pc, ok, plan, idx, status, known, ghosts>>

\* check_cache_missed_tests: the user may not want to lose what is lost.
Decline ==
    /\ pc = "invalidate" /\ queue = <<>> /\ is_cache_miss(prog) # {}
    /\ Ended
    /\ UNCHANGED <<disk, world, launch, ghosts>>

\* (mutant) The snapshots of the uncached tests stay.
CheckCacheOnly ==
    /\ pc = "invalidate" /\ queue = <<>>
    /\ ok' = is_cache_ok(prog)
    /\ pc' = "delete"
    /\ UNCHANGED <<disk, world, launch, queue, pending, plan, idx, status, known, ghosts>>

CheckCache ==
    /\ pc = "invalidate" /\ queue = <<>>
    /\ ok' = is_cache_ok(prog)
    /\ queue' = get_topmost_uncached_tests(prog, ok')
    /\ pc' = "delete"
    /\ UNCHANGED <<disk, world, launch, pending, plan, idx, status, known, ghosts>>

\* (mutant) A record is taken for a hypervisor snapshot.
Recorded(t) == \A c \in Controls(t) : has_snapshot(c, t)

HasHypervisorSnapshots(t) == \A c \in Controls(t) : has_hypervisor_snapshot(c, t)

BuildPlan ==
    /\ pc = "delete" /\ queue = <<>>
    /\ plan' = build_test_plan(prog, ok, {t \in ok : HasHypervisorSnapshots(t)})
    /\ IF plan'.stuck
       THEN pc' = "stuck" /\ UNCHANGED status
       ELSE pc' = "next" /\ status' = [i \in DOMAIN plan'.runs |-> "unknown"]
    /\ UNCHANGED <<disk, world, launch, ok, queue, pending, idx, known, ghosts>>

----------------------------------------------------------------------------
(* visit: the runs, one after another                                      *)

\* The last run of d before the present one did not pass.
DependencyFailed(d) ==
    LET before == {i \in 1 .. idx - 1 : plan.runs[i].test = d}
    IN  before # {} /\ status[Max(before)] # "passed"

SkipTest == \/ \E i \in Run.parents : status[i] # "passed"
            \/ \E d \in ToSet(prog.depends[Test]) : DependencyFailed(d)

\* (mutant) Nothing is dropped.
KeptRefs == plan.refs

\* The next run no longer needs its parents' snapshots, whether it is skipped or
\* not.
RemainingRefs == [t \in DOMAIN plan.refs |->
                    IF t \in ParentSet(prog, Test) THEN plan.refs[t] \ {idx} ELSE plan.refs[t]]

NextRun ==
    /\ pc = "next" /\ idx <= Len(plan.runs)
    /\ plan' = [plan EXCEPT !.refs = RemainingRefs]
    /\ pc' = IF SkipTest THEN "skip" ELSE "restore"
    /\ UNCHANGED <<disk, world, launch, ok, queue, pending, idx, status, known, ghosts>>

\* A hypervisor snapshot of an "auto" parent that no run refers to.
Temporary(q, c) ==
    /\ q \in ParentSet(prog, Test) /\ c \in Controls(q)
    /\ Policy(q) = "auto" /\ plan.refs[q] = {}
    /\ has_hypervisor_snapshot(c, q)

DropTemporary(q, c) ==
    /\ pc \in {"skip", "drop"} /\ Temporary(q, c)
    /\ snaps' = [snaps EXCEPT ![c] = WithRecord(@, q, WithImage(@[q], NoImage))]
    /\ UNCHANGED <<made, nets, world, launch, pc, ok, queue, pending, plan, idx, status, known,
                   ghosts>>

NoTemporary == \A q \in ParentSet(prog, Test), c \in Controllers : ~Temporary(q, c)

\* (mutant) The loop does not go on.
SkippedAgain ==
    /\ pc = "skip" /\ NoTemporary
    /\ status' = [status EXCEPT ![idx] = "skipped"]
    /\ pc' = "next"
    /\ UNCHANGED <<disk, world, launch, ok, queue, pending, plan, idx, known, ghosts>>

Skipped ==
    /\ pc = "skip" /\ NoTemporary
    /\ status' = [status EXCEPT ![idx] = "skipped"]
    /\ idx' = idx + 1 /\ pc' = "next"
    /\ UNCHANGED <<disk, world, launch, ok, queue, pending, plan, known, ghosts>>

----------------------------------------------------------------------------
(* visit_test: the environment of a run                                    *)

\* (mutant) The first parent stands for all.
ToRestoreOfFirst ==
    {x \in ParentSet(prog, Test) \X Controllers :
        x[1] = prog.parents[Test][1] /\ x[2] \in Controls(x[1]) /\ cur[x[2]] # x[1]}

ToRestore == {x \in ParentSet(prog, Test) \X Controllers :
                x[2] \in Controls(x[1]) /\ cur[x[2]] # x[1]}

\* The controller is as snapshot s left it: a machine that was on is suspended.
Restored(c, s) ==
    /\ live' = [live EXCEPT ![c] = snaps[c][s].image.content]
    /\ power' = [power EXCEPT ![c] = IF snaps[c][s].image.on THEN "suspended" ELSE "stopped"]
    /\ keys' = IF snaps[c][s].image.key THEN keys \cup {c} ELSE keys \ {c}
    /\ cur' = [cur EXCEPT ![c] = s]

RestoreParent(q, c) ==
    /\ pc = "restore" /\ <<q, c>> \in ToRestore /\ CanRestore(c, q)
    /\ Restored(c, q)
    /\ UNCHANGED <<disk, launch, pc, ok, queue, pending, plan, idx, status, held, ghosts>>

\* The exception of a failed rollback ends the launch.
RestoreThrows ==
    /\ pc = "restore" /\ \E x \in ToRestore : ~CanRestore(x[2], x[1])
    /\ Ended
    /\ UNCHANGED <<disk, world, launch, ghosts>>

ParentsRestored ==
    /\ pc = "restore" /\ ToRestore = {}
    /\ pc' = "networks"
    /\ UNCHANGED <<disk, world, launch, ok, queue, pending, plan, idx, status, known,
                   ghosts>>

CreateNetwork(n) ==
    /\ pc = "networks" /\ n \in get_all_networks(prog)[Test] /\ ~NetworkReady(prog, n)
    /\ nets' = [nets EXCEPT ![n] = prog.mode[n]]
    /\ UNCHANGED <<made, snaps, world, launch, pc, ok, queue, pending, plan, idx, status,
                   known, ghosts>>

NetworksCreated ==
    /\ pc = "networks" /\ \A n \in get_all_networks(prog)[Test] : NetworkReady(prog, n)
    /\ pending' = Controls(Test) \ Inherited(Test)
    /\ pc' = "install"
    /\ UNCHANGED <<disk, world, launch, ok, queue, plan, idx, status, known, ghosts>>

\* A controller no parent uses goes back to its initial snapshot, or is created.
InstallController(c) ==
    /\ pc = "install" /\ c \in pending
    /\ pending' = pending \ {c}
    /\ IF Relevant(prog, c)
       THEN Restored(c, Initial) /\ UNCHANGED disk
       ELSE /\ made' = [made EXCEPT ![c] = Config(prog, c)]
            /\ snaps' = [snaps EXCEPT ![c] =
                  [s \in {Initial} |-> Record(<<>>, "", Image(Fresh, FALSE, FALSE), c \in Machines)]]
            /\ live' = [live EXCEPT ![c] = Fresh]
            /\ power' = [power EXCEPT ![c] = "stopped"]
            /\ keys' = keys \ {c}
            /\ cur' = [cur EXCEPT ![c] = Initial]
            /\ UNCHANGED nets
    /\ UNCHANGED <<launch, pc, ok, queue, plan, idx, status, held, ghosts>>

ResumeParents ==
    /\ pc = "install" /\ pending = {}
    /\ power' = [c \in Controllers |-> IF c \in Inherited(Test) /\ power[c] = "suspended"
                                       THEN "running" ELSE power[c]]
    /\ pc' = "commands"
    /\ UNCHANGED <<disk, live, keys, launch, ok, queue, pending, plan, idx, status, known,
                   ghosts>>

----------------------------------------------------------------------------
(* visit_test: the commands and what follows                               *)

\* stop_all_vms forgets the state of the machines, not that of the flash drives, and
\* not the key it takes for held.
Stopped(t) ==
    /\ keys' = keys \ Controls(t)
    /\ power' = [c \in Controllers |-> IF c \in Controls(t) THEN "stopped" ELSE power[c]]
    /\ cur' = [c \in Controllers |-> IF c \in Controls(t) \cap Machines THEN "" ELSE cur[c]]

MachinesOf(t) == Controls(t) \cap Machines
Holds(t) == <<t, prog.body[t]>> \in Holders
Forgets(t) == <<t, prog.body[t]>> \in Forgetful

\* A key held already cannot be held.
HoldRefused(t) == Holds(t) /\ MachinesOf(t) \cap held # {}

\* The commands change every controller; then running machines are suspended.
CommandsPass(on) ==
    /\ pc = "commands" /\ (~on => Test \in PoweredOff) /\ ~HoldRefused(Test)
    /\ LET found == {<<c, live[c]>> : c \in Controls(Test)}
       IN  live' = [c \in Controllers |-> IF c \in Controls(Test)
                                          THEN Made(cksum(prog, Test), found) ELSE live[c]]
    /\ power' = [c \in Controllers |-> IF c \in MachinesOf(Test)
                                       THEN IF on THEN "suspended" ELSE "stopped"
                                       ELSE power[c]]
    /\ held' = IF Forgets(Test) THEN held \cup MachinesOf(Test) ELSE held
    /\ keys' = IF ~on THEN keys \ MachinesOf(Test)
               ELSE IF Forgets(Test) THEN keys \cup MachinesOf(Test) ELSE keys
    /\ left' = [left EXCEPT ![Test] = [c \in Controls(Test) |->
                             Image(live'[c], power'[c] # "stopped", c \in keys')]]
    /\ passed' = passed \cup {<<Test, Lineage(prog)[Test]>>}
    /\ pc' = "drop"
    /\ UNCHANGED <<disk, launch, ok, queue, pending, plan, idx, status, cur>>

\* An action fails, between the hold and the release or not.
CommandsFail ==
    /\ pc = "commands"
    /\ Test \in Failing \/ HoldRefused(Test)
    /\ live' = [c \in Controllers |-> IF c \in Controls(Test) THEN Dirty ELSE live[c]]
    /\ Stopped(Test)
    /\ held' \in {held, IF Holds(Test) THEN held \cup MachinesOf(Test) ELSE held}
    /\ status' = [status EXCEPT ![idx] = "failed"]
    /\ idx' = idx + 1 /\ pc' = "next"
    /\ UNCHANGED <<disk, launch, ok, queue, pending, plan, ghosts>>

TemporariesDropped ==
    /\ pc = "drop" /\ NoTemporary
    /\ pending' = Controls(Test)
    /\ pc' = "snapshot"
    /\ UNCHANGED <<disk, world, launch, ok, queue, plan, idx, status, known, ghosts>>

\* What create_snapshot makes of the snapshots of c: one of the same checksum
\* regains its hypervisor part (what the hypervisor returned goes to the main file),
\* one of another checksum is deleted first.
create_snapshot(c, t, needed) ==
    LET image == IF needed THEN Image(live[c], power[c] # "stopped", c \in keys) ELSE NoImage
        record == Record(cksum(prog, t), cur[c], image, needed /\ c \in Machines)
    IN  IF ~has_snapshot(c, t) THEN WithRecord(snaps[c], t, record)
        ELSE IF snaps[c][t].cksum = cksum(prog, t)
             THEN WithRecord(snaps[c], t, WithImage(snaps[c][t], image))
             ELSE WithRecord(delete_snapshot_with_children(c, t), t, record)

\* (mutant) The controller is not known to have moved on.
TakeSnapshotOnly(c) ==
    /\ pc = "snapshot" /\ c \in pending
    /\ pending' = pending \ {c}
    /\ snaps' = [snaps EXCEPT ![c] = create_snapshot(c, Test,
                                                     is_hypervisor_snapshot_needed(Test))]
    /\ UNCHANGED <<made, nets, world, launch, pc, ok, queue, plan, idx, status, known, ghosts>>

\* (mutant) Nobody looks at the keys.
Ignored(c) == FALSE

\* create_snapshot refuses a machine with a key it takes for held.
KeyHeld(c) == c \in held

\* A snapshot that is there is kept, whatever its checksum.
Kept(c) == has_snapshot(c, Test)
           /\ (is_hypervisor_snapshot_needed(Test) => has_hypervisor_snapshot(c, Test))

\* The machines first.
TakeSnapshot(c) ==
    /\ pc = "snapshot" /\ c \in pending
    /\ c \in Machines \/ pending \cap Machines = {}
    /\ Kept(c) \/ ~KeyHeld(c)
    /\ pending' = pending \ {c}
    /\ snaps' = IF Kept(c) THEN snaps
                ELSE [snaps EXCEPT ![c] = create_snapshot(c, Test,
                                                          is_hypervisor_snapshot_needed(Test))]
    /\ cur' = [cur EXCEPT ![c] = Test]
    /\ UNCHANGED <<made, nets, world, launch, pc, ok, queue, plan, idx, status, held, ghosts>>

\* The exception of create_snapshot is not one of a failed action: it ends the launch.
SnapshotThrows ==
    /\ pc = "snapshot" /\ \E c \in pending : ~Kept(c) /\ KeyHeld(c)
    /\ Ended
    /\ UNCHANGED <<disk, world, launch, ghosts>>

\* (mutant) A machine whose test has passed is never in the way.
Welcome == TRUE

\* A later run follows this one.
Followed == \E i \in idx .. Len(plan.runs) : idx \in plan.runs[i].parents

\* The machines stay suspended only for a run that will follow.
Passed ==
    /\ pc = "snapshot" /\ pending = {}
    /\ status' = [status EXCEPT ![idx] = "passed"]
    /\ IF Followed
       THEN UNCHANGED <<power, keys, cur>>
       ELSE Stopped(Test)
    /\ idx' = idx + 1 /\ pc' = "next"
    /\ UNCHANGED <<disk, live, launch, ok, queue, pending, plan, held, ghosts>>

----------------------------------------------------------------------------
(* The end of a launch                                                     *)

Finish ==
    /\ pc = "next" /\ idx > Len(plan.runs)
    /\ pc' = "finished"
    /\ UNCHANGED <<disk, world, launch, ok, queue, pending, plan, idx, status, known,
                   ghosts>>

Exit ==
    /\ pc \in {"finished", "stuck"}
    /\ Ended
    /\ UNCHANGED <<disk, world, launch, ghosts>>

\* The commands were under way: machines that any of them may have turned on or off,
\* the key down in those that are on or not.
CutShort(on, down) ==
    /\ pc = "commands" /\ (down => on /\ Holds(Test))
    /\ live' = [c \in Controllers |-> IF c \in Controls(Test) THEN Dirty ELSE live[c]]
    /\ power' = [c \in Controllers |-> IF c \in MachinesOf(Test)
                                       THEN IF on THEN "running" ELSE "stopped"
                                       ELSE power[c]]
    /\ keys' = IF down THEN keys \cup MachinesOf(Test)
               ELSE IF on THEN keys ELSE keys \ MachinesOf(Test)

\* A signal, --stop_on_fail after a failure, --dry before the first run, or any other
\* exception.
Kill ==
    /\ pc \in Kills
    /\ Ended
    /\ \/ pc # "commands" /\ UNCHANGED world
       \/ \E on, down \in BOOLEAN : CutShort(on, down)
    /\ UNCHANGED <<disk, launch, ghosts>>

\* testo clean: everything with the prefix of the project goes, but for what cannot
\* be removed.
Clean(kept) ==
    /\ pc = "idle" /\ launches < MaxLaunches[project]
    /\ launches' = launches + 1
    /\ made' = [c \in Controllers |-> IF c \in kept THEN made[c] ELSE Nothing]
    /\ nets' = [n \in Networks |-> IF n \in kept THEN nets[n] ELSE 0]
    /\ snaps' = [c \in Controllers |-> IF c \in kept THEN snaps[c] ELSE <<>>]
    /\ live' = [c \in Controllers |-> IF c \in kept THEN live[c] ELSE Fresh]
    /\ power' = [c \in Controllers |-> IF c \in kept THEN power[c] ELSE "stopped"]
    /\ keys' = keys \cap kept
    /\ UNCHANGED <<project, prog, pc, ok, queue, pending, plan, idx, status, known, ghosts>>

----------------------------------------------------------------------------

Init ==
    /\ project \in DOMAIN Projects
    /\ made = [c \in Controllers |-> Nothing] /\ nets = [n \in Networks |-> 0]
    /\ snaps = [c \in Controllers |-> <<>>]
    /\ live = [c \in Controllers |-> Fresh]
    /\ power = [c \in Controllers |-> "stopped"]
    /\ launches = 0
    /\ prog = setup_tests_parents(CHOOSE d \in Projects[project] : TRUE)
    /\ pc = "idle" /\ ok = {} /\ queue = <<>> /\ pending = {} /\ idx = 1 /\ status = <<>>
    /\ plan = [stuck |-> FALSE, runs |-> <<>>, refs |-> <<>>]
    /\ cur = [c \in Controllers |-> ""]
    /\ keys = {} /\ held = {}
    /\ left = [t \in Names |-> <<>>]
    /\ passed = {}

Prepare ==
    \/ \E c \in Controllers : DeleteSnapshots(c)
    \/ Decline
    \/ CheckCache
    \/ BuildPlan

Visit ==
    \/ NextRun
    \/ \E q \in Names, c \in Controllers : DropTemporary(q, c)
    \/ Skipped
    \/ \E q \in Names, c \in Controllers : RestoreParent(q, c)
    \/ RestoreThrows
    \/ ParentsRestored
    \/ \E n \in Networks : CreateNetwork(n)
    \/ NetworksCreated
    \/ \E c \in Controllers : InstallController(c)
    \/ ResumeParents
    \/ \E on \in BOOLEAN : CommandsPass(on)
    \/ CommandsFail
    \/ TemporariesDropped
    \/ \E c \in Controllers : TakeSnapshot(c)
    \/ SnapshotThrows
    \/ Passed
    \/ Finish
    \/ Exit

Next ==
    \/ \E names \in Invalidated : Begin(names)
    \/ \E kept \in Uncleaned : Clean(kept)
    \/ Prepare
    \/ Visit
    \/ Kill

\* The step BuildPlan takes, without the plan: TLC decides at once whether it can be
\* taken.
Plans == pc = "delete" /\ queue = <<>> /\ pc' \in {"stuck", "next"}

\* The interpreter is one thread that goes on as long as it can; nothing makes the
\* user start a launch or kill one.
Spec ==
    /\ Init /\ [][Next]_vars
    /\ WF_vars(\E c \in Controllers : DeleteSnapshots(c))
    /\ WF_vars(Decline \/ CheckCache)
    /\ WF_pc(Plans)
    /\ WF_vars(Visit)

----------------------------------------------------------------------------
(* Properties                                                              *)

TypeOK ==
    /\ pc \in Points \cup {"idle", "finished", "stuck"}
    /\ power \in [Controllers -> {"stopped", "running", "suspended"}]
    /\ \A c \in Controllers \ Machines : power[c] = "stopped"
    /\ cur \in [Controllers -> Names \cup {Initial, ""}]
    /\ \A c \in Controllers :
          /\ DOMAIN snaps[c] \subseteq Names \cup {Initial}
          /\ \A s \in DOMAIN snaps[c] :
                snaps[c][s].parent \in DOMAIN snaps[c] \cup {""}
    /\ keys \subseteq Machines /\ held \subseteq Machines
    /\ ok \subseteq Selected(prog) /\ pending \subseteq Controllers
    /\ DOMAIN status = DOMAIN plan.runs
    /\ \A i \in DOMAIN status :
          status[i] \in {"unknown", "passed", "failed", "skipped"}
          /\ (status[i] = "unknown" <=> i >= idx)

\* A test is not run again only if it has passed before exactly as it is now: the
\* same body, policy and parents, on top of parents of which the same is true
\* (docs/reference/Tests.md:105, "Validating the test cache").
CacheSound == \A t \in ok : <<t, Lineage(prog)[t]>> \in passed

\* When the commands of a run start, the controllers it shares with a parent are as
\* the last passed run of that parent left them, machines that were left on are
\* running, and the others are as good as new ("reverts them to the states they
\* were at the end of the parental tests", docs/reference/Tests.md:135).
EnvironmentIsRight ==
    pc = "commands" =>
        /\ \A q \in ParentSet(prog, Test) : \A c \in Controls(q) :
              /\ live[c] = left[q][c].content
              /\ c \in Machines => power[c] = IF left[q][c].on THEN "running" ELSE "stopped"
        /\ \A c \in Controls(Test) \ Inherited(Test) : live[c] = Fresh

\* No test starts in a machine in which a key is still down, neither from a test that
\* failed nor through a snapshot ("You can't finish a test with any keys being held",
\* docs/reference/Actions.md:108).
KeysUp == pc = "commands" => keys \cap MachinesOf(Test) = {}

\* Whatever the plan decided to restore can be restored.
RestoreSucceeds == pc = "restore" => \A x \in ToRestore : CanRestore(x[2], x[1])

\* "If the tests are run one more time after that, the run will complete instantly,
\* because all the tests are cached now" (docs/reference/Tests.md:184): the tests
\* that passed in a launch that finishes are up to date for the next.
CacheUpdated ==
    pc = "finished" =>
        \A t \in Selected(prog) :
            (\A u \in Selected(prog) : t \in Subtrees(prog)[u] =>
                \A i \in DOMAIN status : plan.runs[i].test = u => status[i] = "passed")
            => t \in is_cache_ok(prog)

\* "After the end of running all the tests this option behaves exactly the same as
\* never option" (docs/reference/Tests.md:210): no hypervisor snapshot of an "auto"
\* test outlives the launch.
NoTemporaryLeft ==
    pc = "finished" =>
        \A t \in Selected(prog) : Policy(t) = "auto" =>
            \A c \in Controls(t) : ~has_hypervisor_snapshot(c, t)

\* "VMS should be stopped if we don't need them anymore"
\* (visitors/VisitorInterpreter.cpp:349): none is left on by a launch that finishes.
MachinesStopped ==
    pc = "finished" =>
        \A t \in Selected(prog) : (\E i \in DOMAIN status : plan.runs[i].test = t) =>
            \A c \in Controls(t) : power[c] = "stopped"

\* Every launch ends, whatever it finds on the disk.
LaunchEnds == pc # "idle" ~> pc = "idle"

=============================================================================
