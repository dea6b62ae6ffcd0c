--------------------------- MODULE SnapshotStore ---------------------------
(***************************************************************************)
(* The snapshots of ONE controller (a virtual machine or a virtual flash   *)
(* drive) as they are kept on disk between launches: a metadata directory  *)
(* with a main file and one JSON file per snapshot, and the snapshots the  *)
(* hypervisor holds.  Source: IR/Controller.cpp, IR/Machine.cpp,           *)
(* IR/FlashDrive.cpp and the calls visitors/VisitorInterpreter.cpp makes   *)
(* on a controller.                                                        *)
(*                                                                         *)
(* Every step is one write of one file or one hypervisor call, so that the *)
(* process may die between any two of them.  What the process keeps in     *)
(* memory (cur ... stack) is lost when it does.                            *)
(***************************************************************************)
EXTENDS Integers, Sequences

CONSTANTS
    Tests,       \* names of the tests, each the name of a snapshot too
    Initial,     \* the snapshot "_init" taken right after a creation
    None,        \* the empty string: no parent, no current state
    Cksums,      \* the checksums a test can have in different launches
    Parents,     \* the names a test can have been run on top of, per test
    IsMachine,   \* a Machine (TRUE) or a FlashDrive (FALSE)
    TornWrites,  \* whether dying in a write can leave a truncated file
    CrashPoints, \* the program points at which the process may die
    EditPhases,  \* when the configuration, or a file it names, may change
    MaxLinks     \* bound on the occurrences of a child in a children array

Names == Tests \cup {Initial}

DeletePoints == {"children", "hyp", "unlink", "remove"}
TakePoints   == {"mkhyp", "remake", "write", "link", "setmain"}
CreatePoints == {"undefine", "rmtree", "install", "main"}
Points       == {"idle"} \cup TakePoints \cup CreatePoints \cup DeletePoints

ASSUME NamesAssumption == Initial \notin Tests /\ None \notin Names
ASSUME ParentsAssumption == 
    /\ Parents \in [Tests -> SUBSET Names]
    /\ \A t \in Tests : t \notin Parents[t]
ASSUME CksumsAssumption == None \notin Cksums
ASSUME FlagsAssumption == IsMachine \in BOOLEAN /\ TornWrites \in BOOLEAN
ASSUME CrashAssumption == CrashPoints \subseteq Points
ASSUME EditAssumption == EditPhases \subseteq {"plan", "run"}
ASSUME MaxLinksAssumption == MaxLinks \in Nat /\ MaxLinks >= 1

VARIABLES
    domain,  \* the hypervisor knows the machine (or the flash drive image)
    main,    \* the main metadata file: "absent", "ok" or "corrupt"
    stale,   \* the configuration differs from the one in the main file
    file,    \* the metadata file of each snapshot: "absent", "ok", "corrupt"
    meta,    \* its contents, meaningful when file is "ok"
    hyp,     \* the snapshots the hypervisor holds
    base,    \* their parents in the hypervisor's own snapshot tree
    at,      \* the hypervisor's current snapshot
    cur,     \* Controller::current_state
    phase,   \* "plan" (invalidation and planning) or "run"
    trusted, \* the controller passed the cache check, or was created since
    pc,      \* what to do once the deletion on the stack, if any, returns
    arg,     \* the arguments of the create_snapshot call in progress
    stack    \* the activations of delete_snapshot_with_children

disk == <<domain, main, stale, file, meta, hyp, base, at>>
memory == <<cur, phase, trusted, pc, arg, stack>>
vars == <<domain, main, stale, file, meta, hyp, base, at,
          cur, phase, trusted, pc, arg, stack>>

FileState == {"absent", "ok", "corrupt"}
Bag == [Names -> 0 .. MaxLinks]
EmptyBag == [n \in Names |-> 0]

Record == [cksum : Cksums \cup {None}, parent : Names \cup {None},
           children : Bag, opaque : BOOLEAN]
Blank == [cksum |-> None, parent |-> None, children |-> EmptyBag,
          opaque |-> FALSE]

Argument == [snap : Names, cksum : Cksums \cup {None}, needed : BOOLEAN]
NoArgument == [snap |-> Initial, cksum |-> None, needed |-> FALSE]

Frame == [name : Names, parent : Names \cup {None}, todo : Bag,
          at : DeletePoints]

----------------------------------------------------------------------------
(* Reading the store *)

is_defined == domain /\ main # "absent"

\* has_snapshot(s): the file exists and parses.
Readable(s) == file[s] = "ok"

\* has_snapshot(s, hypervisor_snapshot_needed)
has_snapshot(s, needed) == Readable(s) /\ (needed => s \in hyp)

Top == stack[Len(stack)]
Point == IF stack = <<>> THEN pc ELSE Top.at
Idle == stack = <<>> /\ pc = "idle"

\* The snapshots taken on top of s in the hypervisor's tree, s included.
Above(s) == {n \in hyp : \A S \in SUBSET hyp :
                 (s \in S /\ \A m \in hyp : base[m] \in S => m \in S) => n \in S}

----------------------------------------------------------------------------
(* Changing the store *)

\* The hypervisor takes snapshot s of the current state; a machine first
\* destroys a snapshot of that name together with those taken on top of it, in
\* the same step.
MakeSnapshot(s) ==
    LET gone == IF IsMachine /\ s \in hyp THEN Above(s) ELSE {}
    IN  IF IsMachine
        THEN /\ hyp' = (hyp \ gone) \cup {s}
             /\ base' = [n \in Names |-> IF n = s
                                         THEN IF at \in gone THEN base[s] ELSE at
                                         ELSE IF n \in gone THEN None ELSE base[n]]
             /\ at' = s
        ELSE hyp' = hyp \cup {s} /\ UNCHANGED <<base, at>>

\* The hypervisor forgets snapshot s; its tree closes over the gap.
DestroySnapshot(s) ==
    /\ hyp' = hyp \ {s}
    /\ base' = [n \in Names |-> IF n = s THEN None
                                ELSE IF base[n] = s THEN base[s] ELSE base[n]]
    /\ at' = IF at = s THEN base[s] ELSE at

NewFrame(s) == [name |-> s, parent |-> meta[s].parent,
                todo |-> meta[s].children, at |-> "children"]

Enter(s) == Append(stack, NewFrame(s))
Leave == SubSeq(stack, 1, Len(stack) - 1)
Replace(f) == [stack EXCEPT ![Len(stack)] = f]
Goto(point) == Replace([Top EXCEPT !.at = point])
Without(c) == [Top EXCEPT !.todo[c] = @ - 1]
Visit(c) == Append(Replace(Without(c)), NewFrame(c))

\* The process ends, normally or not; the next launch starts planning.
Restart ==
    /\ cur' = None /\ phase' = "plan" /\ trusted' = FALSE /\ pc' = "idle"
    /\ arg' = NoArgument /\ stack' = <<>>

----------------------------------------------------------------------------
(* delete_snapshot_with_children, one step per recursive call, hypervisor  *)
(* call and file operation                                                 *)

\* invalidate_tests and build_test_plan ask for the deletion of a test.
Invalidate(s) ==
    /\ Idle /\ phase = "plan"
    /\ is_defined /\ Readable(s)
    /\ stack' = Enter(s)
    /\ UNCHANGED <<disk, cur, phase, trusted, pc, arg>>

VisitChild(c) ==
    /\ stack # <<>> /\ Top.at = "children" /\ Top.todo[c] > 0
    /\ Readable(c)
    /\ stack' = Visit(c)
    /\ UNCHANGED <<disk, cur, phase, trusted, pc, arg>>

\* The metadata of a listed child cannot be read: the exception ends the
\* launch.
VisitChildThrows ==
    /\ stack # <<>> /\ Top.at = "children"
    /\ \E c \in Names : Top.todo[c] > 0 /\ ~Readable(c)
    /\ Restart
    /\ UNCHANGED disk

\* Mutant: a snapshot goes before the snapshots taken on top of it.
ChildrenDoneTooEarly ==
    /\ stack # <<>> /\ Top.at = "children"
    /\ stack' = Goto("hyp")
    /\ UNCHANGED <<disk, cur, phase, trusted, pc, arg>>

ChildrenDone ==
    /\ stack # <<>> /\ Top.at = "children" /\ Top.todo = EmptyBag
    /\ stack' = Goto("hyp")
    /\ UNCHANGED <<disk, cur, phase, trusted, pc, arg>>

DeleteHypervisorSnapshot ==
    /\ stack # <<>> /\ Top.at = "hyp"
    /\ IF Top.name \in hyp
       THEN DestroySnapshot(Top.name)
       ELSE UNCHANGED <<hyp, base, at>>
    /\ stack' = Goto("unlink")
    /\ UNCHANGED <<domain, main, stale, file, meta, cur, phase, trusted, pc, arg>>

\* Mutant: the search for s in the parent's children array always succeeds.
WithoutChildUnsearched(p, s) == [meta EXCEPT ![p].children[s] = @ - 1]

\* The first occurrence of s disappears from the parent's children array.
WithoutChild(p, s) ==
    [meta EXCEPT ![p].children[s] = IF @ > 0 THEN @ - 1 ELSE 0]

\* Mutant: the parent keeps listing the deleted snapshot.
UnlinkParentForgotten ==
    /\ stack # <<>> /\ Top.at = "unlink"
    /\ stack' = Goto("remove")
    /\ UNCHANGED <<domain, main, stale, file, meta, hyp, base, at,
                   cur, phase, trusted, pc, arg>>

\* A parent that cannot be read only causes a warning.
UnlinkParent ==
    /\ stack # <<>> /\ Top.at = "unlink"
    /\ IF Top.parent # None /\ Readable(Top.parent)
       THEN meta' = WithoutChild(Top.parent, Top.name)
       ELSE UNCHANGED meta
    /\ stack' = Goto("remove")
    /\ UNCHANGED <<domain, main, stale, file, hyp, base, at, cur, phase, trusted, pc, arg>>

RemoveFile ==
    /\ stack # <<>> /\ Top.at = "remove"
    /\ file' = [file EXCEPT ![Top.name] = "absent"]
    /\ meta' = [meta EXCEPT ![Top.name] = Blank]
    /\ stack' = Leave
    /\ UNCHANGED <<domain, main, stale, hyp, base, at, cur, phase, trusted, pc, arg>>

Delete ==
    \/ \E s \in Tests : Invalidate(s)
    \/ \E c \in Names : VisitChild(c)
    \/ VisitChildThrows
    \/ ChildrenDone
    \/ DeleteHypervisorSnapshot
    \/ UnlinkParent
    \/ RemoveFile

----------------------------------------------------------------------------
(* create_snapshot, called at the end of a passed test                     *)

\* create_all_controllers_snapshots finds the snapshot it wants, whatever the
\* checksum it was taken with, and keeps it.
KeepSnapshot(s) ==
    /\ Idle /\ phase = "run" /\ is_defined /\ cur \in Parents[s]
    /\ \E needed \in BOOLEAN : has_snapshot(s, needed)
    /\ cur' = s
    /\ UNCHANGED <<disk, phase, trusted, pc, arg, stack>>

\* Mutant: a snapshot of another checksum is overwritten, not deleted.
TakeSnapshotOver(s, c, needed) ==
    /\ Idle /\ phase = "run" /\ is_defined /\ cur \in Parents[s]
    /\ ~has_snapshot(s, needed)
    /\ arg' = [snap |-> s, cksum |-> c, needed |-> needed]
    /\ pc' = IF Readable(s) /\ meta[s].cksum = c
             THEN "remake" ELSE IF needed THEN "mkhyp" ELSE "write"
    /\ UNCHANGED <<disk, cur, phase, trusted, stack>>

\* A readable snapshot of the same checksum only lacks its hypervisor part; one
\* of another checksum is deleted with its children first.
TakeSnapshot(s, c, needed) ==
    /\ Idle /\ phase = "run" /\ is_defined /\ cur \in Parents[s]
    /\ ~has_snapshot(s, needed)
    /\ arg' = [snap |-> s, cksum |-> c, needed |-> needed]
    /\ LET same == Readable(s) /\ meta[s].cksum = c
       IN  /\ pc' = IF same THEN "remake" ELSE IF needed THEN "mkhyp" ELSE "write"
           /\ stack' = IF Readable(s) /\ ~same THEN Enter(s) ELSE stack
    /\ UNCHANGED <<disk, cur, phase, trusted>>

\* The call returns and the interpreter notes the controller's new state.
Return ==
    /\ pc' = "idle" /\ cur' = arg.snap /\ arg' = NoArgument

MakeHypervisorSnapshot ==
    /\ stack = <<>> /\ pc = "mkhyp"
    /\ MakeSnapshot(arg.snap)
    /\ pc' = "write"
    /\ UNCHANGED <<domain, main, stale, file, meta, cur, phase, trusted, arg, stack>>

\* For an unchanged checksum a machine goes on to store the result.
RemakeHypervisorSnapshot ==
    /\ stack = <<>> /\ pc = "remake"
    /\ MakeSnapshot(arg.snap)
    /\ IF IsMachine THEN pc' = "setmain" /\ UNCHANGED <<cur, arg>> ELSE Return
    /\ UNCHANGED <<domain, main, stale, file, meta, phase, trusted, stack>>

\* set_metadata("opaque", ...) stores it in the MAIN file, so the snapshot's
\* own record keeps the opaque value it had.
SetMain ==
    /\ stack = <<>> /\ pc = "setmain" /\ main = "ok"
    /\ Return
    /\ UNCHANGED <<disk, phase, trusted, stack>>

\* Mutant: the controller's state is noted before the parent is linked.
WriteRecordNotingState ==
    /\ stack = <<>> /\ pc = "write"
    /\ cur' = arg.snap
    /\ file' = [file EXCEPT ![arg.snap] = "ok"]
    /\ meta' = [meta EXCEPT ![arg.snap] =
                   [cksum |-> arg.cksum, parent |-> cur', children |-> EmptyBag,
                    opaque |-> IsMachine /\ arg.needed]]
    /\ pc' = "link"
    /\ UNCHANGED <<domain, main, stale, hyp, base, at, phase, trusted, arg, stack>>

WriteRecord ==
    /\ stack = <<>> /\ pc = "write"
    /\ file' = [file EXCEPT ![arg.snap] = "ok"]
    /\ meta' = [meta EXCEPT ![arg.snap] =
                   [cksum |-> arg.cksum, parent |-> cur, children |-> EmptyBag,
                    opaque |-> IsMachine /\ arg.needed]]
    /\ pc' = "link"
    /\ UNCHANGED <<domain, main, stale, hyp, base, at, cur, phase, trusted, arg, stack>>

\* s is appended to the parent's children array.
WithChild(p, s) == [meta EXCEPT ![p].children[s] = @ + 1]

LinkParent ==
    /\ stack = <<>> /\ pc = "link"
    /\ IF cur = None
       THEN UNCHANGED meta
       ELSE /\ Readable(cur) /\ meta[cur].children[arg.snap] < MaxLinks
            /\ meta' = WithChild(cur, arg.snap)
    /\ Return
    /\ UNCHANGED <<domain, main, stale, file, hyp, base, at, phase, trusted, stack>>

\* The parent's record is missing: the exception ends the launch.
LinkParentThrows ==
    /\ stack = <<>> /\ pc = "link" /\ cur # None /\ ~Readable(cur)
    /\ Restart
    /\ UNCHANGED disk

Take ==
    \/ \E s \in Tests : KeepSnapshot(s)
    \/ \E s \in Tests, c \in Cksums, needed \in BOOLEAN : TakeSnapshot(s, c, needed)
    \/ MakeHypervisorSnapshot
    \/ RemakeHypervisorSnapshot
    \/ SetMain
    \/ WriteRecord
    \/ LinkParent
    \/ LinkParentThrows

----------------------------------------------------------------------------
(* install_new_controllers_if_needed: the initial snapshot is restored, or *)
(* the controller is created anew and its initial snapshot is taken        *)

Relevant == is_defined /\ Readable(Initial) /\ ~stale

\* What restore_snapshot needs in order not to throw.
CanRestore(s) ==
    /\ is_defined /\ s \in hyp
    /\ IsMachine => Readable(s) /\ meta[s].opaque

\* The interpreter restores "_init" when it finds the controller unchanged, and
\* a parent test which the cache check accepted or which has just passed.
RestoreSnapshot(s) ==
    /\ Idle /\ phase = "run"
    /\ IF s = Initial THEN Relevant /\ main = "ok" ELSE trusted /\ Readable(s)
    /\ CanRestore(s) /\ cur # s
    /\ cur' = s /\ trusted' = TRUE
    /\ at' = IF IsMachine THEN s ELSE at
    /\ UNCHANGED <<domain, main, stale, file, meta, hyp, base, phase, pc, arg, stack>>

\* create() begins with undefine(), which for a flash drive deletes the
\* snapshots one by one.
CreateController ==
    /\ Idle /\ phase = "run" /\ ~Relevant
    /\ is_defined /\ Readable(Initial) => main = "ok"
    /\ pc' = IF domain THEN "undefine" ELSE "rmtree"
    /\ stack' = IF domain /\ ~IsMachine /\ Readable(Initial)
                THEN Enter(Initial) ELSE stack
    /\ UNCHANGED <<disk, cur, phase, trusted, arg>>

\* The machine is stopped, its snapshots and disks go and the hypervisor forgets it:
\* one step, as no property depends on what lies between.
Undefine ==
    /\ stack = <<>> /\ pc = "undefine"
    /\ domain' = FALSE /\ hyp' = {} /\ at' = None
    /\ base' = [n \in Names |-> None]
    /\ pc' = "rmtree"
    /\ UNCHANGED <<main, stale, file, meta, cur, phase, trusted, arg, stack>>

\* Mutant: the main file goes, the records of snapshots stay.
RemoveMainFile ==
    /\ stack = <<>> /\ pc = "rmtree"
    /\ main' = "absent"
    /\ pc' = "install"
    /\ UNCHANGED <<domain, stale, file, meta, hyp, base, at, cur, phase, trusted, arg, stack>>

RemoveTree ==
    /\ stack = <<>> /\ pc = "rmtree"
    /\ main' = "absent"
    /\ file' = [n \in Names |-> "absent"]
    /\ meta' = [n \in Names |-> Blank]
    /\ pc' = "install"
    /\ UNCHANGED <<domain, stale, hyp, base, at, cur, phase, trusted, arg, stack>>

Install ==
    /\ stack = <<>> /\ pc = "install"
    /\ domain' = TRUE /\ pc' = "main"
    /\ UNCHANGED <<main, stale, file, meta, hyp, base, at, cur, phase, trusted, arg, stack>>

\* The main file is written last; create_snapshot("_init", "", true) follows.
WriteMain ==
    /\ stack = <<>> /\ pc = "main"
    /\ main' = "ok" /\ stale' = FALSE /\ trusted' = TRUE
    /\ arg' = [snap |-> Initial, cksum |-> None, needed |-> TRUE]
    /\ pc' = "mkhyp"
    /\ UNCHANGED <<domain, file, meta, hyp, base, at, cur, phase, stack>>

Create ==
    \/ \E s \in Names : RestoreSnapshot(s)
    \/ CreateController
    \/ Undefine
    \/ RemoveTree
    \/ Install
    \/ WriteMain

----------------------------------------------------------------------------
(* The launch around the calls                                             *)

\* Mutant: the configuration is not compared with the one in the main file.
StartRunningUnchecked ==
    /\ Idle /\ phase = "plan"
    /\ is_defined /\ Readable(Initial) => main = "ok"
    /\ phase' = "run" /\ trusted' = (is_defined /\ Readable(Initial))
    /\ UNCHANGED <<disk, cur, pc, arg, stack>>

\* Evaluating the cache reads the main file of a defined controller.
StartRunning ==
    /\ Idle /\ phase = "plan"
    /\ is_defined /\ Readable(Initial) => main = "ok"
    /\ phase' = "run" /\ trusted' = Relevant
    /\ UNCHANGED <<disk, cur, pc, arg, stack>>

\* The temporary hypervisor snapshot of an "auto" test is not needed any more.
DeleteTemporary(s) ==
    /\ Idle /\ phase = "run" /\ is_defined /\ s \in hyp
    /\ DestroySnapshot(s)
    /\ UNCHANGED <<domain, main, stale, file, meta, cur, phase, trusted, pc, arg, stack>>

\* stop_all_vms forgets the state of a machine, never that of a flash drive.
StopMachine ==
    /\ Idle /\ phase = "run" /\ IsMachine /\ is_defined /\ cur # None
    /\ cur' = None
    /\ UNCHANGED <<disk, phase, trusted, pc, arg, stack>>

\* The user edits the controller's declaration, or the contents of a file or
\* folder it names; only the latter can matter while tests are running.
EditConfig ==
    /\ Idle /\ phase \in EditPhases /\ main # "absent"
    /\ stale' = ~stale
    /\ UNCHANGED <<domain, main, file, meta, hyp, base, at, memory>>

EndLaunch ==
    /\ Idle /\ phase = "run"
    /\ Restart
    /\ UNCHANGED disk

\* The process dies (a signal, an exception of the hypervisor) before the
\* next step, or inside remove_all, which removes the files in any order.
Crash ==
    /\ Point \in CrashPoints
    /\ Restart
    /\ IF Point = "rmtree"
       THEN \E gone \in SUBSET Names, m \in {main, "absent"} :
              /\ main' = m
              /\ file' = [n \in Names |-> IF n \in gone THEN "absent" ELSE file[n]]
              /\ meta' = [n \in Names |-> IF n \in gone THEN Blank ELSE meta[n]]
       ELSE UNCHANGED <<main, file, meta>>
    /\ UNCHANGED <<domain, stale, hyp, base, at>>

\* write_metadata_file truncates the file it is going to rewrite.
BeingWritten ==
    CASE Point = "write" -> {arg.snap}
      [] Point = "link" -> {cur} \ {None}
      [] Point = "unlink" -> {Top.parent} \ {None}
      [] OTHER -> {}

CrashInWrite ==
    /\ TornWrites /\ Point \in CrashPoints
    /\ Restart
    /\ \/ \E n \in BeingWritten :
             /\ Point # "write" => Readable(n)
             /\ file' = [file EXCEPT ![n] = "corrupt"]
             /\ meta' = [meta EXCEPT ![n] = Blank]
             /\ UNCHANGED main
       \/ /\ Point \in {"main", "setmain"}
          /\ main' = "corrupt"
          /\ UNCHANGED <<file, meta>>
    /\ UNCHANGED <<domain, stale, hyp, base, at>>

Launch ==
    \/ StartRunning
    \/ \E s \in Tests : DeleteTemporary(s)
    \/ StopMachine
    \/ EditConfig
    \/ EndLaunch
    \/ Crash
    \/ CrashInWrite

----------------------------------------------------------------------------

\* Nothing exists before the first launch.
Init ==
    /\ domain = FALSE /\ main = "absent" /\ stale = FALSE
    /\ file = [n \in Names |-> "absent"]
    /\ meta = [n \in Names |-> Blank]
    /\ hyp = {} /\ base = [n \in Names |-> None] /\ at = None
    /\ cur = None /\ phase = "plan" /\ trusted = FALSE /\ pc = "idle"
    /\ arg = NoArgument /\ stack = <<>>

Next == Delete \/ Take \/ Create \/ Launch

Spec == Init /\ [][Next]_vars

----------------------------------------------------------------------------
(* Properties *)

TypeOK ==
    /\ domain \in BOOLEAN /\ main \in FileState /\ stale \in BOOLEAN
    /\ file \in [Names -> FileState]
    /\ meta \in [Names -> Record]
    /\ hyp \subseteq Names
    /\ base \in [Names -> Names \cup {None}] /\ at \in Names \cup {None}
    /\ cur \in Names \cup {None} /\ phase \in {"plan", "run"} /\ trusted \in BOOLEAN
    /\ pc \in Points \ DeletePoints
    /\ arg \in Argument
    /\ stack \in Seq(Frame)

\* c is in the children array of p.
Lists(p, c) == Readable(p) /\ meta[p].children[c] > 0

\* Every child a record lists exists, names that record as its parent and is
\* listed once.  create_snapshot writes the child before it links it, and
\* delete_snapshot_with_children unlinks it before it removes it, so that this
\* should hold however the process dies.
NoDanglingChild ==
    domain => \A p, c \in Names :
        Lists(p, c) => /\ Readable(c) /\ meta[c].parent = p
                       /\ meta[p].children[c] = 1

\* delete_snapshot_with_children never comes to a child whose record it cannot
\* read, which would end the launch and, the next time, end it again.
DeleteFindsChildren ==
    stack # <<>> /\ Top.at = "children" =>
        \A c \in Names : Top.todo[c] > 0 => Readable(c)

\* However writes were cut short, a controller with the record of any snapshot has
\* a main file that can be read: the cache check (IR/Test.cpp:222, :253) and the
\* installation of controllers read it where they find such a record, and a launch
\* that could not would end there, and so would the next.
MainReadable ==
    is_defined /\ (\E n \in Names : Readable(n)) => main = "ok"

\* The recursion of delete_snapshot_with_children never re-enters a snapshot it
\* is already deleting: children arrays form a hierarchy with a bottom
\* (IR/FlashDrive.cpp:172), however records are lost and written again.
NoReentry ==
    \A i, j \in 1 .. Len(stack) : i # j => stack[i].name # stack[j].name

----------------------------------------------------------------------------
(* The inductive invariant behind NoDanglingChild and DeleteFindsChildren, *)
(* for atomic writes and configurations edited between launches only       *)

\* No file is truncated.
NoTornFile == main # "corrupt" /\ \A n \in Names : file[n] # "corrupt"

AllAbsent == \A n \in Names : file[n] = "absent"

\* Until the main file of a new controller is written its directory is empty.
CreationInv ==
    /\ domain /\ main = "absent" => AllAbsent
    /\ pc = "rmtree" => ~domain
    /\ pc \in {"install", "main"} => AllAbsent /\ main = "absent"
    /\ pc = "main" => domain
    /\ pc \in CreatePoints => cur = None

\* Listing has no cycles: every set of snapshots has one that none of them lists.
Acyclic ==
    domain => \A S \in SUBSET Names :
        S # {} => \E x \in S : \A y \in S : ~Lists(y, x)

\* The initial snapshot is taken of a controller in no state.
InitialIsRoot ==
    /\ domain /\ Readable(Initial) => meta[Initial].parent = None
    /\ pc \in TakePoints /\ arg.snap = Initial => cur = None

\* The interpreter works on a controller only after the cache accepted it or
\* after it was created in this launch.
TrustInv ==
    /\ phase = "plan" => ~trusted /\ pc = "idle"
    /\ cur # None => trusted
    /\ trusted /\ pc = "idle" => Relevant
    /\ pc \in TakePoints =>
        /\ trusted /\ is_defined /\ ~stale
        /\ arg.snap # Initial \/ pc = "link" => Readable(Initial)

\* The snapshot being taken has no record until it is written, and nobody lists
\* it until it is linked.
TakeInv ==
    /\ pc \in TakePoints => cur # arg.snap
    /\ pc \in {"remake", "setmain"} => Readable(arg.snap)
    /\ pc \in {"mkhyp", "write"} =>
        IF stack = <<>> THEN ~Readable(arg.snap) ELSE stack[1].name = arg.snap
    /\ pc = "link" =>
        /\ Readable(arg.snap) /\ meta[arg.snap].parent = cur
        /\ meta[arg.snap].children = EmptyBag
        /\ \A n \in Names : ~Lists(n, arg.snap)
    /\ pc \in {"remake", "setmain", "link", "rmtree", "install", "main"} => stack = <<>>

\* The activations form a path in the hierarchy, each knowing its record.
FrameInv ==
    /\ stack # <<>> => domain /\ (pc = "idle" => phase = "plan")
    /\ \A i \in 1 .. Len(stack) :
        /\ Readable(stack[i].name)
        /\ meta[stack[i].name].parent = stack[i].parent
        /\ pc \in TakePoints => stack[i].name # Initial
        /\ \A c \in Names : stack[i].todo[c] > 0 =>
              Lists(stack[i].name, c) /\ stack[i].todo[c] = 1

PathInv ==
    \A i \in 1 .. Len(stack) - 1 :
        /\ stack[i].at = "children"
        /\ stack[i + 1].parent = stack[i].name
        /\ stack[i].todo[stack[i + 1].name] = 0
        /\ \/ Lists(stack[i].name, stack[i + 1].name)
           \/ i + 1 = Len(stack) /\ stack[i + 1].at = "remove"

\* A record is removed only when no record lists it any more.
RemoveInv ==
    stack # <<>> /\ Top.at = "remove" => \A n \in Names : ~Lists(n, Top.name)

StoreInv ==
    /\ TypeOK
    /\ NoTornFile
    /\ CreationInv
    /\ NoDanglingChild
    /\ Acyclic
    /\ InitialIsRoot
    /\ TrustInv
    /\ TakeInv
    /\ FrameInv
    /\ PathInv
    /\ NoReentry
    /\ RemoveInv

----------------------------------------------------------------------------
(* What the cache relies on *)

\* A snapshot exists only together with the snapshot it was taken on top of.
\* The cache compares a test only with its own checksum and its parents' names,
\* so that a snapshot which outlives its parent passes for valid later.
AncestorsPresent ==
    domain => \A s \in Names :
        Readable(s) /\ meta[s].parent # None => Readable(meta[s].parent)

\* A machine's snapshot that has_snapshot(s, true) reports can be restored:
\* the rollback finds in its record what make_snapshot returned.
KeptSnapshotRestorable ==
    IsMachine /\ Idle => \A s \in Names : has_snapshot(s, TRUE) => meta[s].opaque

\* The forest of snapshots the files stand for.
Stored == IF domain THEN {s \in Names : Readable(s)} ELSE {}
Forest == INSTANCE SnapshotForest WITH
    forest <- [s \in Stored |-> meta[s].parent],
    root <- IF domain /\ stack # <<>> THEN stack[1].name ELSE None
ImplementsForest == Forest!Spec

----------------------------------------------------------------------------
(* The inductive invariant behind AncestorsPresent and ImplementsForest,   *)
(* when the process does not die while a record is unlinked and no test    *)
(* can come to be its own ancestor                                         *)

\* S holds, with a test, everything the test can have been run on top of.
Ancestral(S) == \A t \in S \cap Tests : Parents[t] \subseteq S

\* No test is its own ancestor, whatever the launches in which it was taken.
NoLoops == \A t \in Tests : \E S \in SUBSET Names :
               Ancestral(S) /\ Parents[t] \subseteq S /\ t \notin S

\* A test was run on top of one it can be run on top of.
ParentsRecorded ==
    /\ \A t \in Tests : Readable(t) => meta[t].parent \in Parents[t]
    /\ pc \in TakePoints /\ arg.snap # Initial => cur \in Parents[arg.snap]

\* The controller stays in a state that has a record: a deletion on the way to
\* a new snapshot keeps away from the state the snapshot is taken of.
StateKept ==
    /\ cur # None => Readable(cur)
    /\ pc \in TakePoints /\ cur # None => \E S \in SUBSET Names :
           /\ Ancestral(S) /\ cur \in S
           /\ \A i \in 1 .. Len(stack) : stack[i].name \notin S

\* A parent lists its children but for the one just written and the one that
\* is about to be removed.
Linked ==
    domain => \A s \in Names : Readable(s) /\ meta[s].parent # None =>
        \/ Lists(meta[s].parent, s)
        \/ pc = "link" /\ s = arg.snap
        \/ stack # <<>> /\ Top.at = "remove" /\ s = Top.name

\* A deletion has still to visit every child listed, or is visiting it.
ToVisit ==
    /\ \A i \in 1 .. Len(stack) : \A c \in Names :
           Lists(stack[i].name, c) =>
               \/ stack[i].todo[c] > 0
               \/ i < Len(stack) /\ stack[i + 1].name = c
    /\ stack # <<>> /\ Top.at # "children" => Top.todo = EmptyBag

ForestInv ==
    /\ AncestorsPresent
    /\ ParentsRecorded
    /\ StateKept
    /\ Linked
    /\ ToVisit

=============================================================================
