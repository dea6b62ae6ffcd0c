---------------------- MODULE SnapshotRefinement_proofs --------------------
(***************************************************************************)
(* That the files of a controller stand for a forest of snapshots: a       *)
(* snapshot keeps its ancestors, and every step of SnapshotStore is a step *)
(* of SnapshotForest or leaves the forest alone.  For any number of tests, *)
(* machines and flash drives.                                              *)
(***************************************************************************)
EXTENDS SnapshotStore_proofs, WellFoundedInduction

USE DEF DeletePoints, TakePoints, CreatePoints, Points, FileState

\* The process does not die between the two writes that make up the removal, or
\* the appearance, of a snapshot with a parent.
NoWindow == CrashPoints \cap {"link", "remove"} = {}

----------------------------------------------------------------------------
(* The invariant holds initially and whenever nothing is being deleted     *)

\* An empty store has no snapshot without its parent.
LEMMA InitForest == Init => ForestInv
<1> SUFFICES ASSUME Init PROVE ForestInv
  OBVIOUS
<1>1. AncestorsPresent /\ Linked
  BY DEF Init, AncestorsPresent, Linked
<1>2. ParentsRecorded /\ StateKept
  BY DEF Init, ParentsRecorded, StateKept, Readable, Names
<1>3. ToVisit
  BY DEF Init, ToVisit
<1> QED
  BY <1>1, <1>2, <1>3 DEF ForestInv

\* Without a deletion nothing has to be kept away from.
LEMMA NoActivationForest ==
    ASSUME TypeOK', stack' = <<>>,
           cur' # None => file'[cur'] = "ok"
    PROVE  StateKept' /\ ToVisit'
<1>1. Ancestral(Names)
  BY ParentsAssumption DEF Ancestral, Names
<1>2. Names \in SUBSET Names /\ \A i \in 1 .. Len(stack') : FALSE
  OBVIOUS
<1>3. cur' # None => cur' \in Names
  BY DEF TypeOK
<1>4. StateKept'
  BY <1>1, <1>2, <1>3 DEF StateKept, Readable
<1> QED
  BY <1>2, <1>4 DEF ToVisit

\* The records stay and no deletion is running before or after.
LEMMA QuietForest ==
    ASSUME StoreInv, ForestInv, TypeOK', stack = <<>>, stack' = <<>>, pc # "link",
           UNCHANGED <<domain, file, meta>>,
           cur' # None => Readable(cur'),
           pc' \in TakePoints /\ arg'.snap # Initial => cur' \in Parents[arg'.snap]
    PROVE  ForestInv'
<1>1. AncestorsPresent' /\ ParentsRecorded'
  BY DEF ForestInv, AncestorsPresent, ParentsRecorded, Readable
<1>2. Linked'
  BY DEF ForestInv, Linked, Lists, Readable
<1> QED
  BY <1>1, <1>2, NoActivationForest DEF ForestInv, Readable

\* There is no controller, or its directory is empty, and no snapshot is taken
\* but the initial one.
LEMMA EmptyForest ==
    ASSUME ForestInv, TypeOK', stack' = <<>>, cur' = None,
           ~domain' \/ AllAbsent',
           \A m \in Names : file'[m] = "ok" => file[m] = "ok" /\ meta'[m] = meta[m],
           pc' \in TakePoints => arg'.snap = Initial
    PROVE  ForestInv'
<1>1. AncestorsPresent' /\ Linked'
  BY DEF AncestorsPresent, Linked, AllAbsent, Readable
<1>2. ParentsRecorded'
  BY DEF ForestInv, ParentsRecorded, Readable, Names
<1> QED
  BY <1>1, <1>2, NoActivationForest DEF ForestInv

\* The next launch finds what this one left, which is no child unlinked.
LEMMA RestartForest ==
    ASSUME StoreInv, ForestInv, TypeOK', Restart, UNCHANGED <<domain, file, meta>>,
           pc # "link" \/ stack # <<>>, stack # <<>> => Top.at # "remove"
    PROVE  ForestInv'
<1>1. stack' = <<>> /\ cur' = None /\ pc' = "idle"
  BY DEF Restart
<1>2. pc = "link" => stack = <<>>
  BY DEF StoreInv, TakeInv
<1>3. AncestorsPresent' /\ ParentsRecorded'
  BY <1>1 DEF ForestInv, AncestorsPresent, ParentsRecorded, Readable
<1>4. Linked'
  BY <1>2 DEF ForestInv, Linked, Lists, Readable
<1> QED
  BY <1>1, <1>3, <1>4, NoActivationForest DEF ForestInv

----------------------------------------------------------------------------
(* A deletion preserves the invariant                                      *)

\* A deletion starts that keeps away from the controller's state.
LEMMA StartDeletionForest ==
    ASSUME StoreInv, ForestInv, TypeOK', NEW s \in Names, domain, Readable(s),
           stack = <<>>, stack' = Enter(s), pc = "idle",
           UNCHANGED <<domain, file, meta, cur>>,
           pc' \in TakePoints /\ arg'.snap # Initial => cur \in Parents[arg'.snap],
           pc' # "link",
           pc' \in TakePoints /\ cur # None => \E S \in SUBSET Names :
               Ancestral(S) /\ cur \in S /\ s \notin S
    PROVE  ForestInv'
<1> DEFINE f == NewFrame(s)
<1>1. /\ f \in Frame /\ f.name = s /\ f.todo = meta[s].children /\ f.at = "children"
  BY NewFrameType DEF StoreInv
<1> HIDE DEF f
<1>2. /\ Len(stack') = 1 /\ stack'[1] = f /\ stack' # <<>>
  BY <1>1 DEF Enter, f
<1>3. AncestorsPresent' /\ ParentsRecorded'
  BY DEF ForestInv, AncestorsPresent, ParentsRecorded, Readable
<1>4. StateKept'
  BY <1>1, <1>2 DEF ForestInv, StateKept, Readable
<1>5. Linked'
  BY DEF ForestInv, Linked, Lists, Readable
<1>6. ToVisit'
  BY <1>1, <1>2 DEF ToVisit, Lists, Readable, Top
<1> QED
  BY <1>3, <1>4, <1>5, <1>6 DEF ForestInv

\* Invalidation happens while the controller is in no state.
LEMMA InvalidateForest ==
    ASSUME StoreInv, ForestInv, TypeOK', NEW s \in Tests, Invalidate(s)
    PROVE  ForestInv'
<1>1. /\ stack = <<>> /\ pc = "idle" /\ domain /\ Readable(s) /\ s \in Names
      /\ stack' = Enter(s) /\ UNCHANGED <<domain, file, meta, cur, pc, arg>>
  BY DEF Invalidate, Idle, is_defined, disk, Names
<1> QED
  BY <1>1, StartDeletionForest

\* A child of a test on the stack is no ancestor of the controller's state: the
\* test would be one too.
LEMMA VisitChildForest ==
    ASSUME StoreInv, ForestInv, StoreInv', NEW c \in Names, VisitChild(c)
    PROVE  ForestInv'
<1> DEFINE n == Len(stack)
<1>1. /\ stack \in Seq(Frame) /\ stack # <<>> /\ domain /\ Readable(c)
      /\ Top.at = "children" /\ Top.todo[c] > 0
      /\ UNCHANGED <<domain, file, meta, cur, pc, arg>>
  BY DEF StoreInv, TypeOK, VisitChild, FrameInv, disk
<1>2. n \in Nat /\ n >= 1 /\ n \in 1 .. n /\ Top = stack[n] /\ Top.name \in Names
  BY <1>1, TopFacts, StackFacts
<1>3. /\ NewFrame(c) \in Frame /\ NewFrame(c).name = c
      /\ NewFrame(c).todo = meta[c].children /\ NewFrame(c).at = "children"
  BY NewFrameType DEF StoreInv
<1>4. /\ stack' \in Seq(Frame) /\ Len(stack') = n + 1 /\ stack' # <<>>
      /\ \A i \in 1 .. n - 1 : stack'[i] = stack[i]
      /\ stack'[n].name = stack[n].name
      /\ \A d \in Names \ {c} : stack'[n].todo[d] = stack[n].todo[d]
      /\ stack'[n + 1] = NewFrame(c)
  <2>1. stack' = Visit(c)
    BY DEF VisitChild
  <2> QED
    BY <1>1, <1>2, <1>3, <2>1, VisitFacts
<1>5. meta[c].parent = Top.name
  BY <1>1, <1>2 DEF StoreInv, FrameInv, NoDanglingChild
<1>6. \A i \in 1 .. n : stack'[i].name = stack[i].name
  BY <1>2, <1>4
<1>7. \A i \in 1 .. n + 1 : i \in 1 .. n \/ i = n + 1
  BY <1>2
<1>8. AncestorsPresent' /\ ParentsRecorded'
  BY <1>1 DEF ForestInv, AncestorsPresent, ParentsRecorded, Readable
<1>9. StateKept'
  <2>1. cur' # None => file'[cur'] = "ok"
    BY <1>1 DEF ForestInv, StateKept, Readable
  <2>2. ASSUME pc \in TakePoints, cur # None
        PROVE  \E S \in SUBSET Names :
                 /\ Ancestral(S) /\ cur \in S
                 /\ \A i \in 1 .. n + 1 : stack'[i].name \notin S
    <3>1. PICK S \in SUBSET Names : /\ Ancestral(S) /\ cur \in S
                                    /\ \A i \in 1 .. n : stack[i].name \notin S
      BY <2>2 DEF ForestInv, StateKept
    <3>2. Top.name \notin S
      BY <1>2, <3>1
    <3>3. c \notin S
      <4>1. CASE c \in Tests
        BY <1>1, <1>5, <3>1, <3>2, <4>1 DEF ForestInv, ParentsRecorded, Ancestral
      <4>2. CASE c = Initial
        BY <1>1, <1>2, <1>5, <4>2, NamesAssumption DEF StoreInv, InitialIsRoot
      <4> QED
        BY <4>1, <4>2 DEF Names
    <3> QED
      BY <1>3, <1>4, <1>6, <1>7, <3>1, <3>3
  <2> QED
    BY <1>1, <1>4, <2>1, <2>2 DEF StateKept, Readable
<1>10. Linked'
  BY <1>1, <1>3, <1>4 DEF ForestInv, Linked, Lists, Readable, Top
<1>11. ToVisit'
  <2>1. ASSUME NEW i \in 1 .. n + 1, NEW d \in Names, Lists(stack'[i].name, d)
        PROVE  stack'[i].todo[d] > 0 \/ (i < n + 1 /\ stack'[i + 1].name = d)
    <3>1. CASE i = n + 1
      BY <1>3, <1>4, <2>1, <3>1 DEF Lists
    <3>2. CASE i = n
      BY <1>2, <1>3, <1>4, <2>1, <3>2 DEF ForestInv, ToVisit
    <3>3. CASE i \in 1 .. n - 1
      <4>1. i \in 1 .. n /\ i + 1 \in 1 .. n /\ stack'[i] = stack[i]
        BY <1>2, <1>4, <3>3
      <4>2. stack[i].todo[d] > 0 \/ stack[i + 1].name = d
        BY <2>1, <4>1 DEF ForestInv, ToVisit
      <4> QED
        BY <1>2, <1>6, <3>3, <4>1, <4>2
    <3> QED
      BY <1>2, <3>1, <3>2, <3>3
  <2>2. Top'.at = "children"
    BY <1>3, <1>4 DEF Top
  <2> QED
    BY <1>1, <1>4, <2>1, <2>2 DEF ToVisit, Lists, Readable
<1> QED
  BY <1>8, <1>9, <1>10, <1>11 DEF ForestInv

\* The top activation moves on; a record loses at most the mention of the top.
LEMMA GotoForest ==
    ASSUME StoreInv, ForestInv, TypeOK', stack # <<>>,
           NEW point \in {"hyp", "unlink", "remove"}, stack' = Goto(point),
           Top.todo = EmptyBag, Top.at # "remove",
           UNCHANGED <<domain, file, cur, pc, arg>>,
           \A m \in Names : meta'[m].parent = meta[m].parent,
           \A m, c \in Names :
               c # Top.name \/ point # "remove" =>
                   meta'[m].children[c] = meta[m].children[c],
           \A m, c \in Names : file'[m] = "ok" /\ meta'[m].children[c] > 0 => Lists(m, c)
    PROVE  ForestInv'
<1> DEFINE n == Len(stack)
           x == Top.name
<1>1. /\ n \in Nat /\ n >= 1 /\ n \in 1 .. n /\ Top = stack[n] /\ x \in Names
      /\ stack \in Seq(Frame) /\ \A i \in 1 .. n : stack[i].name \in Names
  BY TopFacts, StackFacts DEF StoreInv, TypeOK
<1>2. /\ Len(stack') = n /\ stack' # <<>>
      /\ \A i \in 1 .. n - 1 : stack'[i] = stack[i]
      /\ stack'[n].at = point /\ stack'[n].name = x /\ stack'[n].todo = Top.todo
  BY <1>1, GotoFacts
<1>3. \A i \in 1 .. n : stack'[i].name = stack[i].name /\ stack'[i].todo = stack[i].todo
  BY <1>1, <1>2
<1>4. AncestorsPresent' /\ ParentsRecorded'
  <2>1. \A t \in Tests : t \in Names
    BY DEF Names
  <2>2. \A m \in Names : Readable(m)' <=> Readable(m)
    BY DEF Readable
  <2>3. AncestorsPresent'
    <3>1. SUFFICES ASSUME domain', NEW m \in Names, Readable(m), meta[m].parent # None
                   PROVE  Readable(meta[m].parent)'
      BY <2>2 DEF AncestorsPresent
    <3>2. Readable(meta[m].parent)
      BY <3>1 DEF ForestInv, AncestorsPresent
    <3> QED
      BY <3>2 DEF Readable
  <2> QED
    BY <2>1, <2>2, <2>3 DEF ForestInv, ParentsRecorded
<1>5. StateKept'
  BY <1>2, <1>3 DEF ForestInv, StateKept, Readable
<1>6. Linked'
  <2>1. SUFFICES ASSUME domain, NEW m \in Names, Readable(m), meta[m].parent # None,
                        ~(pc = "link" /\ m = arg.snap), ~(point = "remove" /\ m = x)
                 PROVE  Lists(meta[m].parent, m)'
    BY <1>1, <1>2 DEF Linked, Readable, Top
  <2>2. Lists(meta[m].parent, m)
    BY <2>1 DEF ForestInv, Linked
  <2>3. meta[m].parent \in Names
    BY <2>1 DEF StoreInv, TypeOK, Record
  <2> QED
    BY <2>1, <2>2, <2>3 DEF Lists, Readable
<1>7. ToVisit'
  <2>1. ASSUME NEW i \in 1 .. n, NEW d \in Names, Lists(stack[i].name, d)'
        PROVE  stack'[i].todo[d] > 0 \/ (i < n /\ stack'[i + 1].name = d)
    <3>1. Lists(stack[i].name, d)
      BY <1>1, <1>3, <2>1 DEF Lists, Readable
    <3>2. stack[i].todo[d] > 0 \/ (i < n /\ stack[i + 1].name = d)
      BY <3>1 DEF ForestInv, ToVisit
    <3>3. i < n => i + 1 \in 1 .. n
      BY <1>1
    <3> QED
      BY <1>3, <3>2, <3>3
  <2>2. Top'.todo = EmptyBag
    BY <1>2 DEF Top
  <2>3. \A i \in 1 .. n : stack'[i].name = stack[i].name
    BY <1>3
  <2> QED
    BY <1>2, <2>1, <2>2, <2>3 DEF ToVisit, Lists, Readable
<1> QED
  BY <1>4, <1>5, <1>6, <1>7 DEF ForestInv

\* Coming to the snapshot itself, and its part in the hypervisor.
LEMMA MoveOnForest ==
    ASSUME StoreInv, ForestInv, TypeOK', ChildrenDone \/ DeleteHypervisorSnapshot
    PROVE  ForestInv'
<1>1. /\ stack # <<>> /\ Top.at # "remove" /\ Top.todo = EmptyBag
      /\ UNCHANGED <<domain, file, meta, cur, pc, arg>>
      /\ \E point \in {"hyp", "unlink"} : stack' = Goto(point)
  BY DEF ChildrenDone, DeleteHypervisorSnapshot, ForestInv, ToVisit, disk
<1>2. \A m, c \in Names : file'[m] = "ok" /\ meta'[m].children[c] > 0 => Lists(m, c)
  BY <1>1 DEF Lists, Readable
<1>3. PICK point \in {"hyp", "unlink"} : stack' = Goto(point)
  BY <1>1
<1> QED
  BY <1>1, <1>2, <1>3, GotoForest

\* The parent drops the snapshot from its array.
LEMMA UnlinkForest ==
    ASSUME StoreInv, ForestInv, TypeOK', UnlinkParent
    PROVE  ForestInv'
<1>1. /\ stack # <<>> /\ Top.at = "unlink" /\ stack' = Goto("remove")
      /\ Top.todo = EmptyBag /\ UNCHANGED <<domain, file, cur, pc, arg>>
  BY DEF UnlinkParent, ForestInv, ToVisit
<1>2. /\ \A m \in Names : meta'[m].parent = meta[m].parent
      /\ \A m, c \in Names : c # Top.name => meta'[m].children[c] = meta[m].children[c]
      /\ \A m \in Names : ~(file'[m] = "ok" /\ meta'[m].children[Top.name] > 0)
  BY UnlinkFacts
<1>3. ASSUME NEW m \in Names, NEW c \in Names, file'[m] = "ok", meta'[m].children[c] > 0
      PROVE  Lists(m, c)
  BY <1>1, <1>2, <1>3 DEF Lists, Readable
<1> QED
  BY <1>1, <1>2, <1>3, GotoForest

\* A record that goes is nobody's parent and not the controller's state.
LEMMA RemovableFacts ==
    ASSUME StoreInv, ForestInv, stack # <<>>, Top.at = "remove"
    PROVE  /\ domain /\ Top.name \in Names /\ Readable(Top.name)
           /\ \A m \in Names : Readable(m) => meta[m].parent # Top.name
           /\ cur # Top.name
<1> DEFINE n == Len(stack)
           x == Top.name
<1>1. /\ n \in Nat /\ n >= 1 /\ n \in 1 .. n /\ Top = stack[n] /\ x \in Names
      /\ stack \in Seq(Frame) /\ \A i \in 1 .. n : stack[i].name \in Names
  BY TopFacts, StackFacts DEF StoreInv, TypeOK
<1>2. domain /\ Readable(x)
  BY <1>1 DEF StoreInv, FrameInv
<1>3. \A d \in Names : ~Lists(x, d)
  <2>1. \A d \in Names : stack[n].todo[d] = 0
    BY <1>1, ConstantTypes DEF ForestInv, ToVisit
  <2> QED
    BY <1>1, <2>1 DEF ForestInv, ToVisit
<1>4. ASSUME NEW m \in Names, Readable(m), meta[m].parent = x
      PROVE  FALSE
  <2>1. m # x
    <3>1. m \in Tests => meta[m].parent # m
      BY <1>4, ParentsAssumption DEF ForestInv, ParentsRecorded
    <3>2. m = Initial => meta[m].parent = None
      BY <1>2, <1>4 DEF StoreInv, InitialIsRoot
    <3> QED
      BY <1>1, <1>4, <3>1, <3>2, NamesAssumption DEF Names
  <2>2. x # None /\ pc # "link"
    BY <1>1, NamesAssumption DEF StoreInv, TakeInv
  <2>3. Lists(x, m)
    BY <1>2, <1>4, <2>1, <2>2 DEF ForestInv, Linked
  <2> QED
    BY <1>3, <2>3
<1>5. cur # x
  <2>1. SUFFICES ASSUME cur = x PROVE FALSE
    OBVIOUS
  <2>2. cur # None /\ trusted /\ phase = "run"
    BY <1>1, <2>1, NamesAssumption DEF StoreInv, TrustInv, TypeOK
  <2>3. pc \in TakePoints
    BY <2>2 DEF StoreInv, FrameInv, CreationInv, TypeOK
  <2> QED
    BY <1>1, <2>1, <2>2, <2>3 DEF ForestInv, StateKept
<1> QED
  BY <1>1, <1>2, <1>4, <1>5

\* Removing a record takes no parent away from another one.
LEMMA RemoveForest ==
    ASSUME StoreInv, ForestInv, TypeOK', RemoveFile
    PROVE  ForestInv'
<1> DEFINE n == Len(stack)
           x == Top.name
<1>1. /\ stack # <<>> /\ Top.at = "remove" /\ stack' = Leave
      /\ file' = [file EXCEPT ![x] = "absent"]
      /\ meta' = [meta EXCEPT ![x] = Blank]
      /\ UNCHANGED <<domain, cur, pc, arg>>
  BY DEF RemoveFile
<1>2. /\ n \in Nat /\ n >= 1 /\ n \in 1 .. n /\ Top = stack[n]
      /\ stack \in Seq(Frame) /\ \A i \in 1 .. n : stack[i].name \in Names
  BY <1>1, TopFacts, StackFacts DEF StoreInv, TypeOK
<1>3. /\ domain /\ x \in Names /\ Readable(x) /\ cur # x
      /\ \A m \in Names : Readable(m) => meta[m].parent # x
  BY <1>1, RemovableFacts
<1>4. /\ stack' \in Seq(Frame) /\ Len(stack') = n - 1
      /\ \A i \in 1 .. n - 1 : stack'[i] = stack[i]
  BY <1>1, <1>2, LeaveFacts
<1>5. /\ \A m \in Names : m # x => file'[m] = file[m] /\ meta'[m] = meta[m]
      /\ file'[x] = "absent"
  BY <1>1, <1>3 DEF StoreInv, TypeOK
<1>6. \A m \in Names : Readable(m)' <=> Readable(m) /\ m # x
  BY <1>5 DEF Readable
<1>7. \A m \in Names : Readable(m) => meta[m].parent \in (Names \ {x}) \cup {None}
  BY <1>3 DEF StoreInv, TypeOK, Record
<1>8. AncestorsPresent' /\ ParentsRecorded'
  <2>1. AncestorsPresent'
    <3>1. SUFFICES ASSUME NEW m \in Names, Readable(m), m # x, meta[m].parent # None
                   PROVE  Readable(meta[m].parent)'
      BY <1>5, <1>6 DEF AncestorsPresent
    <3>2. Readable(meta[m].parent)
      BY <1>3, <3>1 DEF ForestInv, AncestorsPresent
    <3> QED
      BY <1>5, <1>7, <3>1, <3>2 DEF Readable
  <2> QED
    BY <1>1, <1>5, <1>6, <2>1 DEF ForestInv, ParentsRecorded, Names
<1>9. StateKept'
  <2>1. cur # None => file'[cur] = "ok"
    BY <1>3, <1>5 DEF ForestInv, StateKept, StoreInv, TypeOK, Readable
  <2>2. \A i \in 1 .. n - 1 : i \in 1 .. n
    BY <1>2
  <2> QED
    BY <1>1, <1>4, <2>1, <2>2 DEF ForestInv, StateKept, Readable
<1>10. \A m, c \in Names : file'[m] = "ok" /\ meta'[m].children[c] > 0 <=>
                             Lists(m, c) /\ m # x
  BY <1>5 DEF Lists, Readable
<1>11. Linked'
  <2>1. SUFFICES ASSUME NEW m \in Names, Readable(m), m # x, meta[m].parent # None
                 PROVE  \/ pc' = "link" /\ m = arg'.snap
                        \/ /\ file'[meta[m].parent] = "ok"
                           /\ meta'[meta[m].parent].children[m] > 0
    BY <1>5, <1>6 DEF Linked, Lists, Readable
  <2>2. (pc = "link" /\ m = arg.snap) \/ Lists(meta[m].parent, m)
    BY <1>3, <2>1 DEF ForestInv, Linked
  <2>3. meta[m].parent \in Names \ {x}
    BY <1>7, <2>1
  <2> QED
    BY <1>1, <1>10, <2>2, <2>3
<1>12. ToVisit'
  <2>1. \A i \in 1 .. n - 1 : i \in 1 .. n /\ i + 1 \in 1 .. n /\ stack[i].name # x
    BY <1>2 DEF StoreInv, NoReentry
  <2>2. ASSUME NEW i \in 1 .. n - 1, NEW d \in Names,
               file'[stack[i].name] = "ok", meta'[stack[i].name].children[d] > 0
        PROVE  stack[i].todo[d] > 0 \/ (i < n - 1 /\ stack[i + 1].name = d)
    <3>1. Lists(stack[i].name, d)
      BY <1>2, <1>10, <2>1, <2>2
    <3>2. d # x
      BY <1>1, <1>2, <2>1, <3>1 DEF StoreInv, RemoveInv
    <3>3. stack[i].todo[d] > 0 \/ stack[i + 1].name = d
      BY <2>1, <3>1 DEF ForestInv, ToVisit
    <3> QED
      BY <1>2, <3>2, <3>3
  <2>3. stack' # <<>> => Top'.at = "children"
    <3>1. SUFFICES ASSUME stack' # <<>> PROVE Top'.at = "children"
      OBVIOUS
    <3>2. n - 1 \in 1 .. n - 1
      BY <1>2, <1>4, <3>1
    <3> QED
      BY <1>4, <3>2 DEF StoreInv, PathInv, Top
  <2>4. ASSUME NEW i \in 1 .. n - 1, NEW d \in Names,
               file'[stack'[i].name] = "ok", meta'[stack'[i].name].children[d] > 0
        PROVE  stack'[i].todo[d] > 0 \/ (i < n - 1 /\ stack'[i + 1].name = d)
    <3>1. stack'[i] = stack[i] /\ (i < n - 1 => stack'[i + 1] = stack[i + 1])
      BY <1>2, <1>4
    <3> QED
      BY <2>2, <2>4, <3>1
  <2> QED
    BY <1>4, <2>3, <2>4 DEF ToVisit, Lists, Readable
<1> QED
  BY <1>8, <1>9, <1>11, <1>12 DEF ForestInv

\* Every step of a deletion does.
LEMMA DeleteForest ==
    ASSUME StoreInv, ForestInv, StoreInv', Delete
    PROVE  ForestInv'
<1>1. TypeOK'
  BY DEF StoreInv
<1>2. ~VisitChildThrows
  <2>1. ASSUME stack # <<>>, NEW c \in Names, Top.todo[c] > 0
        PROVE  Readable(c)
    <3>1. Len(stack) \in 1 .. Len(stack) /\ Top = stack[Len(stack)] /\ domain
      BY <2>1, TopFacts DEF StoreInv, TypeOK, FrameInv
    <3>2. Lists(Top.name, c) /\ Top.name \in Names
      BY <2>1, <3>1, StackFacts DEF StoreInv, FrameInv, TypeOK
    <3> QED
      BY <3>1, <3>2 DEF StoreInv, NoDanglingChild
  <2> QED
    BY <2>1 DEF VisitChildThrows
<1> QED
  BY <1>1, <1>2, InvalidateForest, VisitChildForest, MoveOnForest, UnlinkForest, RemoveForest
     DEF Delete

----------------------------------------------------------------------------
(* A step of create_snapshot preserves the invariant                       *)

\* A snapshot that is kept has a record.
LEMMA KeepSnapshotForest ==
    ASSUME StoreInv, ForestInv, TypeOK', NEW s \in Tests, KeepSnapshot(s)
    PROVE  ForestInv'
<1>1. /\ stack = <<>> /\ stack' = <<>> /\ pc = "idle" /\ pc' = "idle"
      /\ cur' = s /\ Readable(s) /\ UNCHANGED <<domain, file, meta>>
  BY DEF KeepSnapshot, Idle, disk, has_snapshot
<1> QED
  BY <1>1, QuietForest

\* A test to be taken again is no ancestor of the state it is taken of.
LEMMA TakeSnapshotForest ==
    ASSUME NoLoops, StoreInv, ForestInv, TypeOK',
           NEW s \in Tests, NEW c \in Cksums, NEW needed \in BOOLEAN,
           TakeSnapshot(s, c, needed)
    PROVE  ForestInv'
<1>1. /\ stack = <<>> /\ pc = "idle" /\ domain /\ cur \in Parents[s] /\ arg'.snap = s
      /\ UNCHANGED <<domain, file, meta, cur>>
      /\ pc' \in {"remake", "mkhyp", "write"}
      /\ stack' = <<>> \/ (Readable(s) /\ stack' = Enter(s))
  <2> DEFINE same == Readable(s) /\ meta[s].cksum = c
  <2>1. /\ stack = <<>> /\ pc = "idle" /\ domain /\ cur \in Parents[s] /\ arg'.snap = s
        /\ UNCHANGED <<domain, file, meta, cur>>
        /\ pc' = IF same THEN "remake" ELSE IF needed THEN "mkhyp" ELSE "write"
        /\ stack' = IF Readable(s) /\ ~same THEN Enter(s) ELSE stack
    BY DEF TakeSnapshot, Idle, is_defined, disk
  <2> HIDE DEF same
  <2>2. pc' \in {"remake", "mkhyp", "write"}
    BY <2>1
  <2>3. stack' = <<>> \/ (Readable(s) /\ stack' = Enter(s))
    BY <2>1
  <2> QED
    BY <2>1, <2>2, <2>3
<1>2. cur # None => Readable(cur)
  BY DEF ForestInv, StateKept
<1>3. s \in Names /\ \E S \in SUBSET Names : Ancestral(S) /\ cur \in S /\ s \notin S
  BY <1>1 DEF NoLoops, Names
<1> QED
  BY <1>1, <1>2, <1>3, QuietForest, StartDeletionForest

\* The steps that only concern the hypervisor or the main file.
LEMMA HypervisorStepForest ==
    ASSUME StoreInv, ForestInv, TypeOK',
           MakeHypervisorSnapshot \/ RemakeHypervisorSnapshot \/ SetMain
    PROVE  ForestInv'
<1>1. /\ stack = <<>> /\ stack' = <<>> /\ pc \in {"mkhyp", "remake", "setmain"}
      /\ UNCHANGED <<domain, file, meta>>
      /\ \/ pc' \in TakePoints /\ UNCHANGED <<cur, arg>>
         \/ pc \in {"remake", "setmain"} /\ pc' = "idle" /\ cur' = arg.snap
  BY DEF MakeHypervisorSnapshot, RemakeHypervisorSnapshot, SetMain, Return, disk
<1>2. cur' # None => Readable(cur')
  BY <1>1 DEF ForestInv, StateKept, StoreInv, TakeInv, Readable
<1>3. pc' \in TakePoints /\ arg'.snap # Initial => cur' \in Parents[arg'.snap]
  BY <1>1 DEF ForestInv, ParentsRecorded
<1> QED
  BY <1>1, <1>2, <1>3, QuietForest

\* What the record of a new snapshot changes.
LEMMA WriteRecordFacts ==
    ASSUME StoreInv, WriteRecord
    PROVE  /\ domain /\ arg.snap \in Names /\ ~Readable(arg.snap)
           /\ \A m \in Names : m # arg.snap => file'[m] = file[m] /\ meta'[m] = meta[m]
           /\ file'[arg.snap] = "ok" /\ meta'[arg.snap].parent = cur
           /\ meta'[arg.snap].children = EmptyBag
<1> DEFINE r == [cksum |-> arg.cksum, parent |-> cur, children |-> EmptyBag,
                 opaque |-> IsMachine /\ arg.needed]
<1>1. /\ stack = <<>> /\ pc = "write"
      /\ file' = [file EXCEPT ![arg.snap] = "ok"] /\ meta' = [meta EXCEPT ![arg.snap] = r]
  BY DEF WriteRecord
<1>2. domain /\ arg.snap \in Names /\ ~Readable(arg.snap)
  BY <1>1, TakingFacts
<1>3. r.parent = cur /\ r.children = EmptyBag
  OBVIOUS
<1> HIDE DEF r
<1> QED
  BY <1>1, <1>2, <1>3 DEF StoreInv, TypeOK

\* The new record names the controller's state, which has a record, as parent.
LEMMA WriteRecordForest ==
    ASSUME StoreInv, ForestInv, TypeOK', WriteRecord
    PROVE  ForestInv'
<1> DEFINE x == arg.snap
<1>1. /\ stack = <<>> /\ stack' = <<>> /\ pc = "write" /\ pc' = "link"
      /\ UNCHANGED <<domain, cur, arg>>
  BY DEF WriteRecord
<1>2. /\ domain /\ x \in Names /\ ~Readable(x)
      /\ \A m \in Names : m # x => file'[m] = file[m] /\ meta'[m] = meta[m]
      /\ file'[x] = "ok" /\ meta'[x].parent = cur /\ meta'[x].children = EmptyBag
  BY WriteRecordFacts
<1>3. cur # None => cur \in Names /\ Readable(cur)
  BY DEF ForestInv, StateKept, StoreInv, TypeOK
<1>4. \A m \in Names : Readable(m) => Readable(m)'
  BY <1>2 DEF Readable
<1>5. \A m \in Names : m # x /\ Readable(m)' => Readable(m) /\ meta'[m] = meta[m]
  BY <1>2 DEF Readable
<1>6. \A m \in Names : Readable(m) => meta[m].parent \in Names \cup {None}
  BY DEF StoreInv, TypeOK, Record
<1>7. AncestorsPresent'
  <2>1. SUFFICES ASSUME NEW m \in Names, Readable(m)', meta'[m].parent # None
                 PROVE  file'[meta'[m].parent] = "ok"
    BY DEF AncestorsPresent, Readable
  <2>2. CASE m = x
    BY <1>2, <1>3, <1>4, <2>1, <2>2 DEF Readable
  <2>3. CASE m # x
    BY <1>2, <1>4, <1>5, <1>6, <2>1, <2>3 DEF ForestInv, AncestorsPresent, Readable
  <2> QED
    BY <2>2, <2>3
<1>8. ParentsRecorded'
  <2>1. x # Initial => cur \in Parents[x]
    BY <1>1 DEF ForestInv, ParentsRecorded
  <2>2. \A t \in Tests : t \in Names /\ t # Initial
    BY NamesAssumption DEF Names
  <2> QED
    BY <1>1, <1>2, <1>5, <2>1, <2>2 DEF ForestInv, ParentsRecorded
<1>9. Linked'
  <2>1. SUFFICES ASSUME NEW m \in Names, Readable(m)', meta'[m].parent # None, m # x
                 PROVE  file'[meta'[m].parent] = "ok" /\ meta'[meta'[m].parent].children[m] > 0
    BY <1>1 DEF Linked, Lists, Readable
  <2>2. Lists(meta[m].parent, m) /\ meta'[m] = meta[m] /\ meta[m].parent \in Names
    BY <1>1, <1>2, <1>5, <1>6, <2>1 DEF ForestInv, Linked
  <2>3. meta[m].parent # x
    BY <1>2, <2>2 DEF Lists
  <2> QED
    BY <1>2, <2>2, <2>3 DEF Lists, Readable
<1>10. cur' # None => file'[cur'] = "ok"
  BY <1>1, <1>3, <1>4 DEF Readable
<1> QED
  BY <1>1, <1>7, <1>8, <1>9, <1>10, NoActivationForest DEF ForestInv

\* The link is made in a record that is there.
LEMMA LinkParentForest ==
    ASSUME StoreInv, ForestInv, TypeOK', LinkParent
    PROVE  ForestInv'
<1> DEFINE x == arg.snap
<1>1. /\ stack = <<>> /\ stack' = <<>> /\ pc = "link" /\ pc' = "idle" /\ cur' = x
      /\ UNCHANGED <<domain, file>>
      /\ IF cur = None
         THEN UNCHANGED meta
         ELSE /\ Readable(cur) /\ meta[cur].children[x] < MaxLinks
              /\ meta' = WithChild(cur, x)
  BY DEF LinkParent, Return
<1>2. x \in Names /\ cur \in Names \cup {None} /\ Readable(x) /\ meta[x].parent = cur
  BY <1>1, TakingFacts DEF StoreInv, TakeInv
<1>3. \A m \in Names : meta'[m].parent = meta[m].parent
  BY <1>1, <1>2, WithChildFacts DEF StoreInv, TypeOK
<1>4. \A m, c \in Names : meta[m].children[c] > 0 => meta'[m].children[c] > 0
  <2>1. \A m, c \in Names : meta[m].children[c] \in Nat
    BY ChildrenFacts DEF StoreInv, TypeOK
  <2>2. CASE cur = None
    BY <1>1, <2>2
  <2>3. CASE cur # None
    <3>1. /\ \A m, c \in Names : m # cur \/ c # x => meta'[m].children[c] = meta[m].children[c]
          /\ meta'[cur].children[x] = meta[cur].children[x] + 1
      BY <1>1, <1>2, <2>3, WithChildFacts DEF StoreInv, TypeOK
    <3> QED
      BY <1>2, <2>1, <2>3, <3>1
  <2> QED
    BY <2>2, <2>3
<1>5. cur # None => Readable(cur) /\ meta'[cur].children[x] > 0
  <2>1. \A m, c \in Names : meta[m].children[c] \in Nat
    BY ChildrenFacts DEF StoreInv, TypeOK
  <2> QED
    BY <1>1, <1>2, <2>1, WithChildFacts DEF StoreInv, TypeOK
<1>6. \A m \in Names : meta[m].parent \in Names \cup {None}
  BY DEF StoreInv, TypeOK, Record
<1>7. \A m \in Names : Readable(m)' <=> Readable(m)
  BY <1>1 DEF Readable
<1>8. AncestorsPresent' /\ ParentsRecorded'
  <2>1. AncestorsPresent'
    <3>1. SUFFICES ASSUME domain, NEW m \in Names, Readable(m), meta[m].parent # None
                   PROVE  file'[meta'[m].parent] = "ok"
      BY <1>1, <1>3, <1>7 DEF AncestorsPresent, Readable
    <3> QED
      BY <1>1, <1>3, <3>1 DEF ForestInv, AncestorsPresent, Readable
  <2> QED
    BY <1>1, <1>3, <1>7, <2>1 DEF ForestInv, ParentsRecorded, Names
<1>9. Linked'
  <2>1. SUFFICES ASSUME domain, NEW m \in Names, Readable(m), meta[m].parent # None
                 PROVE  file'[meta'[m].parent] = "ok" /\ meta'[meta'[m].parent].children[m] > 0
    BY <1>1, <1>3, <1>7 DEF Linked, Lists, Readable
  <2>2. CASE m = x
    BY <1>1, <1>2, <1>3, <1>5, <2>1, <2>2 DEF Readable
  <2>3. CASE m # x
    <3>1. Lists(meta[m].parent, m) /\ meta[m].parent \in Names
      BY <1>1, <1>6, <2>1, <2>3 DEF ForestInv, Linked
    <3> QED
      BY <1>1, <1>3, <1>4, <3>1 DEF Lists, Readable
  <2> QED
    BY <2>2, <2>3
<1>10. cur' # None => file'[cur'] = "ok"
  BY <1>1, <1>2 DEF Readable
<1> QED
  BY <1>1, <1>8, <1>9, <1>10, NoActivationForest DEF ForestInv

\* Every step of create_snapshot does; the parent's record is never missing.
LEMMA TakeForest ==
    ASSUME NoLoops, StoreInv, ForestInv, StoreInv', Take
    PROVE  ForestInv'
<1>1. TypeOK'
  BY DEF StoreInv
<1>2. ~LinkParentThrows
  BY DEF LinkParentThrows, ForestInv, StateKept
<1> QED
  BY <1>1, <1>2, KeepSnapshotForest, TakeSnapshotForest, HypervisorStepForest,
     WriteRecordForest, LinkParentForest DEF Take

----------------------------------------------------------------------------
(* The steps of a creation and of the launch preserve it                   *)

\* A restored snapshot has a record; a creation starts from nothing.
LEMMA CreateForest ==
    ASSUME StoreInv, ForestInv, StoreInv', Create
    PROVE  ForestInv'
<1>0. TypeOK'
  BY DEF StoreInv
<1>1. ASSUME NEW s \in Names, RestoreSnapshot(s)
      PROVE  ForestInv'
  <2>1. /\ stack = <<>> /\ stack' = <<>> /\ pc = "idle" /\ pc' = "idle"
        /\ cur' = s /\ Readable(s) /\ UNCHANGED <<domain, file, meta>>
    BY <1>1 DEF RestoreSnapshot, Idle, Relevant
  <2> QED
    BY <1>0, <2>1, QuietForest
<1>2. CASE CreateController
  <2>1. /\ stack = <<>> /\ pc = "idle" /\ pc' \in {"undefine", "rmtree"}
        /\ UNCHANGED <<domain, file, meta, cur>>
        /\ stack' = <<>> \/ (domain /\ Readable(Initial) /\ stack' = Enter(Initial))
    BY <1>2 DEF CreateController, Idle, disk
  <2>2. (cur # None => Readable(cur)) /\ Initial \in Names
    BY DEF ForestInv, StateKept, Names
  <2> QED
    BY <1>0, <2>1, <2>2, QuietForest, StartDeletionForest
<1>3. CASE Undefine \/ RemoveTree
  <2>1. /\ stack' = <<>> /\ cur' = None /\ domain' = FALSE
        /\ pc' \in {"rmtree", "install"}
        /\ \A m \in Names : file'[m] = "ok" => file[m] = "ok" /\ meta'[m] = meta[m]
    BY <1>3 DEF Undefine, RemoveTree, StoreInv, CreationInv
  <2> QED
    BY <1>0, <2>1, EmptyForest
<1>4. CASE Install \/ WriteMain
  <2>1. /\ stack' = <<>> /\ cur' = None /\ AllAbsent'
        /\ pc' \in {"main", "mkhyp"} /\ (pc' = "mkhyp" => arg'.snap = Initial)
        /\ UNCHANGED <<file, meta>>
    BY <1>4 DEF Install, WriteMain, StoreInv, CreationInv, AllAbsent
  <2> QED
    BY <1>0, <2>1, EmptyForest
<1> QED
  BY <1>1, <1>2, <1>3, <1>4 DEF Create

\* The launch reads and forgets; it dies outside the two windows only.
LEMMA LaunchForest ==
    ASSUME StoreInv, ForestInv, StoreInv', Launch, ~TornWrites, NoWindow
    PROVE  ForestInv'
<1>0. TypeOK'
  BY DEF StoreInv
<1>k. cur # None => Readable(cur)
  BY DEF ForestInv, StateKept
<1>1. CASE StartRunning \/ (\E s \in Tests : DeleteTemporary(s)) \/ StopMachine \/ EditConfig
  <2>1. /\ stack = <<>> /\ stack' = <<>> /\ pc = "idle" /\ pc' = "idle"
        /\ UNCHANGED <<domain, file, meta>> /\ (cur' = cur \/ cur' = None)
    BY <1>1 DEF StartRunning, DeleteTemporary, StopMachine, EditConfig, Idle, disk, memory
  <2> QED
    BY <1>0, <1>k, <2>1, QuietForest
<1>2. CASE EndLaunch
  BY <1>0, <1>2, RestartForest DEF EndLaunch, Idle, disk
<1>3. CASE Crash
  <2>1. CASE Point = "rmtree"
    <3>1. /\ Restart /\ domain' = FALSE
          /\ \A m \in Names : file'[m] = "ok" => file[m] = "ok" /\ meta'[m] = meta[m]
      BY <1>3, <2>1, TopFacts DEF Crash, Point, StoreInv, CreationInv, TypeOK, Frame
    <3> QED
      BY <1>0, <3>1, EmptyForest DEF Restart
  <2>2. CASE Point # "rmtree"
    <3>1. Restart /\ UNCHANGED <<domain, file, meta>> /\ Point \notin {"link", "remove"}
      BY <1>3, <2>2 DEF Crash, NoWindow
    <3> QED
      BY <1>0, <3>1, RestartForest DEF Point
  <2> QED
    BY <2>1, <2>2
<1> QED
  BY <1>1, <1>2, <1>3 DEF Launch, CrashInWrite

----------------------------------------------------------------------------
(* Snapshots and their ancestors                                           *)

\* What the forest of snapshots depends on: atomic writes, edits between
\* launches, no death in a window and no test that is its own ancestor.
CalmStore == CalmDisk /\ NoWindow /\ NoLoops

\* The store stays a forest, however the process dies outside the windows.
THEOREM ForestConsistent == CalmStore /\ Spec => [](StoreInv /\ ForestInv)
<1>1. CalmStore /\ StoreInv /\ StoreInv' /\ ForestInv /\ [Next]_vars => ForestInv'
  <2>1. ASSUME ForestInv, UNCHANGED vars
        PROVE  ForestInv'
    BY <2>1 DEF ForestInv, AncestorsPresent, ParentsRecorded, StateKept, Linked, ToVisit,
                Lists, Readable, Top, vars
  <2> QED
    BY <2>1, DeleteForest, TakeForest, CreateForest, LaunchForest
       DEF Next, CalmStore, CalmDisk
<1>2. CalmStore => CalmDisk /\ CalmStore'
  BY DEF CalmStore, CalmDisk, NoWindow, NoLoops, Ancestral, Names
<1> QED
  BY <1>1, <1>2, InitForest, StoreConsistent, PTL DEF Spec

\* A snapshot exists only together with the snapshot it was taken on top of.
THEOREM AncestorsKept == CalmStore /\ Spec => []AncestorsPresent
BY ForestConsistent, PTL DEF ForestInv

----------------------------------------------------------------------------
(* Every step is a step of the forest or leaves it alone                   *)

\* The forest and the root of the subtree under deletion, as SnapshotStore
\* instantiates SnapshotForest.
ForestNow == [s \in Stored |-> meta[s].parent]
RootNow == IF domain /\ stack # <<>> THEN stack[1].name ELSE None

\* The snapshots present are those stored.
LEMMA PresentFacts ==
    /\ Forest!Present = Stored
    /\ \A s \in Stored : ForestNow[s] = meta[s].parent
    /\ \A s : s \in Stored <=> domain /\ s \in Names /\ Readable(s)
BY DEF Forest!Present, ForestNow, Stored

\* The records that can be read stay with their parents, the others stay away.
LEMMA SameForestNow ==
    ASSUME ~(domain \/ domain') \/ domain' = domain,
           \A m \in Names : domain => (Readable(m)' <=> Readable(m)),
           \A m \in Names : domain /\ Readable(m) => meta'[m].parent = meta[m].parent
    PROVE  ForestNow' = ForestNow
<1>1. Stored' = Stored
  BY DEF Stored
<1>2. \A s \in Stored : meta'[s].parent = meta[s].parent
  BY DEF Stored
<1> QED
  BY <1>1, <1>2 DEF ForestNow

\* A set of numbers has a smallest one.
LEMMA SmallestNumber ==
    ASSUME NEW T, T \subseteq Nat, T # {}
    PROVE  \E x \in T : \A y \in T : x <= y
<1>1. PICK x \in T : \A y \in T : ~(<<y, x>> \in OpToRel(<, Nat))
  BY NatLessThanWellFounded, WFMin
<1>2. \A y \in T : y < x => <<y, x>> \in OpToRel(<, Nat)
  BY DEF OpToRel
<1>3. \A y \in T : ~(y < x)
  BY <1>1, <1>2, Zenon
<1> QED
  BY <1>3

\* An activation is below another one in the records, so that all of them are
\* in the subtree of the first.
LEMMA TopInSubtree ==
    ASSUME StoreInv, stack # <<>>
    PROVE  /\ domain /\ RootNow = stack[1].name /\ RootNow \in Stored
           /\ Top.name \in Forest!Subtree(RootNow)
<1> DEFINE n == Len(stack)
<1>1. /\ n \in Nat /\ n >= 1 /\ n \in 1 .. n /\ 1 \in 1 .. n /\ Top = stack[n]
      /\ stack \in Seq(Frame) /\ \A i \in 1 .. n : stack[i].name \in Names
  BY TopFacts, StackFacts DEF StoreInv, TypeOK
<1>2. domain /\ RootNow = stack[1].name
  BY DEF StoreInv, FrameInv, RootNow
<1>3. \A i \in 1 .. n : stack[i].name \in Stored
  BY <1>1, <1>2, PresentFacts DEF StoreInv, FrameInv
<1>4. SUFFICES ASSUME NEW S \in SUBSET Stored, stack[1].name \in S,
                      \A m \in Stored : meta[m].parent \in S => m \in S
               PROVE  stack[n].name \in S
  BY <1>1, <1>2, <1>3, PresentFacts DEF Forest!Subtree, ForestNow
<1>5. SUFFICES ASSUME stack[n].name \notin S PROVE FALSE
  OBVIOUS
<1> DEFINE Out == {i \in 1 .. n : stack[i].name \notin S}
<1>6. Out \subseteq Nat /\ n \in Out
  BY <1>1, <1>5
<1>7. PICK i \in Out : \A j \in Out : i <= j
  BY <1>6, SmallestNumber
<1>8. i \in 1 .. n /\ i # 1 /\ i - 1 \in 1 .. n - 1 /\ i - 1 + 1 = i
  BY <1>1, <1>4, <1>7
<1>9. stack[i - 1].name \in S
  BY <1>1, <1>7, <1>8
<1>10. meta[stack[i].name].parent = stack[i - 1].name
  BY <1>8 DEF StoreInv, FrameInv, PathInv
<1> QED
  BY <1>3, <1>4, <1>7, <1>8, <1>9, <1>10

\* A deletion starts at a snapshot that exists.
LEMMA StartsDeleting ==
    ASSUME TypeOK, NEW s \in Names, stack = <<>>, domain, Readable(s), stack' = Enter(s),
           UNCHANGED <<domain, file, meta>>
    PROVE  Forest!StartDeleting(s)
<1> DEFINE f == NewFrame(s)
<1>1. f.name = s
  BY NewFrameType
<1> HIDE DEF f
<1>2. stack'[1] = f /\ stack' # <<>>
  BY DEF Enter, f
<1>3. RootNow = None /\ RootNow' = s
  BY <1>1, <1>2 DEF RootNow
<1>4. s \in Stored
  BY DEF Stored
<1>5. ForestNow' = ForestNow
  BY SameForestNow DEF Readable
<1> QED
  BY <1>3, <1>4, <1>5, PresentFacts DEF Forest!StartDeleting, ForestNow, RootNow

\* Removing a record prunes a leaf of the subtree under deletion.
LEMMA Prunes ==
    ASSUME StoreInv, ForestInv, RemoveFile, NEW x \in Names, x = Top.name
    PROVE  Forest!Prune(x)
<1> DEFINE n == Len(stack)
<1>1. /\ stack # <<>> /\ Top.at = "remove" /\ stack' = Leave
      /\ file' = [file EXCEPT ![x] = "absent"]
      /\ meta' = [meta EXCEPT ![x] = Blank]
      /\ UNCHANGED domain
  BY DEF RemoveFile
<1>2. /\ n \in Nat /\ n >= 1 /\ n \in 1 .. n /\ 1 \in 1 .. n /\ Top = stack[n]
      /\ stack \in Seq(Frame) /\ \A i \in 1 .. n : stack[i].name \in Names
  BY <1>1, TopFacts, StackFacts DEF StoreInv, TypeOK
<1>3. /\ domain /\ x \in Names /\ Readable(x)
      /\ \A m \in Names : Readable(m) => meta[m].parent # x
  BY <1>1, RemovableFacts
<1>4. x \in Forest!Subtree(RootNow) /\ RootNow = stack[1].name
  BY <1>1, TopInSubtree
<1>5. RootNow # None
  BY <1>2, <1>4, NamesAssumption
<1>6. Forest!Leaf(x)
  BY <1>3, PresentFacts DEF Forest!Leaf, ForestNow
<1>7. /\ \A m \in Names : m # x => file'[m] = file[m] /\ meta'[m] = meta[m]
      /\ file'[x] = "absent"
  BY <1>1, <1>3 DEF StoreInv, TypeOK
<1>8. Stored' = Stored \ {x}
  BY <1>1, <1>3, <1>7 DEF Stored, Readable
<1>9. ForestNow' = [m \in Stored \ {x} |-> ForestNow[m]]
  <2>1. \A m \in Stored \ {x} : meta'[m].parent = ForestNow[m]
    BY <1>7, PresentFacts
  <2> QED
    BY <1>8, <2>1 DEF ForestNow
<1>10. RootNow' = IF x = RootNow THEN None ELSE RootNow
  <2>1. /\ stack' \in Seq(Frame) /\ Len(stack') = n - 1
        /\ \A i \in 1 .. n - 1 : stack'[i] = stack[i]
    BY <1>1, <1>2, LeaveFacts
  <2>2. CASE n = 1
    <3>1. stack' = <<>>
      BY <2>1, <2>2
    <3> QED
      BY <1>2, <1>4, <2>2, <3>1 DEF RootNow
  <2>3. CASE n # 1
    <3>1. 1 \in 1 .. n - 1 /\ stack' # <<>>
      BY <1>2, <2>1, <2>3
    <3>2. x # stack[1].name
      BY <1>2, <2>3 DEF StoreInv, NoReentry
    <3> QED
      BY <1>1, <1>3, <1>4, <2>1, <3>1, <3>2 DEF RootNow
  <2> QED
    BY <2>2, <2>3
<1> QED
  BY <1>4, <1>5, <1>6, <1>9, <1>10, PresentFacts DEF Forest!Prune, ForestNow, RootNow

\* A new record grows the forest on top of the controller's state.
LEMMA Grows ==
    ASSUME StoreInv, ForestInv, WriteRecord, NEW x \in Names, x = arg.snap,
           NEW p \in Names \cup {None}, p = cur
    PROVE  Forest!Grow(x, p)
<1>1. stack = <<>> /\ stack' = <<>> /\ UNCHANGED domain
  BY DEF WriteRecord
<1>2. /\ domain /\ x \in Names /\ ~Readable(x)
      /\ \A m \in Names : m # x => file'[m] = file[m] /\ meta'[m] = meta[m]
      /\ file'[x] = "ok" /\ meta'[x].parent = cur
  BY WriteRecordFacts
<1>3. RootNow = None /\ RootNow' = None
  BY <1>1 DEF RootNow
<1>4. p \in Stored \cup {None} /\ x \notin Stored
  BY <1>2, PresentFacts DEF ForestInv, StateKept, StoreInv, TypeOK
<1>5. Stored' = Stored \cup {x}
  BY <1>1, <1>2 DEF Stored, Readable
<1>6. \A m \in Stored : m # x /\ meta'[m].parent = ForestNow[m]
  BY <1>2, <1>4, PresentFacts
<1>7. ForestNow' = [m \in Stored \cup {x} |-> IF m = x THEN p ELSE ForestNow[m]]
  BY <1>2, <1>5, <1>6 DEF ForestNow
<1> QED
  BY <1>2, <1>3, <1>4, <1>7, PresentFacts DEF Forest!Grow, ForestNow, RootNow

\* The hypervisor forgets the controller, and with it all of its snapshots.
LEMMA Razes ==
    ASSUME Undefine
    PROVE  Forest!Raze
<1>1. domain' = FALSE
  BY DEF Undefine
<1>2. Stored' = {} /\ RootNow' = None
  BY <1>1 DEF Stored, RootNow
<1>3. ForestNow' = << >>
  BY <1>2, SMT DEF ForestNow
<1> QED
  BY <1>2, <1>3 DEF Forest!Raze, ForestNow, RootNow

\* The records and the bottom of the stack stay.
LEMMA LeavesAlone ==
    ASSUME UNCHANGED domain,
           \A m \in Names : domain => (Readable(m)' <=> Readable(m)),
           \A m \in Names : domain /\ Readable(m) => meta'[m].parent = meta[m].parent,
           \/ stack = <<>> /\ stack' = <<>>
           \/ stack # <<>> /\ stack' # <<>> /\ stack'[1].name = stack[1].name
    PROVE  UNCHANGED <<ForestNow, RootNow>>
<1>1. ForestNow' = ForestNow
  BY SameForestNow
<1>2. RootNow' = RootNow
  BY DEF RootNow
<1> QED
  BY <1>1, <1>2

\* The process dies: what is left of the subtree under deletion stays.
LEMMA Abandons ==
    ASSUME Restart, UNCHANGED domain, domain => UNCHANGED <<file, meta>>
    PROVE  Forest!Abandon \/ UNCHANGED <<ForestNow, RootNow>>
<1>1. ForestNow' = ForestNow
  BY SameForestNow DEF Readable
<1>2. stack' = <<>> /\ RootNow' = None
  BY DEF Restart, RootNow
<1>3. CASE RootNow = None
  BY <1>1, <1>2, <1>3
<1>4. CASE RootNow # None
  BY <1>1, <1>2, <1>4 DEF Forest!Abandon, ForestNow, RootNow
<1> QED
  BY <1>3, <1>4

\* Within a deletion the forest changes when a record is removed, and only then.
LEMMA DeleteImplements ==
    ASSUME StoreInv, ForestInv, Delete
    PROVE  [Forest!Next]_<<ForestNow, RootNow>>
<1>a. stack # <<>> => /\ Len(stack) \in Nat /\ Len(stack) >= 1 /\ stack \in Seq(Frame)
                      /\ Top \in Frame /\ Top = stack[Len(stack)]
  BY TopFacts DEF StoreInv, TypeOK
<1>1. ASSUME NEW s \in Tests, Invalidate(s)
      PROVE  \E t \in Names : Forest!StartDeleting(t)
  <2>1. /\ s \in Names /\ stack = <<>> /\ domain /\ Readable(s) /\ stack' = Enter(s)
        /\ UNCHANGED <<domain, file, meta>>
    BY <1>1 DEF Invalidate, Idle, is_defined, disk, Names
  <2> QED
    BY <2>1, StartsDeleting DEF StoreInv
<1>2. ASSUME NEW c \in Names, VisitChild(c)
      PROVE  UNCHANGED <<ForestNow, RootNow>>
  <2>1. stack # <<>> /\ Top.todo[c] > 0 /\ stack' = Visit(c) /\ UNCHANGED <<domain, file, meta>>
    BY <1>2 DEF VisitChild, disk
  <2>2. NewFrame(c) \in Frame
    BY NewFrameType DEF StoreInv
  <2>3. stack' # <<>> /\ stack'[1].name = stack[1].name
    BY <1>a, <2>1, <2>2, VisitFacts
  <2> QED
    BY <2>1, <2>3, LeavesAlone DEF Readable
<1>3. ~VisitChildThrows
  <2>1. ASSUME stack # <<>>, NEW c \in Names, Top.todo[c] > 0
        PROVE  Readable(c)
    <3>1. Len(stack) \in 1 .. Len(stack) /\ domain
      BY <1>a, <2>1 DEF StoreInv, FrameInv
    <3>2. Lists(Top.name, c) /\ Top.name \in Names
      BY <1>a, <2>1, <3>1, StackFacts DEF StoreInv, FrameInv
    <3> QED
      BY <3>1, <3>2 DEF StoreInv, NoDanglingChild
  <2> QED
    BY <2>1 DEF VisitChildThrows
<1>4. ASSUME ChildrenDone \/ DeleteHypervisorSnapshot \/ UnlinkParent
      PROVE  UNCHANGED <<ForestNow, RootNow>>
  <2>1. /\ stack # <<>> /\ UNCHANGED <<domain, file>>
        /\ \E point \in {"hyp", "unlink", "remove"} : stack' = Goto(point)
    BY <1>4 DEF ChildrenDone, DeleteHypervisorSnapshot, UnlinkParent, disk
  <2>2. \A m \in Names : meta'[m].parent = meta[m].parent
    BY <1>4, UnlinkFacts DEF ChildrenDone, DeleteHypervisorSnapshot, disk
  <2>3. stack' # <<>> /\ stack'[1].name = stack[1].name
    BY <1>a, <2>1, GotoFacts
  <2> QED
    BY <2>1, <2>2, <2>3, LeavesAlone DEF Readable
<1>5. ASSUME RemoveFile
      PROVE  \E t \in Names : Forest!Prune(t)
  <2>1. Top.name \in Names
    BY <1>a, <1>5 DEF RemoveFile, Frame
  <2> QED
    <3>1. PICK t \in Names : t = Top.name
      BY <2>1
    <3> QED
      BY <1>5, <3>1, Prunes
<1> QED
  BY <1>1, <1>2, <1>3, <1>4, <1>5 DEF Delete, Forest!Next

\* A snapshot appears when its record is written.
LEMMA TakeImplements ==
    ASSUME StoreInv, ForestInv, Take
    PROVE  [Forest!Next]_<<ForestNow, RootNow>>
<1>1. ASSUME NEW s \in Tests, NEW c \in Cksums, NEW needed \in BOOLEAN,
             TakeSnapshot(s, c, needed)
      PROVE  (\E t \in Names : Forest!StartDeleting(t)) \/ UNCHANGED <<ForestNow, RootNow>>
  <2> DEFINE again == Readable(s) /\ ~(Readable(s) /\ meta[s].cksum = c)
  <2>1. /\ s \in Names /\ stack = <<>> /\ domain /\ UNCHANGED <<domain, file, meta>>
        /\ stack' = IF again THEN Enter(s) ELSE stack
    BY <1>1 DEF TakeSnapshot, Idle, is_defined, disk, Names
  <2>2. CASE again
    BY <2>1, <2>2, StartsDeleting DEF StoreInv
  <2>3. CASE ~again
    BY <2>1, <2>3, LeavesAlone DEF Readable
  <2> QED
    BY <2>2, <2>3
<1>2. ASSUME \/ \E s \in Tests : KeepSnapshot(s)
             \/ MakeHypervisorSnapshot \/ RemakeHypervisorSnapshot \/ SetMain
      PROVE  UNCHANGED <<ForestNow, RootNow>>
  <2>1. stack = <<>> /\ stack' = <<>> /\ UNCHANGED <<domain, file, meta>>
    BY <1>2 DEF KeepSnapshot, MakeHypervisorSnapshot, RemakeHypervisorSnapshot, SetMain,
                Idle, disk
  <2> QED
    BY <2>1, LeavesAlone DEF Readable
<1>3. ASSUME WriteRecord
      PROVE  \E t \in Names, p \in Names \cup {None} : Forest!Grow(t, p)
  <2>1. arg.snap \in Names /\ cur \in Names \cup {None}
    BY <1>3, WriteRecordFacts DEF StoreInv, TypeOK
  <2>2. PICK t \in Names, p \in Names \cup {None} : t = arg.snap /\ p = cur
    BY <2>1
  <2> QED
    BY <1>3, <2>2, Grows
<1>4. ASSUME LinkParent
      PROVE  UNCHANGED <<ForestNow, RootNow>>
  <2>1. /\ stack = <<>> /\ stack' = <<>> /\ pc = "link" /\ UNCHANGED <<domain, file>>
        /\ IF cur = None
           THEN UNCHANGED meta
           ELSE /\ meta[cur].children[arg.snap] < MaxLinks
                /\ meta' = WithChild(cur, arg.snap)
    BY <1>4 DEF LinkParent
  <2>2. arg.snap \in Names /\ cur \in Names \cup {None}
    BY <2>1, TakingFacts
  <2>3. \A m \in Names : meta'[m].parent = meta[m].parent
    BY <2>1, <2>2, WithChildFacts DEF StoreInv, TypeOK
  <2> QED
    BY <2>1, <2>3, LeavesAlone DEF Readable
<1>5. ~LinkParentThrows
  BY DEF LinkParentThrows, ForestInv, StateKept
<1> QED
  BY <1>1, <1>2, <1>3, <1>4, <1>5 DEF Take, Forest!Next

\* The old controller takes its snapshots with it, the new one has none yet.
LEMMA CreateImplements ==
    ASSUME StoreInv, ForestInv, Create
    PROVE  [Forest!Next]_<<ForestNow, RootNow>>
<1>1. ASSUME NEW s \in Names, RestoreSnapshot(s)
      PROVE  UNCHANGED <<ForestNow, RootNow>>
  <2>1. stack = <<>> /\ stack' = <<>> /\ UNCHANGED <<domain, file, meta>>
    BY <1>1 DEF RestoreSnapshot, Idle
  <2> QED
    BY <2>1, LeavesAlone DEF Readable
<1>2. ASSUME CreateController
      PROVE  (\E t \in Names : Forest!StartDeleting(t)) \/ UNCHANGED <<ForestNow, RootNow>>
  <2>1. /\ stack = <<>> /\ UNCHANGED <<domain, file, meta>> /\ Initial \in Names
        /\ stack' = <<>> \/ (domain /\ Readable(Initial) /\ stack' = Enter(Initial))
    BY <1>2 DEF CreateController, Idle, disk, Names
  <2> QED
    BY <2>1, StartsDeleting, LeavesAlone DEF StoreInv, Readable
<1>3. ASSUME RemoveTree \/ Install \/ WriteMain
      PROVE  UNCHANGED <<ForestNow, RootNow>>
  <2>1. /\ stack = <<>> /\ stack' = <<>>
        /\ ~domain' \/ AllAbsent'
        /\ ~domain \/ AllAbsent
    BY <1>3 DEF RemoveTree, Install, WriteMain, StoreInv, CreationInv, AllAbsent
  <2>2. Stored = {} /\ Stored' = {}
    BY <2>1 DEF Stored, AllAbsent, Readable
  <2>3. ForestNow' = ForestNow
    BY <2>2 DEF ForestNow
  <2> QED
    BY <2>1, <2>3 DEF RootNow
<1> QED
  BY <1>1, <1>2, <1>3, Razes DEF Create, Forest!Next

\* The rest of a launch reads, or ends it.
LEMMA LaunchImplements ==
    ASSUME StoreInv, ForestInv, Launch, ~TornWrites
    PROVE  [Forest!Next]_<<ForestNow, RootNow>>
<1>1. ASSUME StartRunning \/ (\E s \in Tests : DeleteTemporary(s)) \/ StopMachine \/ EditConfig
      PROVE  UNCHANGED <<ForestNow, RootNow>>
  <2>1. stack = <<>> /\ stack' = <<>> /\ UNCHANGED <<domain, file, meta>>
    BY <1>1 DEF StartRunning, DeleteTemporary, StopMachine, EditConfig, Idle, disk, memory
  <2> QED
    BY <2>1, LeavesAlone DEF Readable
<1>2. ASSUME EndLaunch
      PROVE  Forest!Abandon \/ UNCHANGED <<ForestNow, RootNow>>
  BY <1>2, Abandons DEF EndLaunch, disk
<1>3. ASSUME Crash
      PROVE  Forest!Abandon \/ UNCHANGED <<ForestNow, RootNow>>
  <2>1. Restart /\ UNCHANGED domain /\ (Point # "rmtree" => UNCHANGED <<file, meta>>)
    BY <1>3 DEF Crash
  <2>2. Point = "rmtree" => ~domain
    BY TopFacts DEF Point, StoreInv, CreationInv, TypeOK, Frame
  <2> QED
    BY <2>1, <2>2, Abandons
<1> QED
  BY <1>1, <1>2, <1>3 DEF Launch, CrashInWrite, Forest!Next

\* The files, the crashes and the restarts implement the forest of snapshots.
THEOREM StoreImplementsForest == CalmStore /\ Spec => ImplementsForest
<1>1. Init => Forest!Init
  <2>1. SUFFICES ASSUME Init PROVE Forest!Init
    OBVIOUS
  <2>2. Stored = {} /\ RootNow = None
    BY <2>1 DEF Init, Stored, RootNow
  <2>3. ForestNow = << >>
    BY <2>2, SMT DEF ForestNow
  <2> QED
    BY <2>2, <2>3 DEF Forest!Init, ForestNow, RootNow
<1>2. CalmStore /\ StoreInv /\ ForestInv /\ [Next]_vars => [Forest!Next]_<<ForestNow, RootNow>>
  <2>1. ASSUME UNCHANGED vars
        PROVE  UNCHANGED <<ForestNow, RootNow>>
    BY <2>1, LeavesAlone DEF vars, Readable
  <2> QED
    BY <2>1, DeleteImplements, TakeImplements, CreateImplements, LaunchImplements
       DEF Next, CalmStore, CalmDisk
<1>3. CalmStore => CalmStore'
  BY DEF CalmStore, CalmDisk, NoWindow, NoLoops, Ancestral, Names
<1> QED
  BY <1>1, <1>2, <1>3, ForestConsistent, PTL
     DEF Spec, ImplementsForest, Forest!Spec, ForestNow, RootNow

=============================================================================
