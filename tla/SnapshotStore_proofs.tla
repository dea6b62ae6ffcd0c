------------------------ MODULE SnapshotStore_proofs -----------------------
(***************************************************************************)
(* Proofs about SnapshotStore, for any number of tests, any hierarchy and  *)
(* any crash.                                                              *)
(***************************************************************************)
EXTENDS SnapshotStore, SequenceTheorems, TLAPS

----------------------------------------------------------------------------
(* Pushing, updating and popping an activation                             *)

\* A pushed activation is the new top and the others stay where they were.
LEMMA PushFacts ==
    ASSUME NEW s \in Seq(Frame), NEW f \in Frame
    PROVE  /\ Append(s, f) \in Seq(Frame)
           /\ Len(Append(s, f)) = Len(s) + 1
           /\ Append(s, f)[Len(s) + 1] = f
           /\ \A i \in 1 .. Len(s) : Append(s, f)[i] = s[i]
           /\ Append(s, f) # <<>>
OBVIOUS

\* Returning from an activation leaves the callers as they were.
LEMMA LeaveFacts ==
    ASSUME stack \in Seq(Frame), stack # <<>>
    PROVE  /\ Leave \in Seq(Frame)
           /\ Len(Leave) = Len(stack) - 1
           /\ \A i \in 1 .. Len(stack) - 1 : Leave[i] = stack[i]
BY DEF Leave

\* Replacing the top activation leaves its callers as they were.
LEMMA ReplaceFacts ==
    ASSUME stack \in Seq(Frame), stack # <<>>, NEW f \in Frame
    PROVE  /\ Replace(f) \in Seq(Frame)
           /\ Len(Replace(f)) = Len(stack)
           /\ Replace(f) # <<>>
           /\ \A i \in 1 .. Len(stack) - 1 : Replace(f)[i] = stack[i]
           /\ Replace(f)[Len(stack)] = f
<1>1. Len(stack) \in 1 .. Len(stack)
  OBVIOUS
<1> QED
  BY <1>1, ExceptSeq DEF Replace

\* The top of a non-empty stack is an activation.
LEMMA TopFacts ==
    ASSUME stack \in Seq(Frame), stack # <<>>
    PROVE  /\ Len(stack) \in Nat /\ Len(stack) >= 1
           /\ Top \in Frame
           /\ Top = stack[Len(stack)]
BY DEF Top

\* Only the point of the top activation changes.
LEMMA GotoFacts ==
    ASSUME stack \in Seq(Frame), stack # <<>>, NEW point \in DeletePoints
    PROVE  /\ Goto(point) \in Seq(Frame)
           /\ Len(Goto(point)) = Len(stack)
           /\ Goto(point) # <<>>
           /\ \A i \in 1 .. Len(stack) - 1 : Goto(point)[i] = stack[i]
           /\ Goto(point)[Len(stack)].at = point
           /\ Goto(point)[Len(stack)].name = Top.name
           /\ Goto(point)[Len(stack)].parent = Top.parent
           /\ Goto(point)[Len(stack)].todo = Top.todo
<1>1. Top \in Frame
  BY TopFacts
<1>2. [Top EXCEPT !.at = point] \in Frame
  BY <1>1 DEF Frame
<1>3. /\ [Top EXCEPT !.at = point].at = point
      /\ [Top EXCEPT !.at = point].name = Top.name
      /\ [Top EXCEPT !.at = point].parent = Top.parent
      /\ [Top EXCEPT !.at = point].todo = Top.todo
  BY <1>1 DEF Frame
<1> QED
  BY <1>2, <1>3, ReplaceFacts DEF Goto

\* A call for the child c: c leaves the caller's list and gets an activation.
LEMMA VisitFacts ==
    ASSUME stack \in Seq(Frame), stack # <<>>,
           NEW c \in Names, Top.todo[c] > 0,
           NewFrame(c) \in Frame
    PROVE  /\ Visit(c) \in Seq(Frame) /\ Len(Visit(c)) = Len(stack) + 1 /\ Visit(c) # <<>>
           /\ \A i \in 1 .. Len(stack) - 1 : Visit(c)[i] = stack[i]
           /\ Visit(c)[Len(stack)].name = Top.name
           /\ Visit(c)[Len(stack)].parent = Top.parent
           /\ Visit(c)[Len(stack)].at = Top.at
           /\ Visit(c)[Len(stack)].todo[c] = Top.todo[c] - 1
           /\ \A d \in Names \ {c} : Visit(c)[Len(stack)].todo[d] = Top.todo[d]
           /\ Visit(c)[Len(stack) + 1] = NewFrame(c)
<1>1. Top \in Frame /\ Len(stack) \in Nat /\ Len(stack) >= 1
  BY TopFacts
<1>2. Top.todo \in Bag
  BY <1>1 DEF Frame
<1>3. [Top.todo EXCEPT ![c] = @ - 1] \in Bag
  BY <1>2, MaxLinksAssumption DEF Bag
<1>4. Without(c) \in Frame
  BY <1>1, <1>3 DEF Without, Frame
<1>5. /\ Without(c).name = Top.name /\ Without(c).parent = Top.parent
      /\ Without(c).at = Top.at /\ Without(c).todo[c] = Top.todo[c] - 1
      /\ \A d \in Names \ {c} : Without(c).todo[d] = Top.todo[d]
  BY <1>1, <1>2 DEF Without, Frame, Bag
<1>6. /\ Replace(Without(c)) \in Seq(Frame)
      /\ Len(Replace(Without(c))) = Len(stack)
      /\ \A i \in 1 .. Len(stack) - 1 : Replace(Without(c))[i] = stack[i]
      /\ Replace(Without(c))[Len(stack)] = Without(c)
  BY <1>4, ReplaceFacts
<1>7. /\ Visit(c) \in Seq(Frame) /\ Len(Visit(c)) = Len(stack) + 1 /\ Visit(c) # <<>>
      /\ \A i \in 1 .. Len(stack) : Visit(c)[i] = Replace(Without(c))[i]
      /\ Visit(c)[Len(stack) + 1] = NewFrame(c)
  BY <1>6, PushFacts DEF Visit
<1>8. Visit(c)[Len(stack)] = Without(c)
  BY <1>1, <1>6, <1>7
<1> QED
  BY <1>1, <1>5, <1>6, <1>7, <1>8

----------------------------------------------------------------------------
(* Type correctness                                                        *)

USE DEF DeletePoints, TakePoints, CreatePoints, Points, FileState

\* The values the variables start from and are reset to.
LEMMA ConstantTypes ==
    /\ EmptyBag \in Bag
    /\ Blank \in Record
    /\ NoArgument \in Argument
    /\ <<>> \in Seq(Frame)
    /\ \A c \in Names : EmptyBag[c] = 0
<1>1. EmptyBag \in Bag /\ \A c \in Names : EmptyBag[c] = 0
  BY MaxLinksAssumption DEF EmptyBag, Bag
<1>2. Blank \in Record
  BY <1>1 DEF Blank, Record
<1>3. NoArgument \in Argument
  BY DEF NoArgument, Argument, Names
<1> QED
  BY <1>1, <1>2, <1>3

\* An activation is made of a record.
LEMMA NewFrameType ==
    ASSUME TypeOK, NEW s \in Names
    PROVE  /\ NewFrame(s) \in Frame
           /\ NewFrame(s).name = s
           /\ NewFrame(s).parent = meta[s].parent
           /\ NewFrame(s).todo = meta[s].children
           /\ NewFrame(s).at = "children"
<1>1. meta[s] \in Record
  BY DEF TypeOK
<1> QED
  BY <1>1 DEF NewFrame, Frame, Record

\* A restarted process holds the initial values.
LEMMA RestartType ==
    ASSUME Restart
    PROVE  /\ cur' \in Names \cup {None} /\ phase' \in {"plan", "run"}
           /\ trusted' \in BOOLEAN /\ pc' \in Points \ DeletePoints
           /\ arg' \in Argument /\ stack' \in Seq(Frame)
BY ConstantTypes DEF Restart

\* Whatever the hypervisor is asked, its snapshots carry known names.
LEMMA HypervisorTypes ==
    ASSUME TypeOK, NEW s \in Names, MakeSnapshot(s) \/ DestroySnapshot(s)
    PROVE  /\ hyp' \subseteq Names /\ base' \in [Names -> Names \cup {None}]
           /\ at' \in Names \cup {None}
<1>1. CASE MakeSnapshot(s)
  BY <1>1 DEF MakeSnapshot, TypeOK
<1>2. CASE DestroySnapshot(s)
  BY <1>2 DEF DestroySnapshot, TypeOK
<1> QED
  BY <1>1, <1>2

DiskType ==
    /\ domain \in BOOLEAN /\ main \in FileState /\ stale \in BOOLEAN
    /\ file \in [Names -> FileState]
    /\ meta \in [Names -> Record]
    /\ hyp \subseteq Names
    /\ base \in [Names -> Names \cup {None}] /\ at \in Names \cup {None}

MemoryType ==
    /\ cur \in Names \cup {None} /\ phase \in {"plan", "run"} /\ trusted \in BOOLEAN
    /\ pc \in Points \ DeletePoints
    /\ arg \in Argument
    /\ stack \in Seq(Frame)

\* What is on disk and what is in memory are typed apart.
LEMMA TypeSplit == TypeOK <=> DiskType /\ MemoryType
BY DEF TypeOK, DiskType, MemoryType

\* The same of the next state.
LEMMA TypeSplitNext == TypeOK' <=> DiskType' /\ MemoryType'
BY DEF TypeOK, DiskType, MemoryType

\* The initial store is well typed.
LEMMA InitType == Init => TypeOK
BY ConstantTypes DEF Init, TypeOK, Names

\* Unlinking takes one occurrence of x away from p's children, nothing else.
LEMMA WithoutChildFacts ==
    ASSUME meta \in [Names -> Record], NEW p \in Names, NEW x \in Names
    PROVE  /\ WithoutChild(p, x) \in [Names -> Record]
           /\ \A n \in Names : WithoutChild(p, x)[n].parent = meta[n].parent
           /\ \A n \in Names, c \in Names :
                  n # p \/ c # x =>
                    WithoutChild(p, x)[n].children[c] = meta[n].children[c]
           /\ WithoutChild(p, x)[p].children[x] =
                  IF meta[p].children[x] > 0 THEN meta[p].children[x] - 1 ELSE 0
<1> DEFINE k == IF meta[p].children[x] > 0 THEN meta[p].children[x] - 1 ELSE 0
           kids == [meta[p].children EXCEPT ![x] = k]
           rec == [meta[p] EXCEPT !.children = kids]
<1>1. meta[p] \in Record /\ meta[p].children \in Bag
  BY DEF Record
<1>2. k \in 0 .. MaxLinks
  BY <1>1, MaxLinksAssumption DEF Bag
<1>3. /\ kids \in Bag /\ kids[x] = k
      /\ \A c \in Names : c # x => kids[c] = meta[p].children[c]
  <2> HIDE DEF k
  <2> QED
    BY <1>1, <1>2 DEF Bag
<1>4. rec \in Record /\ rec.parent = meta[p].parent /\ rec.children = kids
  <2> HIDE DEF kids
  <2> QED
    BY <1>1, <1>3 DEF Record
<1>5. WithoutChild(p, x) = [meta EXCEPT ![p] = rec]
  BY <1>1 DEF WithoutChild, Record
<1> HIDE DEF rec, kids, k
<1>6. [meta EXCEPT ![p] = rec] \in [Names -> Record]
  BY <1>4
<1>7. [meta EXCEPT ![p] = rec][p] = rec
  OBVIOUS
<1> QED
  BY <1>3, <1>4, <1>5, <1>6, <1>7 DEF k

\* Linking adds one occurrence of x to p's children, nothing else.
LEMMA WithChildFacts ==
    ASSUME meta \in [Names -> Record], NEW p \in Names, NEW x \in Names,
           meta[p].children[x] < MaxLinks
    PROVE  /\ WithChild(p, x) \in [Names -> Record]
           /\ \A n \in Names : WithChild(p, x)[n].parent = meta[n].parent
           /\ \A n \in Names, c \in Names :
                  n # p \/ c # x =>
                    WithChild(p, x)[n].children[c] = meta[n].children[c]
           /\ WithChild(p, x)[p].children[x] = meta[p].children[x] + 1
<1> DEFINE k == meta[p].children[x] + 1
           kids == [meta[p].children EXCEPT ![x] = k]
           rec == [meta[p] EXCEPT !.children = kids]
<1>1. meta[p] \in Record /\ meta[p].children \in Bag
  BY DEF Record
<1>2. k \in 0 .. MaxLinks
  BY <1>1, MaxLinksAssumption DEF Bag
<1>3. /\ kids \in Bag /\ kids[x] = k
      /\ \A c \in Names : c # x => kids[c] = meta[p].children[c]
  <2> HIDE DEF k
  <2> QED
    BY <1>1, <1>2 DEF Bag
<1>4. rec \in Record /\ rec.parent = meta[p].parent /\ rec.children = kids
  <2> HIDE DEF kids
  <2> QED
    BY <1>1, <1>3 DEF Record
<1>5. WithChild(p, x) = [meta EXCEPT ![p] = rec]
  BY <1>1 DEF WithChild, Record
<1> HIDE DEF rec, kids, k
<1>6. [meta EXCEPT ![p] = rec] \in [Names -> Record]
  BY <1>4
<1>7. [meta EXCEPT ![p] = rec][p] = rec
  OBVIOUS
<1> QED
  BY <1>3, <1>4, <1>5, <1>6, <1>7 DEF k

\* The steps of a deletion.
LEMMA DeleteType ==
    ASSUME TypeOK, Delete
    PROVE  TypeOK'
<1> SUFFICES DiskType' /\ MemoryType'
  BY TypeSplitNext
<1>0. DiskType /\ MemoryType
  BY TypeSplit
<1>1. ASSUME NEW s \in Tests, Invalidate(s)
      PROVE  DiskType' /\ MemoryType'
  <2>1. NewFrame(s) \in Frame
    BY NewFrameType DEF Names
  <2> QED
    BY <1>0, <1>1, <2>1, PushFacts DEF Invalidate, Enter, DiskType, MemoryType, disk
<1>2. ASSUME NEW c \in Names, VisitChild(c)
      PROVE  DiskType' /\ MemoryType'
  <2>1. NewFrame(c) \in Frame
    BY NewFrameType
  <2>2. stack' \in Seq(Frame)
    BY <1>0, <1>2, <2>1, VisitFacts DEF VisitChild, MemoryType
  <2> QED
    BY <1>0, <1>2, <2>2 DEF VisitChild, DiskType, MemoryType, disk
<1>3. CASE VisitChildThrows
  BY <1>0, <1>3, RestartType DEF VisitChildThrows, DiskType, MemoryType, disk
<1>4. CASE ChildrenDone
  BY <1>0, <1>4, GotoFacts DEF ChildrenDone, DiskType, MemoryType, disk
<1>5. CASE DeleteHypervisorSnapshot
  <2>1. Top.name \in Names
    BY <1>0, <1>5, TopFacts DEF DeleteHypervisorSnapshot, MemoryType, Frame
  <2>2. /\ hyp' \subseteq Names /\ base' \in [Names -> Names \cup {None}]
        /\ at' \in Names \cup {None}
    BY <1>0, <1>5, <2>1, HypervisorTypes DEF DeleteHypervisorSnapshot, DiskType
  <2> QED
    BY <1>0, <1>5, <2>2, GotoFacts DEF DeleteHypervisorSnapshot, DiskType, MemoryType
<1>6. CASE UnlinkParent
  <2>1. Top.name \in Names /\ Top.parent \in Names \cup {None}
    BY <1>0, <1>6, TopFacts DEF UnlinkParent, MemoryType, Frame
  <2>2. meta' \in [Names -> Record]
    BY <1>0, <1>6, <2>1, WithoutChildFacts DEF UnlinkParent, DiskType, Readable
  <2> QED
    BY <1>0, <1>6, <2>2, GotoFacts DEF UnlinkParent, DiskType, MemoryType
<1>7. CASE RemoveFile
  <2>1. /\ meta' \in [Names -> Record]
        /\ file' \in [Names -> FileState]
    BY <1>0, <1>7, ConstantTypes DEF RemoveFile, DiskType
  <2> QED
    BY <1>0, <1>7, <2>1, LeaveFacts DEF RemoveFile, DiskType, MemoryType
<1> QED
  BY <1>1, <1>2, <1>3, <1>4, <1>5, <1>6, <1>7 DEF Delete

\* The steps of create_snapshot.
LEMMA TakeType ==
    ASSUME TypeOK, Take
    PROVE  TypeOK'
<1> SUFFICES DiskType' /\ MemoryType'
  BY TypeSplitNext
<1>0. DiskType /\ MemoryType
  BY TypeSplit
<1>a. arg.snap \in Names /\ arg.cksum \in Cksums \cup {None} /\ arg.needed \in BOOLEAN
  BY <1>0 DEF MemoryType, Argument
<1>r. Return => /\ cur' \in Names \cup {None} /\ pc' \in Points \ DeletePoints
                /\ arg' \in Argument
  BY <1>a, ConstantTypes DEF Return
<1>1. ASSUME NEW s \in Tests, KeepSnapshot(s)
      PROVE  DiskType' /\ MemoryType'
  BY <1>0, <1>1 DEF KeepSnapshot, DiskType, MemoryType, disk, Names
<1>2. ASSUME NEW s \in Tests, NEW c \in Cksums, NEW needed \in BOOLEAN,
             TakeSnapshot(s, c, needed)
      PROVE  DiskType' /\ MemoryType'
  <2>1. arg' \in Argument
    BY <1>2 DEF TakeSnapshot, Argument, Names
  <2>2. NewFrame(s) \in Frame
    BY NewFrameType DEF Names
  <2>3. stack' \in Seq(Frame)
    BY <1>0, <1>2, <2>2, PushFacts DEF TakeSnapshot, Enter, MemoryType
  <2>4. pc' \in Points \ DeletePoints
    BY <1>2 DEF TakeSnapshot
  <2> QED
    BY <1>0, <1>2, <2>1, <2>3, <2>4 DEF TakeSnapshot, DiskType, MemoryType, disk
<1>3. CASE MakeHypervisorSnapshot
  BY <1>0, <1>3, <1>a, HypervisorTypes DEF MakeHypervisorSnapshot, DiskType, MemoryType
<1>4. CASE RemakeHypervisorSnapshot
  BY <1>0, <1>4, <1>a, <1>r, HypervisorTypes
     DEF RemakeHypervisorSnapshot, DiskType, MemoryType
<1>5. CASE SetMain
  BY <1>0, <1>5, <1>r DEF SetMain, DiskType, MemoryType, disk
<1>6. CASE WriteRecord
  <2>1. [cksum |-> arg.cksum, parent |-> cur, children |-> EmptyBag,
         opaque |-> IsMachine /\ arg.needed] \in Record
    BY <1>0, <1>a, ConstantTypes, FlagsAssumption DEF Record, MemoryType
  <2>2. meta' \in [Names -> Record] /\ file' \in [Names -> FileState]
    BY <1>0, <1>6, <2>1 DEF WriteRecord, DiskType
  <2> QED
    BY <1>0, <1>6, <2>2 DEF WriteRecord, DiskType, MemoryType
<1>7. CASE LinkParent
  <2>1. meta' \in [Names -> Record]
    BY <1>0, <1>7, <1>a, WithChildFacts DEF LinkParent, WithChild, DiskType, MemoryType
  <2> QED
    BY <1>0, <1>7, <1>r, <2>1 DEF LinkParent, DiskType, MemoryType
<1>8. CASE LinkParentThrows
  BY <1>0, <1>8, RestartType DEF LinkParentThrows, DiskType, MemoryType, disk
<1> QED
  BY <1>1, <1>2, <1>3, <1>4, <1>5, <1>6, <1>7, <1>8 DEF Take

\* The steps of restore_snapshot and of a creation.
LEMMA CreateType ==
    ASSUME TypeOK, Create
    PROVE  TypeOK'
<1> SUFFICES DiskType' /\ MemoryType'
  BY TypeSplitNext
<1>0. DiskType /\ MemoryType
  BY TypeSplit
<1>1. ASSUME NEW s \in Names, RestoreSnapshot(s)
      PROVE  DiskType' /\ MemoryType'
  BY <1>0, <1>1 DEF RestoreSnapshot, DiskType, MemoryType
<1>2. CASE CreateController
  <2>1. NewFrame(Initial) \in Frame
    BY NewFrameType DEF Names
  <2>2. stack' \in Seq(Frame)
    BY <1>0, <1>2, <2>1, PushFacts DEF CreateController, Enter, MemoryType
  <2> QED
    BY <1>0, <1>2, <2>2 DEF CreateController, DiskType, MemoryType, disk
<1>3. CASE Undefine
  BY <1>0, <1>3 DEF Undefine, DiskType, MemoryType
<1>4. CASE RemoveTree
  BY <1>0, <1>4, ConstantTypes DEF RemoveTree, DiskType, MemoryType
<1>5. CASE Install
  BY <1>0, <1>5 DEF Install, DiskType, MemoryType
<1>6. CASE WriteMain
  BY <1>0, <1>6 DEF WriteMain, DiskType, MemoryType, Argument, Names
<1> QED
  BY <1>1, <1>2, <1>3, <1>4, <1>5, <1>6 DEF Create

\* The steps of the launch.
LEMMA LaunchType ==
    ASSUME TypeOK, Launch
    PROVE  TypeOK'
<1> SUFFICES DiskType' /\ MemoryType'
  BY TypeSplitNext
<1>0. DiskType /\ MemoryType
  BY TypeSplit
<1>1. CASE StartRunning
  BY <1>0, <1>1 DEF StartRunning, Relevant, is_defined, DiskType, MemoryType, disk
<1>2. ASSUME NEW s \in Tests, DeleteTemporary(s)
      PROVE  DiskType' /\ MemoryType'
  BY <1>0, <1>2, HypervisorTypes DEF DeleteTemporary, DiskType, MemoryType, Names
<1>3. CASE StopMachine
  BY <1>0, <1>3 DEF StopMachine, DiskType, MemoryType, disk
<1>4. CASE EditConfig
  BY <1>0, <1>4 DEF EditConfig, DiskType, MemoryType, memory
<1>5. CASE EndLaunch
  BY <1>0, <1>5, RestartType DEF EndLaunch, DiskType, MemoryType, disk
<1>6. CASE Crash
  <2>1. main' \in FileState /\ file' \in [Names -> FileState]
    BY <1>0, <1>6 DEF Crash, DiskType
  <2>2. meta' \in [Names -> Record]
    BY <1>0, <1>6, ConstantTypes DEF Crash, DiskType
  <2> QED
    BY <1>0, <1>6, <2>1, <2>2, RestartType DEF Crash, DiskType, MemoryType
<1>7. CASE CrashInWrite
  <2>1. main' \in FileState /\ file' \in [Names -> FileState]
    BY <1>0, <1>7 DEF CrashInWrite, DiskType
  <2>2. meta' \in [Names -> Record]
    BY <1>0, <1>7, ConstantTypes DEF CrashInWrite, DiskType
  <2> QED
    BY <1>0, <1>7, <2>1, <2>2, RestartType DEF CrashInWrite, DiskType, MemoryType
<1> QED
  BY <1>1, <1>2, <1>3, <1>4, <1>5, <1>6, <1>7 DEF Launch

\* Every variable keeps its type, whatever may be torn, edited or killed.
THEOREM TypeCorrect == Spec => []TypeOK
<1>1. TypeOK /\ [Next]_vars => TypeOK'
  <2>1. TypeOK /\ UNCHANGED vars => TypeOK'
    BY DEF TypeOK, vars
  <2> QED
    BY <2>1, DeleteType, TakeType, CreateType, LaunchType DEF Next
<1> QED
  BY <1>1, InitType, PTL DEF Spec

----------------------------------------------------------------------------
(* The inductive invariant                                                 *)

\* Every activation has a name and counts its children.
LEMMA StackFacts ==
    ASSUME stack \in Seq(Frame)
    PROVE  \A i \in 1 .. Len(stack) :
              /\ stack[i] \in Frame
              /\ stack[i].name \in Names /\ stack[i].parent \in Names \cup {None}
              /\ \A c \in Names : stack[i].todo[c] \in Nat
<1>1. \A i \in 1 .. Len(stack) : stack[i] \in Frame
  OBVIOUS
<1>2. \A f \in Frame : /\ f.name \in Names /\ f.parent \in Names \cup {None}
                       /\ \A c \in Names : f.todo[c] \in 0 .. MaxLinks
  BY DEF Frame, Bag
<1> QED
  BY <1>1, <1>2, MaxLinksAssumption

\* Children arrays count.
LEMMA ChildrenFacts ==
    ASSUME meta \in [Names -> Record]
    PROVE  \A m, c \in Names : meta[m].children[c] \in Nat
<1>1. \A r \in Record : \A c \in Names : r.children[c] \in 0 .. MaxLinks
  BY DEF Record, Bag
<1> QED
  BY <1>1, MaxLinksAssumption

\* The initial store is consistent.
LEMMA InitInv == Init => StoreInv
<1> SUFFICES ASSUME Init PROVE StoreInv
  OBVIOUS
<1>1. TypeOK
  BY InitType
<1>2. NoTornFile /\ CreationInv /\ NoDanglingChild /\ Acyclic /\ InitialIsRoot
  BY DEF Init, NoTornFile, CreationInv, NoDanglingChild, Acyclic, InitialIsRoot,
         Readable, Names
<1>3. TrustInv /\ TakeInv
  BY DEF Init, TrustInv, TakeInv
<1>4. FrameInv /\ PathInv /\ NoReentry /\ RemoveInv
  BY DEF Init, FrameInv, PathInv, NoReentry, RemoveInv
<1> QED
  BY <1>1, <1>2, <1>3, <1>4 DEF StoreInv

\* A process that dies leaves the files to the next one, which starts afresh.
LEMMA RestartInv ==
    ASSUME StoreInv, TypeOK', Restart, NoTornFile', NoDanglingChild', Acyclic',
           (domain /\ main = "absent" => AllAbsent)',
           (domain /\ Readable(Initial) => meta[Initial].parent = None)'
    PROVE  StoreInv'
<1>1. CreationInv' /\ InitialIsRoot' /\ TrustInv' /\ TakeInv'
  BY DEF Restart, CreationInv, InitialIsRoot, TrustInv, TakeInv
<1>2. stack' = <<>>
  BY DEF Restart
<1>3. FrameInv' /\ PathInv' /\ NoReentry' /\ RemoveInv'
  BY <1>2 DEF FrameInv, PathInv, NoReentry, RemoveInv
<1> QED
  BY <1>1, <1>3 DEF StoreInv

\* The files do not change.
LEMMA SameDiskRestartInv ==
    ASSUME StoreInv, TypeOK', Restart, UNCHANGED <<domain, main, file, meta>>
    PROVE  StoreInv'
<1>1. NoTornFile' /\ NoDanglingChild' /\ Acyclic'
  BY DEF StoreInv, NoTornFile, NoDanglingChild, Acyclic, Lists, Readable
<1>2. (domain /\ main = "absent" => AllAbsent)'
  BY DEF StoreInv, CreationInv, AllAbsent
<1>3. (domain /\ Readable(Initial) => meta[Initial].parent = None)'
  BY DEF StoreInv, InitialIsRoot, Readable
<1> QED
  BY <1>1, <1>2, <1>3, RestartInv

\* A new deletion starts with one activation.
LEMMA StartDeletionInv ==
    ASSUME StoreInv, TypeOK', NEW s \in Names, domain, Readable(s), stack = <<>>,
           stack' = Enter(s), UNCHANGED <<domain, main, stale, file, meta>>,
           pc' \in TakePoints => s # Initial, pc' = "idle" => phase' = "plan"
    PROVE  FrameInv' /\ PathInv' /\ NoReentry' /\ RemoveInv' /\ stack'[1].name = s
<1> DEFINE f == NewFrame(s)
<1>1. /\ f \in Frame /\ f.name = s /\ f.parent = meta[s].parent
      /\ f.todo = meta[s].children /\ f.at = "children"
  BY NewFrameType DEF StoreInv
<1> HIDE DEF f
<1>2. /\ Len(stack') = 1 /\ stack'[1] = f /\ stack' # <<>>
  BY <1>1 DEF Enter, f
<1>3. \A c \in Names : f.todo[c] > 0 => Lists(s, c) /\ f.todo[c] = 1
  BY <1>1 DEF StoreInv, NoDanglingChild, Lists
<1>4. FrameInv'
  BY <1>1, <1>2, <1>3 DEF FrameInv, Lists, Readable
<1>5. PathInv' /\ NoReentry'
  BY <1>2 DEF PathInv, NoReentry
<1>6. RemoveInv'
  BY <1>1, <1>2 DEF RemoveInv, Top
<1> QED
  BY <1>1, <1>2, <1>4, <1>5, <1>6

\* Only the hypervisor's part and the stack may change.
LEMMA SameFilesInv ==
    ASSUME StoreInv,
           UNCHANGED <<domain, main, stale, file, meta, cur, phase, trusted, pc, arg>>
    PROVE  NoTornFile' /\ CreationInv' /\ NoDanglingChild' /\ Acyclic'
           /\ InitialIsRoot' /\ TrustInv'
<1>1. NoTornFile' /\ NoDanglingChild' /\ Acyclic'
  BY DEF StoreInv, NoTornFile, NoDanglingChild, Acyclic, Lists, Readable
<1>2. CreationInv' /\ InitialIsRoot' /\ TrustInv'
  BY DEF StoreInv, CreationInv, AllAbsent, InitialIsRoot, TrustInv, Readable,
         Relevant, is_defined
<1> QED
  BY <1>1, <1>2

\* Asking for a deletion keeps the store consistent.
LEMMA InvalidateInv ==
    ASSUME StoreInv, TypeOK', NEW s \in Tests, Invalidate(s)
    PROVE  StoreInv'
<1>1. /\ s \in Names /\ s # Initial /\ stack = <<>> /\ pc = "idle"
      /\ domain /\ Readable(s) /\ stack' = Enter(s) /\ UNCHANGED disk
      /\ phase = "plan" /\ UNCHANGED <<cur, phase, trusted, pc, arg>>
  BY NamesAssumption DEF Invalidate, Idle, is_defined, Names
<1>2. FrameInv' /\ PathInv' /\ NoReentry' /\ RemoveInv'
  BY <1>1, StartDeletionInv DEF disk
<1>3. TakeInv'
  BY <1>1 DEF TakeInv
<1> QED
  BY <1>1, <1>2, <1>3, SameFilesInv DEF StoreInv, disk

\* A child about to be visited is on no activation: otherwise the names on the
\* stack would list each other in a circle.
LEMMA ChildNotOnStack ==
    ASSUME StoreInv, stack # <<>>, Top.at = "children",
           NEW c \in Names, Top.todo[c] > 0
    PROVE  \A j \in 1 .. Len(stack) : stack[j].name # c
<1> DEFINE n == Len(stack)
           S == {stack[i].name : i \in 1 .. n}
<1>1. /\ n \in Nat /\ n >= 1 /\ Top = stack[n] /\ domain
      /\ \A i \in 1 .. n : stack[i] \in Frame
  BY TopFacts DEF StoreInv, TypeOK, FrameInv
<1>2. S \in SUBSET Names /\ S # {}
  BY <1>1 DEF Frame
<1>3. Lists(stack[n].name, c) /\ Readable(c) /\ meta[c].parent = stack[n].name
  BY <1>1 DEF StoreInv, FrameInv, NoDanglingChild, Frame
<1>4. \A i \in 1 .. n - 1 : Lists(stack[i].name, stack[i + 1].name)
  BY <1>1 DEF StoreInv, PathInv
<1>5. PICK k \in 1 .. n : \A y \in S : ~Lists(y, stack[k].name)
  BY <1>1, <1>2 DEF StoreInv, Acyclic
<1>6. k = 1
  <2>1. SUFFICES ASSUME k > 1 PROVE FALSE
    BY <1>1
  <2>2. k - 1 \in 1 .. n - 1 /\ k - 1 + 1 = k
    BY <2>1, <1>1
  <2>3. Lists(stack[k - 1].name, stack[k].name)
    BY <2>2, <1>4
  <2> QED
    BY <2>2, <2>3, <1>5
<1>7. SUFFICES ASSUME NEW j \in 1 .. n, stack[j].name = c
               PROVE  FALSE
  OBVIOUS
<1>8. j # 1
  BY <1>1, <1>3, <1>5, <1>6, <1>7
<1>9. stack[j].parent = stack[n].name
  BY <1>3, <1>7 DEF StoreInv, FrameInv
<1>10. j - 1 \in 1 .. n - 1 /\ j - 1 + 1 = j
  BY <1>1, <1>8
<1>11. stack[j - 1].name = stack[n].name
  BY <1>9, <1>10 DEF StoreInv, PathInv
<1>12. j - 1 \in 1 .. n /\ n \in 1 .. n /\ j - 1 # n
  BY <1>1, <1>10
<1> QED
  BY <1>11, <1>12 DEF StoreInv, NoReentry

\* Descending to a child does.
LEMMA VisitChildInv ==
    ASSUME StoreInv, TypeOK', NEW c \in Names, VisitChild(c)
    PROVE  StoreInv'
<1> DEFINE n == Len(stack)
<1>1. /\ stack \in Seq(Frame) /\ stack # <<>> /\ domain /\ Readable(c)
      /\ Top.at = "children" /\ Top.todo[c] > 0
      /\ UNCHANGED <<domain, main, stale, file, meta, cur, phase, trusted, pc, arg>>
  BY DEF StoreInv, TypeOK, VisitChild, FrameInv, disk
<1>2. n \in Nat /\ n >= 1 /\ Top = stack[n] /\ Top \in Frame
  BY <1>1, TopFacts
<1>3. /\ NewFrame(c) \in Frame /\ NewFrame(c).name = c
      /\ NewFrame(c).parent = meta[c].parent
      /\ NewFrame(c).todo = meta[c].children /\ NewFrame(c).at = "children"
  BY NewFrameType DEF StoreInv
<1>4. /\ stack' \in Seq(Frame) /\ Len(stack') = n + 1 /\ stack' # <<>>
      /\ \A i \in 1 .. n - 1 : stack'[i] = stack[i]
      /\ stack'[n].name = stack[n].name /\ stack'[n].parent = stack[n].parent
      /\ stack'[n].at = "children"
      /\ stack'[n].todo[c] = stack[n].todo[c] - 1
      /\ \A d \in Names \ {c} : stack'[n].todo[d] = stack[n].todo[d]
      /\ stack'[n + 1] = NewFrame(c)
  <2>1. stack' = Visit(c)
    BY DEF VisitChild
  <2> QED
    BY <1>1, <1>2, <1>3, <2>1, VisitFacts
<1>5. /\ Lists(stack[n].name, c) /\ stack[n].todo[c] = 1
      /\ meta[c].parent = stack[n].name /\ c # Initial
  BY <1>1, <1>2, NamesAssumption DEF StoreInv, FrameInv, NoDanglingChild, InitialIsRoot, Frame
<1>6. \A i \in 1 .. n : stack'[i].name = stack[i].name /\ stack'[i].parent = stack[i].parent
  BY <1>2, <1>4
<1>7. FrameInv'
  <2>1. ASSUME NEW i \in 1 .. n
        PROVE  /\ Readable(stack[i].name) /\ meta[stack[i].name].parent = stack[i].parent
               /\ pc \in TakePoints => stack[i].name # Initial
               /\ \A d \in Names : stack'[i].todo[d] > 0 =>
                     Lists(stack[i].name, d) /\ stack'[i].todo[d] = 1
    BY <1>2, <1>4, <1>5 DEF StoreInv, FrameInv
  <2>2. \A d \in Names : meta[c].children[d] > 0 => Lists(c, d) /\ meta[c].children[d] = 1
    BY <1>1 DEF StoreInv, NoDanglingChild, Lists
  <2>3. \A i \in 1 .. n + 1 : i \in 1 .. n \/ i = n + 1
    BY <1>2
  <2>4. domain' /\ (pc' = "idle" => phase' = "plan")
    BY <1>1 DEF StoreInv, FrameInv
  <2>5. ASSUME NEW i \in 1 .. n + 1
        PROVE  /\ Readable(stack'[i].name) /\ meta[stack'[i].name].parent = stack'[i].parent
               /\ pc \in TakePoints => stack'[i].name # Initial
               /\ \A d \in Names : stack'[i].todo[d] > 0 =>
                     Lists(stack'[i].name, d) /\ stack'[i].todo[d] = 1
    <3>1. CASE i \in 1 .. n
      BY <1>6, <2>1, <3>1
    <3>2. CASE i = n + 1
      <4>1. pc \in TakePoints => c # Initial
        BY <1>5
      <4> QED
        BY <1>1, <1>3, <1>4, <2>2, <3>2, <4>1
    <3> QED
      BY <2>3, <3>1, <3>2
  <2> QED
    BY <1>1, <1>4, <2>4, <2>5 DEF FrameInv, Lists, Readable
<1>8. PathInv'
  <2>1. ASSUME NEW i \in 1 .. n - 1
        PROVE  /\ stack'[i].at = "children" /\ stack'[i + 1].parent = stack'[i].name
               /\ stack'[i].todo[stack'[i + 1].name] = 0
               /\ Lists(stack'[i].name, stack'[i + 1].name)
    BY <1>1, <1>2, <1>4, <1>6 DEF StoreInv, PathInv
  <2>2. /\ stack'[n].at = "children" /\ stack'[n + 1].parent = stack'[n].name
        /\ stack'[n].todo[stack'[n + 1].name] = 0
        /\ Lists(stack'[n].name, stack'[n + 1].name)
    BY <1>3, <1>4, <1>5
  <2>3. \A i \in 1 .. Len(stack') - 1 : i \in 1 .. n - 1 \/ i = n
    BY <1>2, <1>4
  <2> QED
    BY <1>1, <2>1, <2>2, <2>3 DEF PathInv, Lists, Readable
<1>9. NoReentry'
  <2>1. \A j \in 1 .. n : stack'[j].name # stack'[n + 1].name
    BY <1>1, <1>3, <1>4, <1>6, ChildNotOnStack
  <2>2. \A i, j \in 1 .. n : i # j => stack'[i].name # stack'[j].name
    BY <1>6 DEF StoreInv, NoReentry
  <2>3. \A i \in 1 .. n + 1 : i \in 1 .. n \/ i = n + 1
    BY <1>2
  <2> QED
    BY <1>4, <2>1, <2>2, <2>3 DEF NoReentry
<1>10. RemoveInv'
  BY <1>3, <1>4 DEF RemoveInv, Top
<1>11. TakeInv'
  <2>1. stack'[1].name = stack[1].name
    BY <1>2, <1>6
  <2> QED
    BY <1>1, <1>4, <2>1 DEF StoreInv, TakeInv
<1> QED
  BY <1>1, <1>7, <1>8, <1>9, <1>10, <1>11, SameFilesInv DEF StoreInv

\* The top activation moves on within the deletion of its own snapshot.
LEMMA GotoInv ==
    ASSUME StoreInv, TypeOK', stack # <<>>, NEW point \in {"hyp", "unlink"},
           stack' = Goto(point), Top.at # "remove",
           UNCHANGED <<domain, main, stale, file, meta, cur, phase, trusted, pc, arg>>
    PROVE  StoreInv'
<1> DEFINE n == Len(stack)
<1>1. n \in Nat /\ n >= 1 /\ Top = stack[n] /\ Top \in Frame /\ domain
  BY TopFacts DEF StoreInv, TypeOK, FrameInv
<1>2. /\ stack' \in Seq(Frame) /\ Len(stack') = n /\ stack' # <<>>
      /\ \A i \in 1 .. n - 1 : stack'[i] = stack[i]
      /\ stack'[n].at = point /\ stack'[n].name = stack[n].name
      /\ stack'[n].parent = stack[n].parent /\ stack'[n].todo = stack[n].todo
  BY <1>1, GotoFacts DEF StoreInv, TypeOK
<1>3. \A i \in 1 .. n : /\ stack'[i].name = stack[i].name
                         /\ stack'[i].parent = stack[i].parent
                         /\ stack'[i].todo = stack[i].todo
  BY <1>1, <1>2
<1>4. FrameInv'
  BY <1>1, <1>2, <1>3 DEF StoreInv, FrameInv, Lists, Readable
<1>5. PathInv'
  <2>1. ASSUME NEW i \in 1 .. n - 1
        PROVE  /\ stack[i].at = "children" /\ stack[i + 1].parent = stack[i].name
               /\ stack[i].todo[stack[i + 1].name] = 0
               /\ Lists(stack[i].name, stack[i + 1].name)
               /\ i \in 1 .. n /\ i + 1 \in 1 .. n
    BY <1>1 DEF StoreInv, PathInv
  <2>2. ASSUME NEW i \in 1 .. n - 1
        PROVE  /\ stack'[i].at = "children" /\ stack'[i + 1].parent = stack'[i].name
               /\ stack'[i].todo[stack'[i + 1].name] = 0
               /\ Lists(stack'[i].name, stack'[i + 1].name)
    BY <1>2, <1>3, <2>1
  <2> QED
    BY <1>2, <2>2 DEF PathInv, Lists, Readable
<1>6. NoReentry'
  BY <1>2, <1>3 DEF StoreInv, NoReentry
<1>7. RemoveInv'
  BY <1>2 DEF RemoveInv, Top
<1>8. TakeInv'
  <2>1. stack'[1].name = stack[1].name
    BY <1>1, <1>3
  <2> QED
    BY <1>2, <2>1 DEF StoreInv, TakeInv, Lists, Readable
<1> QED
  BY <1>4, <1>5, <1>6, <1>7, <1>8, SameFilesInv DEF StoreInv

\* Unlinking takes away the only mention of the snapshot in the directory.
LEMMA UnlinkFacts ==
    ASSUME StoreInv, UnlinkParent
    PROVE  /\ \A m \in Names : meta'[m].parent = meta[m].parent
           /\ \A m, c \in Names :
                 c # Top.name => meta'[m].children[c] = meta[m].children[c]
           /\ \A m \in Names : ~(file'[m] = "ok" /\ meta'[m].children[Top.name] > 0)
<1> DEFINE x == Top.name
           p == Top.parent
<1>1. /\ stack # <<>> /\ UNCHANGED <<domain, file>>
      /\ IF p # None /\ Readable(p) THEN meta' = WithoutChild(p, x) ELSE UNCHANGED meta
  BY DEF UnlinkParent
<1>2. /\ domain /\ x \in Names /\ p \in Names \cup {None} /\ meta[x].parent = p
  <2>1. Len(stack) \in 1 .. Len(stack) /\ Top = stack[Len(stack)] /\ stack \in Seq(Frame)
    BY <1>1, TopFacts DEF StoreInv, TypeOK
  <2> QED
    BY <1>1, <2>1, StackFacts DEF StoreInv, FrameInv
<1>3. /\ meta \in [Names -> Record]
      /\ \A m, c \in Names : meta[m].children[c] \in Nat
  BY ChildrenFacts DEF StoreInv, TypeOK
<1>4. \A m \in Names : file[m] = "ok" /\ meta[m].children[x] > 0 =>
          m = p /\ meta[m].children[x] = 1
  BY <1>2 DEF StoreInv, NoDanglingChild, Lists, Readable
<1>5. CASE p # None /\ Readable(p)
  <2>1. p \in Names /\ meta' = WithoutChild(p, x)
    BY <1>1, <1>2, <1>5
  <2>2. /\ \A m \in Names : meta'[m].parent = meta[m].parent
        /\ \A m, c \in Names : m # p \/ c # x => meta'[m].children[c] = meta[m].children[c]
        /\ meta'[p].children[x] = IF meta[p].children[x] > 0
                                  THEN meta[p].children[x] - 1 ELSE 0
    BY <1>2, <1>3, <2>1, WithoutChildFacts
  <2>3. ASSUME NEW m \in Names, file'[m] = "ok", meta'[m].children[x] > 0
        PROVE  FALSE
    <3>1. CASE m = p
      BY <1>1, <1>2, <1>3, <1>4, <2>1, <2>2, <2>3, <3>1
    <3>2. CASE m # p
      BY <1>1, <1>2, <1>4, <2>2, <2>3, <3>2
    <3> QED
      BY <3>1, <3>2
  <2> QED
    BY <2>2, <2>3
<1>6. CASE ~(p # None /\ Readable(p))
  <2>1. meta' = meta /\ file' = file
    BY <1>1, <1>6
  <2> QED
    BY <1>2, <1>4, <1>6, <2>1, NamesAssumption DEF Readable
<1> QED
  BY <1>5, <1>6

\* The activation above has the snapshot off its list already.
LEMMA OffTheLists ==
    ASSUME StoreInv, stack # <<>>
    PROVE  \A i \in 1 .. Len(stack) : stack[i].todo[Top.name] = 0
<1> DEFINE n == Len(stack)
           x == Top.name
<1>1. n \in Nat /\ n >= 1 /\ n \in 1 .. n /\ Top = stack[n] /\ domain /\ stack \in Seq(Frame)
  BY TopFacts DEF StoreInv, TypeOK, FrameInv
<1>2. \A i \in 1 .. n : stack[i].name \in Names /\ \A c \in Names : stack[i].todo[c] \in Nat
  BY <1>1, StackFacts
<1>3. SUFFICES ASSUME NEW i \in 1 .. n, stack[i].todo[x] # 0
               PROVE  FALSE
  OBVIOUS
<1>4. stack[i].todo[x] > 0 /\ x \in Names
  BY <1>1, <1>2, <1>3
<1>5. Lists(stack[i].name, x)
  BY <1>4 DEF StoreInv, FrameInv
<1>6. meta[x].parent = stack[i].name
  BY <1>1, <1>2, <1>4, <1>5 DEF StoreInv, NoDanglingChild
<1>7. stack[n].parent = stack[i].name
  BY <1>1, <1>6 DEF StoreInv, FrameInv
<1>8. i # n
  <2>1. SUFFICES ASSUME i = n PROVE FALSE
    OBVIOUS
  <2>2. {x} \in SUBSET Names /\ {x} # {}
    BY <1>4
  <2>3. Lists(x, x)
    BY <1>1, <1>5, <2>1
  <2> QED
    BY <1>1, <2>2, <2>3 DEF StoreInv, Acyclic
<1>9. n - 1 \in 1 .. n - 1 /\ n - 1 + 1 = n /\ n - 1 \in 1 .. n
  BY <1>1, <1>8
<1>10. stack[n].parent = stack[n - 1].name /\ stack[n - 1].todo[x] = 0
  BY <1>1, <1>9 DEF StoreInv, PathInv
<1>11. i = n - 1
  BY <1>7, <1>9, <1>10 DEF StoreInv, NoReentry
<1> QED
  BY <1>4, <1>10, <1>11

\* Taking the snapshot out of its parent's children array does.
LEMMA UnlinkParentInv ==
    ASSUME StoreInv, TypeOK', UnlinkParent
    PROVE  StoreInv'
<1> DEFINE n == Len(stack)
           x == Top.name
<1>1. /\ stack # <<>> /\ Top.at = "unlink" /\ stack' = Goto("remove")
      /\ UNCHANGED <<domain, main, stale, file, cur, phase, trusted, pc, arg>>
  BY DEF UnlinkParent
<1>2. /\ n \in Nat /\ n >= 1 /\ n \in 1 .. n /\ Top = stack[n] /\ domain
      /\ stack \in Seq(Frame) /\ x \in Names /\ Readable(x)
      /\ \A i \in 1 .. n : stack[i].name \in Names
  <2>1. n \in Nat /\ n >= 1 /\ n \in 1 .. n /\ Top = stack[n] /\ stack \in Seq(Frame)
    BY <1>1, TopFacts DEF StoreInv, TypeOK
  <2>2. \A i \in 1 .. n : stack[i].name \in Names
    BY <2>1, StackFacts
  <2> QED
    BY <1>1, <2>1, <2>2 DEF StoreInv, FrameInv
<1>3. /\ stack' \in Seq(Frame) /\ Len(stack') = n /\ stack' # <<>>
      /\ \A i \in 1 .. n - 1 : stack'[i] = stack[i]
      /\ stack'[n].at = "remove" /\ stack'[n].name = x
      /\ stack'[n].parent = Top.parent /\ stack'[n].todo = Top.todo
  BY <1>1, <1>2, GotoFacts
<1>4. \A i \in 1 .. n : /\ stack'[i].name = stack[i].name
                        /\ stack'[i].parent = stack[i].parent
                        /\ stack'[i].todo = stack[i].todo
  BY <1>2, <1>3
<1>5. /\ \A m \in Names : meta'[m].parent = meta[m].parent
      /\ \A m, c \in Names : c # x => meta'[m].children[c] = meta[m].children[c]
      /\ \A m \in Names : ~(file'[m] = "ok" /\ meta'[m].children[x] > 0)
  BY UnlinkFacts
<1>6. \A m \in Names : file'[m] = file[m]
  BY <1>1
<1>7. \A m, c \in Names : file'[m] = "ok" /\ meta'[m].children[c] > 0 <=>
                            Lists(m, c) /\ c # x
  BY <1>5, <1>6 DEF Lists, Readable
<1>8. NoTornFile' /\ CreationInv' /\ TrustInv'
  BY <1>1 DEF StoreInv, NoTornFile, CreationInv, AllAbsent, TrustInv, Relevant,
              is_defined, Readable
<1>9. NoDanglingChild'
  <2>1. ASSUME NEW m \in Names, NEW c \in Names, Lists(m, c), c # x
        PROVE  file'[c] = "ok" /\ meta'[c].parent = m /\ meta'[m].children[c] = 1
    BY <1>2, <1>5, <1>6, <2>1 DEF StoreInv, NoDanglingChild, Readable
  <2> QED
    BY <1>7, <2>1 DEF NoDanglingChild, Lists, Readable
<1>10. Acyclic'
  <2>1. SUFFICES ASSUME NEW S \in SUBSET Names, S # {}
                 PROVE  \E z \in S : \A y \in S : ~(file'[y] = "ok" /\ meta'[y].children[z] > 0)
    BY DEF Acyclic, Lists, Readable
  <2>2. PICK z \in S : \A y \in S : ~Lists(y, z)
    BY <1>2, <2>1 DEF StoreInv, Acyclic
  <2> QED
    BY <1>7, <2>1, <2>2
<1>11. InitialIsRoot'
  BY <1>1, <1>5 DEF StoreInv, InitialIsRoot, Readable, Names
<1>12. TakeInv'
  <2>1. stack'[1].name = stack[1].name
    BY <1>2, <1>4
  <2>2. pc # "link"
    BY <1>1 DEF StoreInv, TakeInv
  <2> QED
    BY <1>1, <1>3, <2>1, <2>2 DEF StoreInv, TakeInv, Readable
<1>13. FrameInv'
  <2>1. ASSUME NEW i \in 1 .. n
        PROVE  /\ file'[stack[i].name] = "ok"
               /\ meta'[stack[i].name].parent = stack[i].parent
               /\ pc \in TakePoints => stack[i].name # Initial
               /\ \A c \in Names : stack[i].todo[c] > 0 =>
                     /\ file'[stack[i].name] = "ok" /\ meta'[stack[i].name].children[c] > 0
                     /\ stack[i].todo[c] = 1
    <3>1. /\ Readable(stack[i].name) /\ meta[stack[i].name].parent = stack[i].parent
          /\ pc \in TakePoints => stack[i].name # Initial
          /\ \A c \in Names : stack[i].todo[c] > 0 =>
                Lists(stack[i].name, c) /\ stack[i].todo[c] = 1
      BY DEF StoreInv, FrameInv
    <3>2. \A c \in Names : stack[i].todo[c] > 0 => c # x
      BY <1>1, OffTheLists
    <3>3. stack[i].name \in Names
      BY <1>2
    <3> QED
      BY <1>5, <1>6, <1>7, <3>1, <3>2, <3>3 DEF Readable
  <2>2. domain' /\ (pc' = "idle" => phase' = "plan")
    BY <1>1, <1>2 DEF StoreInv, FrameInv
  <2> QED
    BY <1>1, <1>3, <1>4, <2>1, <2>2 DEF FrameInv, Readable, Lists
<1>14. PathInv'
  <2>1. ASSUME NEW i \in 1 .. n - 1
        PROVE  /\ stack[i].at = "children" /\ stack[i + 1].parent = stack[i].name
               /\ stack[i].todo[stack[i + 1].name] = 0
               /\ i + 1 = n \/ Lists(stack[i].name, stack[i + 1].name)
               /\ i \in 1 .. n /\ i + 1 \in 1 .. n
    BY <1>1, <1>2 DEF StoreInv, PathInv
  <2>2. ASSUME NEW i \in 1 .. n - 1, i + 1 # n
        PROVE  /\ file'[stack[i].name] = "ok"
               /\ meta'[stack[i].name].children[stack[i + 1].name] > 0
    <3>1. stack[i + 1].name # x
      BY <1>2, <2>1, <2>2 DEF StoreInv, NoReentry
    <3>2. stack[i].name \in Names /\ stack[i + 1].name \in Names
      BY <1>2, <2>1
    <3> QED
      BY <1>7, <2>1, <2>2, <3>1, <3>2
  <2>3. ASSUME NEW i \in 1 .. n - 1
        PROVE  /\ stack'[i].at = "children" /\ stack'[i + 1].parent = stack'[i].name
               /\ stack'[i].todo[stack'[i + 1].name] = 0
               /\ \/ /\ file'[stack'[i].name] = "ok"
                     /\ meta'[stack'[i].name].children[stack'[i + 1].name] > 0
                  \/ i + 1 = n /\ stack'[i + 1].at = "remove"
    BY <1>3, <1>4, <2>1, <2>2
  <2> QED
    BY <1>3, <2>3 DEF PathInv, Lists, Readable
<1>15. NoReentry'
  BY <1>3, <1>4 DEF StoreInv, NoReentry
<1>16. RemoveInv'
  BY <1>3, <1>5 DEF RemoveInv, Top, Lists, Readable
<1> QED
  BY <1>8, <1>9, <1>10, <1>11, <1>12, <1>13, <1>14, <1>15, <1>16 DEF StoreInv

\* The record goes last, when no other record lists it.
LEMMA RemoveFileInv ==
    ASSUME StoreInv, TypeOK', RemoveFile
    PROVE  StoreInv'
<1> DEFINE n == Len(stack)
           x == Top.name
<1>1. /\ stack # <<>> /\ Top.at = "remove" /\ stack' = Leave
      /\ file' = [file EXCEPT ![x] = "absent"]
      /\ meta' = [meta EXCEPT ![x] = Blank]
      /\ UNCHANGED <<domain, main, stale, cur, phase, trusted, pc, arg>>
  BY DEF RemoveFile
<1>2. /\ n \in Nat /\ n >= 1 /\ n \in 1 .. n /\ Top = stack[n] /\ domain /\ x \in Names
      /\ stack \in Seq(Frame) /\ \A i \in 1 .. n : stack[i].name \in Names
  <2>1. n \in Nat /\ n >= 1 /\ n \in 1 .. n /\ Top = stack[n] /\ stack \in Seq(Frame)
    BY <1>1, TopFacts DEF StoreInv, TypeOK
  <2>2. \A i \in 1 .. n : stack[i].name \in Names
    BY <2>1, StackFacts
  <2> QED
    BY <1>1, <2>1, <2>2 DEF StoreInv, FrameInv
<1>3. /\ stack' \in Seq(Frame) /\ Len(stack') = n - 1
      /\ \A i \in 1 .. n - 1 : stack'[i] = stack[i]
  BY <1>1, <1>2, LeaveFacts
<1>4. /\ \A m \in Names : m # x => file'[m] = file[m] /\ meta'[m] = meta[m]
      /\ file'[x] = "absent"
  BY <1>1, <1>2 DEF StoreInv, TypeOK
<1>5. \A m, c \in Names : file'[m] = "ok" /\ meta'[m].children[c] > 0 <=>
                            Lists(m, c) /\ m # x
  <2>1. ASSUME NEW m \in Names, NEW c \in Names
        PROVE  file'[m] = "ok" /\ meta'[m].children[c] > 0 <=> Lists(m, c) /\ m # x
    <3>1. CASE m = x
      BY <1>4, <3>1
    <3>2. CASE m # x
      BY <1>4, <3>2 DEF Lists, Readable
    <3> QED
      BY <3>1, <3>2
  <2> QED
    BY <2>1
<1>6. \A m \in Names : ~Lists(m, x)
  BY <1>1 DEF StoreInv, RemoveInv
<1>7. \A i \in 1 .. n - 1 : i \in 1 .. n /\ stack[i].name # x
  BY <1>2 DEF StoreInv, NoReentry
<1>8. NoTornFile'
  <2>1. \A m \in Names : file'[m] # "corrupt"
    BY <1>4 DEF StoreInv, NoTornFile
  <2> QED
    BY <1>1, <2>1 DEF StoreInv, NoTornFile
<1>9. CreationInv'
  <2>1. AllAbsent => AllAbsent'
    BY <1>4 DEF AllAbsent
  <2> QED
    BY <1>1, <2>1 DEF StoreInv, CreationInv
<1>10. NoDanglingChild'
  <2>1. ASSUME NEW m \in Names, NEW c \in Names, Lists(m, c), m # x
        PROVE  file'[c] = "ok" /\ meta'[c].parent = m /\ meta'[m].children[c] = 1
    BY <1>2, <1>4, <1>6, <2>1 DEF StoreInv, NoDanglingChild, Readable
  <2> QED
    BY <1>5, <2>1 DEF NoDanglingChild, Lists, Readable
<1>11. Acyclic'
  <2>1. SUFFICES ASSUME NEW S \in SUBSET Names, S # {}
                 PROVE  \E z \in S : \A y \in S : ~(file'[y] = "ok" /\ meta'[y].children[z] > 0)
    BY DEF Acyclic, Lists, Readable
  <2>2. PICK z \in S : \A y \in S : ~Lists(y, z)
    BY <1>2, <2>1 DEF StoreInv, Acyclic
  <2> QED
    BY <1>5, <2>1, <2>2
<1>12. pc \in TakePoints => x # Initial
  BY <1>1, <1>2 DEF StoreInv, FrameInv
<1>13. pc = "idle" => phase = "plan"
  BY <1>1 DEF StoreInv, FrameInv
<1>14. InitialIsRoot'
  <2>1. Readable(Initial)' => Readable(Initial) /\ meta'[Initial] = meta[Initial]
    <3>1. Initial \in Names
      BY DEF Names
    <3>2. CASE x = Initial
      BY <1>4, <3>2 DEF Readable
    <3>3. CASE x # Initial
      BY <1>4, <3>1, <3>3 DEF Readable
    <3> QED
      BY <3>2, <3>3
  <2> QED
    BY <1>1, <2>1 DEF StoreInv, InitialIsRoot
<1>15. TrustInv'
  <2>1. x # Initial => file'[Initial] = file[Initial]
    BY <1>4 DEF Names
  <2> QED
    BY <1>1, <1>12, <1>13, <2>1 DEF StoreInv, TrustInv, Relevant, is_defined, Readable
<1>16. TakeInv'
  <2>1. pc \notin {"remake", "setmain", "link", "rmtree", "install", "main"}
    BY <1>1 DEF StoreInv, TakeInv
  <2>2. pc \in {"mkhyp", "write"} => stack[1].name = arg.snap
    BY <1>1 DEF StoreInv, TakeInv
  <2>3. ASSUME pc \in {"mkhyp", "write"}
        PROVE  IF stack' = <<>> THEN file'[arg.snap] # "ok" ELSE stack'[1].name = arg.snap
    <3>1. CASE n = 1
      BY <1>2, <1>3, <1>4, <2>2, <2>3, <3>1
    <3>2. CASE n # 1
      <4>1. 1 \in 1 .. n - 1
        <5>1. n \in Nat /\ n >= 1
          BY <1>2
        <5> HIDE DEF n
        <5> QED
          BY <3>2, <5>1
      <4> QED
        BY <1>3, <2>2, <2>3, <4>1
    <3> QED
      BY <3>1, <3>2
  <2>4. pc \in TakePoints => cur # arg.snap
    BY DEF StoreInv, TakeInv
  <2> QED
    BY <1>1, <2>1, <2>3, <2>4 DEF TakeInv, Readable
<1>17. FrameInv'
  <2>1. ASSUME NEW i \in 1 .. n - 1
        PROVE  /\ file'[stack[i].name] = "ok"
               /\ meta'[stack[i].name].parent = stack[i].parent
               /\ pc \in TakePoints => stack[i].name # Initial
               /\ \A c \in Names : stack[i].todo[c] > 0 =>
                     /\ file'[stack[i].name] = "ok" /\ meta'[stack[i].name].children[c] > 0
                     /\ stack[i].todo[c] = 1
    <3>1. /\ Readable(stack[i].name) /\ meta[stack[i].name].parent = stack[i].parent
          /\ pc \in TakePoints => stack[i].name # Initial
          /\ \A c \in Names : stack[i].todo[c] > 0 =>
                Lists(stack[i].name, c) /\ stack[i].todo[c] = 1
      BY <1>7 DEF StoreInv, FrameInv
    <3>2. stack[i].name \in Names /\ stack[i].name # x
      BY <1>2, <1>7
    <3> QED
      BY <1>4, <1>5, <3>1, <3>2 DEF Readable
  <2>2. domain' /\ (pc' = "idle" => phase' = "plan")
    BY <1>1, <1>2, <1>13
  <2> QED
    BY <1>1, <1>3, <2>1, <2>2 DEF FrameInv, Readable, Lists
<1>18. PathInv'
  <2>1. ASSUME NEW i \in 1 .. n - 2
        PROVE  /\ stack[i].at = "children" /\ stack[i + 1].parent = stack[i].name
               /\ stack[i].todo[stack[i + 1].name] = 0
               /\ Lists(stack[i].name, stack[i + 1].name)
               /\ i \in 1 .. n - 1 /\ i + 1 \in 1 .. n - 1 /\ i \in 1 .. n /\ i + 1 \in 1 .. n
    BY <1>2 DEF StoreInv, PathInv
  <2>2. ASSUME NEW i \in 1 .. n - 2
        PROVE  /\ stack'[i].at = "children" /\ stack'[i + 1].parent = stack'[i].name
               /\ stack'[i].todo[stack'[i + 1].name] = 0
               /\ file'[stack'[i].name] = "ok"
               /\ meta'[stack'[i].name].children[stack'[i + 1].name] > 0
    <3>1. stack'[i] = stack[i] /\ stack'[i + 1] = stack[i + 1]
      BY <1>3, <2>1
    <3>2. stack[i].name \in Names /\ stack[i + 1].name \in Names /\ stack[i].name # x
      BY <1>2, <1>7, <2>1
    <3> QED
      BY <1>5, <2>1, <3>1, <3>2
  <2> QED
    BY <1>2, <1>3, <2>2 DEF PathInv, Lists, Readable
<1>19. NoReentry'
  BY <1>2, <1>3, <1>7 DEF StoreInv, NoReentry
<1>20. RemoveInv'
  <2>1. ASSUME stack' # <<>>
        PROVE  stack'[Len(stack')].at = "children"
    <3>1. n - 1 >= 1
      BY <1>2, <1>3, <2>1
    <3>2. n - 1 \in 1 .. n - 1
      BY <1>2, <3>1
    <3> QED
      BY <1>3, <3>2 DEF StoreInv, PathInv
  <2> QED
    BY <2>1 DEF RemoveInv, Top
<1> QED
  BY <1>8, <1>9, <1>10, <1>11, <1>14, <1>15, <1>16, <1>17, <1>18, <1>19, <1>20 DEF StoreInv

\* A deletion preserves the invariant.
LEMMA DeleteInv ==
    ASSUME StoreInv, Delete
    PROVE  StoreInv'
<1>1. TypeOK'
  BY DeleteType DEF StoreInv
<1>2. CASE VisitChildThrows
  BY <1>1, <1>2, SameDiskRestartInv DEF VisitChildThrows, disk
<1>3. CASE ChildrenDone
  BY <1>1, <1>3, GotoInv DEF ChildrenDone, disk
<1>4. CASE DeleteHypervisorSnapshot
  BY <1>1, <1>4, GotoInv DEF DeleteHypervisorSnapshot
<1> QED
  BY <1>1, <1>2, <1>3, <1>4, InvalidateInv, VisitChildInv, UnlinkParentInv, RemoveFileInv
     DEF Delete

----------------------------------------------------------------------------
(* create_snapshot preserves the invariant                                 *)

\* Nothing is being deleted.
LEMMA NoActivationInv ==
    ASSUME stack' = <<>>
    PROVE  FrameInv' /\ PathInv' /\ NoReentry' /\ RemoveInv'
BY DEF FrameInv, PathInv, NoReentry, RemoveInv

\* The records do not change.
LEMMA SameRecordsInv ==
    ASSUME StoreInv, UNCHANGED <<domain, main, file, meta>>
    PROVE  /\ NoTornFile' /\ NoDanglingChild' /\ Acyclic'
           /\ domain' /\ main' = "absent" => AllAbsent'
           /\ domain' /\ file'[Initial] = "ok" => meta'[Initial].parent = None
<1>1. NoTornFile' /\ NoDanglingChild' /\ Acyclic'
  BY DEF StoreInv, NoTornFile, NoDanglingChild, Acyclic, Lists, Readable
<1>2. /\ domain' /\ main' = "absent" => AllAbsent'
      /\ domain' /\ file'[Initial] = "ok" => meta'[Initial].parent = None
  BY DEF StoreInv, CreationInv, AllAbsent, InitialIsRoot, Readable
<1> QED
  BY <1>1, <1>2

\* Keeping a snapshot that is there does.
LEMMA KeepSnapshotInv ==
    ASSUME StoreInv, TypeOK', NEW s \in Tests, KeepSnapshot(s)
    PROVE  StoreInv'
<1>1. /\ stack = <<>> /\ pc = "idle" /\ phase = "run" /\ cur \in Parents[s]
      /\ UNCHANGED <<domain, main, stale, file, meta, phase, trusted, pc, arg, stack>>
  BY DEF KeepSnapshot, Idle, disk
<1>2. cur # None /\ trusted /\ Relevant
  BY <1>1, ParentsAssumption, NamesAssumption DEF StoreInv, TrustInv
<1>3. TrustInv'
  BY <1>1, <1>2 DEF TrustInv, Relevant, is_defined, Readable
<1>4. CreationInv' /\ InitialIsRoot' /\ TakeInv'
  BY <1>1, SameRecordsInv DEF CreationInv, InitialIsRoot, TakeInv, Readable
<1> QED
  BY <1>1, <1>3, <1>4, SameRecordsInv, NoActivationInv DEF StoreInv

\* Deciding how to take a snapshot does.
LEMMA TakeSnapshotInv ==
    ASSUME StoreInv, TypeOK', NEW s \in Tests, NEW c \in Cksums, NEW needed \in BOOLEAN,
           TakeSnapshot(s, c, needed)
    PROVE  StoreInv'
<1> DEFINE same == Readable(s) /\ meta[s].cksum = c
<1>1. /\ stack = <<>> /\ pc = "idle" /\ phase = "run" /\ is_defined /\ cur \in Parents[s]
      /\ arg'.snap = s
      /\ pc' = IF same THEN "remake" ELSE IF needed THEN "mkhyp" ELSE "write"
      /\ stack' = IF Readable(s) /\ ~same THEN Enter(s) ELSE stack
      /\ UNCHANGED <<domain, main, stale, file, meta, cur, phase, trusted>>
  BY DEF TakeSnapshot, Idle, disk
<1> HIDE DEF same
<1>2. /\ s \in Names /\ s # Initial /\ domain /\ cur # s
      /\ cur # None /\ trusted /\ Relevant
  BY <1>1, ParentsAssumption, NamesAssumption DEF StoreInv, TrustInv, is_defined, Names
<1>3. TrustInv'
  BY <1>1, <1>2 DEF TrustInv, Relevant, is_defined, Readable
<1>4. CreationInv' /\ InitialIsRoot'
  BY <1>1, <1>2, SameRecordsInv DEF CreationInv, InitialIsRoot, Readable
<1>5. CASE Readable(s) /\ ~same
  <2>1. FrameInv' /\ PathInv' /\ NoReentry' /\ RemoveInv' /\ stack'[1].name = s
    BY <1>1, <1>2, <1>5, StartDeletionInv
  <2>2. pc' \in {"mkhyp", "write"} /\ stack' # <<>>
    BY <1>1, <1>5 DEF Enter
  <2>3. TakeInv'
    BY <1>1, <1>2, <2>1, <2>2 DEF TakeInv
  <2> QED
    BY <1>1, <1>3, <1>4, <2>1, <2>3, SameRecordsInv DEF StoreInv
<1>6. CASE ~(Readable(s) /\ ~same)
  <2>1. stack' = <<>>
    BY <1>1, <1>6
  <2>2. pc' \in {"mkhyp", "write"} => ~Readable(s)
    BY <1>1, <1>6
  <2>3. pc' = "remake" => Readable(s)
    BY <1>1 DEF same
  <2>4. TakeInv'
    BY <1>1, <1>2, <2>1, <2>2, <2>3 DEF TakeInv, Readable
  <2> QED
    BY <1>1, <1>3, <1>4, <2>1, <2>4, SameRecordsInv, NoActivationInv DEF StoreInv
<1> QED
  BY <1>5, <1>6

\* What holds while create_snapshot is at work and no deletion is.
LEMMA TakingFacts ==
    ASSUME StoreInv, stack = <<>>, pc \in TakePoints
    PROVE  /\ domain /\ main # "absent" /\ ~stale /\ trusted /\ phase = "run"
           /\ arg.snap \in Names /\ cur # arg.snap /\ cur \in Names \cup {None}
           /\ arg.snap # Initial => Readable(Initial)
           /\ arg.snap = Initial => cur = None
           /\ pc = "link" => Readable(Initial)
           /\ pc \in {"remake", "setmain", "link"} => Readable(arg.snap)
           /\ pc \in {"mkhyp", "write"} => ~Readable(arg.snap)
<1>1. arg.snap \in Names /\ cur \in Names \cup {None} /\ phase \in {"plan", "run"}
  BY DEF StoreInv, TypeOK, Argument
<1>2. /\ domain /\ main # "absent" /\ ~stale /\ trusted /\ phase = "run"
      /\ arg.snap # Initial \/ pc = "link" => Readable(Initial)
  BY <1>1 DEF StoreInv, TrustInv, is_defined
<1> QED
  BY <1>1, <1>2 DEF StoreInv, TakeInv, InitialIsRoot

\* The steps that only concern the hypervisor or the main file.
LEMMA HypervisorStepInv ==
    ASSUME StoreInv, TypeOK', MakeHypervisorSnapshot \/ RemakeHypervisorSnapshot \/ SetMain
    PROVE  StoreInv'
<1>1. /\ stack = <<>> /\ pc \in TakePoints /\ stack' = <<>>
      /\ UNCHANGED <<domain, main, stale, file, meta, phase, trusted>>
  BY DEF MakeHypervisorSnapshot, RemakeHypervisorSnapshot, SetMain, disk
<1>2. \/ pc = "mkhyp" /\ pc' = "write" /\ UNCHANGED <<cur, arg>>
      \/ pc = "remake" /\ pc' = "setmain" /\ UNCHANGED <<cur, arg>>
      \/ pc \in {"remake", "setmain"} /\ pc' = "idle"
  BY DEF MakeHypervisorSnapshot, RemakeHypervisorSnapshot, SetMain, Return
<1>3. /\ domain /\ main # "absent" /\ ~stale /\ trusted /\ phase = "run"
      /\ cur # arg.snap
      /\ arg.snap # Initial => Readable(Initial)
      /\ arg.snap = Initial => cur = None
      /\ pc \in {"remake", "setmain"} => Readable(arg.snap)
      /\ pc = "mkhyp" => ~Readable(arg.snap)
  BY <1>1, TakingFacts
<1>4. pc' # "idle" => UNCHANGED <<cur, arg>>
  BY <1>2
<1>5. TrustInv'
  <2>1. pc' = "idle" => Readable(Initial)
    BY <1>2, <1>3
  <2> QED
    BY <1>1, <1>2, <1>3, <1>4, <2>1 DEF TrustInv, Relevant, is_defined, Readable
<1>6. CreationInv' /\ InitialIsRoot'
  BY <1>1, <1>2, <1>3, <1>4, SameRecordsInv DEF CreationInv, InitialIsRoot, Readable
<1>7. TakeInv'
  BY <1>1, <1>2, <1>3 DEF TakeInv, Readable
<1> QED
  BY <1>1, <1>5, <1>6, <1>7, SameRecordsInv, NoActivationInv DEF StoreInv

\* The new record lists nobody and nobody lists it.
LEMMA WriteRecordInv ==
    ASSUME StoreInv, TypeOK', WriteRecord
    PROVE  StoreInv'
<1> DEFINE x == arg.snap
           r == [cksum |-> arg.cksum, parent |-> cur, children |-> EmptyBag,
                 opaque |-> IsMachine /\ arg.needed]
<1>1. /\ stack = <<>> /\ pc = "write" /\ pc' = "link" /\ stack' = <<>>
      /\ file' = [file EXCEPT ![x] = "ok"] /\ meta' = [meta EXCEPT ![x] = r]
      /\ UNCHANGED <<domain, main, stale, cur, phase, trusted, arg>>
  BY DEF WriteRecord
<1>2. /\ domain /\ main # "absent" /\ ~stale /\ trusted /\ phase = "run"
      /\ x \in Names /\ cur # x
      /\ x # Initial => Readable(Initial)
      /\ x = Initial => cur = None
      /\ ~Readable(x)
  BY <1>1, TakingFacts
<1>3. r.parent = cur /\ r.children = EmptyBag
  OBVIOUS
<1> HIDE DEF r
<1>4. /\ \A m \in Names : m # x => file'[m] = file[m] /\ meta'[m] = meta[m]
      /\ file'[x] = "ok" /\ meta'[x] = r
  BY <1>1, <1>2 DEF StoreInv, TypeOK
<1>5. \A m, c \in Names : file'[m] = "ok" /\ meta'[m].children[c] > 0 =>
                            Lists(m, c) /\ m # x /\ c # x
  <2>1. ASSUME NEW m \in Names, NEW c \in Names,
               file'[m] = "ok", meta'[m].children[c] > 0
        PROVE  Lists(m, c) /\ m # x /\ c # x
    <3>1. m # x
      BY <1>3, <1>4, <2>1, ConstantTypes
    <3>2. Lists(m, c)
      BY <1>4, <2>1, <3>1 DEF Lists, Readable
    <3>3. Readable(c)
      BY <1>2, <3>2 DEF StoreInv, NoDanglingChild
    <3> QED
      BY <1>2, <3>1, <3>2, <3>3
  <2> QED
    BY <2>1
<1>6. NoTornFile'
  <2>1. \A m \in Names : file'[m] # "corrupt"
    BY <1>4 DEF StoreInv, NoTornFile
  <2> QED
    BY <1>1, <2>1 DEF StoreInv, NoTornFile
<1>7. NoDanglingChild'
  <2>1. ASSUME NEW m \in Names, NEW c \in Names,
               file'[m] = "ok", meta'[m].children[c] > 0
        PROVE  file'[c] = "ok" /\ meta'[c].parent = m /\ meta'[m].children[c] = 1
    <3>1. Lists(m, c) /\ m # x /\ c # x
      BY <1>5, <2>1
    <3> QED
      BY <1>2, <1>4, <3>1 DEF StoreInv, NoDanglingChild, Readable
  <2> QED
    BY <2>1 DEF NoDanglingChild, Lists, Readable
<1>8. Acyclic'
  <2>1. SUFFICES ASSUME NEW S \in SUBSET Names, S # {}
                 PROVE  \E z \in S : \A y \in S : ~(file'[y] = "ok" /\ meta'[y].children[z] > 0)
    BY DEF Acyclic, Lists, Readable
  <2>2. PICK z \in S : \A y \in S : ~Lists(y, z)
    BY <1>2, <2>1 DEF StoreInv, Acyclic
  <2> QED
    BY <1>5, <2>1, <2>2
<1>9. CreationInv' /\ InitialIsRoot'
  <2>1. file'[Initial] = "ok" => meta'[Initial].parent = None
    <3>1. CASE x = Initial
      BY <1>2, <1>3, <1>4, <3>1
    <3>2. CASE x # Initial
      BY <1>2, <1>4, <3>2 DEF StoreInv, InitialIsRoot, Readable, Names
    <3> QED
      BY <3>1, <3>2
  <2> QED
    BY <1>1, <1>2, <2>1 DEF CreationInv, InitialIsRoot, Readable
<1>10. TrustInv'
  <2>1. file'[Initial] = "ok"
    BY <1>2, <1>4 DEF Names, Readable
  <2> QED
    BY <1>1, <1>2, <2>1 DEF TrustInv, Relevant, is_defined, Readable
<1>11. TakeInv'
  <2>1. \A m \in Names : ~(file'[m] = "ok" /\ meta'[m].children[x] > 0)
    BY <1>2, <1>5
  <2> QED
    BY <1>1, <1>2, <1>3, <1>4, <2>1 DEF TakeInv, Lists, Readable
<1> QED
  BY <1>1, <1>6, <1>7, <1>8, <1>9, <1>10, <1>11, NoActivationInv DEF StoreInv

\* The link goes from a record that has a parent to one that lists nobody.
LEMMA LinkParentInv ==
    ASSUME StoreInv, TypeOK', LinkParent
    PROVE  StoreInv'
<1> DEFINE x == arg.snap
<1>1. /\ stack = <<>> /\ pc = "link" /\ pc' = "idle" /\ stack' = <<>> /\ cur' = x
      /\ UNCHANGED <<domain, main, stale, file, phase, trusted>>
      /\ IF cur = None
         THEN UNCHANGED meta
         ELSE /\ Readable(cur) /\ meta[cur].children[x] < MaxLinks
              /\ meta' = WithChild(cur, x)
  BY DEF LinkParent, Return
<1>2. /\ domain /\ main # "absent" /\ ~stale /\ trusted /\ phase = "run"
      /\ x \in Names /\ cur # x /\ cur \in Names \cup {None}
      /\ Readable(Initial) /\ Readable(x)
      /\ x = Initial => cur = None
  BY <1>1, TakingFacts
<1>3. /\ meta[x].parent = cur /\ meta[x].children = EmptyBag
      /\ \A m \in Names : ~Lists(m, x)
  BY <1>1 DEF StoreInv, TakeInv
<1>4. \A m \in Names : meta'[m].parent = meta[m].parent
  BY <1>1, <1>2, WithChildFacts DEF StoreInv, TypeOK
<1>5. \A m, c \in Names : c # x => meta'[m].children[c] = meta[m].children[c]
  BY <1>1, <1>2, WithChildFacts DEF StoreInv, TypeOK
<1>6. \A m \in Names : file[m] = "ok" /\ meta'[m].children[x] > 0 =>
          m = cur /\ meta'[m].children[x] = 1
  <2>1. \A m \in Names : meta[m].children[x] \in Nat
    BY <1>2, ChildrenFacts DEF StoreInv, TypeOK
  <2>2. \A m \in Names : file[m] = "ok" => meta[m].children[x] = 0
    BY <1>3, <2>1 DEF Lists, Readable
  <2>3. CASE cur = None
    <3>1. meta' = meta
      BY <1>1, <2>3
    <3> QED
      BY <2>2, <3>1
  <2>4. CASE cur # None
    <3>1. cur \in Names /\ Readable(cur) /\ meta[cur].children[x] < MaxLinks
      BY <1>1, <1>2, <2>4
    <3>2. /\ \A m \in Names : m # cur => meta'[m].children[x] = meta[m].children[x]
          /\ meta'[cur].children[x] = meta[cur].children[x] + 1
      BY <1>1, <1>2, <2>4, <3>1, WithChildFacts DEF StoreInv, TypeOK
    <3> QED
      BY <2>2, <3>1, <3>2 DEF Readable
  <2> QED
    BY <2>3, <2>4
<1>7. NoDanglingChild'
  <2>1. ASSUME NEW m \in Names, NEW c \in Names,
               file[m] = "ok", meta'[m].children[c] > 0
        PROVE  file[c] = "ok" /\ meta'[c].parent = m /\ meta'[m].children[c] = 1
    <3>1. CASE c = x
      BY <1>2, <1>3, <1>4, <1>6, <2>1, <3>1 DEF Readable
    <3>2. CASE c # x
      BY <1>2, <1>4, <1>5, <2>1, <3>2 DEF StoreInv, NoDanglingChild, Lists, Readable
    <3> QED
      BY <3>1, <3>2
  <2> QED
    BY <1>1, <2>1 DEF NoDanglingChild, Lists, Readable
<1>8. Acyclic'
  <2>1. SUFFICES ASSUME NEW S \in SUBSET Names, S # {}
                 PROVE  \E z \in S : \A y \in S : ~(file[y] = "ok" /\ meta'[y].children[z] > 0)
    BY <1>1 DEF Acyclic, Lists, Readable
  <2>2. CASE S \subseteq {x}
    <3>1. ~(file[x] = "ok" /\ meta'[x].children[x] > 0)
      BY <1>2, <1>6
    <3> QED
      BY <2>1, <2>2, <3>1
  <2>3. CASE S \ {x} # {}
    <3>1. PICK z \in S \ {x} : \A y \in S \ {x} : ~Lists(y, z)
      BY <1>2, <2>1, <2>3 DEF StoreInv, Acyclic
    <3>2. ~Lists(x, z)
      BY <1>3, <2>1, <3>1, ConstantTypes DEF Lists
    <3>3. \A y \in S : ~Lists(y, z)
      BY <3>1, <3>2
    <3> QED
      BY <1>5, <2>1, <3>1, <3>3 DEF Lists, Readable
  <2> QED
    BY <2>2, <2>3
<1>9. CreationInv' /\ InitialIsRoot'
  <2>1. file[Initial] = "ok" => meta'[Initial].parent = None
    BY <1>2, <1>4 DEF StoreInv, InitialIsRoot, Readable, Names
  <2> QED
    BY <1>1, <1>2, <2>1 DEF CreationInv, InitialIsRoot, Readable
<1>10. TrustInv' /\ TakeInv'
  BY <1>1, <1>2 DEF TrustInv, TakeInv, Relevant, is_defined, Readable
<1>11. NoTornFile'
  BY <1>1 DEF StoreInv, NoTornFile
<1> QED
  BY <1>1, <1>7, <1>8, <1>9, <1>10, <1>11, NoActivationInv DEF StoreInv

\* Every step of create_snapshot keeps the store consistent.
LEMMA TakeStepInv ==
    ASSUME StoreInv, Take
    PROVE  StoreInv'
<1>1. TypeOK'
  BY TakeType DEF StoreInv
<1>2. CASE LinkParentThrows
  BY <1>1, <1>2, SameDiskRestartInv DEF LinkParentThrows, disk
<1> QED
  BY <1>1, <1>2, KeepSnapshotInv, TakeSnapshotInv, HypervisorStepInv, WriteRecordInv,
     LinkParentInv DEF Take

----------------------------------------------------------------------------
(* A restoration or a creation preserves the invariant                     *)

\* Restoring a snapshot does.
LEMMA RestoreSnapshotInv ==
    ASSUME StoreInv, TypeOK', NEW s \in Names, RestoreSnapshot(s)
    PROVE  StoreInv'
<1>1. /\ stack = <<>> /\ pc = "idle" /\ phase = "run" /\ trusted' = TRUE
      /\ s = Initial => Relevant
      /\ s # Initial => trusted
      /\ UNCHANGED <<domain, main, stale, file, meta, phase, pc, arg, stack>>
  BY DEF RestoreSnapshot, Idle
<1>2. Relevant
  BY <1>1 DEF StoreInv, TrustInv
<1>3. TrustInv'
  BY <1>1, <1>2 DEF TrustInv, Relevant, is_defined, Readable
<1>4. CreationInv' /\ InitialIsRoot' /\ TakeInv'
  BY <1>1, SameRecordsInv DEF CreationInv, InitialIsRoot, TakeInv, Readable
<1> QED
  BY <1>1, <1>3, <1>4, SameRecordsInv, NoActivationInv DEF StoreInv

\* A controller that is created anew is in no state.
LEMMA CreateControllerInv ==
    ASSUME StoreInv, TypeOK', CreateController
    PROVE  StoreInv'
<1>1. /\ stack = <<>> /\ pc = "idle" /\ phase = "run" /\ ~Relevant
      /\ pc' = IF domain THEN "undefine" ELSE "rmtree"
      /\ stack' = IF domain /\ ~IsMachine /\ Readable(Initial)
                  THEN Enter(Initial) ELSE stack
      /\ UNCHANGED <<domain, main, stale, file, meta, cur, phase, trusted, arg>>
  BY DEF CreateController, Idle, disk
<1>2. cur = None /\ ~trusted
  BY <1>1 DEF StoreInv, TrustInv
<1>3. CreationInv' /\ InitialIsRoot' /\ TrustInv'
  BY <1>1, <1>2, SameRecordsInv DEF CreationInv, InitialIsRoot, TrustInv, Readable
<1>4. CASE domain /\ ~IsMachine /\ Readable(Initial)
  <2>1. FrameInv' /\ PathInv' /\ NoReentry' /\ RemoveInv'
    BY <1>1, <1>4, StartDeletionInv DEF Names
  <2>2. TakeInv'
    BY <1>1, <1>4 DEF TakeInv
  <2> QED
    BY <1>3, <1>1, <2>1, <2>2, SameRecordsInv DEF StoreInv
<1>5. CASE ~(domain /\ ~IsMachine /\ Readable(Initial))
  <2>1. stack' = <<>> /\ TakeInv'
    BY <1>1, <1>5 DEF TakeInv
  <2> QED
    BY <1>1, <1>3, <2>1, SameRecordsInv, NoActivationInv DEF StoreInv
<1> QED
  BY <1>4, <1>5

\* The controller is taken away, then its directory.
LEMMA RemovalInv ==
    ASSUME StoreInv, TypeOK', Undefine \/ RemoveTree
    PROVE  StoreInv'
<1>1. /\ stack' = <<>> /\ domain' = FALSE /\ cur' = None
      /\ UNCHANGED <<cur, phase, trusted, arg>>
      /\ pc' \in {"rmtree", "install"} /\ pc \in {"undefine", "rmtree"}
      /\ pc' = "install" => main' = "absent" /\ AllAbsent'
  BY DEF StoreInv, CreationInv, Undefine, RemoveTree, AllAbsent
<1>2. NoTornFile'
  BY DEF StoreInv, NoTornFile, Undefine, RemoveTree
<1>3. NoDanglingChild' /\ Acyclic' /\ InitialIsRoot' /\ TakeInv' /\ CreationInv'
  BY <1>1 DEF NoDanglingChild, Acyclic, InitialIsRoot, TakeInv, CreationInv
<1>4. TrustInv'
  BY <1>1 DEF StoreInv, TrustInv
<1> QED
  BY <1>1, <1>2, <1>3, <1>4, NoActivationInv DEF StoreInv

\* The new controller has an empty directory until its main file is written.
LEMMA InstallationInv ==
    ASSUME StoreInv, TypeOK', Install \/ WriteMain
    PROVE  StoreInv'
<1>1. /\ stack' = <<>> /\ domain' = TRUE /\ cur' = None /\ AllAbsent
      /\ UNCHANGED <<file, meta, cur, phase>> /\ pc \in {"install", "main"}
      /\ \/ pc' = "main" /\ main' = "absent" /\ UNCHANGED trusted
         \/ /\ pc' = "mkhyp" /\ arg'.snap = Initial
            /\ main' = "ok" /\ trusted' /\ ~stale'
  BY DEF StoreInv, CreationInv, Install, WriteMain
<1>2. /\ \A m \in Names : file'[m] = "absent"
      /\ Initial \in Names /\ Initial # None
  BY <1>1, NamesAssumption DEF AllAbsent, Names
<1>3. \A m \in Names : file'[m] # "ok"
  BY <1>2
<1>4. NoTornFile' /\ NoDanglingChild' /\ CreationInv'
  BY <1>1, <1>2, <1>3 DEF NoTornFile, NoDanglingChild, CreationInv, AllAbsent,
                          Lists, Readable
<1>5. Acyclic'
  BY <1>3 DEF Acyclic, Lists, Readable
<1>6. InitialIsRoot' /\ TakeInv'
  BY <1>1, <1>2, <1>3 DEF InitialIsRoot, TakeInv, Readable
<1>7. TrustInv'
  <2>1. phase = "run"
    BY <1>1 DEF StoreInv, TrustInv, TypeOK
  <2> QED
    BY <1>1, <2>1 DEF TrustInv, is_defined
<1> QED
  BY <1>1, <1>4, <1>5, <1>6, <1>7, NoActivationInv DEF StoreInv

\* Every step of create and undefine keeps the store consistent.
LEMMA CreateInv ==
    ASSUME StoreInv, Create
    PROVE  StoreInv'
<1>1. TypeOK'
  BY CreateType DEF StoreInv
<1> QED
  BY <1>1, RestoreSnapshotInv, CreateControllerInv, RemovalInv, InstallationInv DEF Create

----------------------------------------------------------------------------
(* The launch preserves the invariant, when writes are atomic and the      *)
(* configuration is only edited while no test runs                         *)

\* The cache check at the end of planning keeps the store consistent.
LEMMA StartRunningInv ==
    ASSUME StoreInv, TypeOK', StartRunning
    PROVE  StoreInv'
<1>1. /\ stack = <<>> /\ pc = "idle" /\ phase = "plan" /\ phase' = "run"
      /\ trusted' = Relevant
      /\ UNCHANGED <<domain, main, stale, file, meta, cur, pc, arg, stack>>
  BY DEF StartRunning, Idle, disk
<1>2. cur = None
  BY <1>1 DEF StoreInv, TrustInv
<1>3. CreationInv' /\ InitialIsRoot' /\ TakeInv'
  BY <1>1, SameRecordsInv DEF CreationInv, InitialIsRoot, TakeInv, Readable
<1>4. TrustInv'
  BY <1>1, <1>2 DEF TrustInv, Relevant, is_defined, Readable
<1> QED
  BY <1>1, <1>3, <1>4, SameRecordsInv, NoActivationInv DEF StoreInv

\* Dropping a temporary hypervisor snapshot does.
LEMMA DeleteTemporaryInv ==
    ASSUME StoreInv, TypeOK', NEW s \in Tests, DeleteTemporary(s)
    PROVE  StoreInv'
<1>1. /\ stack = <<>> /\ pc = "idle"
      /\ UNCHANGED <<domain, main, stale, file, meta, cur, phase, trusted, pc, arg, stack>>
  BY DEF DeleteTemporary, Idle
<1>2. TakeInv'
  BY <1>1 DEF TakeInv
<1> QED
  BY <1>1, <1>2, SameFilesInv, NoActivationInv DEF StoreInv

\* Stopping a machine does.
LEMMA StopMachineInv ==
    ASSUME StoreInv, TypeOK', StopMachine
    PROVE  StoreInv'
<1>1. /\ stack = <<>> /\ pc = "idle" /\ cur' = None
      /\ UNCHANGED <<domain, main, stale, file, meta, phase, trusted, pc, arg, stack>>
  BY DEF StopMachine, Idle, disk
<1>2. CreationInv' /\ InitialIsRoot' /\ TakeInv'
  BY <1>1, SameRecordsInv DEF CreationInv, InitialIsRoot, TakeInv, Readable
<1>3. TrustInv'
  BY <1>1 DEF StoreInv, TrustInv, Relevant, is_defined, Readable
<1> QED
  BY <1>1, <1>2, <1>3, SameRecordsInv, NoActivationInv DEF StoreInv

\* A changed configuration does.
LEMMA EditConfigInv ==
    ASSUME StoreInv, TypeOK', EditConfig, "run" \notin EditPhases
    PROVE  StoreInv'
<1>1. /\ stack = <<>> /\ pc = "idle" /\ phase = "plan"
      /\ UNCHANGED <<domain, main, file, meta, cur, phase, trusted, pc, arg, stack>>
  BY EditAssumption DEF EditConfig, Idle, memory
<1>2. CreationInv' /\ InitialIsRoot' /\ TakeInv'
  BY <1>1, SameRecordsInv DEF CreationInv, InitialIsRoot, TakeInv, Readable
<1>3. TrustInv'
  BY <1>1 DEF StoreInv, TrustInv
<1> QED
  BY <1>1, <1>2, <1>3, SameRecordsInv, NoActivationInv DEF StoreInv

\* remove_all works on the directory of a controller that is undefined already.
LEMMA CrashInv ==
    ASSUME StoreInv, TypeOK', Crash
    PROVE  StoreInv'
<1>1. CASE Point = "rmtree"
  <2>1. domain' = FALSE /\ Restart
    BY <1>1, TopFacts DEF Crash, Point, StoreInv, CreationInv, TypeOK, Frame
  <2>2. NoTornFile'
    BY <1>1 DEF Crash, StoreInv, NoTornFile
  <2>3. NoDanglingChild' /\ Acyclic'
    BY <2>1 DEF NoDanglingChild, Acyclic
  <2> QED
    BY <2>1, <2>2, <2>3, RestartInv
<1>2. CASE Point # "rmtree"
  BY <1>2, SameDiskRestartInv DEF Crash
<1> QED
  BY <1>1, <1>2

\* Every step of a launch keeps the store consistent.
LEMMA LaunchInv ==
    ASSUME StoreInv, Launch, ~TornWrites, "run" \notin EditPhases
    PROVE  StoreInv'
<1>1. TypeOK'
  BY LaunchType DEF StoreInv
<1>2. CASE EndLaunch
  BY <1>1, <1>2, SameDiskRestartInv DEF EndLaunch, disk
<1> QED
  BY <1>1, <1>2, StartRunningInv, DeleteTemporaryInv, StopMachineInv, EditConfigInv, CrashInv
     DEF Launch, CrashInWrite

----------------------------------------------------------------------------
(* The theorems                                                            *)

\* The files are atomic and the configuration stays while tests run.
CalmDisk == ~TornWrites /\ "run" \notin EditPhases

\* However the process dies, the store and the deletion at work on it stay
\* consistent with each other.
THEOREM StoreConsistent == CalmDisk /\ Spec => []StoreInv
<1>1. CalmDisk /\ StoreInv /\ [Next]_vars => StoreInv'
  <2>1. ASSUME StoreInv, UNCHANGED vars
        PROVE  StoreInv'
    <3>1. TypeOK'
      BY <2>1 DEF vars, StoreInv, TypeOK
    <3>2. /\ UNCHANGED <<domain, main, stale, file, meta, cur, phase, trusted, pc, arg>>
          /\ stack' = stack
      BY <2>1 DEF vars
    <3>3. TakeInv' /\ FrameInv'
      BY <2>1, <3>2 DEF StoreInv, TakeInv, FrameInv, Lists, Readable
    <3>4. PathInv' /\ NoReentry' /\ RemoveInv'
      BY <2>1, <3>2 DEF StoreInv, PathInv, NoReentry, RemoveInv, Lists, Readable, Top
    <3> QED
      BY <2>1, <3>1, <3>2, <3>3, <3>4, SameFilesInv DEF StoreInv
  <2> QED
    BY <2>1, DeleteInv, TakeStepInv, CreateInv, LaunchInv DEF Next, CalmDisk
<1>2. CalmDisk => CalmDisk'
  BY DEF CalmDisk
<1> QED
  BY <1>1, <1>2, InitInv, PTL DEF Spec

\* Children arrays name readable records that name the array's owner as parent.
THEOREM ChildrenExist == CalmDisk /\ Spec => []NoDanglingChild
BY StoreConsistent, PTL DEF StoreInv

\* A deletion comes to no child it cannot read.
THEOREM DeletionCompletes == CalmDisk /\ Spec => []DeleteFindsChildren
<1>1. StoreInv => DeleteFindsChildren
  <2>1. SUFFICES ASSUME StoreInv, stack # <<>>, NEW c \in Names, Top.todo[c] > 0
                 PROVE  Readable(c)
    BY DEF DeleteFindsChildren
  <2>2. Len(stack) \in 1 .. Len(stack) /\ Top = stack[Len(stack)] /\ domain
    BY <2>1, TopFacts DEF StoreInv, TypeOK, FrameInv
  <2>3. Lists(Top.name, c) /\ Top.name \in Names
    BY <2>1, <2>2, StackFacts DEF StoreInv, FrameInv, TypeOK
  <2> QED
    BY <2>1, <2>2, <2>3 DEF StoreInv, NoDanglingChild
<1> QED
  BY <1>1, StoreConsistent, PTL

\* The recursion of a deletion is finite.
THEOREM DeletionDescends == CalmDisk /\ Spec => []NoReentry
BY StoreConsistent, PTL DEF StoreInv

----------------------------------------------------------------------------
(* The main file, whatever writes are cut short                            *)

\* A process that dies in a write leaves main files of flash drives truncated, not
\* those of machines.
MachinesWhole == IsMachine => ~TornWrites

\* The directory of a controller is empty from before the hypervisor knows it until
\* its main file is written, and records are written behind a main file only.
MainInv ==
    /\ domain /\ main # "ok" => \A n \in Names : ~Readable(n)
    /\ pc = "rmtree" => ~domain
    /\ pc \in {"install", "main"} => \A n \in Names : ~Readable(n)
    /\ pc \in TakePoints => main = "ok"
    /\ cur # None /\ pc \notin CreatePoints => main = "ok"
    /\ pc = "setmain" => IsMachine

\* A step that creates nothing and writes no record keeps it.
LEMMA SameMainInv ==
    ASSUME MainInv, UNCHANGED <<domain, main, pc>>,
           \A n \in Names : Readable(n)' => Readable(n),
           cur' \in {cur, None}
    PROVE  MainInv'
BY DEF MainInv

\* So does the end of the process, unless it cuts the write of the main file short.
LEMMA RestartMainInv ==
    ASSUME MainInv, Restart, UNCHANGED domain,
           main' = main \/ ~domain,
           \A n \in Names : Readable(n)' => Readable(n)
    PROVE  MainInv'
BY DEF MainInv, Restart

\* The steps of a deletion remove records.
LEMMA DeleteMainInv ==
    ASSUME MainInv, Delete
    PROVE  MainInv'
<1>1. CASE VisitChildThrows
  BY <1>1, RestartMainInv DEF VisitChildThrows, disk, Readable
<1>2. CASE RemoveFile
  <2>1. /\ UNCHANGED <<domain, main, pc, cur>>
        /\ file' = [file EXCEPT ![Top.name] = "absent"]
    BY <1>2 DEF RemoveFile
  <2>2. \A n \in Names : Readable(n)' => Readable(n)
    BY <2>1 DEF Readable
  <2> QED
    BY <2>1, <2>2, SameMainInv
<1>3. CASE ~VisitChildThrows /\ ~RemoveFile
  <2>1. UNCHANGED <<domain, main, file, pc, cur>>
    BY <1>3 DEF Delete, Invalidate, VisitChild, ChildrenDone, DeleteHypervisorSnapshot,
                UnlinkParent, disk
  <2> QED
    BY <2>1, SameMainInv DEF Readable
<1> QED
  BY <1>1, <1>2, <1>3

\* A snapshot is taken of a controller in a state, which has its main file.
LEMMA TakeMainInv ==
    ASSUME MainInv, Take
    PROVE  MainInv'
<1>1. ASSUME NEW s \in Tests, KeepSnapshot(s)
      PROVE  MainInv'
  <2>1. UNCHANGED <<domain, main, file, pc>> /\ pc = "idle" /\ cur # None
    BY <1>1, ParentsAssumption, NamesAssumption DEF KeepSnapshot, Idle, disk
  <2> QED
    BY <2>1 DEF MainInv, Readable
<1>2. ASSUME NEW s \in Tests, NEW c \in Cksums, NEW needed \in BOOLEAN,
             TakeSnapshot(s, c, needed)
      PROVE  MainInv'
  <2>1. /\ UNCHANGED <<domain, main, file, cur>> /\ pc = "idle" /\ cur # None
        /\ pc' \in {"remake", "mkhyp", "write"}
    BY <1>2, ParentsAssumption, NamesAssumption DEF TakeSnapshot, Idle, disk
  <2> QED
    BY <2>1 DEF MainInv, Readable
<1>3. CASE MakeHypervisorSnapshot
  BY <1>3 DEF MakeHypervisorSnapshot, MainInv, Readable
<1>4. CASE RemakeHypervisorSnapshot
  BY <1>4 DEF RemakeHypervisorSnapshot, Return, MainInv, Readable
<1>5. CASE SetMain
  BY <1>5 DEF SetMain, Return, disk, MainInv, Readable
<1>6. CASE WriteRecord
  BY <1>6 DEF WriteRecord, MainInv
<1>7. CASE LinkParent
  BY <1>7 DEF LinkParent, Return, MainInv, Readable
<1>8. CASE LinkParentThrows
  BY <1>8, RestartMainInv DEF LinkParentThrows, disk, Readable
<1> QED
  BY <1>1, <1>2, <1>3, <1>4, <1>5, <1>6, <1>7, <1>8 DEF Take

\* A creation empties the directory first and writes the main file last.
LEMMA CreateMainInv ==
    ASSUME MainInv, Create
    PROVE  MainInv'
<1>1. ASSUME NEW s \in Names, RestoreSnapshot(s)
      PROVE  MainInv'
  <2>1. UNCHANGED <<domain, main, file, pc>> /\ pc = "idle"
    BY <1>1 DEF RestoreSnapshot, Idle
  <2>2. main = "ok"
    BY <1>1 DEF RestoreSnapshot, CanRestore, is_defined, MainInv
  <2> QED
    BY <2>1, <2>2 DEF MainInv, Readable
<1>2. CASE CreateController
  BY <1>2 DEF CreateController, disk, MainInv, Readable
<1>3. CASE Undefine
  BY <1>3 DEF Undefine, MainInv, Readable
<1>4. CASE RemoveTree
  BY <1>4 DEF RemoveTree, MainInv, Readable
<1>5. CASE Install
  BY <1>5 DEF Install, MainInv, Readable
<1>6. CASE WriteMain
  BY <1>6 DEF WriteMain, MainInv, Readable
<1> QED
  BY <1>1, <1>2, <1>3, <1>4, <1>5, <1>6 DEF Create

\* Of the writes that may be cut short only that of a new controller is of the main
\* file of a flash drive, and then there is no record.
LEMMA LaunchMainInv ==
    ASSUME TypeOK, MachinesWhole, MainInv, Launch
    PROVE  MainInv'
<1>p. Point \notin DeletePoints => stack = <<>> /\ Point = pc
  BY TopFacts DEF Point, TypeOK, Frame
<1>1. CASE StartRunning
  BY <1>1, SameMainInv DEF StartRunning, disk, Readable
<1>2. ASSUME NEW s \in Tests, DeleteTemporary(s)
      PROVE  MainInv'
  BY <1>2, SameMainInv DEF DeleteTemporary, Readable
<1>3. CASE StopMachine
  BY <1>3, SameMainInv DEF StopMachine, disk, Readable
<1>4. CASE EditConfig
  BY <1>4, SameMainInv DEF EditConfig, memory, Readable
<1>5. CASE EndLaunch
  BY <1>5, RestartMainInv DEF EndLaunch, disk, Readable
<1>6. CASE Crash
  <2>1. Restart /\ UNCHANGED domain
    BY <1>6 DEF Crash
  <2>2. CASE Point = "rmtree"
    <3>1. ~domain
      BY <1>p, <2>2 DEF MainInv
    <3> QED
      BY <2>1, <3>1 DEF MainInv, Restart
  <2>3. CASE Point # "rmtree"
    BY <1>6, <2>1, <2>3, RestartMainInv DEF Crash, Readable
  <2> QED
    BY <2>2, <2>3
<1>7. CASE CrashInWrite
  <2>1. Restart /\ UNCHANGED domain /\ TornWrites
    BY <1>7 DEF CrashInWrite
  <2>2. ASSUME NEW n \in BeingWritten, UNCHANGED main,
               file' = [file EXCEPT ![n] = "corrupt"]
        PROVE  MainInv'
    <3>1. \A m \in Names : Readable(m)' => Readable(m)
      BY <2>2 DEF TypeOK, Readable
    <3> QED
      BY <2>1, <2>2, <3>1, RestartMainInv
  <2>3. CASE Point \in {"main", "setmain"} /\ UNCHANGED file
    <3>1. pc = "main"
      BY <1>p, <2>1, <2>3 DEF MachinesWhole, MainInv
    <3> QED
      BY <2>1, <2>3, <3>1 DEF MainInv, Restart, Readable
  <2> QED
    BY <1>7, <2>2, <2>3 DEF CrashInWrite
<1> QED
  BY <1>1, <1>2, <1>3, <1>4, <1>5, <1>6, <1>7 DEF Launch

\* Whatever crashes truncate and however the configuration is edited, a flash drive
\* with a record has a main file that can be read; a machine has if nothing is truncated.
THEOREM MainFileReadable == MachinesWhole /\ Spec => []MainReadable
<1>1. Init => MainInv
  BY DEF Init, MainInv, Readable
<1>2. MachinesWhole /\ TypeOK /\ MainInv /\ [Next]_vars => MainInv'
  <2>1. ASSUME MainInv, UNCHANGED vars
        PROVE  MainInv'
    BY <2>1, SameMainInv DEF vars, Readable
  <2> QED
    BY <2>1, DeleteMainInv, TakeMainInv, CreateMainInv, LaunchMainInv DEF Next
<1>3. MachinesWhole => MachinesWhole'
  BY DEF MachinesWhole
<1>4. MainInv => MainReadable
  BY DEF MainInv, MainReadable, is_defined
<1> QED
  BY <1>1, <1>2, <1>3, <1>4, TypeCorrect, PTL DEF Spec

=============================================================================
