--------------------------- MODULE Launch_proofs ---------------------------
(***************************************************************************)
(* Proofs about Launch, for any projects, any number of launches and any   *)
(* interruptions.  What a launch takes for up to date has passed as it is  *)
(* now, what its plan decided to restore can be restored, a test starts on *)
(* what its parents left and with no key down, what passed is up to date   *)
(* for the next launch, no machine is left on, no temporary snapshot is    *)
(* left behind, and the state keeps its type.  A project's tests keep their *)
(* parents and controllers from one version to the next (UsualProjects);   *)
(* what else a theorem supposes of the projects stands before it.          *)
(***************************************************************************)
EXTENDS Launch, TestWalks_proofs

----------------------------------------------------------------------------
(* The projects                                                            *)

\* From one version of a project to the next bodies, policies, configurations,
\* modes and the selection may change; a test keeps its parents and the controllers
\* its commands mention.
HierarchyStays ==
    \A x \in DOMAIN Projects : \A d, e \in Projects[x] :
        \A t \in Declared(d) \cap Declared(e) :
            ParentSet(d, t) = ParentSet(e, t) /\ d.mentions[t] = e.mentions[t]

\* Tests use controllers, and none has the name of the initial snapshot: the code
\* enforces neither.
UsualProjects ==
    /\ HierarchyStays
    /\ \A d \in Programs : \A t \in Declared(d) : d.parents[t] = <<>> => d.mentions[t] # {}
    /\ Initial \notin Names /\ "" \notin Names

\* The versions of a project, their tests selected.
Versions(x) == {setup_tests_parents(d) : d \in Projects[x]}

Ctrl(p, t) == get_all_controllers(p)[t]

\* What the proofs use of a version of a project.
Version(p) ==
    /\ Plannable(p)
    /\ Selected(p) \subseteq Names
    /\ \A t \in Selected(p) : Ctrl(p, t) # {} /\ Ctrl(p, t) \subseteq Controllers

\* Two versions of a project agree on the tests they both select.
Compatible(p, e) ==
    \A t \in Selected(p) \cap Selected(e) :
        /\ ParentSet(p, t) = ParentSet(e, t)
        /\ p.mentions[t] = e.mentions[t]

----------------------------------------------------------------------------
(* The disk                                                                *)

\* A snapshot of s on controller c was taken on top of that of the parent which uses
\* c, or of the initial one.
OnParent(p, c, s, a) ==
    /\ c \in Ctrl(p, s)
    /\ IF \E q \in ParentSet(p, s) : c \in Ctrl(p, q)
       THEN a \in ParentSet(p, s) /\ c \in Ctrl(p, a)
       ELSE a = Initial

\* The snapshots of one controller, r, and what it was created from.
Column(x, c, config, r) ==
    /\ DOMAIN r \subseteq Names \cup {Initial}
    /\ config = Nothing => DOMAIN r = {}
    /\ \A s \in DOMAIN r :
          /\ r[s].parent \in DOMAIN r \cup {""}
          /\ s = Initial => r[s].parent = ""
          /\ c \notin Machines => r[s].image.on = FALSE /\ r[s].image.key = FALSE
    /\ \A p \in Versions(x) : \A s \in DOMAIN r \cap Selected(p) : OnParent(p, c, s, r[s].parent)

\* A test is stored when each of its controllers has its snapshot, on a configuration
\* that is still right.
IsRelevant(p, m, k, c) == m[c] = Config(p, c) /\ Initial \in DOMAIN k[c]
Matches(p, k, c, t) == t \in DOMAIN k[c] /\ k[c][t].cksum = cksum(p, t)
Stored(p, m, k, t) == \A c \in Ctrl(p, t) : IsRelevant(p, m, k, c) /\ Matches(p, k, c, t)
Cached(p, m, k) == {t \in Selected(p) : \A u \in Ancestors(p, t) : Stored(p, m, k, u)}

\* What the disk would let a launch of any version take for up to date has passed.
Sound(x, m, k, P) == \A p \in Versions(x) : \A t \in Cached(p, m, k) : <<t, Lineage(p)[t]>> \in P

----------------------------------------------------------------------------
(* The invariant                                                           *)

Running == {"restore", "networks", "install", "commands", "drop", "snapshot"}
Visiting == {"next", "skip"} \cup Running

StateInv ==
    /\ project \in DOMAIN Projects /\ prog \in Versions(project)
    /\ pc \in Points \cup {"idle", "finished", "stuck"}
    /\ DOMAIN made = Controllers /\ DOMAIN snaps = Controllers
    /\ power \in [Controllers -> {"stopped", "running", "suspended"}]
    /\ \A c \in Controllers \ Machines : power[c] = "stopped"
    /\ cur \in [Controllers -> Names \cup {Initial, ""}]
    /\ keys \subseteq Machines /\ held \subseteq Machines
    /\ pending \subseteq Controllers
    /\ queue \in Seq(Selected(prog))
    /\ ok \in SUBSET Selected(prog) /\ Upward(prog, ok)
    /\ pc \in {"idle", "invalidate"} => ok = {}

DiskInv == \A c \in Controllers : Column(project, c, made[c], snaps[c])

\* Nothing is planned before the plan is made.
PlanInv ==
    /\ plan = [stuck |-> plan.stuck, runs |-> plan.runs, refs |-> plan.refs]
    /\ plan.runs \in Seq([test : Selected(prog), parents : SUBSET Nat])
    /\ pc \notin Visiting \cup {"finished"} => plan.runs = <<>> /\ idx = 1
    /\ \A j \in 1 .. Len(plan.runs) :
          /\ plan.runs[j].parents \subseteq 1 .. j - 1
          /\ \A q \in ParentSet(prog, plan.runs[j].test) :
                q \in ok \/ \E i \in plan.runs[j].parents : plan.runs[i].test = q
          /\ \A i \in 1 .. j - 1 :
                plan.runs[i].test = plan.runs[j].test => Policy(plan.runs[j].test) = "never"
    /\ idx \in Nat \ {0}
    /\ pc \in {"skip"} \cup Running => idx <= Len(plan.runs)
    /\ status \in [1 .. Len(plan.runs) -> {"unknown", "passed", "failed", "skipped"}]
    /\ \A i \in 1 .. Len(plan.runs) : status[i] = "unknown" <=> i >= idx

\* What has passed is known to be stored once the plan is made.
OkInv ==
    /\ CacheSound
    /\ pc \in {"delete"} \cup Visiting => \A t \in ok : Stored(prog, made, snaps, t)

\* The snapshots of the uncached tests go before the plan is made.
DeleteInv ==
    /\ pc = "invalidate" /\ queue = <<>> => pending = Controllers
    /\ pc = "delete" =>
        /\ queue \in Seq(Selected(prog) \ ok)
        /\ \A a \in Topmost(prog, ok) \ ToSet(queue) : \A c \in Ctrl(prog, a) : a \notin DOMAIN snaps[c]
        /\ queue # <<>> => \A c \in Ctrl(prog, Head(queue)) \ pending :
                               Head(queue) \notin DOMAIN snaps[c]

\* The tests whose state can be had: those up to date and those with a run that passed.
Done == ok \cup {plan.runs[i].test : i \in {i \in 1 .. idx - 1 : status[i] = "passed"}}

\* Somewhere, a test that has a snapshot has one of its present version.
VisitInv ==
    /\ pc \in Visiting =>
        /\ \A i \in 1 .. idx - 1 : i <= Len(plan.runs)
        /\ \A t \in Selected(prog) : \E c \in Ctrl(prog, t) :
              t \in DOMAIN snaps[c] => Matches(prog, snaps, c, t)
        /\ \A q \in Done : \A c \in Ctrl(prog, q) :
              IsRelevant(prog, made, snaps, c) /\ q \in DOMAIN snaps[c]
        /\ Upward(prog, Done)
    /\ pc \in Running => ParentSet(prog, Test) \subseteq Done

\* The controllers of the present run: cur tells on top of what a snapshot will be.
Ready(c) == IsRelevant(prog, made, snaps, c) /\ OnParent(prog, c, Test, cur[c])

RunInv ==
    /\ pc = "networks" => \A c \in Inherited(Test) : Ready(c)
    /\ pc = "install" => /\ pending \subseteq Controls(Test) \ Inherited(Test)
                         /\ \A c \in Controls(Test) \ pending : Ready(c)
    /\ pc \in {"commands", "drop"} => \A c \in Controls(Test) : Ready(c)
    /\ pc = "snapshot" => /\ pending \subseteq Controls(Test)
                          /\ \A c \in pending : Ready(c)
                          /\ \A c \in Controls(Test) \ pending :
                                IsRelevant(prog, made, snaps, c) /\ Test \in DOMAIN snaps[c]
    /\ pc \in {"drop", "snapshot"} => <<Test, Lineage(prog)[Test]>> \in passed

LaunchInv ==
    /\ StateInv /\ DiskInv /\ PlanInv /\ OkInv /\ DeleteInv /\ VisitInv /\ RunInv
    /\ Sound(project, made, snaps, passed)

----------------------------------------------------------------------------
(* Facts about the projects                                                *)

\* A version of a project is one of the programs.
LEMMA VersionFacts ==
    ASSUME UsualProjects, NEW x \in DOMAIN Projects, NEW p \in Versions(x)
    PROVE  Version(p)
<1>1. PICK d \in Projects[x] : p = setup_tests_parents(d)
  BY DEF Versions
<1>2. d \in Programs
  BY DEF Programs
<1>3. IsProgram(d) /\ Valid(p)
  BY <1>1, <1>2, ProgramsAssumption
<1>4. Plannable(p) /\ Selection(d, p)
  BY <1>1, <1>3, ProgramsArePlannable, SelectionIsRight
<1>5. Ordered(p) /\ Selected(p) \subseteq Declared(d) /\ p.parents = d.parents /\ p.mentions = d.mentions
  BY <1>4 DEF Plannable, Selection
<1>6. Selected(p) \subseteq Names
  BY <1>2, <1>5 DEF Names, Declared
<1>7. DOMAIN d.mentions = Declared(d) /\ \A t \in Declared(d) : d.mentions[t] \subseteq Controllers
  BY <1>2, <1>3, ProgramsAssumption DEF IsProgram
<1> DEFINE S == {t \in Selected(p) : Ctrl(p, t) # {} /\ Ctrl(p, t) \subseteq Controllers}
<1>8. ASSUME NEW t \in Selected(p), ParentSet(p, t) \subseteq S
      PROVE  t \in S
  <2>1. Ctrl(p, t) = p.mentions[t] \cup UNION {Ctrl(p, q) : q \in ParentSet(p, t)}
    BY <1>5, ControllersOf DEF Ctrl
  <2>2. p.mentions[t] \subseteq Controllers
    BY <1>5, <1>7
  <2>3. CASE p.parents[t] = <<>>
    <3>1. d.mentions[t] # {}
      BY <1>2, <1>5, <2>3 DEF UsualProjects
    <3> QED
      BY <1>5, <1>8, <2>1, <2>2, <3>1
  <2>4. CASE p.parents[t] # <<>>
    <3>1. ParentSet(p, t) # {}
      <4>1. p.parents[t] \in Seq(Selected(p))
        BY <1>5 DEF Ordered
      <4>2. Len(p.parents[t]) \in Nat /\ Len(p.parents[t]) # 0
        BY <2>4, <4>1
      <4>3. p.parents[t][1] \in ParentSet(p, t)
        BY <4>1, <4>2, ElementsOfSeq DEF ParentSet
      <4> QED
        BY <4>3
    <3> QED
      BY <1>8, <2>1, <2>2, <3>1
  <2> QED
    BY <2>3, <2>4
<1>9. S = Selected(p)
  <2> SUFFICES ASSUME Selected(p) \ S # {} PROVE FALSE
    OBVIOUS
  <2>1. PICK t \in Selected(p) \ S : ParentSet(p, t) \cap (Selected(p) \ S) = {}
    BY <1>5 DEF Ordered, Hierarchy
  <2>2. ParentSet(p, t) \subseteq Selected(p)
    BY <1>5, AncestorFacts
  <2> QED
    BY <1>8, <2>1, <2>2
<1> QED
  BY <1>4, <1>6, <1>9 DEF Version

\* The versions of a project have one hierarchy.
LEMMA VersionsCompatible ==
    ASSUME UsualProjects, NEW x \in DOMAIN Projects, NEW p \in Versions(x), NEW e \in Versions(x)
    PROVE  Compatible(p, e)
<1>1. PICK d \in Projects[x] : p = setup_tests_parents(d)
  BY DEF Versions
<1>2. PICK f \in Projects[x] : e = setup_tests_parents(f)
  BY DEF Versions
<1>3. d \in Programs /\ f \in Programs
  BY DEF Programs
<1>4. Selection(d, p) /\ Selection(f, e)
  BY <1>1, <1>2, <1>3, ProgramsAssumption, SelectionIsRight
<1>5. \A t \in Declared(d) \cap Declared(f) :
          ParentSet(d, t) = ParentSet(f, t) /\ d.mentions[t] = f.mentions[t]
  BY DEF UsualProjects, HierarchyStays
<1> QED
  BY <1>4, <1>5 DEF Selection, Compatible, ParentSet

\* So a test has the same ancestors and controllers in both.
LEMMA SameAncestors ==
    ASSUME NEW p, NEW e, Ordered(p), Ordered(e), Compatible(p, e),
           NEW t \in Selected(p) \cap Selected(e)
    PROVE  Ancestors(p, t) = Ancestors(e, t) /\ Ctrl(p, t) = Ctrl(e, t)
<1>1. ASSUME NEW a, NEW b, Ordered(a), Ordered(b), Compatible(a, b),
             t \in Selected(a) \cap Selected(b)
      PROVE  Ancestors(a, t) \subseteq Ancestors(b, t)
  <2> DEFINE S == Ancestors(b, t) \cap Selected(a)
  <2>1. t \in S /\ S \in SUBSET Selected(a) /\ S \subseteq Selected(b)
    BY <1>1, AncestorFacts
  <2>2. Upward(a, S)
    <3> SUFFICES ASSUME NEW u \in S, NEW q \in ParentSet(a, u)
                 PROVE  q \in S
      BY DEF Upward
    <3>1. q \in ParentSet(b, u)
      BY <1>1, <2>1 DEF Compatible
    <3>2. q \in Ancestors(b, t)
      BY <1>1, <3>1, AncestorFacts DEF Upward
    <3>3. q \in Selected(a)
      BY <1>1, AncestorFacts
    <3> QED
      BY <3>2, <3>3
  <2>3. Ancestors(a, t) \subseteq S
    BY <1>1, <2>1, <2>2, AncestorsIn
  <2> QED
    BY <2>3
<1>2. Compatible(e, p)
  BY DEF Compatible
<1>3. Ancestors(p, t) = Ancestors(e, t)
  BY <1>1, <1>2
<1> DEFINE T == {u \in Selected(p) : u \in Selected(e) /\ Ctrl(p, u) # Ctrl(e, u)}
<1>4. T = {}
  <2> SUFFICES ASSUME T # {} PROVE FALSE
    OBVIOUS
  <2>1. PICK u \in T : ParentSet(p, u) \cap T = {}
    BY DEF Ordered, Hierarchy
  <2>2. ParentSet(p, u) = ParentSet(e, u) /\ p.mentions[u] = e.mentions[u]
    BY DEF Compatible
  <2>3. ParentSet(p, u) \subseteq Selected(p) /\ ParentSet(e, u) \subseteq Selected(e)
    BY AncestorFacts
  <2>4. \A q \in ParentSet(p, u) : Ctrl(p, q) = Ctrl(e, q)
    BY <2>1, <2>2, <2>3
  <2>5. /\ Ctrl(p, u) = p.mentions[u] \cup UNION {Ctrl(p, q) : q \in ParentSet(p, u)}
        /\ Ctrl(e, u) = e.mentions[u] \cup UNION {Ctrl(e, q) : q \in ParentSet(e, u)}
    BY ControllersOf DEF Ctrl
  <2> QED
    BY <2>2, <2>4, <2>5
<1> QED
  BY <1>3, <1>4

\* One step of the recursion of Lineage.
LineageBody(p, g, t) ==
    <<cksum(p, t),
      {<<c, p.config[c], {p.mode[n] : n \in p.nics[c]}>> : c \in p.mentions[t]},
      {g[q] : q \in ParentSet(p, t)}>>

\* Lineage satisfies its equation.
LEMMA LineageOf ==
    ASSUME NEW p, Ordered(p)
    PROVE  \A t \in Selected(p) : Lineage(p)[t] = LineageBody(p, Lineage(p), t)
<1> DEFINE Solved(D, g) == \A t \in D : g[t] = LineageBody(p, g, t)
           C == {D \in SUBSET Selected(p) : Upward(p, D) /\ \E g : Solved(D, g)}
<1>1. {} \in C
  BY DEF Upward
<1>2. ASSUME NEW D \in C, D # Selected(p)
      PROVE  \E t \in Selected(p) \ D : D \cup {t} \in C
  <2>1. PICK t \in Selected(p) \ D : ParentSet(p, t) \cap (Selected(p) \ D) = {}
    BY <1>2 DEF Ordered, Hierarchy
  <2>2. PICK g : Solved(D, g)
    BY <1>2
  <2> DEFINE E == D \cup {t}
             h == [u \in E |-> IF u = t THEN LineageBody(p, g, t) ELSE g[u]]
  <2>3. ParentSet(p, t) \subseteq D
    BY <2>1, AncestorFacts
  <2>4. Upward(p, E)
    BY <1>2, <2>3 DEF Upward
  <2>5. ASSUME NEW u \in E
        PROVE  h[u] = LineageBody(p, h, u)
    <3>1. ParentSet(p, u) \subseteq D
      BY <1>2, <2>3 DEF Upward
    <3>2. \A q \in ParentSet(p, u) : h[q] = g[q]
      BY <2>1, <3>1
    <3>3. {h[q] : q \in ParentSet(p, u)} = {g[q] : q \in ParentSet(p, u)}
      <4> HIDE DEF h
      <4> QED
        BY <3>2
    <3>4. LineageBody(p, h, u) = LineageBody(p, g, u)
      <4> HIDE DEF h
      <4> QED
        BY <3>3 DEF LineageBody
    <3>5. h[u] = LineageBody(p, g, u)
      <4> HIDE DEF C
      <4> QED
        BY <2>2
    <3> QED
      BY <3>4, <3>5
  <2>6. Solved(E, h)
    <3> HIDE DEF h, E
    <3> QED
      BY <2>5
  <2>7. E \in C
    <3> HIDE DEF h, Solved
    <3> QED
      BY <2>4, <2>6
  <2> QED
    BY <2>7
<1>3. Selected(p) \in C
  <2>1. C \subseteq SUBSET Selected(p) /\ IsFiniteSet(Selected(p))
    BY DEF Ordered
  <2> HIDE DEF C
  <2> QED
    BY <1>1, <1>2, <2>1, GrowsToAll
<1>4. PICK g : Solved(Selected(p), g)
  BY <1>3
<1> DEFINE Is(f) == f = [t \in Selected(p) |-> LineageBody(p, f, t)]
           k == [t \in Selected(p) |-> g[t]]
<1>5. Lineage(p) = CHOOSE f : Is(f)
  BY DEF Lineage, LineageBody
<1>6. Is(k)
  <2>1. ASSUME NEW t \in Selected(p)
        PROVE  k[t] = LineageBody(p, k, t)
    <3>1. \A q \in ParentSet(p, t) : k[q] = g[q]
      BY AncestorFacts
    <3>2. {k[q] : q \in ParentSet(p, t)} = {g[q] : q \in ParentSet(p, t)}
      <4> HIDE DEF k
      <4> QED
        BY <3>1
    <3>3. LineageBody(p, k, t) = LineageBody(p, g, t)
      <4> HIDE DEF k
      <4> QED
        BY <3>2 DEF LineageBody
    <3>4. k[t] = g[t]
      OBVIOUS
    <3> QED
      BY <1>4, <3>3, <3>4
  <2>2. k = [t \in Selected(p) |-> k[t]]
    OBVIOUS
  <2> HIDE DEF k
  <2> QED
    BY <2>1, <2>2
<1>7. Is(Lineage(p))
  <2> HIDE DEF Is, k
  <2> QED
    BY <1>5, <1>6
<1>8. ASSUME NEW t \in Selected(p)
      PROVE  Lineage(p)[t] = LineageBody(p, Lineage(p), t)
  <2> DEFINE f == Lineage(p)
  <2> HIDE DEF f
  <2>1. f = [u \in Selected(p) |-> LineageBody(p, f, u)]
    BY <1>7 DEF f
  <2>2. f[t] = LineageBody(p, f, t)
    BY <2>1
  <2> QED
    BY <2>2 DEF f
<1> QED
  BY <1>8

\* A test whose ancestors and controllers are unedited has the same lineage.
LEMMA SameLineage ==
    ASSUME NEW p, NEW e, Ordered(p), Ordered(e), Compatible(p, e),
           NEW t \in Selected(p) \cap Selected(e),
           \A u \in Ancestors(p, t) : cksum(p, u) = cksum(e, u),
           \A c \in Ctrl(p, t) : Config(p, c) = Config(e, c)
    PROVE  Lineage(p)[t] = Lineage(e)[t]
<1> DEFINE T == {u \in Ancestors(p, t) : Lineage(p)[u] # Lineage(e)[u]}
<1>1. /\ t \in Ancestors(p, t) /\ Ancestors(p, t) \subseteq Selected(p) /\ Upward(p, Ancestors(p, t))
      /\ Ancestors(p, t) \subseteq Selected(e)
  BY SameAncestors, AncestorFacts
<1>2. T = {}
  <2> SUFFICES ASSUME T # {} PROVE FALSE
    OBVIOUS
  <2>1. T \in SUBSET Selected(p)
    BY <1>1
  <2>2. PICK u \in T : ParentSet(p, u) \cap T = {}
    BY <2>1 DEF Ordered, Hierarchy
  <2>3. u \in Selected(p) /\ u \in Selected(e)
    BY <1>1
  <2>4. ParentSet(p, u) = ParentSet(e, u) /\ p.mentions[u] = e.mentions[u]
    BY <2>3 DEF Compatible
  <2>5. \A q \in ParentSet(p, u) : Lineage(p)[q] = Lineage(e)[q]
    BY <1>1, <2>2 DEF Upward
  <2>6. {Lineage(p)[q] : q \in ParentSet(p, u)} = {Lineage(e)[q] : q \in ParentSet(e, u)}
    BY <2>4, <2>5
  <2>7. p.mentions[u] \subseteq Ctrl(p, t)
    <3>1. p.mentions[u] \subseteq Ctrl(p, u)
      BY <2>3, ControllersOf DEF Ctrl
    <3> QED
      BY <3>1, AncestorsControllers DEF Ctrl
  <2>8. \A c \in p.mentions[u] :
            p.config[c] = e.config[c] /\ {p.mode[n] : n \in p.nics[c]} = {e.mode[n] : n \in e.nics[c]}
    <3> TAKE c \in p.mentions[u]
    <3>1. Config(p, c) = Config(e, c)
      BY <2>7
    <3>2. /\ p.config[c] = e.config[c]
          /\ {<<n, p.mode[n]>> : n \in p.nics[c]} = {<<n, e.mode[n]>> : n \in e.nics[c]}
      BY <3>1 DEF Config
    <3>3. \A n \in p.nics[c] : n \in e.nics[c] /\ p.mode[n] = e.mode[n]
      <4> TAKE n \in p.nics[c]
      <4>1. <<n, p.mode[n]>> \in {<<m, e.mode[m]>> : m \in e.nics[c]}
        BY <3>2
      <4> QED
        BY <4>1
    <3>4. \A n \in e.nics[c] : n \in p.nics[c] /\ p.mode[n] = e.mode[n]
      <4> TAKE n \in e.nics[c]
      <4>1. <<n, e.mode[n]>> \in {<<m, p.mode[m]>> : m \in p.nics[c]}
        BY <3>2
      <4> QED
        BY <4>1
    <3> QED
      BY <3>2, <3>3, <3>4
  <2>9. {<<c, p.config[c], {p.mode[n] : n \in p.nics[c]}>> : c \in p.mentions[u]}
        = {<<c, e.config[c], {e.mode[n] : n \in e.nics[c]}>> : c \in e.mentions[u]}
    <3> DEFINE f(c) == <<c, p.config[c], {p.mode[n] : n \in p.nics[c]}>>
               g(c) == <<c, e.config[c], {e.mode[n] : n \in e.nics[c]}>>
    <3>1. \A c \in p.mentions[u] : f(c) = g(c)
      BY <2>8
    <3> HIDE DEF f, g
    <3>2. {f(c) : c \in p.mentions[u]} = {g(c) : c \in e.mentions[u]}
      BY <2>4, <3>1
    <3> QED
      BY <3>2 DEF f, g
  <2>10. cksum(p, u) = cksum(e, u)
    OBVIOUS
  <2>11. LineageBody(p, Lineage(p), u) = LineageBody(e, Lineage(e), u)
    BY <2>6, <2>9, <2>10 DEF LineageBody
  <2>12. Lineage(p)[u] = Lineage(e)[u]
    BY <2>3, <2>11, LineageOf
  <2> QED
    BY <2>12
<1> QED
  BY <1>1, <1>2

----------------------------------------------------------------------------
(* Facts about the snapshots of one controller                             *)

\* Only one parent of a test uses a controller.
LEMMA OneParent ==
    ASSUME NEW p, Version(p), NEW t \in Selected(p), NEW c,
           NEW q \in ParentSet(p, t), NEW a \in ParentSet(p, t), c \in Ctrl(p, q), c \in Ctrl(p, a)
    PROVE  q = a
<1>1. Apart(p)
  BY DEF Version, Plannable
<1>2. q # a => ~Share(p, q, a)
  BY <1>1 DEF Apart
<1> QED
  BY <1>2 DEF Share, Ctrl

\* A controller with a snapshot of a test has those of its ancestors that use it.
LEMMA ColumnChain ==
    ASSUME UsualProjects, NEW x \in DOMAIN Projects, NEW c, NEW config, NEW r,
           Column(x, c, config, r), NEW p \in Versions(x),
           NEW s \in DOMAIN r \cap Selected(p), NEW u \in Ancestors(p, s), c \in Ctrl(p, u)
    PROVE  u \in DOMAIN r
<1> DEFINE D == {v \in Selected(p) : c \in Ctrl(p, v) => v \in DOMAIN r}
<1>0. Version(p) /\ Ordered(p)
  BY VersionFacts DEF Version, Plannable
<1>1. s \in D /\ D \in SUBSET Selected(p)
  OBVIOUS
<1>2. ASSUME NEW v \in D, NEW q \in ParentSet(p, v)
      PROVE  q \in D
  <2>1. q \in Selected(p)
    BY <1>0, AncestorFacts
  <2> SUFFICES ASSUME c \in Ctrl(p, q) PROVE q \in DOMAIN r
    BY <2>1
  <2>2. Ctrl(p, q) \subseteq Ctrl(p, v)
    BY <1>0, ControllersOf DEF Ctrl
  <2>3. v \in DOMAIN r
    BY <2>2
  <2>4. OnParent(p, c, v, r[v].parent) /\ r[v].parent \in DOMAIN r \cup {""}
    BY <2>3 DEF Column
  <2>5. r[v].parent \in ParentSet(p, v) /\ c \in Ctrl(p, r[v].parent)
    BY <2>4 DEF OnParent
  <2>6. r[v].parent = q
    BY <1>0, <2>5, OneParent
  <2>7. q # ""
    BY <1>0, <2>1 DEF Version, UsualProjects
  <2> QED
    BY <2>4, <2>6, <2>7
<1>3. Ancestors(p, s) \subseteq D
  <2> HIDE DEF D
  <2> QED
    BY <1>1, <1>2, AncestorsIn DEF Upward
<1> QED
  BY <1>3

\* The snapshots that go with one of s, and what is left without them.
Below(r, s) ==
    {n \in DOMAIN r : \A S \in SUBSET DOMAIN r :
        (s \in S /\ \A m \in DOMAIN r : r[m].parent \in S => m \in S) => n \in S}
Pruned(r, s) == [n \in DOMAIN r \ Below(r, s) |-> r[n]]

\* What goes is the snapshot with those of tests it is an ancestor of, and what is
\* left is a controller's disk as before.
LEMMA Pruning ==
    ASSUME UsualProjects, NEW x \in DOMAIN Projects, NEW c, NEW config, NEW r,
           Column(x, c, config, r), NEW s \in DOMAIN r, s # Initial
    PROVE  /\ s \in Below(r, s) /\ Initial \notin Below(r, s)
           /\ \A p \in Versions(x) : \A u \in Below(r, s) \cap Selected(p) :
                  s \in Ancestors(p, u)
           /\ Column(x, c, config, Pruned(r, s))
<1>1. s \in Below(r, s)
  BY DEF Below
<1>2. s # "" /\ "" \notin DOMAIN r
  BY DEF Column, UsualProjects, Initial
<1>3. ASSUME NEW S \in SUBSET (DOMAIN r \ {Initial}), s \in S,
             \A m \in DOMAIN r \ {Initial} : r[m].parent \in S => m \in S
      PROVE  Below(r, s) \subseteq S
  <2>1. Initial \in DOMAIN r => r[Initial].parent \notin S
    BY <1>2 DEF Column
  <2>2. \A m \in DOMAIN r : r[m].parent \in S => m \in S
    BY <1>3, <2>1
  <2> QED
    BY <1>3, <2>2 DEF Below
<1>4. Initial \notin Below(r, s)
  <2> DEFINE S == DOMAIN r \ {Initial}
  <2>1. Below(r, s) \subseteq S
    BY <1>3
  <2> QED
    BY <2>1
<1>5. ASSUME NEW p \in Versions(x), NEW u \in Below(r, s) \cap Selected(p)
      PROVE  s \in Ancestors(p, u)
  <2> DEFINE S == {v \in DOMAIN r \ {Initial} : v \in Selected(p) => s \in Ancestors(p, v)}
  <2>1. Version(p) /\ Ordered(p)
    BY VersionFacts DEF Version, Plannable
  <2>2. s \in S
    BY <2>1, AncestorFacts
  <2>3. ASSUME NEW m \in DOMAIN r \ {Initial}, r[m].parent \in S
        PROVE  m \in S
    <3> SUFFICES ASSUME m \in Selected(p) PROVE s \in Ancestors(p, m)
      OBVIOUS
    <3>1. OnParent(p, c, m, r[m].parent) /\ r[m].parent # Initial
      BY <2>3 DEF Column
    <3>2. r[m].parent \in ParentSet(p, m)
      BY <3>1 DEF OnParent
    <3>3. r[m].parent \in Selected(p) /\ r[m].parent \in Ancestors(p, m)
      BY <2>1, <3>2, AncestorFacts
    <3>4. s \in Ancestors(p, r[m].parent)
      BY <2>3, <3>3
    <3> QED
      BY <2>1, <3>3, <3>4, AncestorsStep
  <2>4. Below(r, s) \subseteq S
    <3> HIDE DEF S
    <3>1. S \in SUBSET (DOMAIN r \ {Initial})
      BY DEF S
    <3> QED
      BY <1>3, <2>2, <2>3, <3>1
  <2> QED
    BY <2>4
<1>6. Column(x, c, config, Pruned(r, s))
  <2> DEFINE k == Pruned(r, s)
  <2>1. DOMAIN k = DOMAIN r \ Below(r, s) /\ \A n \in DOMAIN k : k[n] = r[n]
    BY DEF Pruned
  <2> HIDE DEF k
  <2>2. ASSUME NEW n \in DOMAIN k
        PROVE  k[n].parent \in DOMAIN k \cup {""}
    <3>1. n \in DOMAIN r /\ n \notin Below(r, s) /\ k[n] = r[n]
      BY <2>1
    <3>2. r[n].parent \in DOMAIN r \cup {""}
      BY <3>1 DEF Column
    <3>3. r[n].parent \notin Below(r, s)
      BY <3>1 DEF Below
    <3> QED
      BY <2>1, <3>1, <3>2, <3>3
  <2>3. Column(x, c, config, k)
    BY <2>1, <2>2 DEF Column
  <2> QED
    BY <2>3 DEF k
<1> QED
  BY <1>1, <1>4, <1>5, <1>6

\* The deletion of a snapshot prunes its controller.
LEMMA DeletionPrunes ==
    ASSUME NEW c, NEW s
    PROVE  delete_snapshot_with_children(c, s) = Pruned(snaps[c], s)
  BY DEF delete_snapshot_with_children, Pruned, Subtree, Below

\* A snapshot of a test can be added on top of that of its parent.
LEMMA AddingRecord ==
    ASSUME NEW x, NEW c, NEW config, NEW r, Column(x, c, config, r), config # Nothing,
           NEW t \in Names, t \notin DOMAIN r, Initial \notin Names,
           NEW a \in DOMAIN r \cup {""}, NEW v, NEW image, NEW opaque,
           c \notin Machines => image.on = FALSE /\ image.key = FALSE,
           \A p \in Versions(x) : t \in Selected(p) => OnParent(p, c, t, a)
    PROVE  Column(x, c, config, WithRecord(r, t, Record(v, a, image, opaque)))
<1> DEFINE n == Record(v, a, image, opaque)
           k == WithRecord(r, t, n)
<1>1. n.parent = a /\ n.image = image
  BY DEF Record
<1> HIDE DEF n
<1>2. DOMAIN k = DOMAIN r \cup {t} /\ k[t] = n /\ \A s \in DOMAIN r : k[s] = r[s]
  BY DEF WithRecord
<1> HIDE DEF k
<1>3. \A s \in DOMAIN k : s = t \/ (s \in DOMAIN r /\ k[s] = r[s])
  BY <1>2
<1>4. Column(x, c, config, k)
  BY <1>1, <1>2, <1>3 DEF Column
<1> QED
  BY <1>4 DEF k, n

\* A record of controller c that differs in what the hypervisor holds only.
SameSnapshot(c, w, old) ==
    /\ w.parent = old.parent /\ w.cksum = old.cksum
    /\ c \notin Machines => w.image.on = FALSE /\ w.image.key = FALSE

\* What the hypervisor holds for a snapshot can change.
LEMMA ChangingImage ==
    ASSUME NEW x, NEW c, NEW config, NEW r, Column(x, c, config, r), NEW s \in DOMAIN r,
           NEW w, SameSnapshot(c, w, r[s])
    PROVE  /\ Column(x, c, config, WithRecord(r, s, w)) /\ DOMAIN WithRecord(r, s, w) = DOMAIN r
           /\ \A n \in DOMAIN r : WithRecord(r, s, w)[n].cksum = r[n].cksum
<1> DEFINE k == WithRecord(r, s, w)
<1>1. DOMAIN k = DOMAIN r /\ k[s] = w /\ \A n \in DOMAIN r \ {s} : k[n] = r[n]
  BY DEF WithRecord
<1> HIDE DEF k
<1>0. /\ w.parent = r[s].parent /\ w.cksum = r[s].cksum
      /\ c \notin Machines => w.image.on = FALSE /\ w.image.key = FALSE
  BY DEF SameSnapshot
<1>2. \A n \in DOMAIN r : k[n].parent = r[n].parent /\ k[n].cksum = r[n].cksum
  BY <1>0, <1>1
<1>3. \A n \in DOMAIN r : n # s => k[n].image = r[n].image
  BY <1>1
<1>4. Column(x, c, config, k)
  BY <1>0, <1>1, <1>2, <1>3 DEF Column
<1> QED
  BY <1>1, <1>2, <1>4 DEF k

\* No test is newly stored when snapshots go and configurations change where all go.
LEMMA CachedShrinks ==
    ASSUME NEW p, Version(p), NEW m, NEW k, NEW m2, NEW k2,
           \A c \in Controllers :
               \/ /\ m2[c] = m[c] /\ DOMAIN k2[c] \subseteq DOMAIN k[c]
                  /\ \A s \in DOMAIN k2[c] : k2[c][s].cksum = k[c][s].cksum
               \/ DOMAIN k2[c] \cap Names = {}
    PROVE  Cached(p, m2, k2) \subseteq Cached(p, m, k)
<1> SUFFICES ASSUME NEW t \in Cached(p, m2, k2), NEW u \in Ancestors(p, t)
             PROVE  Stored(p, m, k, u)
  BY DEF Cached
<1>1. t \in Selected(p) /\ Stored(p, m2, k2, u)
  BY DEF Cached
<1>2. u \in Selected(p) /\ u \in Names /\ Ctrl(p, u) \subseteq Controllers
  BY <1>1, AncestorFacts DEF Version, Plannable
<1>3. ASSUME NEW c \in Ctrl(p, u)
      PROVE  IsRelevant(p, m, k, c) /\ Matches(p, k, c, u)
  <2>1. IsRelevant(p, m2, k2, c) /\ Matches(p, k2, c, u)
    BY <1>1 DEF Stored
  <2>2. c \in Controllers /\ u \in DOMAIN k2[c]
    BY <1>2, <2>1 DEF Matches
  <2> QED
    BY <1>2, <2>1, <2>2 DEF IsRelevant, Matches
<1> QED
  BY <1>3 DEF Stored

\* One step of the recursion of is_cache_ok.
ValidHere(p, t) ==
    /\ \A n \in get_all_networks(p)[t] : NetworkReady(p, n)
    /\ \A c \in get_all_controllers(p)[t] :
          /\ Relevant(p, c) /\ has_snapshot(c, t)
          /\ snaps[c][t].cksum = cksum(p, t)

\* The tests that is_cache_ok finds up to date are closed under parents and stored, and
\* it finds all that are valid with their ancestors.
LEMMA OkIsStored ==
    ASSUME NEW p, Ordered(p)
    PROVE  /\ is_cache_ok(p) \in SUBSET Selected(p) /\ Upward(p, is_cache_ok(p))
           /\ is_cache_ok(p) \subseteq Cached(p, made, snaps)
           /\ \A t \in is_cache_ok(p) : ValidHere(p, t)
           /\ \A D \in SUBSET Selected(p) :
                 Upward(p, D) /\ (\A t \in D : ValidHere(p, t)) => D \subseteq is_cache_ok(p)
<1> DEFINE Is(v) == v = [t \in Selected(p) |-> (\A q \in ParentSet(p, t) : v[q]) /\ ValidHere(p, t)]
           v == CHOOSE v : Is(v)
           g == [t \in Selected(p) |-> \A u \in Ancestors(p, t) : ValidHere(p, u)]
<1>1. is_cache_ok(p) = {t \in Selected(p) : v[t]}
  BY DEF is_cache_ok, ValidHere
<1>2. Is(g)
  <2>1. ASSUME NEW t \in Selected(p)
        PROVE  g[t] = ((\A q \in ParentSet(p, t) : g[q]) /\ ValidHere(p, t))
    <3>1. /\ t \in Ancestors(p, t) /\ ParentSet(p, t) \subseteq Selected(p)
          /\ \A q \in ParentSet(p, t) : Ancestors(p, q) \subseteq Ancestors(p, t)
          /\ \A u \in Ancestors(p, t) \ {t} : \E q \in ParentSet(p, t) : u \in Ancestors(p, q)
      BY AncestorFacts, AncestorsStep
    <3>2. \A q \in ParentSet(p, t) : g[q] = \A u \in Ancestors(p, q) : ValidHere(p, u)
      BY <3>1
    <3>3. g[t] = \A u \in Ancestors(p, t) : ValidHere(p, u)
      OBVIOUS
    <3> HIDE DEF g
    <3>4. (\A u \in Ancestors(p, t) : ValidHere(p, u))
          <=> (\A q \in ParentSet(p, t) : g[q]) /\ ValidHere(p, t)
      BY <3>1, <3>2
    <3> QED
      BY <3>3, <3>4
  <2>2. g = [t \in Selected(p) |-> g[t]]
    OBVIOUS
  <2> HIDE DEF g
  <2> QED
    BY <2>1, <2>2
<1>3. Is(v)
  <2> HIDE DEF Is, g
  <2> QED
    BY <1>2
<1> HIDE DEF v
<1>4. ASSUME NEW t \in is_cache_ok(p)
      PROVE  ParentSet(p, t) \subseteq is_cache_ok(p) /\ ValidHere(p, t)
  <2>1. t \in Selected(p) /\ v[t]
    BY <1>1
  <2>2. v[t] = ((\A q \in ParentSet(p, t) : v[q]) /\ ValidHere(p, t))
    BY <1>3, <2>1
  <2>3. ParentSet(p, t) \subseteq Selected(p)
    BY <2>1, AncestorFacts
  <2> QED
    BY <1>1, <2>1, <2>2, <2>3
<1>5. is_cache_ok(p) \in SUBSET Selected(p) /\ Upward(p, is_cache_ok(p))
  BY <1>1, <1>4 DEF Upward
<1>6. ASSUME NEW t \in is_cache_ok(p)
      PROVE  t \in Cached(p, made, snaps)
  <2>1. Ancestors(p, t) \subseteq is_cache_ok(p)
    BY <1>5, AncestorsIn
  <2>2. \A u \in Ancestors(p, t) : Stored(p, made, snaps, u)
    BY <1>4, <2>1 DEF ValidHere, Stored, IsRelevant, Matches, Relevant, has_snapshot, Ctrl
  <2> QED
    BY <1>5, <2>2 DEF Cached
<1>7. ASSUME NEW D \in SUBSET Selected(p), Upward(p, D), \A t \in D : ValidHere(p, t)
      PROVE  D \subseteq is_cache_ok(p)
  <2> SUFFICES ASSUME D \ is_cache_ok(p) # {} PROVE FALSE
    OBVIOUS
  <2> DEFINE S == D \ is_cache_ok(p)
  <2>1. PICK t \in S : ParentSet(p, t) \cap S = {}
    <3>1. S \in SUBSET Selected(p) /\ S # {}
      OBVIOUS
    <3> HIDE DEF S
    <3> QED
      BY <3>1 DEF Ordered, Hierarchy
  <2>2. ParentSet(p, t) \subseteq is_cache_ok(p)
    BY <1>7, <2>1 DEF Upward
  <2>3. \A q \in ParentSet(p, t) : v[q]
    BY <1>1, <2>2
  <2>4. v[t] = ((\A q \in ParentSet(p, t) : v[q]) /\ ValidHere(p, t))
    BY <1>3, <2>1
  <2>5. v[t]
    BY <1>7, <2>1, <2>3, <2>4
  <2> QED
    BY <1>1, <2>1, <2>5
<1> QED
  BY <1>4, <1>5, <1>6, <1>7

----------------------------------------------------------------------------
(* The queues of tests                                                     *)

\* One step of the fold that selects the tests to invalidate.
FoundAdded(names, found, t) == IF t \in names THEN Append(found, t) ELSE found

\* The tests to invalidate are selected ones.
LEMMA InvalidateFold ==
    ASSUME NEW p, p.tests \in Seq(Selected(p)), NEW names
    PROVE  tests_to_invalidate(p, names) \in Seq(Selected(p))
<1> DEFINE W == Seq(Selected(p))
           T == Selected(p)
           F == [x \in W \X T |-> FoundAdded(names, x[1], x[2])]
           seq == p.tests
           Is(h) == h = [s \in SUBSET DOMAIN seq |->
                           IF s = {} THEN <<>> ELSE FoundAdded(names, h[s \ {Max(s)}], seq[Max(s)])]
           k == CHOOSE h : Is(h)
<1>1. /\ F \in [W \X T -> W]
      /\ \A w \in W, q \in T : F[<<w, q>>] = FoundAdded(names, w, q)
  BY DEF FoundAdded
<1>2. <<>> \in W /\ seq \in Seq(T)
  OBVIOUS
<1>3. tests_to_invalidate(p, names) = k[DOMAIN seq]
  BY DEF tests_to_invalidate, FoundAdded, FoldLeft, MapThenFoldSet
<1> HIDE DEF F, W, T
<1>4. PICK h \in [SUBSET DOMAIN seq -> W] : Folds(F, <<>>, seq, W, T, h)
  BY <1>1, <1>2, FoldExists
<1>5. Is(h)
  <2>1. \A s \in SUBSET DOMAIN seq :
            h[s] = IF s = {} THEN <<>> ELSE FoundAdded(names, h[s \ {Max(s)}], seq[Max(s)])
    BY <1>1, <1>4 DEF Folds
  <2> QED
    BY <1>4, <2>1
<1>6. Is(k)
  <2> HIDE DEF Is
  <2> QED
    BY <1>5
<1> HIDE DEF k
<1>7. k[{}] = <<>>
  BY <1>6
<1>8. ASSUME NEW s \in SUBSET DOMAIN seq, s # {}, k[s \ {Max(s)}] \in W
      PROVE  k[s] = F[<<k[s \ {Max(s)}], seq[Max(s)]>>]
  <2>1. k[s] = FoundAdded(names, k[s \ {Max(s)}], seq[Max(s)])
    BY <1>6, <1>8
  <2>2. seq[Max(s)] \in T
    BY <1>4, <1>8 DEF Folds
  <2> QED
    BY <1>1, <1>8, <2>1, <2>2
<1>9. Follows(F, <<>>, seq, W, k)
  BY <1>7, <1>8 DEF Follows
<1>10. Folded(F, <<>>, seq, W, k[DOMAIN seq])
  BY <1>1, <1>2, <1>9, FoldSteps
<1>11. PICK r \in [0 .. Len(seq) -> W] : k[DOMAIN seq] = r[Len(seq)]
  BY <1>10 DEF Folded
<1>12. Len(seq) \in Nat
  BY <1>2
<1> QED
  BY <1>3, <1>11, <1>12 DEF W

----------------------------------------------------------------------------
(* The state and its type                                                  *)

\* The program of a launch is a version of its project.
LEMMA ProgramFacts ==
    ASSUME UsualProjects, StateInv
    PROVE  /\ project \in DOMAIN Projects /\ prog \in Versions(project)
           /\ Version(prog) /\ Ordered(prog) /\ ChildrenKnown(prog) /\ prog.tests \in Seq(Selected(prog))
           /\ Selected(prog) \subseteq Names
           /\ \A t \in Selected(prog) : /\ Controls(t) = Ctrl(prog, t)
                                        /\ Controls(t) # {} /\ Controls(t) \subseteq Controllers
           /\ "" \notin Names /\ Initial \notin Names
<1>1. project \in DOMAIN Projects /\ prog \in Versions(project)
  BY DEF StateInv
<1>2. Version(prog)
  BY <1>1, VersionFacts
<1> QED
  BY <1>1, <1>2 DEF Version, Plannable, Controls, Ctrl, UsualProjects

\* The present run is one of the plan.
LEMMA PresentRun ==
    ASSUME UsualProjects, StateInv, PlanInv, idx <= Len(plan.runs)
    PROVE  /\ idx \in 1 .. Len(plan.runs) /\ Len(plan.runs) \in Nat
           /\ Test = plan.runs[idx].test /\ Run = plan.runs[idx]
           /\ Test \in Selected(prog) /\ Test \in Names
           /\ Controls(Test) = Ctrl(prog, Test) /\ Controls(Test) \subseteq Controllers
           /\ ParentSet(prog, Test) \subseteq Selected(prog)
           /\ Inherited(Test) \subseteq Controls(Test)
<1> DEFINE runs == plan.runs
           S == [test : Selected(prog), parents : SUBSET Nat]
<1>1. runs \in Seq(S) /\ idx \in Nat \ {0} /\ idx <= Len(runs)
  BY DEF PlanInv
<1> HIDE DEF runs, S
<1>2. idx \in 1 .. Len(runs) /\ Len(runs) \in Nat /\ runs[idx] \in S
  BY <1>1
<1>3. Test = plan.runs[idx].test /\ Run = plan.runs[idx] /\ Test \in Selected(prog)
  BY <1>2 DEF Test, Run, runs, S
<1>4. ParentSet(prog, Test) \subseteq Selected(prog)
  BY <1>3, ProgramFacts, AncestorFacts
<1>5. Inherited(Test) \subseteq Controls(Test)
  <2>1. Ctrl(prog, Test) = prog.mentions[Test] \cup UNION {Ctrl(prog, q) : q \in ParentSet(prog, Test)}
    BY <1>3, ProgramFacts, ControllersOf DEF Ctrl
  <2>2. \A q \in ParentSet(prog, Test) : Controls(q) = Ctrl(prog, q)
    BY <1>4, ProgramFacts
  <2>3. Controls(Test) = Ctrl(prog, Test)
    BY <1>3, ProgramFacts
  <2> QED
    BY <2>1, <2>2, <2>3 DEF Inherited
<1> QED
  BY <1>2, <1>3, <1>4, <1>5, ProgramFacts DEF runs

\* What a step restores is there, and a flash drive is not on in it.
LEMMA RestoredType ==
    ASSUME UsualProjects, StateInv, DiskInv, NEW c \in Controllers, NEW s \in DOMAIN snaps[c],
           Restored(c, s)
    PROVE  /\ power' \in [Controllers -> {"stopped", "running", "suspended"}]
           /\ \A d \in Controllers \ Machines : power'[d] = "stopped"
           /\ keys' \subseteq Machines
           /\ cur' \in [Controllers -> Names \cup {Initial, ""}]
           /\ cur'[c] = s /\ \A d \in Controllers \ {c} : cur'[d] = cur[d]
<1>1. Column(project, c, made[c], snaps[c])
  BY DEF DiskInv
<1>2. /\ s \in Names \cup {Initial}
      /\ c \notin Machines => snaps[c][s].image.on = FALSE /\ snaps[c][s].image.key = FALSE
  BY <1>1 DEF Column
<1>3. /\ power \in [Controllers -> {"stopped", "running", "suspended"}]
      /\ \A d \in Controllers \ Machines : power[d] = "stopped"
      /\ keys \subseteq Machines
      /\ cur \in [Controllers -> Names \cup {Initial, ""}]
  BY DEF StateInv
<1>4. cur' = [cur EXCEPT ![c] = s]
  BY DEF Restored
<1>5. power' = [power EXCEPT ![c] = IF snaps[c][s].image.on THEN "suspended" ELSE "stopped"]
  BY DEF Restored
<1>6. keys' = IF snaps[c][s].image.key THEN keys \cup {c} ELSE keys \ {c}
  BY DEF Restored
<1>7. keys' \subseteq Machines
  BY <1>2, <1>3, <1>6
<1>8. /\ power' \in [Controllers -> {"stopped", "running", "suspended"}]
      /\ \A d \in Controllers \ Machines : power'[d] = "stopped"
  BY <1>2, <1>3, <1>5
<1>9. /\ cur' \in [Controllers -> Names \cup {Initial, ""}]
      /\ cur'[c] = s /\ \A d \in Controllers \ {c} : cur'[d] = cur[d]
  BY <1>2, <1>3, <1>4
<1> QED
  BY <1>7, <1>8, <1>9

\* Machines are stopped.
LEMMA StoppedType ==
    ASSUME StateInv, NEW t, Stopped(t)
    PROVE  /\ power' \in [Controllers -> {"stopped", "running", "suspended"}]
           /\ \A d \in Controllers \ Machines : power'[d] = "stopped"
           /\ keys' \subseteq Machines
           /\ cur' \in [Controllers -> Names \cup {Initial, ""}]
  BY DEF StateInv, Stopped

\* Nothing is known after the end of a launch.
LEMMA EndedState ==
    ASSUME StateInv, Ended, UNCHANGED <<made, snaps, project, prog>>,
           keys' \subseteq Machines,
           power' \in [Controllers -> {"stopped", "running", "suspended"}],
           \A c \in Controllers \ Machines : power'[c] = "stopped"
    PROVE  StateInv'
<1>1. pc' = "idle" /\ ok' = {} /\ queue' = <<>> /\ pending' = {} /\ held' = {}
  BY DEF Ended, NothingDone
<1>2. cur' = [c \in Controllers |-> ""]
  BY DEF Ended, NothingDone
<1>3. queue' \in Seq(Selected(prog))
  BY <1>1
<1>4. cur' \in [Controllers -> Names \cup {Initial, ""}]
  BY <1>2
<1> QED
  BY <1>1, <1>3, <1>4 DEF StateInv, Upward

\* Each step keeps the type of the state.
LEMMA StateStep ==
    ASSUME UsualProjects, LaunchInv, Next
    PROVE  StateInv'
<1> USE DEF StateInv
<1>0. StateInv /\ DiskInv /\ PlanInv
  BY DEF LaunchInv
<1>1. ASSUME NEW names \in Invalidated, Begin(names)
      PROVE  StateInv'
  <2>1. prog' \in Versions(project)
    BY <1>1 DEF Begin, Versions
  <2>2. Version(prog')
    BY <1>0, <2>1, VersionFacts
  <2>3. queue' \in Seq(Selected(prog'))
    BY <1>1, <2>2, InvalidateFold DEF Begin, Version, Plannable
  <2>4. ok = {} /\ ok' = ok
    BY <1>0, <1>1 DEF Begin
  <2> QED
    BY <1>0, <1>1, <2>1, <2>3, <2>4 DEF Begin, disk, world, known, ghosts, Points, Upward
<1>2. ASSUME NEW kept \in Uncleaned, Clean(kept)
      PROVE  StateInv'
  BY <1>0, <1>2 DEF Clean, known, ghosts
<1>3. ASSUME NEW c \in Controllers, DeleteSnapshots(c)
      PROVE  StateInv'
  <2>1. queue' \in Seq(Selected(prog))
    <3> DEFINE S == Selected(prog)
    <3>1. queue \in Seq(S) /\ queue # <<>> /\ queue' \in {queue, Tail(queue)}
      BY <1>0, <1>3 DEF DeleteSnapshots
    <3> HIDE DEF S
    <3>2. Tail(queue) \in Seq(S)
      BY <3>1
    <3> QED
      BY <3>1, <3>2 DEF S
  <2>3. DOMAIN snaps' = Controllers
    BY <1>0, <1>3 DEF DeleteSnapshots
  <2>4. pending' \subseteq Controllers
    BY <1>0, <1>3 DEF DeleteSnapshots
  <2>5. UNCHANGED <<made, power, keys, project, prog, pc, ok, cur, held>>
    BY <1>3 DEF DeleteSnapshots, world, launch, known
  <2> QED
    BY <1>0, <2>1, <2>3, <2>4, <2>5
<1>4. ASSUME Decline \/ RestoreThrows \/ SnapshotThrows \/ Exit \/ Kill
      PROVE  StateInv'
  <2>1. Ended /\ UNCHANGED <<made, snaps, project, prog>>
    BY <1>4 DEF Decline, RestoreThrows, SnapshotThrows, Exit, Kill, disk, launch
  <2>2. CASE UNCHANGED world
    BY <1>0, <2>1, <2>2, EndedState DEF world
  <2>3. ASSUME NEW on \in BOOLEAN, NEW down \in BOOLEAN, CutShort(on, down)
        PROVE  StateInv'
    <3>1. /\ keys' \subseteq Machines
          /\ power' \in [Controllers -> {"stopped", "running", "suspended"}]
          /\ \A c \in Controllers \ Machines : power'[c] = "stopped"
      BY <1>0, <2>3 DEF CutShort, MachinesOf
    <3> QED
      BY <1>0, <2>1, <3>1, EndedState
  <2> QED
    BY <1>4, <2>2, <2>3 DEF Decline, RestoreThrows, SnapshotThrows, Exit, Kill
<1>6. CASE CheckCache
  <2>1. ok' \in SUBSET Selected(prog) /\ Upward(prog, ok')
    BY <1>0, <1>6, OkIsStored, ProgramFacts DEF CheckCache
  <2>2. queue' \in Seq(Selected(prog) \ ok')
    BY <1>0, <1>6, <2>1, TopUncached, ProgramFacts DEF CheckCache
  <2>3. queue' \in Seq(Selected(prog))
    BY <2>2, ElementsOfSeq
  <2> QED
    BY <1>0, <1>6, <2>1, <2>3 DEF CheckCache, disk, world, launch, known, ghosts, Points
<1>7. CASE BuildPlan
  BY <1>0, <1>7 DEF BuildPlan, disk, world, launch, known, ghosts, Points
<1>8. ASSUME NextRun \/ Skipped \/ ParentsRestored \/ TemporariesDropped \/ Finish
      PROVE  StateInv'
  <2>1. TemporariesDropped => pending' \subseteq Controllers
    BY <1>0, PresentRun DEF TemporariesDropped, PlanInv, Running
  <2> QED
    BY <1>0, <1>8, <2>1 DEF NextRun, Skipped, ParentsRestored, TemporariesDropped, Finish, disk,
                            world, launch, known, ghosts, Points
<1>9. ASSUME NEW q \in Names, NEW c \in Controllers, DropTemporary(q, c)
      PROVE  StateInv'
  BY <1>0, <1>9 DEF DropTemporary, world, launch, known, ghosts
<1>10. ASSUME NEW q \in Names, NEW c \in Controllers, RestoreParent(q, c)
       PROVE  StateInv'
  <2>1. q \in DOMAIN snaps[c] /\ Restored(c, q)
    BY <1>10 DEF RestoreParent, CanRestore, has_hypervisor_snapshot, has_snapshot
  <2>2. /\ power' \in [Controllers -> {"stopped", "running", "suspended"}]
        /\ \A d \in Controllers \ Machines : power'[d] = "stopped"
        /\ keys' \subseteq Machines
        /\ cur' \in [Controllers -> Names \cup {Initial, ""}]
    BY <1>0, <2>1, RestoredType
  <2> QED
    BY <1>0, <1>10, <2>2 DEF RestoreParent, disk, launch, ghosts
<1>11. ASSUME NEW n \in Networks, CreateNetwork(n)
       PROVE  StateInv'
  BY <1>0, <1>11 DEF CreateNetwork, world, launch, known, ghosts
<1>12. CASE NetworksCreated
  <2>1. pending' \subseteq Controllers
    BY <1>0, <1>12, PresentRun DEF NetworksCreated, PlanInv, Running
  <2> QED
    BY <1>0, <1>12, <2>1 DEF NetworksCreated, disk, world, launch, known, ghosts, Points
<1>13. ASSUME NEW c \in Controllers, InstallController(c)
       PROVE  StateInv'
  <2>1. /\ power' \in [Controllers -> {"stopped", "running", "suspended"}]
        /\ \A d \in Controllers \ Machines : power'[d] = "stopped"
        /\ keys' \subseteq Machines
        /\ cur' \in [Controllers -> Names \cup {Initial, ""}]
        /\ DOMAIN made' = Controllers /\ DOMAIN snaps' = Controllers
    <3>1. CASE Relevant(prog, c)
      <4>1. Restored(c, Initial) /\ Initial \in DOMAIN snaps[c] /\ UNCHANGED disk
        BY <1>13, <3>1 DEF InstallController, Relevant, has_snapshot
      <4> QED
        BY <1>0, <4>1, RestoredType DEF disk
    <3>2. CASE ~Relevant(prog, c)
      BY <1>0, <1>13, <3>2 DEF InstallController
    <3> QED
      BY <3>1, <3>2
  <2> QED
    BY <1>0, <1>13, <2>1 DEF InstallController, launch, ghosts
<1>14. CASE ResumeParents
  <2>1. /\ power' \in [Controllers -> {"stopped", "running", "suspended"}]
        /\ \A d \in Controllers \ Machines : power'[d] = "stopped"
    BY <1>0, <1>14 DEF ResumeParents
  <2> QED
    BY <1>0, <1>14, <2>1 DEF ResumeParents, disk, launch, known, ghosts, Points
<1>15. ASSUME NEW on \in BOOLEAN, CommandsPass(on)
       PROVE  StateInv'
  <2>1. /\ power' \in [Controllers -> {"stopped", "running", "suspended"}]
        /\ \A d \in Controllers \ Machines : power'[d] = "stopped"
    BY <1>0, <1>15 DEF CommandsPass, MachinesOf
  <2>2. keys' \subseteq Machines /\ held' \subseteq Machines
    BY <1>0, <1>15 DEF CommandsPass, MachinesOf
  <2> QED
    BY <1>0, <1>15, <2>1, <2>2 DEF CommandsPass, disk, launch, Points
<1>16. CASE CommandsFail
  <2>1. held' \subseteq Machines
    BY <1>0, <1>16 DEF CommandsFail, MachinesOf
  <2>2. Stopped(Test)
    BY <1>16 DEF CommandsFail
  <2>3. /\ power' \in [Controllers -> {"stopped", "running", "suspended"}]
        /\ \A d \in Controllers \ Machines : power'[d] = "stopped"
        /\ keys' \subseteq Machines
        /\ cur' \in [Controllers -> Names \cup {Initial, ""}]
    BY <1>0, <2>2, StoppedType
  <2>4. pc' = "next" /\ UNCHANGED <<made, snaps, project, prog, ok, queue, pending>>
    BY <1>16 DEF CommandsFail, disk, launch
  <2>5. pc = "commands"
    BY <1>16 DEF CommandsFail
  <2> QED
    BY <1>0, <2>1, <2>3, <2>4, <2>5 DEF Points
<1>17. ASSUME NEW c \in Controllers, TakeSnapshot(c)
       PROVE  StateInv'
  <2>1. Test \in Names
    BY <1>0, <1>17, PresentRun DEF TakeSnapshot, PlanInv, Running
  <2>2. cur' \in [Controllers -> Names \cup {Initial, ""}] /\ DOMAIN snaps' = Controllers
    BY <1>0, <1>17, <2>1 DEF TakeSnapshot
  <2> QED
    BY <1>0, <1>17, <2>2 DEF TakeSnapshot, world, launch, ghosts
<1>18. CASE Passed
  <2>1. /\ power' \in [Controllers -> {"stopped", "running", "suspended"}]
        /\ \A d \in Controllers \ Machines : power'[d] = "stopped"
        /\ keys' \subseteq Machines
        /\ cur' \in [Controllers -> Names \cup {Initial, ""}]
    <3>1. CASE Followed
      BY <1>0, <1>18, <3>1 DEF Passed
    <3>2. CASE ~Followed
      BY <1>0, <1>18, <3>2, StoppedType DEF Passed
    <3> QED
      BY <3>1, <3>2
  <2>2. pc' = "next" /\ UNCHANGED <<made, snaps, project, prog, ok, queue, pending, held>>
    BY <1>18 DEF Passed, disk, launch
  <2>3. pc = "snapshot"
    BY <1>18 DEF Passed
  <2> QED
    BY <1>0, <2>1, <2>2, <2>3 DEF Points
<1> QED
  BY <1>1, <1>2, <1>3, <1>4, <1>6, <1>7, <1>8, <1>9, <1>10, <1>11, <1>12, <1>13, <1>14, <1>15,
     <1>16, <1>17, <1>18 DEF Next, Prepare, Visit

----------------------------------------------------------------------------
(* What the steps do to the disk                                           *)

\* The steps that change a controller's configuration or its snapshots.
LEMMA DiskChanges ==
    ASSUME Next
    PROVE  /\ project' = project
           /\ \/ made' = made /\ snaps' = snaps
              \/ \E kept \in Uncleaned : Clean(kept)
              \/ \E c \in Controllers : DeleteSnapshots(c)
              \/ \E q \in Names, c \in Controllers : DropTemporary(q, c)
              \/ \E c \in Controllers : InstallController(c)
              \/ \E c \in Controllers : TakeSnapshot(c)
<1> DEFINE Quiet == project' = project /\ made' = made /\ snaps' = snaps
<1>1. (\E names \in Invalidated : Begin(names)) => Quiet
  BY DEF Begin, disk
<1>2. \A kept \in Uncleaned : Clean(kept) => project' = project
  BY DEF Clean
<1>3. ASSUME Prepare
      PROVE  Quiet \/ (project' = project /\ \E c \in Controllers : DeleteSnapshots(c))
  <2>1. ASSUME NEW c \in Controllers, DeleteSnapshots(c)
        PROVE  project' = project
    BY <2>1 DEF DeleteSnapshots, launch
  <2>2. Decline \/ CheckCache \/ BuildPlan => Quiet
    BY DEF Decline, CheckCache, BuildPlan, disk, launch
  <2> HIDE DEF Quiet
  <2> QED
    BY <1>3, <2>1, <2>2 DEF Prepare
<1>4. Kill => Quiet
  BY DEF Kill, disk, launch
<1>5. \A q \in Names, c \in Controllers : DropTemporary(q, c) => project' = project
  BY DEF DropTemporary, launch
<1>6. \A c \in Controllers : InstallController(c) \/ TakeSnapshot(c) => project' = project
  BY DEF InstallController, TakeSnapshot, launch
<1>7. NextRun \/ Skipped \/ RestoreThrows \/ ParentsRestored \/ NetworksCreated \/ ResumeParents => Quiet
  BY DEF NextRun, Skipped, RestoreThrows, ParentsRestored, NetworksCreated, ResumeParents, disk, launch
<1>8. CommandsFail \/ TemporariesDropped \/ SnapshotThrows \/ Passed \/ Finish \/ Exit => Quiet
  BY DEF CommandsFail, TemporariesDropped, SnapshotThrows, Passed, Finish, Exit, disk, launch
<1>9. /\ \A q \in Names, c \in Controllers : RestoreParent(q, c) => Quiet
      /\ \A n \in Networks : CreateNetwork(n) => Quiet
      /\ \A on \in BOOLEAN : CommandsPass(on) => Quiet
  BY DEF RestoreParent, CreateNetwork, CommandsPass, disk, launch
<1> QED
  BY <1>1, <1>2, <1>3, <1>4, <1>5, <1>6, <1>7, <1>8, <1>9 DEF Next, Visit

\* A snapshot on the right parent for one version is so for the others.
LEMMA SameParent ==
    ASSUME UsualProjects, NEW x \in DOMAIN Projects, NEW p \in Versions(x), NEW e \in Versions(x),
           NEW t \in Selected(p) \cap Selected(e), NEW c, NEW a, OnParent(p, c, t, a)
    PROVE  OnParent(e, c, t, a)
<1>1. Ordered(p) /\ Ordered(e) /\ Compatible(p, e)
  BY VersionFacts, VersionsCompatible DEF Version, Plannable
<1>2. ParentSet(p, t) = ParentSet(e, t) /\ Ctrl(p, t) = Ctrl(e, t)
  BY <1>1, SameAncestors DEF Compatible
<1>3. ParentSet(p, t) \subseteq Selected(p) \cap Selected(e)
  BY <1>1, <1>2, AncestorFacts
<1>4. \A q \in ParentSet(p, t) : Ctrl(p, q) = Ctrl(e, q)
  BY <1>1, <1>3, SameAncestors
<1> QED
  BY <1>2, <1>4 DEF OnParent

\* What create_snapshot makes of the snapshots of a controller of the present run.
LEMMA TakingSnapshot ==
    ASSUME UsualProjects, StateInv, DiskInv, PlanInv, VisitInv, RunInv,
           pc = "snapshot", NEW c \in pending, NEW needed \in BOOLEAN
    PROVE  LET k == create_snapshot(c, Test, needed)
           IN  /\ Column(project, c, made[c], k)
               /\ Matches(prog, [snaps EXCEPT ![c] = k], c, Test) /\ Initial \in DOMAIN k
               /\ \A s \in DOMAIN k \ {Test} :
                      s \in DOMAIN snaps[c] /\ k[s].cksum = snaps[c][s].cksum
               /\ Matches(prog, snaps, c, Test) => DOMAIN k = DOMAIN snaps[c]
               /\ \A s \in DOMAIN snaps[c] \ DOMAIN k :
                      s \in Selected(prog) => Test \in Ancestors(prog, s)
               /\ \A p \in Versions(project) : \A s \in (DOMAIN k \cap Selected(p)) \ {Test} :
                      Test \in Ancestors(p, s) => Matches(prog, snaps, c, Test)
<1> DEFINE r == snaps[c]
           config == made[c]
           k == create_snapshot(c, Test, needed)
           image == IF needed THEN Image(live[c], power[c] # "stopped", c \in keys) ELSE NoImage
           opaque == needed /\ c \in Machines
           v == cksum(prog, Test)
           record == Record(v, cur[c], image, opaque)
<1>0. /\ c \in Controllers /\ c \in Controls(Test) /\ Ready(c)
      /\ Test \in Selected(prog) /\ Test \in Names /\ Test # Initial /\ Test # "" /\ Initial \notin Names
      /\ Ordered(prog) /\ prog \in Versions(project) /\ project \in DOMAIN Projects
      /\ DOMAIN snaps = Controllers
  BY PresentRun, ProgramFacts DEF StateInv, PlanInv, Running, RunInv
<1>1. Column(project, c, config, r)
  BY <1>0 DEF DiskInv
<1>2. Initial \in DOMAIN r /\ config # Nothing /\ OnParent(prog, c, Test, cur[c])
  <2>1. Initial \in DOMAIN r /\ OnParent(prog, c, Test, cur[c])
    BY <1>0 DEF Ready, IsRelevant
  <2> QED
    BY <1>1, <2>1 DEF Column
<1>3. cur[c] \in DOMAIN r /\ (cur[c] = Initial \/ cur[c] \in ParentSet(prog, Test))
  <2>1. CASE cur[c] \in ParentSet(prog, Test) /\ c \in Ctrl(prog, cur[c])
    <3>1. cur[c] \in Done
      BY <2>1 DEF VisitInv, Running
    <3> QED
      BY <2>1, <3>1 DEF VisitInv, Visiting, Running
  <2>2. CASE cur[c] = Initial
    BY <1>2, <2>2
  <2> QED
    BY <1>2, <2>1, <2>2 DEF OnParent
<1>4. c \notin Machines => image.on = FALSE /\ image.key = FALSE
  <2> SUFFICES ASSUME c \notin Machines PROVE image.on = FALSE /\ image.key = FALSE
    OBVIOUS
  <2>1. power[c] = "stopped" /\ c \notin keys
    BY <1>0 DEF StateInv
  <2>2. (power[c] # "stopped") = FALSE /\ (c \in keys) = FALSE
    BY <2>1
  <2>3. image \in {Image(live[c], FALSE, FALSE), NoImage}
    BY <2>2
  <2> HIDE DEF image
  <2> QED
    BY <2>3 DEF Image, NoImage
<1>5. \A p \in Versions(project) : Test \in Selected(p) => OnParent(p, c, Test, cur[c])
  BY <1>0, <1>2, SameParent
<1>6. record.cksum = v
  BY DEF Record
<1> HIDE DEF image, opaque, v
<1>7. [snaps EXCEPT ![c] = k][c] = k
  BY <1>0
<1> HIDE DEF r, config
<1>8. CASE Test \notin DOMAIN r
  <2>1. k = WithRecord(r, Test, record)
    BY <1>8 DEF create_snapshot, has_snapshot, r, image, opaque, v
  <2>2. Column(project, c, config, k)
    BY <1>0, <1>1, <1>2, <1>3, <1>4, <1>5, <1>8, <2>1, AddingRecord
  <2>3. DOMAIN k = DOMAIN r \cup {Test} /\ k[Test] = record /\ \A s \in DOMAIN r : k[s] = r[s]
    <3> HIDE DEF record
    <3> QED
      BY <1>8, <2>1 DEF WithRecord
  <2> HIDE DEF k, record
  <2>4. ASSUME NEW p \in Versions(project), NEW s \in (DOMAIN k \cap Selected(p)) \ {Test},
               Test \in Ancestors(p, s)
        PROVE  FALSE
    <3>1. s \in DOMAIN r \cap Selected(p)
      BY <2>3
    <3>2. Version(p)
      BY <1>0, VersionFacts
    <3>3. Test \in Selected(p)
      BY <2>4, <3>1, <3>2, AncestorFacts DEF Version, Plannable
    <3>4. c \in Ctrl(p, Test)
      BY <1>5, <3>3 DEF OnParent
    <3>5. Test \in DOMAIN r
      BY <1>0, <1>1, <2>4, <3>1, <3>4, ColumnChain
    <3> QED
      BY <1>8, <3>5
  <2>5. Matches(prog, [snaps EXCEPT ![c] = k], c, Test)
    BY <1>6, <1>7, <2>3 DEF Matches, v
  <2>6. ~Matches(prog, snaps, c, Test)
    BY <1>8 DEF Matches, r
  <2> QED
    BY <1>2, <2>2, <2>3, <2>4, <2>5, <2>6 DEF k, r, config
<1>9. CASE Test \in DOMAIN r /\ r[Test].cksum = v
  <2>1. k = WithRecord(r, Test, WithImage(r[Test], image))
    BY <1>9 DEF create_snapshot, has_snapshot, r, image, opaque, v
  <2> HIDE DEF k, record
  <2>2. Column(project, c, config, k) /\ DOMAIN k = DOMAIN r /\ \A n \in DOMAIN r : k[n].cksum = r[n].cksum
    <3> DEFINE w == WithImage(r[Test], image)
    <3>1. w.parent = r[Test].parent /\ w.cksum = r[Test].cksum /\ w.image = image
      BY DEF WithImage, Record
    <3>2. k = WithRecord(r, Test, w)
      BY <2>1
    <3> HIDE DEF w
    <3>3. c \notin Machines => w.image.on = FALSE /\ w.image.key = FALSE
      BY <1>4, <3>1
    <3>4. Test \in DOMAIN r
      BY <1>9
    <3>5. SameSnapshot(c, w, r[Test])
      BY <3>1, <3>3 DEF SameSnapshot
    <3>6. /\ Column(project, c, config, WithRecord(r, Test, w)) /\ DOMAIN WithRecord(r, Test, w) = DOMAIN r
          /\ \A n \in DOMAIN r : WithRecord(r, Test, w)[n].cksum = r[n].cksum
      BY <1>1, <3>4, <3>5, ChangingImage
    <3> QED
      BY <3>2, <3>6
  <2>3. Matches(prog, snaps, c, Test) /\ Matches(prog, [snaps EXCEPT ![c] = k], c, Test)
    BY <1>7, <1>9, <2>2 DEF Matches, r, v
  <2> QED
    BY <1>2, <2>2, <2>3 DEF k, r, config
<1>10. CASE Test \in DOMAIN r /\ r[Test].cksum # v
  <2> DEFINE b == Pruned(r, Test)
  <2>1. k = WithRecord(b, Test, record)
    BY <1>10, DeletionPrunes DEF create_snapshot, has_snapshot, r, image, opaque, v
  <2>2. /\ Test \in Below(r, Test) /\ Initial \notin Below(r, Test)
        /\ \A p \in Versions(project) : \A u \in Below(r, Test) \cap Selected(p) : Test \in Ancestors(p, u)
        /\ Column(project, c, config, b)
    BY <1>0, <1>1, <1>10, Pruning
  <2>3. DOMAIN b = DOMAIN r \ Below(r, Test) /\ \A s \in DOMAIN b : b[s] = r[s]
    BY DEF Pruned
  <2> HIDE DEF b
  <2>4. cur[c] \in DOMAIN b /\ Test \notin DOMAIN b /\ Initial \in DOMAIN b
    <3>1. cur[c] \notin Below(r, Test)
      <4>1. CASE cur[c] = Initial
        BY <2>2, <4>1
      <4>2. CASE cur[c] \in ParentSet(prog, Test)
        <5>1. cur[c] \in Selected(prog)
          BY <1>0, <4>2, AncestorFacts
        <5>2. Test \notin Ancestors(prog, cur[c])
          BY <1>0, <4>2, NoOwnAncestor
        <5> QED
          BY <1>0, <2>2, <5>1, <5>2
      <4> QED
        BY <1>3, <4>1, <4>2
    <3> QED
      BY <1>2, <1>3, <2>2, <2>3, <3>1
  <2>5. Column(project, c, config, k)
    <3>1. Column(project, c, config, b) /\ cur[c] \in DOMAIN b \cup {""}
      BY <2>2, <2>4
    <3>2. Column(project, c, config, WithRecord(b, Test, Record(v, cur[c], image, opaque)))
      BY <1>0, <1>2, <1>4, <1>5, <2>4, <3>1, AddingRecord
    <3> QED
      BY <2>1, <3>2
  <2>6. DOMAIN k = DOMAIN b \cup {Test} /\ k[Test] = record /\ \A s \in DOMAIN b : k[s] = b[s]
    <3> HIDE DEF record
    <3> QED
      BY <2>1, <2>4 DEF WithRecord
  <2> HIDE DEF k, record
  <2>7. ASSUME NEW p \in Versions(project), NEW s \in (DOMAIN k \cap Selected(p)) \ {Test},
               Test \in Ancestors(p, s)
        PROVE  FALSE
    <3>1. s \in DOMAIN b \cap Selected(p)
      BY <2>6
    <3>2. Version(p)
      BY <1>0, VersionFacts
    <3>3. Test \in Selected(p)
      BY <2>7, <3>1, <3>2, AncestorFacts DEF Version, Plannable
    <3>4. c \in Ctrl(p, Test)
      BY <1>5, <3>3 DEF OnParent
    <3>5. Test \in DOMAIN b
      BY <1>0, <2>2, <2>7, <3>1, <3>4, ColumnChain
    <3> QED
      BY <2>4, <3>5
  <2>8. Matches(prog, [snaps EXCEPT ![c] = k], c, Test)
    BY <1>6, <1>7, <2>6 DEF Matches, v
  <2>9. ~Matches(prog, snaps, c, Test)
    BY <1>10 DEF Matches, r, v
  <2>10. \A s \in DOMAIN r \ DOMAIN k : s \in Selected(prog) => Test \in Ancestors(prog, s)
    BY <1>0, <2>2, <2>3, <2>6
  <2> QED
    BY <2>3, <2>4, <2>5, <2>6, <2>7, <2>8, <2>9, <2>10 DEF k, r, config
<1> QED
  BY <1>8, <1>9, <1>10

\* Each step leaves the disk as it should be.
LEMMA DiskStep ==
    ASSUME UsualProjects, LaunchInv, Next
    PROVE  DiskInv'
<1>0. /\ StateInv /\ DiskInv /\ PlanInv /\ VisitInv /\ RunInv
      /\ project' = project /\ project \in DOMAIN Projects
      /\ DOMAIN made = Controllers /\ DOMAIN snaps = Controllers
  BY DiskChanges DEF LaunchInv, StateInv
<1> DEFINE Right(c) == Column(project, c, made'[c], snaps'[c])
<1>1. ASSUME NEW c \in Controllers, made'[c] = made[c], snaps'[c] = snaps[c]
      PROVE  Right(c)
  BY <1>0, <1>1 DEF DiskInv
<1>2. SUFFICES \A c \in Controllers : Right(c)
  BY <1>0 DEF DiskInv
<1>3. CASE made' = made /\ snaps' = snaps
  BY <1>1, <1>3
<1>4. ASSUME NEW kept \in Uncleaned, Clean(kept)
      PROVE  \A c \in Controllers : Right(c)
  <2> SUFFICES ASSUME NEW c \in Controllers PROVE Right(c)
    OBVIOUS
  <2>1. \/ made'[c] = made[c] /\ snaps'[c] = snaps[c]
        \/ made'[c] = Nothing /\ snaps'[c] = <<>>
    BY <1>4 DEF Clean
  <2>2. CASE made'[c] = Nothing /\ snaps'[c] = <<>>
    <3>1. Column(project, c, Nothing, <<>>)
      BY DEF Column
    <3> QED
      BY <2>2, <3>1
  <2> QED
    BY <1>1, <2>1, <2>2
<1>5. ASSUME NEW d \in Controllers, DeleteSnapshots(d)
      PROVE  \A c \in Controllers : Right(c)
  <2> SUFFICES ASSUME NEW c \in Controllers PROVE Right(c)
    OBVIOUS
  <2> DEFINE t == Head(queue)
  <2>1. t \in Names /\ t # Initial
    <3>1. queue \in Seq(Selected(prog)) /\ queue # <<>>
      BY <1>0, <1>5 DEF DeleteSnapshots, StateInv
    <3>2. t \in Selected(prog)
      BY <3>1
    <3> QED
      BY <1>0, <3>2, ProgramFacts
  <2> HIDE DEF t
  <2>2. /\ made' = made
        /\ \/ snaps' = snaps
           \/ t \in DOMAIN snaps[d] /\ snaps' = [snaps EXCEPT ![d] = delete_snapshot_with_children(d, t)]
    BY <1>5 DEF DeleteSnapshots, has_snapshot, t
  <2>3. CASE snaps'[c] = snaps[c]
    BY <1>1, <2>2, <2>3
  <2>4. CASE snaps'[c] # snaps[c]
    <3>1. c = d /\ t \in DOMAIN snaps[c] /\ snaps'[c] = Pruned(snaps[c], t)
      BY <1>0, <2>2, <2>4, DeletionPrunes
    <3>2. Column(project, c, made[c], snaps[c])
      BY <1>0 DEF DiskInv
    <3>3. Column(project, c, made[c], Pruned(snaps[c], t))
      BY <1>0, <2>1, <3>1, <3>2, Pruning
    <3> QED
      BY <2>2, <3>1, <3>3
  <2> QED
    BY <2>3, <2>4
<1>6. ASSUME NEW q \in Names, NEW d \in Controllers, DropTemporary(q, d)
      PROVE  \A c \in Controllers : Right(c)
  <2> SUFFICES ASSUME NEW c \in Controllers PROVE Right(c)
    OBVIOUS
  <2> DEFINE w == WithImage(snaps[d][q], NoImage)
  <2>1. /\ made' = made /\ q \in DOMAIN snaps[d]
        /\ snaps' = [snaps EXCEPT ![d] = WithRecord(snaps[d], q, w)]
    BY <1>6 DEF DropTemporary, Temporary, has_hypervisor_snapshot, has_snapshot
  <2>2. w.parent = snaps[d][q].parent /\ w.cksum = snaps[d][q].cksum /\ w.image = NoImage
    BY DEF WithImage, Record
  <2> HIDE DEF w
  <2>3. CASE c = d
    <3>1. Column(project, d, made[d], snaps[d])
      BY <1>0 DEF DiskInv
    <3>2. w.image.on = FALSE /\ w.image.key = FALSE
      BY <2>2 DEF NoImage
    <3>3. SameSnapshot(d, w, snaps[d][q])
      BY <2>2, <3>2 DEF SameSnapshot
    <3>4. Column(project, d, made[d], WithRecord(snaps[d], q, w))
      BY <2>1, <3>1, <3>3, ChangingImage
    <3> QED
      BY <1>0, <2>1, <2>3, <3>4
  <2>4. CASE c # d
    BY <1>0, <1>1, <2>1, <2>4
  <2> QED
    BY <2>3, <2>4
<1>7. ASSUME NEW d \in Controllers, InstallController(d)
      PROVE  \A c \in Controllers : Right(c)
  <2> SUFFICES ASSUME NEW c \in Controllers PROVE Right(c)
    OBVIOUS
  <2> DEFINE r == [s \in {Initial} |-> Record(<<>>, "", Image(Fresh, FALSE, FALSE), d \in Machines)]
  <2>1. \/ made' = made /\ snaps' = snaps
        \/ made' = [made EXCEPT ![d] = Config(prog, d)] /\ snaps' = [snaps EXCEPT ![d] = r]
    BY <1>7 DEF InstallController, disk
  <2>2. DOMAIN r = {Initial} /\ r[Initial].parent = "" /\ r[Initial].image = Image(Fresh, FALSE, FALSE)
    BY DEF Record
  <2> HIDE DEF r
  <2>3. Initial \notin Names
    BY <1>0, ProgramFacts
  <2>4. Config(prog, d) # Nothing
    BY DEF Config, Nothing
  <2>5. \A p \in Versions(project) : DOMAIN r \cap Selected(p) = {}
    BY <1>0, <2>2, <2>3, VersionFacts DEF Version
  <2>6. Column(project, d, Config(prog, d), r)
    <3>1. Image(Fresh, FALSE, FALSE).on = FALSE /\ Image(Fresh, FALSE, FALSE).key = FALSE
      BY DEF Image
    <3>2. \A s \in DOMAIN r : s = Initial /\ r[s].image.on = FALSE /\ r[s].image.key = FALSE
                            /\ r[s].parent = ""
      BY <2>2, <3>1
    <3>3. DOMAIN r \subseteq Names \cup {Initial}
      BY <2>2
    <3> HIDE DEF Nothing
    <3> QED
      BY <2>4, <2>5, <3>2, <3>3 DEF Column
  <2>7. \/ made'[c] = made[c] /\ snaps'[c] = snaps[c]
        \/ c = d /\ made'[c] = Config(prog, d) /\ snaps'[c] = r
    BY <1>0, <2>1
  <2> QED
    BY <1>1, <2>6, <2>7
<1>8. ASSUME NEW d \in Controllers, TakeSnapshot(d)
      PROVE  \A c \in Controllers : Right(c)
  <2> SUFFICES ASSUME NEW c \in Controllers PROVE Right(c)
    OBVIOUS
  <2> DEFINE needed == is_hypervisor_snapshot_needed(Test)
             k == create_snapshot(d, Test, needed)
  <2>1. /\ made' = made /\ pc = "snapshot" /\ d \in pending
        /\ \/ snaps' = snaps
           \/ snaps' = [snaps EXCEPT ![d] = k]
    BY <1>8 DEF TakeSnapshot
  <2>2. needed \in BOOLEAN
    BY DEF is_hypervisor_snapshot_needed
  <2> HIDE DEF needed
  <2>3. Column(project, d, made[d], k)
    BY <1>0, <2>1, <2>2, TakingSnapshot
  <2> HIDE DEF k
  <2>4. \/ made'[c] = made[c] /\ snaps'[c] = snaps[c]
        \/ c = d /\ made'[c] = made[d] /\ snaps'[c] = k
    BY <1>0, <2>1
  <2> QED
    BY <1>1, <2>3, <2>4
<1> HIDE DEF Right
<1> QED
  BY <1>3, <1>4, <1>5, <1>6, <1>7, <1>8, DiskChanges

----------------------------------------------------------------------------
(* What is up to date has passed                                           *)

\* A run that takes its first snapshot of a test, or one of another version of it,
\* makes nothing up to date but what has passed.
LEMMA TakenIsSound ==
    ASSUME UsualProjects, LaunchInv, pc = "snapshot", NEW d \in pending, NEW needed \in BOOLEAN,
           NEW k, k = [snaps EXCEPT ![d] = create_snapshot(d, Test, needed)],
           NEW p \in Versions(project), NEW t \in Cached(p, made, k)
    PROVE  <<t, Lineage(p)[t]>> \in passed
<1> DEFINE r == create_snapshot(d, Test, needed)
<1>0. /\ StateInv /\ DiskInv /\ PlanInv /\ VisitInv /\ RunInv /\ Sound(project, made, snaps, passed)
      /\ project \in DOMAIN Projects /\ prog \in Versions(project)
      /\ DOMAIN snaps = Controllers /\ d \in Controllers
  BY DEF LaunchInv, StateInv
<1>1. /\ Version(p) /\ Ordered(p) /\ Version(prog) /\ Ordered(prog) /\ Compatible(prog, p)
      /\ Test \in Selected(prog) /\ d \in Ctrl(prog, Test)
  <2>1. Version(p) /\ Version(prog) /\ Compatible(prog, p)
    BY <1>0, VersionFacts, VersionsCompatible
  <2>2. Test \in Selected(prog) /\ Controls(Test) = Ctrl(prog, Test)
    BY <1>0, PresentRun DEF PlanInv, Running
  <2>3. d \in Controls(Test)
    BY <1>0 DEF RunInv
  <2> QED
    BY <2>1, <2>2, <2>3 DEF Version, Plannable
<1>2. /\ Matches(prog, [snaps EXCEPT ![d] = r], d, Test) /\ Initial \in DOMAIN r
      /\ \A s \in DOMAIN r \ {Test} : s \in DOMAIN snaps[d] /\ r[s].cksum = snaps[d][s].cksum
      /\ \A s \in (DOMAIN r \cap Selected(p)) \ {Test} :
             Test \in Ancestors(p, s) => Matches(prog, snaps, d, Test)
  BY <1>0, TakingSnapshot
<1> HIDE DEF r
<1>3. k[d] = r /\ \A c \in Controllers \ {d} : k[c] = snaps[c]
  BY <1>0 DEF r
<1>4. Matches(prog, k, d, Test)
  BY <1>2 DEF r
<1>5. t \in Selected(p) /\ \A u \in Ancestors(p, t) : u \in Selected(p) /\ Stored(p, made, k, u)
  BY <1>1, AncestorFacts DEF Cached
<1>6. IsRelevant(prog, made, snaps, d)
  BY <1>0 DEF RunInv, Ready
\* A stored test other than the one of the run was stored.
<1>7. ASSUME NEW u \in Ancestors(p, t), u # Test \/ Matches(prog, snaps, d, Test)
      PROVE  Stored(p, made, snaps, u)
  <2>1. ASSUME NEW c \in Ctrl(p, u)
        PROVE  IsRelevant(p, made, snaps, c) /\ Matches(p, snaps, c, u)
    <3>1. IsRelevant(p, made, k, c) /\ Matches(p, k, c, u)
      BY <1>5 DEF Stored
    <3>2. c \in Controllers
      BY <1>1, <1>5 DEF Version
    <3>3. CASE c # d
      BY <1>3, <3>1, <3>2, <3>3 DEF IsRelevant, Matches
    <3>4. CASE c = d
      <4>1. IsRelevant(p, made, snaps, d)
        BY <1>6, <3>1, <3>4 DEF IsRelevant
      <4>2. u \in DOMAIN r /\ r[u].cksum = cksum(p, u)
        BY <1>3, <3>1, <3>4 DEF Matches
      <4>3. CASE u # Test
        BY <1>2, <3>4, <4>1, <4>2, <4>3 DEF Matches
      <4>4. CASE u = Test
        BY <1>3, <1>4, <1>7, <3>4, <4>1, <4>2, <4>4 DEF Matches
      <4> QED
        BY <4>3, <4>4
    <3> QED
      BY <3>3, <3>4
  <2> QED
    BY <2>1 DEF Stored
<1>8. CASE Test \notin Ancestors(p, t) \/ Matches(prog, snaps, d, Test)
  <2>1. \A u \in Ancestors(p, t) : Stored(p, made, snaps, u)
    BY <1>7, <1>8
  <2>2. t \in Cached(p, made, snaps)
    BY <1>5, <2>1 DEF Cached
  <2> QED
    BY <1>0, <2>2 DEF Sound
<1>9. CASE Test \in Ancestors(p, t) /\ ~Matches(prog, snaps, d, Test)
  <2>1. Test \in Selected(p) /\ Stored(p, made, k, Test)
    BY <1>5, <1>9
  <2>2. Ctrl(p, Test) = Ctrl(prog, Test)
    BY <1>1, <2>1, SameAncestors
  <2>3. t = Test
    <3>1. d \in Ctrl(p, t)
      BY <1>1, <1>5, <1>9, <2>2, AncestorsControllers DEF Ctrl
    <3>2. t \in DOMAIN r
      <4>1. t \in Ancestors(p, t)
        BY <1>1, <1>5, AncestorFacts
      <4> QED
        BY <1>3, <1>5, <3>1, <4>1 DEF Stored, Matches
    <3> QED
      BY <1>2, <1>5, <1>9, <3>2
  <2>4. Ancestors(prog, Test) = Ancestors(p, Test)
    BY <1>1, <2>1, SameAncestors
  <2>5. \A c \in Ctrl(prog, Test) : Config(prog, c) = Config(p, c)
    <3> TAKE c \in Ctrl(prog, Test)
    <3>1. made[c] = Config(p, c)
      BY <2>1, <2>2 DEF Stored, IsRelevant
    <3>2. c \in Controls(Test)
      BY <1>0, PresentRun DEF PlanInv, Running
    <3>3. made[c] = Config(prog, c)
      BY <1>0, <3>2 DEF RunInv, Ready, IsRelevant
    <3> QED
      BY <3>1, <3>3
  <2>6. ASSUME NEW u \in Ancestors(prog, Test)
        PROVE  cksum(prog, u) = cksum(p, u)
    <3>1. u \in Selected(prog) /\ u \in Selected(p) /\ Stored(p, made, k, u)
      BY <1>1, <1>5, <2>3, <2>4, AncestorFacts
    <3>2. Ctrl(prog, u) = Ctrl(p, u)
      BY <1>1, <3>1, SameAncestors
    <3>3. CASE u = Test
      <4>1. Matches(p, k, d, Test)
        BY <1>1, <2>1, <2>2 DEF Stored
      <4> QED
        BY <1>4, <3>3, <4>1 DEF Matches
    <3>4. CASE u # Test
      <4>1. PICK q \in ParentSet(prog, Test) : u \in Ancestors(prog, q)
        BY <1>1, <3>4, AncestorsStep
      <4>2. q \in Done /\ Upward(prog, Done)
        BY <1>0, <4>1 DEF VisitInv, Visiting, Running
      <4>3. u \in Done
        <5>1. q \in Selected(prog)
          BY <1>1, <4>1, AncestorFacts
        <5>2. Done \cap Selected(prog) \in SUBSET Selected(prog) /\ Upward(prog, Done \cap Selected(prog))
          BY <1>1, <4>2, AncestorFacts DEF Upward
        <5>3. Ancestors(prog, q) \subseteq Done \cap Selected(prog)
          BY <4>2, <5>1, <5>2, AncestorsIn
        <5> QED
          BY <4>1, <5>3
      <4>4. PICK c \in Ctrl(prog, u) : u \in DOMAIN snaps[c] => Matches(prog, snaps, c, u)
        BY <1>0, <3>1 DEF VisitInv, Visiting, Running
      <4>5. u \in DOMAIN snaps[c]
        BY <1>0, <4>3, <4>4 DEF VisitInv, Visiting, Running
      <4>6. snaps[c][u].cksum = cksum(prog, u)
        BY <4>4, <4>5 DEF Matches
      <4>7. Stored(p, made, snaps, u)
        BY <1>7, <2>3, <2>4, <3>4
      <4>8. snaps[c][u].cksum = cksum(p, u)
        BY <3>2, <4>7 DEF Stored, Matches
      <4> QED
        BY <4>6, <4>8
    <3> QED
      BY <3>3, <3>4
  <2>7. Lineage(prog)[Test] = Lineage(p)[Test]
    BY <1>1, <2>1, <2>5, <2>6, SameLineage
  <2>8. <<Test, Lineage(prog)[Test]>> \in passed
    BY <1>0 DEF RunInv
  <2> QED
    BY <2>3, <2>7, <2>8
<1> QED
  BY <1>8, <1>9

\* Whatever has passed once has passed.
LEMMA PassedStays ==
    ASSUME Next
    PROVE  passed \subseteq passed'
<1>1. \A on \in BOOLEAN : CommandsPass(on) => passed \subseteq passed'
  BY DEF CommandsPass
<1>2. ASSUME NEW names \in Invalidated, Begin(names)
      PROVE  passed' = passed
  BY <1>2 DEF Begin, ghosts
<1>3. ASSUME NEW kept \in Uncleaned, Clean(kept)
      PROVE  passed' = passed
  BY <1>3 DEF Clean, ghosts
<1>4. ASSUME NEW c \in Controllers, DeleteSnapshots(c) \/ InstallController(c) \/ TakeSnapshot(c)
      PROVE  passed' = passed
  BY <1>4 DEF DeleteSnapshots, InstallController, TakeSnapshot, ghosts
<1>5. ASSUME NEW q \in Names, NEW c \in Controllers, DropTemporary(q, c) \/ RestoreParent(q, c)
      PROVE  passed' = passed
  BY <1>5 DEF DropTemporary, RestoreParent, ghosts
<1>6. ASSUME NEW n \in Networks, CreateNetwork(n)
      PROVE  passed' = passed
  BY <1>6 DEF CreateNetwork, ghosts
<1>7. ASSUME \/ Decline \/ CheckCache \/ BuildPlan \/ Kill \/ NextRun \/ Skipped \/ RestoreThrows
             \/ ParentsRestored \/ NetworksCreated \/ ResumeParents
      PROVE  passed' = passed
  BY <1>7 DEF Decline, CheckCache, BuildPlan, Kill, NextRun, Skipped, RestoreThrows, ParentsRestored,
              NetworksCreated, ResumeParents, ghosts
<1>8. ASSUME CommandsFail \/ TemporariesDropped \/ SnapshotThrows \/ Passed \/ Finish \/ Exit
      PROVE  passed' = passed
  BY <1>8 DEF CommandsFail, TemporariesDropped, SnapshotThrows, Passed, Finish, Exit, ghosts
<1> QED
  BY <1>1, <1>2, <1>3, <1>4, <1>5, <1>6, <1>7, <1>8 DEF Next, Prepare, Visit

\* Only passing, or a snapshot of what has passed, makes a test up to date.
LEMMA SoundStep ==
    ASSUME UsualProjects, LaunchInv, Next
    PROVE  Sound(project, made, snaps, passed)'
<1>0. /\ StateInv /\ DiskInv /\ PlanInv /\ VisitInv /\ RunInv /\ Sound(project, made, snaps, passed)
      /\ project' = project /\ project \in DOMAIN Projects /\ passed \subseteq passed'
      /\ DOMAIN made = Controllers /\ DOMAIN snaps = Controllers
  BY DiskChanges, PassedStays DEF LaunchInv, StateInv
<1> SUFFICES ASSUME NEW p \in Versions(project), NEW t \in Cached(p, made', snaps')
             PROVE  <<t, Lineage(p)[t]>> \in passed
  BY <1>0 DEF Sound
<1>1. Version(p)
  BY <1>0, VersionFacts
<1> DEFINE Shrinks(c) == \/ /\ made'[c] = made[c] /\ DOMAIN snaps'[c] \subseteq DOMAIN snaps[c]
                            /\ \A s \in DOMAIN snaps'[c] : snaps'[c][s].cksum = snaps[c][s].cksum
                         \/ DOMAIN snaps'[c] \cap Names = {}
<1>2. ASSUME \A c \in Controllers : Shrinks(c)
      PROVE  <<t, Lineage(p)[t]>> \in passed
  <2>1. Cached(p, made', snaps') \subseteq Cached(p, made, snaps)
    BY <1>1, <1>2, CachedShrinks
  <2> QED
    BY <1>0, <2>1 DEF Sound
<1>3. ASSUME NEW c \in Controllers, made'[c] = made[c], snaps'[c] = snaps[c]
      PROVE  Shrinks(c)
  BY <1>3
<1>4. CASE made' = made /\ snaps' = snaps
  BY <1>2, <1>4
<1>5. ASSUME NEW kept \in Uncleaned, Clean(kept)
      PROVE  \A c \in Controllers : Shrinks(c)
  <2> SUFFICES ASSUME NEW c \in Controllers PROVE Shrinks(c)
    OBVIOUS
  <2>1. \/ made'[c] = made[c] /\ snaps'[c] = snaps[c]
        \/ snaps'[c] = <<>>
    BY <1>5 DEF Clean
  <2> QED
    BY <2>1
<1>6. ASSUME NEW d \in Controllers, DeleteSnapshots(d)
      PROVE  \A c \in Controllers : Shrinks(c)
  <2> SUFFICES ASSUME NEW c \in Controllers PROVE Shrinks(c)
    OBVIOUS
  <2> DEFINE t_ == Head(queue)
  <2>1. /\ made' = made
        /\ \/ snaps' = snaps
           \/ snaps' = [snaps EXCEPT ![d] = delete_snapshot_with_children(d, t_)]
    BY <1>6 DEF DeleteSnapshots
  <2> HIDE DEF t_
  <2>2. \/ snaps'[c] = snaps[c]
        \/ snaps'[c] = Pruned(snaps[c], t_)
    BY <1>0, <2>1, DeletionPrunes
  <2>3. /\ DOMAIN Pruned(snaps[c], t_) \subseteq DOMAIN snaps[c]
        /\ \A s \in DOMAIN Pruned(snaps[c], t_) : Pruned(snaps[c], t_)[s] = snaps[c][s]
    BY DEF Pruned
  <2> QED
    BY <2>1, <2>2, <2>3
<1>7. ASSUME NEW q \in Names, NEW d \in Controllers, DropTemporary(q, d)
      PROVE  \A c \in Controllers : Shrinks(c)
  <2> SUFFICES ASSUME NEW c \in Controllers PROVE Shrinks(c)
    OBVIOUS
  <2> DEFINE w == WithImage(snaps[d][q], NoImage)
  <2>1. /\ made' = made /\ q \in DOMAIN snaps[d]
        /\ snaps' = [snaps EXCEPT ![d] = WithRecord(snaps[d], q, w)]
    BY <1>7 DEF DropTemporary, Temporary, has_hypervisor_snapshot, has_snapshot
  <2>2. w.cksum = snaps[d][q].cksum
    BY DEF WithImage, Record
  <2> HIDE DEF w
  <2>3. CASE c = d
    <3>1. snaps'[d] = WithRecord(snaps[d], q, w)
      BY <1>0, <2>1
    <3>2. /\ DOMAIN snaps'[d] = DOMAIN snaps[d] /\ snaps'[d][q] = w
          /\ \A s \in DOMAIN snaps[d] \ {q} : snaps'[d][s] = snaps[d][s]
      BY <2>1, <3>1 DEF WithRecord
    <3> QED
      BY <2>1, <2>2, <2>3, <3>2
  <2>4. CASE c # d
    BY <1>0, <2>1, <2>4
  <2> QED
    BY <2>3, <2>4
<1>8. ASSUME NEW d \in Controllers, InstallController(d)
      PROVE  \A c \in Controllers : Shrinks(c)
  <2> SUFFICES ASSUME NEW c \in Controllers PROVE Shrinks(c)
    OBVIOUS
  <2> DEFINE r == [s \in {Initial} |-> Record(<<>>, "", Image(Fresh, FALSE, FALSE), d \in Machines)]
  <2>1. \/ made' = made /\ snaps' = snaps
        \/ made' = [made EXCEPT ![d] = Config(prog, d)] /\ snaps' = [snaps EXCEPT ![d] = r]
    BY <1>8 DEF InstallController, disk
  <2>2. DOMAIN r = {Initial}
    OBVIOUS
  <2> HIDE DEF r
  <2>3. Initial \notin Names
    BY <1>0, ProgramFacts
  <2>4. \/ made'[c] = made[c] /\ snaps'[c] = snaps[c]
        \/ c = d /\ snaps'[c] = r
    BY <1>0, <2>1
  <2> QED
    BY <2>2, <2>3, <2>4
<1>9. ASSUME NEW d \in Controllers, TakeSnapshot(d)
      PROVE  <<t, Lineage(p)[t]>> \in passed
  <2> DEFINE needed == is_hypervisor_snapshot_needed(Test)
             k == create_snapshot(d, Test, needed)
  <2>1. /\ made' = made /\ pc = "snapshot" /\ d \in pending
        /\ \/ snaps' = snaps
           \/ snaps' = [snaps EXCEPT ![d] = k]
    BY <1>9 DEF TakeSnapshot
  <2>2. needed \in BOOLEAN
    BY DEF is_hypervisor_snapshot_needed
  <2>3. CASE snaps' = snaps
    BY <1>4, <2>1, <2>3
  <2>4. CASE snaps' = [snaps EXCEPT ![d] = k]
    <3> HIDE DEF needed
    <3>1. t \in Cached(p, made, snaps')
      BY <2>1
    <3> QED
      BY <2>1, <2>2, <2>4, <3>1, TakenIsSound
  <2> QED
    BY <2>1, <2>3, <2>4
<1> HIDE DEF Shrinks
<1> QED
  BY <1>2, <1>4, <1>5, <1>6, <1>7, <1>8, <1>9, DiskChanges

----------------------------------------------------------------------------
(* The plan                                                                *)

\* Without runs.
LEMMA PlanEmpty ==
    ASSUME plan' = [stuck |-> plan'.stuck, runs |-> <<>>, refs |-> plan'.refs], idx' = 1,
           status' \in [1 .. 0 -> {"unknown", "passed", "failed", "skipped"}],
           pc' \notin {"skip"} \cup Running
    PROVE  PlanInv'
<1>1. plan'.runs = <<>>
  OBVIOUS
<1>2. Len(plan'.runs) = 0 /\ plan'.runs \in Seq([test : Selected(prog'), parents : SUBSET Nat])
  BY <1>1
<1>3. plan' = [stuck |-> plan'.stuck, runs |-> plan'.runs, refs |-> plan'.refs]
  BY <1>1
<1>4. \A i : i \notin 1 .. 0
  OBVIOUS
<1> QED
  BY <1>1, <1>2, <1>3, <1>4 DEF PlanInv

\* Before the plan is made.
LEMMA PlanStaysEmpty ==
    ASSUME PlanInv, pc \notin Visiting \cup {"finished"}, UNCHANGED <<plan, idx, status>>,
           pc' \notin {"skip"} \cup Running
    PROVE  PlanInv'
<1>1. plan.runs = <<>> /\ idx = 1
  BY DEF PlanInv
<1>2. Len(plan.runs) = 0
  BY <1>1
<1>3. status \in [1 .. 0 -> {"unknown", "passed", "failed", "skipped"}]
  BY <1>2 DEF PlanInv
<1>4. plan = [stuck |-> plan.stuck, runs |-> <<>>, refs |-> plan.refs]
  BY <1>1 DEF PlanInv
<1> QED
  BY <1>1, <1>3, <1>4, PlanEmpty

\* During a run.
LEMMA PlanSame ==
    ASSUME PlanInv, UNCHANGED <<prog, ok, plan, idx, status>>,
           pc' \in {"skip"} \cup Running => idx <= Len(plan.runs),
           pc' \notin Visiting \cup {"finished"} => pc \notin Visiting \cup {"finished"}
    PROVE  PlanInv'
BY DEF PlanInv, Policy

\* At the end of a run.
LEMMA PlanMoves ==
    ASSUME PlanInv, idx <= Len(plan.runs), NEW x \in {"passed", "failed", "skipped"},
           status' = [status EXCEPT ![idx] = x], idx' = idx + 1, pc' = "next",
           UNCHANGED <<prog, ok, plan>>
    PROVE  PlanInv'
<1> DEFINE n == Len(plan.runs)
<1>1. idx \in 1 .. n /\ n \in Nat
  BY DEF PlanInv
<1>2. status' \in [1 .. n -> {"unknown", "passed", "failed", "skipped"}]
  BY DEF PlanInv
<1>3. \A i \in 1 .. n : status'[i] = "unknown" <=> i >= idx + 1
  BY <1>1 DEF PlanInv
<1>4. idx + 1 \in Nat \ {0}
  BY <1>1
<1> QED
  BY <1>2, <1>3, <1>4 DEF PlanInv, Policy, Visiting, Running

\* The plan that is built.
LEMMA BuiltPlan ==
    ASSUME UsualProjects, LaunchInv, BuildPlan
    PROVE  /\ PlanInv' /\ idx' = 1
           /\ pc' = "next" => \A t \in Selected(prog) \ ok :
                                  \E i \in 1 .. Len(plan'.runs) : plan'.runs[i].test = t
<1> DEFINE H == {t \in ok : HasHypervisorSnapshots(t)}
           b == build_test_plan(prog, ok, H)
<1>0. /\ StateInv /\ PlanInv /\ pc = "delete" /\ plan.runs = <<>> /\ idx = 1
      /\ Version(prog) /\ ok \in SUBSET Selected(prog) /\ Upward(prog, ok)
      /\ status \in [1 .. 0 -> {"unknown", "passed", "failed", "skipped"}]
  <2>1. StateInv /\ PlanInv /\ pc = "delete"
    BY DEF LaunchInv, BuildPlan
  <2>2. plan.runs = <<>> /\ idx = 1
    BY <2>1 DEF PlanInv, Visiting, Running
  <2>3. Len(plan.runs) = 0
    BY <2>2
  <2> QED
    BY <2>1, <2>2, <2>3, ProgramFacts DEF StateInv, PlanInv
<1>1. Built(prog, ok, H, b)
  BY <1>0, PlanIsBuilt DEF Version
<1>2. /\ plan' = b /\ idx' = idx /\ prog' = prog /\ ok' = ok
      /\ IF b.stuck THEN pc' = "stuck" /\ status' = status
         ELSE pc' = "next" /\ status' = [i \in DOMAIN b.runs |-> "unknown"]
  BY DEF BuildPlan, launch
<1> HIDE DEF H, b
<1>3. CASE b = StuckPlan(prog, TRUE)
  <2>1. b = [stuck |-> TRUE, runs |-> <<>>, refs |-> [t \in Selected(prog) |-> {}]]
    BY <1>3 DEF StuckPlan
  <2>2. b.stuck = TRUE /\ plan' = [stuck |-> plan'.stuck, runs |-> <<>>, refs |-> plan'.refs]
    BY <1>2, <2>1
  <2>3. pc' = "stuck" /\ status' = status
    BY <1>2, <2>2
  <2> QED
    BY <1>0, <1>2, <2>2, <2>3, PlanEmpty DEF Running
<1>4. CASE b \in GoodPlans(prog, ok, H) /\ \A t \in Selected(prog) \ ok : HasRun(b, t)
  <2>1. b \in PlanSet(prog) /\ WellPlanned(prog, ok, H, b)
    BY <1>4 DEF GoodPlans
  <2>2. /\ b = [stuck |-> FALSE, runs |-> b.runs, refs |-> b.refs]
        /\ b.runs \in Seq(RunSet(prog))
    BY <2>1, PlanFacts
  <2>3. b.stuck = FALSE
    BY <2>2
  <2>4. pc' = "next" /\ status' = [i \in DOMAIN b.runs |-> "unknown"]
    BY <1>2, <2>3
  <2> DEFINE n == Len(b.runs)
  <2>5. n \in Nat /\ DOMAIN b.runs = 1 .. n
    <3> DEFINE S == RunSet(prog)
               runs == b.runs
    <3>1. runs \in Seq(S)
      BY <2>2
    <3> HIDE DEF S, runs
    <3>2. Len(runs) \in Nat /\ DOMAIN runs = 1 .. Len(runs)
      BY <3>1
    <3> QED
      BY <3>2 DEF runs
  <2> HIDE DEF n
  <2>6. status' \in [1 .. n -> {"unknown", "passed", "failed", "skipped"}]
        /\ \A i \in 1 .. n : status'[i] = "unknown"
    BY <2>4, <2>5
  <2>7. ASSUME NEW j \in 1 .. n
        PROVE  /\ b.runs[j].parents \subseteq 1 .. j - 1
               /\ \A q \in ParentSet(prog, b.runs[j].test) :
                     q \in ok \/ \E i \in b.runs[j].parents : b.runs[i].test = q
               /\ \A i \in 1 .. j - 1 :
                     b.runs[i].test = b.runs[j].test => prog.policy[b.runs[j].test] = "never"
    <3>1. b.runs[j].parents \subseteq 1 .. j - 1
      BY <2>1 DEF WellPlanned, LinksBack, n
    <3>2. ASSUME NEW q \in ParentSet(prog, b.runs[j].test), q \notin ok
          PROVE  \E i \in b.runs[j].parents : b.runs[i].test = q
      BY <2>1, <3>2 DEF WellPlanned, HasParents, HasParent, LastRun, n
    <3>3. \A i \in 1 .. j - 1 :
              b.runs[i].test = b.runs[j].test => prog.policy[b.runs[j].test] = "never"
      BY <2>1 DEF WellPlanned, NotInVain, n
    <3> QED
      BY <3>1, <3>2, <3>3
  <2>8. /\ b.runs \in Seq([test : Selected(prog), parents : SUBSET Nat])
        /\ b = [stuck |-> b.stuck, runs |-> b.runs, refs |-> b.refs]
    BY <2>2, <2>3 DEF RunSet
  <2>9. PlanInv'
    <3>1. \A i \in 1 .. n : status'[i] = "unknown" <=> i >= 1
      BY <2>5, <2>6
    <3> QED
      BY <1>0, <1>2, <2>4, <2>5, <2>6, <2>7, <2>8, <3>1 DEF PlanInv, Policy, Visiting, Running, n
  <2>10. \A t \in Selected(prog) \ ok : \E i \in 1 .. Len(plan'.runs) : plan'.runs[i].test = t
    BY <1>2, <1>4 DEF HasRun
  <2> QED
    BY <1>0, <1>2, <2>9, <2>10
<1> QED
  BY <1>1, <1>3, <1>4 DEF Built

\* Each step keeps the plan in order.
LEMMA PlanStep ==
    ASSUME UsualProjects, LaunchInv, Next
    PROVE  PlanInv'
<1>0. StateInv /\ PlanInv
  BY DEF LaunchInv
<1> DEFINE Quiet == UNCHANGED <<prog, ok, plan, idx, status>>
           Bare == pc \notin Visiting \cup {"finished"}
<1>1. ASSUME NEW names \in Invalidated, Begin(names)
      PROVE  PlanInv'
  <2>1. Bare /\ pc' \notin {"skip"} \cup Running
    BY <1>1 DEF Begin, Visiting, Running
  <2> QED
    BY <1>0, <1>1, <2>1, PlanStaysEmpty DEF Begin
<1>2. ASSUME NEW kept \in Uncleaned, Clean(kept)
      PROVE  PlanInv'
  <2>1. Quiet /\ pc' = pc
    BY <1>2 DEF Clean
  <2> QED
    BY <1>0, <2>1, PlanSame DEF PlanInv
<1>3. ASSUME NEW c \in Controllers, DeleteSnapshots(c)
      PROVE  PlanInv'
  <2>1. Quiet /\ pc' = pc
    BY <1>3 DEF DeleteSnapshots, launch
  <2> QED
    BY <1>0, <2>1, PlanSame DEF PlanInv
<1>4. ASSUME Decline \/ RestoreThrows \/ SnapshotThrows \/ Exit \/ Kill
      PROVE  PlanInv'
  <2>1. Ended
    BY <1>4 DEF Decline, RestoreThrows, SnapshotThrows, Exit, Kill
  <2>2. /\ plan' = [stuck |-> FALSE, runs |-> <<>>, refs |-> <<>>] /\ idx' = 1 /\ status' = <<>>
        /\ pc' = "idle"
    BY <2>1 DEF Ended, NothingDone
  <2>3. plan' = [stuck |-> plan'.stuck, runs |-> <<>>, refs |-> plan'.refs]
    BY <2>2
  <2>4. status' \in [1 .. 0 -> {"unknown", "passed", "failed", "skipped"}]
    BY <2>2
  <2> QED
    BY <2>2, <2>3, <2>4, PlanEmpty DEF Running
<1>5. CASE CheckCache
  <2>1. Bare /\ pc' \notin {"skip"} \cup Running
    BY <1>5 DEF CheckCache, Visiting, Running
  <2> QED
    BY <1>0, <1>5, <2>1, PlanStaysEmpty DEF CheckCache
<1>6. CASE BuildPlan
  BY <1>6, BuiltPlan
<1>7. CASE NextRun
  <2>1. /\ plan' = [plan EXCEPT !.refs = RemainingRefs] /\ idx <= Len(plan.runs)
        /\ pc = "next" /\ pc' \in {"skip", "restore"} /\ UNCHANGED <<prog, ok, idx, status>>
    BY <1>7 DEF NextRun, launch
  <2>2. plan = [stuck |-> plan.stuck, runs |-> plan.runs, refs |-> plan.refs]
    BY <1>0 DEF PlanInv
  <2>3. plan' = [stuck |-> plan.stuck, runs |-> plan.runs, refs |-> RemainingRefs]
    BY <2>1, <2>2
  <2> HIDE DEF Quiet
  <2>4. plan'.runs = plan.runs /\ plan' = [stuck |-> plan'.stuck, runs |-> plan'.runs, refs |-> plan'.refs]
    BY <2>3
  <2> QED
    BY <1>0, <2>1, <2>4 DEF PlanInv, Policy, Visiting, Running
<1>8. ASSUME \/ ParentsRestored \/ NetworksCreated \/ ResumeParents \/ TemporariesDropped
             \/ \E n \in Networks : CreateNetwork(n)
             \/ \E on \in BOOLEAN : CommandsPass(on)
      PROVE  PlanInv'
  <2>1. Quiet /\ pc \in Running /\ pc' \in Running
    BY <1>8 DEF ParentsRestored, NetworksCreated, ResumeParents, TemporariesDropped, CreateNetwork,
                CommandsPass, launch, Running
  <2>2. idx <= Len(plan.runs)
    BY <1>0, <2>1 DEF PlanInv
  <2> QED
    BY <1>0, <2>1, <2>2, PlanSame DEF Visiting
<1>9. ASSUME NEW q \in Names, NEW c \in Controllers,
             DropTemporary(q, c) \/ RestoreParent(q, c)
      PROVE  PlanInv'
  <2>1. Quiet /\ pc' = pc
    BY <1>9 DEF DropTemporary, RestoreParent, launch
  <2> QED
    BY <1>0, <2>1, PlanSame DEF PlanInv
<1>10. ASSUME Skipped \/ CommandsFail \/ Passed
       PROVE  PlanInv'
  <2>1. /\ UNCHANGED <<prog, ok, plan>> /\ idx' = idx + 1 /\ pc' = "next"
        /\ pc \in {"skip"} \cup Running
        /\ \E x \in {"passed", "failed", "skipped"} : status' = [status EXCEPT ![idx] = x]
    BY <1>10 DEF Skipped, CommandsFail, Passed, launch, Running
  <2>2. idx <= Len(plan.runs)
    BY <1>0, <2>1 DEF PlanInv
  <2> QED
    BY <1>0, <2>1, <2>2, PlanMoves
<1>11. CASE Finish
  <2>1. Quiet /\ pc' = "finished"
    BY <1>11 DEF Finish, launch
  <2> QED
    BY <1>0, <2>1, PlanSame DEF Visiting, Running
<1>12. ASSUME NEW c \in Controllers, InstallController(c) \/ TakeSnapshot(c)
       PROVE  PlanInv'
  <2>1. Quiet /\ pc' = pc
    BY <1>12 DEF InstallController, TakeSnapshot, launch
  <2> QED
    BY <1>0, <2>1, PlanSame DEF PlanInv
<1> QED
  BY <1>1, <1>2, <1>3, <1>4, <1>5, <1>6, <1>7, <1>8, <1>9, <1>10, <1>11, <1>12 DEF Next, Prepare, Visit

----------------------------------------------------------------------------
(* What the runs leave as it was                                           *)

\* A step loses none of what is known of controller c.
Keeps(c) ==
    /\ IsRelevant(prog, made, snaps, c) => IsRelevant(prog, made', snaps', c)
    /\ \A t \in Selected(prog) \cap DOMAIN snaps'[c] :
          Matches(prog, snaps, c, t) \/ t \notin DOMAIN snaps[c] => Matches(prog, snaps', c, t)
    /\ \A q \in Done : c \in Ctrl(prog, q) => q \in DOMAIN snaps'[c]

\* The tests whose state can be had are selected.
LEMMA DoneSelected ==
    ASSUME StateInv, PlanInv, VisitInv, pc \in Visiting
    PROVE  Done \subseteq Selected(prog)
<1> DEFINE runs == plan.runs
           S == [test : Selected(prog), parents : SUBSET Nat]
<1>1. runs \in Seq(S) /\ ok \subseteq Selected(prog) /\ \A i \in 1 .. idx - 1 : i <= Len(runs)
  BY DEF StateInv, PlanInv, VisitInv
<1>2. idx \in Nat
  BY DEF PlanInv
<1> HIDE DEF runs, S
<1>3. \A i \in 1 .. idx - 1 : runs[i] \in S
  BY <1>1, <1>2
<1>4. \A i \in 1 .. idx - 1 : plan.runs[i].test \in Selected(prog)
  BY <1>3 DEF runs, S
<1> QED
  BY <1>1, <1>4 DEF Done

\* A controller that is not touched.
LEMMA KeepsSame ==
    ASSUME VisitInv, pc \in Visiting, NEW c, made'[c] = made[c], snaps'[c] = snaps[c]
    PROVE  Keeps(c)
<1>1. IsRelevant(prog, made, snaps, c) => IsRelevant(prog, made', snaps', c)
  BY DEF IsRelevant
<1>2. \A t \in Selected(prog) \cap DOMAIN snaps'[c] :
          Matches(prog, snaps, c, t) \/ t \notin DOMAIN snaps[c] => Matches(prog, snaps', c, t)
  BY DEF Matches
<1>3. \A q \in Done : c \in Ctrl(prog, q) => q \in DOMAIN snaps'[c]
  BY DEF VisitInv
<1> QED
  BY <1>1, <1>2, <1>3 DEF Keeps

\* A test that is done has, where its snapshot is not of its present version, no run
\* that takes another.
LEMMA DoneIsKept ==
    ASSUME UsualProjects, LaunchInv, pc = "snapshot", NEW c \in pending, Test \in Done
    PROVE  Matches(prog, snaps, c, Test) \/ Kept(c)
<1>0. StateInv /\ PlanInv /\ OkInv /\ VisitInv /\ RunInv
  BY DEF LaunchInv
<1>1. /\ idx \in 1 .. Len(plan.runs) /\ Test = plan.runs[idx].test /\ c \in Ctrl(prog, Test)
  BY <1>0, PresentRun DEF PlanInv, RunInv, Running
<1>2. Test \in DOMAIN snaps[c]
  BY <1>0, <1>1 DEF VisitInv, Visiting, Running
<1>3. CASE Test \in ok
  <2>1. Stored(prog, made, snaps, Test)
    BY <1>0, <1>3 DEF OkInv, Visiting, Running
  <2> QED
    BY <1>1, <2>1 DEF Stored
<1>4. CASE Test \notin ok
  <2>1. PICK i \in 1 .. idx - 1 : plan.runs[i].test = Test
    BY <1>4 DEF Done
  <2>2. Policy(Test) = "never"
    BY <1>0, <1>1, <2>1 DEF PlanInv
  <2>3. ~is_hypervisor_snapshot_needed(Test)
    BY <2>2 DEF is_hypervisor_snapshot_needed
  <2> QED
    BY <1>2, <2>3 DEF Kept, has_snapshot
<1> QED
  BY <1>3, <1>4

\* Nor does any step of a visit.
LEMMA VisitKeeps ==
    ASSUME UsualProjects, LaunchInv, pc \in Visiting, Next
    PROVE  \A c \in Controllers : Keeps(c)
<1>0. /\ StateInv /\ DiskInv /\ PlanInv /\ OkInv /\ VisitInv /\ RunInv
      /\ DOMAIN made = Controllers /\ DOMAIN snaps = Controllers
      /\ Version(prog) /\ Ordered(prog) /\ Initial \notin Names /\ Selected(prog) \subseteq Names
      /\ project \in DOMAIN Projects /\ prog \in Versions(project)
  BY ProgramFacts DEF LaunchInv, StateInv
<1>1. ASSUME NEW c \in Controllers, made'[c] = made[c], snaps'[c] = snaps[c]
      PROVE  Keeps(c)
  BY <1>0, <1>1, KeepsSame
<1>2. CASE made' = made /\ snaps' = snaps
  BY <1>1, <1>2
<1>3. ASSUME NEW kept \in Uncleaned
      PROVE  ~Clean(kept)
  BY DEF Clean, Visiting, Running
<1>4. ASSUME NEW c \in Controllers
      PROVE  ~DeleteSnapshots(c)
  BY DEF DeleteSnapshots, Visiting, Running
<1>5. ASSUME NEW q \in Names, NEW d \in Controllers, DropTemporary(q, d)
      PROVE  \A c \in Controllers : Keeps(c)
  <2> SUFFICES ASSUME NEW c \in Controllers PROVE Keeps(c)
    OBVIOUS
  <2> DEFINE w == WithImage(snaps[d][q], NoImage)
  <2>1. /\ made' = made /\ q \in DOMAIN snaps[d]
        /\ snaps' = [snaps EXCEPT ![d] = WithRecord(snaps[d], q, w)]
    BY <1>5 DEF DropTemporary, Temporary, has_hypervisor_snapshot, has_snapshot
  <2>2. w.cksum = snaps[d][q].cksum
    BY DEF WithImage, Record
  <2> HIDE DEF w
  <2>3. CASE c = d
    <3>1. snaps'[d] = WithRecord(snaps[d], q, w)
      BY <1>0, <2>1
    <3>2. /\ DOMAIN snaps'[d] = DOMAIN snaps[d] /\ snaps'[d][q] = w
          /\ \A s \in DOMAIN snaps[d] \ {q} : snaps'[d][s] = snaps[d][s]
      BY <2>1, <3>1 DEF WithRecord
    <3>3. \A s \in DOMAIN snaps[d] : snaps'[d][s].cksum = snaps[d][s].cksum
      BY <2>2, <3>2
    <3>4. IsRelevant(prog, made, snaps, c) => IsRelevant(prog, made', snaps', c)
      BY <2>1, <2>3, <3>2 DEF IsRelevant
    <3>5. \A t \in Selected(prog) \cap DOMAIN snaps'[c] :
              Matches(prog, snaps, c, t) \/ t \notin DOMAIN snaps[c] => Matches(prog, snaps', c, t)
      BY <2>3, <3>2, <3>3 DEF Matches
    <3>6. \A x \in Done : c \in Ctrl(prog, x) => x \in DOMAIN snaps'[c]
      BY <1>0, <2>3, <3>2 DEF VisitInv
    <3> QED
      BY <3>4, <3>5, <3>6 DEF Keeps
  <2>4. CASE c # d
    BY <1>0, <1>1, <2>1, <2>4
  <2> QED
    BY <2>3, <2>4
<1>6. ASSUME NEW d \in Controllers, InstallController(d)
      PROVE  \A c \in Controllers : Keeps(c)
  <2> SUFFICES ASSUME NEW c \in Controllers PROVE Keeps(c)
    OBVIOUS
  <2> DEFINE r == [s \in {Initial} |-> Record(<<>>, "", Image(Fresh, FALSE, FALSE), d \in Machines)]
  <2>1. \/ made' = made /\ snaps' = snaps
        \/ /\ ~Relevant(prog, d)
           /\ made' = [made EXCEPT ![d] = Config(prog, d)] /\ snaps' = [snaps EXCEPT ![d] = r]
    BY <1>6 DEF InstallController, disk
  <2>2. DOMAIN r = {Initial}
    OBVIOUS
  <2> HIDE DEF r
  <2>3. CASE c = d /\ ~Relevant(prog, d) /\ snaps'[c] = r
    <3>1. ~IsRelevant(prog, made, snaps, c)
      BY <2>3 DEF IsRelevant, Relevant, has_snapshot
    <3>2. \A t \in Selected(prog) \cap DOMAIN snaps'[c] : FALSE
      BY <1>0, <2>2, <2>3
    <3>3. \A q \in Done : c \notin Ctrl(prog, q)
      BY <1>0, <3>1 DEF VisitInv
    <3> QED
      BY <3>1, <3>2, <3>3 DEF Keeps
  <2>4. \/ made'[c] = made[c] /\ snaps'[c] = snaps[c]
        \/ c = d /\ ~Relevant(prog, d) /\ snaps'[c] = r
    BY <1>0, <2>1
  <2> QED
    BY <1>1, <2>3, <2>4
<1>7. ASSUME NEW d \in Controllers, TakeSnapshot(d)
      PROVE  \A c \in Controllers : Keeps(c)
  <2> SUFFICES ASSUME NEW c \in Controllers PROVE Keeps(c)
    OBVIOUS
  <2> DEFINE needed == is_hypervisor_snapshot_needed(Test)
             k == create_snapshot(d, Test, needed)
  <2>1. /\ made' = made /\ pc = "snapshot" /\ d \in pending
        /\ \/ snaps' = snaps
           \/ ~Kept(d) /\ snaps' = [snaps EXCEPT ![d] = k]
    BY <1>7 DEF TakeSnapshot
  <2>2. needed \in BOOLEAN
    BY DEF is_hypervisor_snapshot_needed
  <2> HIDE DEF needed
  <2>3. CASE c = d /\ ~Kept(d) /\ snaps' = [snaps EXCEPT ![d] = k]
    <3>1. /\ Matches(prog, [snaps EXCEPT ![d] = k], d, Test) /\ Initial \in DOMAIN k
          /\ \A s \in DOMAIN k \ {Test} : s \in DOMAIN snaps[d] /\ k[s].cksum = snaps[d][s].cksum
          /\ Matches(prog, snaps, d, Test) => DOMAIN k = DOMAIN snaps[d]
          /\ \A s \in DOMAIN snaps[d] \ DOMAIN k :
                 s \in Selected(prog) => Test \in Ancestors(prog, s)
      BY <1>0, <2>1, <2>2, TakingSnapshot
    <3> HIDE DEF k
    <3>2. snaps'[d] = k /\ Matches(prog, snaps', d, Test)
      BY <1>0, <2>3, <3>1
    <3>3. IsRelevant(prog, made, snaps, c) => IsRelevant(prog, made', snaps', c)
      BY <2>1, <2>3, <3>1, <3>2 DEF IsRelevant
    <3>4. ASSUME NEW t \in Selected(prog) \cap DOMAIN snaps'[c],
                 Matches(prog, snaps, c, t) \/ t \notin DOMAIN snaps[c]
          PROVE  Matches(prog, snaps', c, t)
      <4>1. CASE t = Test
        BY <2>3, <3>2, <4>1
      <4>2. CASE t # Test
        <5>1. t \in DOMAIN snaps[d] /\ k[t].cksum = snaps[d][t].cksum
          BY <2>3, <3>1, <3>2, <4>2
        <5> QED
          BY <2>3, <3>2, <3>4, <5>1 DEF Matches
      <4> QED
        BY <4>1, <4>2
    <3>5. ASSUME NEW q \in Done, c \in Ctrl(prog, q)
          PROVE  q \in DOMAIN snaps'[c]
      <4>1. q \in DOMAIN snaps[d] /\ Upward(prog, Done)
        BY <1>0, <2>3, <3>5 DEF VisitInv
      <4>2. q \in Selected(prog)
        BY <1>0, DoneSelected
      <4> SUFFICES ASSUME q \notin DOMAIN k PROVE FALSE
        BY <2>3, <3>2
      <4>3. Test \in Ancestors(prog, q)
        BY <3>1, <4>1, <4>2
      <4>4. Test \in Done
        <5>1. Done \in SUBSET Selected(prog)
          BY <1>0, DoneSelected
        <5>2. Ancestors(prog, q) \subseteq Done
          BY <4>1, <4>2, <5>1, AncestorsIn
        <5> QED
          BY <4>3, <5>2
      <4>5. Matches(prog, snaps, d, Test)
        BY <2>1, <2>3, <4>4, DoneIsKept
      <4> QED
        BY <3>1, <4>1, <4>5
    <3> QED
      BY <3>3, <3>4, <3>5 DEF Keeps
  <2>4. \/ made'[c] = made[c] /\ snaps'[c] = snaps[c]
        \/ c = d /\ ~Kept(d) /\ snaps' = [snaps EXCEPT ![d] = k]
    BY <1>0, <2>1
  <2> QED
    BY <1>1, <2>3, <2>4
<1> QED
  BY <1>2, <1>3, <1>4, <1>5, <1>6, <1>7, DiskChanges

----------------------------------------------------------------------------
(* The other parts of the invariant                                        *)

\* What a launch knows but for the plan is set when it checks the cache, and forgotten
\* at its end.
LEMMA LaunchKnows ==
    ASSUME Next
    PROVE  \/ \E names \in Invalidated : Begin(names)
           \/ pc' = "idle" /\ ok' = {}
           \/ CheckCache
           \/ prog' = prog /\ ok' = ok /\ (pc' \in {"delete"} \cup Visiting => pc \in {"delete"} \cup Visiting)
           \/ \E kept \in Uncleaned : Clean(kept)
<1> DEFINE Same == /\ prog' = prog /\ ok' = ok
                   /\ pc' \in {"delete"} \cup Visiting => pc \in {"delete"} \cup Visiting
<1>1. Decline \/ RestoreThrows \/ SnapshotThrows \/ Exit \/ Kill => pc' = "idle" /\ ok' = {}
  BY DEF Decline, RestoreThrows, SnapshotThrows, Exit, Kill, Ended, NothingDone
<1>2. ASSUME NEW c \in Controllers, DeleteSnapshots(c) \/ InstallController(c) \/ TakeSnapshot(c)
      PROVE  Same
  BY <1>2 DEF DeleteSnapshots, InstallController, TakeSnapshot, launch
<1>3. ASSUME NEW q \in Names, NEW c \in Controllers, DropTemporary(q, c) \/ RestoreParent(q, c)
      PROVE  Same
  BY <1>3 DEF DropTemporary, RestoreParent, launch
<1>4. ASSUME NEW n \in Networks, CreateNetwork(n)
      PROVE  Same
  BY <1>4 DEF CreateNetwork, launch
<1>5. ASSUME NEW on \in BOOLEAN, CommandsPass(on)
      PROVE  Same
  BY <1>5 DEF CommandsPass, launch, Visiting, Running
<1>6. ASSUME BuildPlan \/ NextRun \/ Skipped \/ ParentsRestored \/ NetworksCreated \/ ResumeParents
      PROVE  Same
  BY <1>6 DEF BuildPlan, NextRun, Skipped, ParentsRestored, NetworksCreated, ResumeParents, launch,
              Visiting, Running
<1>7. ASSUME CommandsFail \/ TemporariesDropped \/ Passed \/ Finish
      PROVE  Same
  BY <1>7 DEF CommandsFail, TemporariesDropped, Passed, Finish, launch, Visiting, Running
<1> HIDE DEF Same
<1>8. Next => \/ \E names \in Invalidated : Begin(names)
              \/ pc' = "idle" /\ ok' = {}
              \/ CheckCache
              \/ Same
              \/ \E kept \in Uncleaned : Clean(kept)
  BY <1>1, <1>2, <1>3, <1>4, <1>5, <1>6, <1>7 DEF Next, Prepare, Visit
<1> QED
  BY <1>8 DEF Same

\* The deletion of the snapshots of an uncached test loses none of the cached.
LEMMA DeletionKeeps ==
    ASSUME UsualProjects, LaunchInv, pc = "delete", NEW d \in Controllers, DeleteSnapshots(d),
           NEW t \in ok
    PROVE  Stored(prog, made', snaps', t)
<1>0. /\ StateInv /\ DiskInv /\ Stored(prog, made, snaps, t)
      /\ DOMAIN snaps = Controllers
      /\ Ordered(prog) /\ Initial \notin Names /\ Selected(prog) \subseteq Names
      /\ project \in DOMAIN Projects /\ prog \in Versions(project)
      /\ t \in Selected(prog) /\ Upward(prog, ok)
      /\ ok \in SUBSET Selected(prog)
  BY ProgramFacts DEF LaunchInv, StateInv, OkInv
<1> DEFINE a == Head(queue)
<1>1. a \in Selected(prog) \ ok
  <2> DEFINE S == Selected(prog) \ ok
  <2>1. queue \in Seq(S) /\ queue # <<>>
    BY DEF LaunchInv, DeleteInv, DeleteSnapshots
  <2> HIDE DEF S
  <2>2. a \in S
    BY <2>1
  <2> QED
    BY <2>2 DEF S
<1> HIDE DEF a
<1>2. /\ made' = made
      /\ \/ snaps' = snaps
         \/ a \in DOMAIN snaps[d] /\ snaps' = [snaps EXCEPT ![d] = delete_snapshot_with_children(d, a)]
  BY DEF DeleteSnapshots, has_snapshot, a
<1>3. CASE snaps' = snaps
  BY <1>0, <1>2, <1>3
<1>4. CASE a \in DOMAIN snaps[d] /\ snaps' = [snaps EXCEPT ![d] = delete_snapshot_with_children(d, a)]
  <2>1. /\ snaps'[d] = Pruned(snaps[d], a)
        /\ \A c \in Controllers \ {d} : snaps'[c] = snaps[c]
    BY <1>0, <1>4, DeletionPrunes
  <2>2. Column(project, d, made[d], snaps[d])
    BY <1>0 DEF DiskInv
  <2>3. a # Initial
    BY <1>0, <1>1
  <2>4. Initial \notin Below(snaps[d], a)
    BY <1>0, <1>4, <2>2, <2>3, Pruning
  <2>5. t \notin Below(snaps[d], a)
    <3> SUFFICES ASSUME t \in Below(snaps[d], a) PROVE FALSE
      OBVIOUS
    <3>1. a \in Ancestors(prog, t)
      BY <1>0, <1>4, <2>2, <2>3, Pruning
    <3>2. Ancestors(prog, t) \subseteq ok
      BY <1>0, AncestorsIn
    <3> QED
      BY <1>1, <3>1, <3>2
  <2>6. /\ DOMAIN snaps'[d] = DOMAIN snaps[d] \ Below(snaps[d], a)
        /\ \A s \in DOMAIN snaps'[d] : snaps'[d][s] = snaps[d][s]
    BY <2>1 DEF Pruned
  <2>7. ASSUME NEW c \in Ctrl(prog, t)
        PROVE  IsRelevant(prog, made', snaps', c) /\ Matches(prog, snaps', c, t)
    <3>1. IsRelevant(prog, made, snaps, c) /\ Matches(prog, snaps, c, t) /\ c \in Controllers
      BY <1>0, ProgramFacts DEF Stored
    <3>2. CASE c # d
      BY <1>2, <2>1, <3>1, <3>2 DEF IsRelevant, Matches
    <3>3. CASE c = d
      BY <1>2, <2>4, <2>5, <2>6, <3>1, <3>3 DEF IsRelevant, Matches
    <3> QED
      BY <3>2, <3>3
  <2> QED
    BY <2>7 DEF Stored
<1> QED
  BY <1>2, <1>3, <1>4

\* Each step leaves what is taken for up to date passed and stored.
LEMMA OkStep ==
    ASSUME UsualProjects, LaunchInv, Next
    PROVE  OkInv'
<1>0. /\ StateInv /\ PlanInv /\ OkInv /\ VisitInv /\ Sound(project, made, snaps, passed)
      /\ project \in DOMAIN Projects /\ prog \in Versions(project) /\ passed \subseteq passed'
      /\ Ordered(prog) /\ Selected(prog) \subseteq Names
  BY ProgramFacts, PassedStays DEF LaunchInv, StateInv
<1>1. ASSUME ok' = {}
      PROVE  OkInv'
  BY <1>1 DEF OkInv, CacheSound
<1>2. ASSUME NEW names \in Invalidated, Begin(names)
      PROVE  OkInv'
  BY <1>0, <1>1, <1>2 DEF Begin, StateInv
<1>3. ASSUME NEW kept \in Uncleaned, Clean(kept)
      PROVE  OkInv'
  BY <1>0, <1>1, <1>3 DEF Clean, StateInv
<1>4. CASE CheckCache
  <2>1. ok' = is_cache_ok(prog) /\ UNCHANGED <<made, snaps, prog>>
    BY <1>4 DEF CheckCache, disk, launch
  <2>2. ok' \subseteq Cached(prog, made, snaps)
    BY <1>0, <2>1, OkIsStored
  <2>3. \A t \in ok' : <<t, Lineage(prog)[t]>> \in passed'
    BY <1>0, <2>2 DEF Sound
  <2>4. \A t \in ok' : Stored(prog, made, snaps, t)
    BY <1>0, <2>2, AncestorFacts DEF Cached
  <2> QED
    BY <2>1, <2>3, <2>4 DEF OkInv, CacheSound
<1>5. CASE prog' = prog /\ ok' = ok /\ (pc' \in {"delete"} \cup Visiting => pc \in {"delete"} \cup Visiting)
  <2>1. \A t \in ok' : <<t, Lineage(prog')[t]>> \in passed'
    BY <1>0, <1>5 DEF OkInv, CacheSound
  <2>2. ASSUME pc \in {"delete"} \cup Visiting, NEW t \in ok
        PROVE  Stored(prog, made', snaps', t)
    <3>1. Stored(prog, made, snaps, t) /\ t \in Selected(prog)
      BY <1>0, <2>2 DEF OkInv, StateInv
    <3>2. CASE pc \in Visiting
      <4>1. ASSUME NEW c \in Ctrl(prog, t)
            PROVE  IsRelevant(prog, made', snaps', c) /\ Matches(prog, snaps', c, t)
        <5>1. c \in Controllers
          BY <1>0, <3>1, ProgramFacts
        <5>2. Keeps(c)
          BY <3>2, <5>1, VisitKeeps
        <5>3. IsRelevant(prog, made, snaps, c) /\ Matches(prog, snaps, c, t)
          BY <3>1 DEF Stored
        <5>4. t \in Done
          BY DEF Done
        <5> QED
          BY <3>1, <5>2, <5>3, <5>4 DEF Keeps
      <4> QED
        BY <4>1 DEF Stored
    <3>3. CASE pc = "delete"
      <4>1. ASSUME NEW kept \in Uncleaned
            PROVE  ~Clean(kept)
        BY <3>3 DEF Clean
      <4>2. ASSUME NEW q \in Names, NEW c \in Controllers
            PROVE  ~DropTemporary(q, c)
        BY <3>3 DEF DropTemporary
      <4>3. ASSUME NEW c \in Controllers
            PROVE  ~InstallController(c) /\ ~TakeSnapshot(c)
        BY <3>3 DEF InstallController, TakeSnapshot
      <4>4. CASE made' = made /\ snaps' = snaps
        BY <3>1, <4>4
      <4>5. ASSUME NEW c \in Controllers, DeleteSnapshots(c)
            PROVE  Stored(prog, made', snaps', t)
        BY <3>3, <4>5, DeletionKeeps
      <4> QED
        BY <4>1, <4>2, <4>3, <4>4, <4>5, DiskChanges
    <3> QED
      BY <2>2, <3>2, <3>3
  <2> QED
    BY <1>5, <2>1, <2>2 DEF OkInv, CacheSound
<1> QED
  BY <1>1, <1>2, <1>3, <1>4, <1>5, LaunchKnows

\* The steps that set the queue or that leave it to be.
LEMMA QueueSteps ==
    ASSUME Next, pc' \in {"invalidate", "delete"}
    PROVE  \/ \E names \in Invalidated : Begin(names)
           \/ CheckCache
           \/ \E c \in Controllers : DeleteSnapshots(c)
<1>1. \A kept \in Uncleaned : Clean(kept) => pc' = "idle"
  BY DEF Clean
<1>2. Decline \/ RestoreThrows \/ SnapshotThrows \/ Exit \/ Kill => pc' = "idle"
  BY DEF Decline, RestoreThrows, SnapshotThrows, Exit, Kill, Ended
<1>3. BuildPlan \/ NextRun \/ Skipped \/ ParentsRestored \/ NetworksCreated \/ ResumeParents
      => pc' \notin {"invalidate", "delete"}
  BY DEF BuildPlan, NextRun, Skipped, ParentsRestored, NetworksCreated, ResumeParents
<1>4. CommandsFail \/ TemporariesDropped \/ Passed \/ Finish => pc' \notin {"invalidate", "delete"}
  BY DEF CommandsFail, TemporariesDropped, Passed, Finish
<1>5. ASSUME NEW q \in Names, NEW c \in Controllers, DropTemporary(q, c) \/ RestoreParent(q, c)
      PROVE  pc' \notin {"invalidate", "delete"}
  BY <1>5 DEF DropTemporary, RestoreParent
<1>6. ASSUME NEW c \in Controllers, InstallController(c) \/ TakeSnapshot(c)
      PROVE  pc' \notin {"invalidate", "delete"}
  BY <1>6 DEF InstallController, TakeSnapshot
<1>7. ASSUME NEW n \in Networks, CreateNetwork(n)
      PROVE  pc' \notin {"invalidate", "delete"}
  BY <1>7 DEF CreateNetwork
<1>8. ASSUME NEW on \in BOOLEAN, CommandsPass(on)
      PROVE  pc' \notin {"invalidate", "delete"}
  BY <1>8 DEF CommandsPass
<1> QED
  BY <1>1, <1>2, <1>3, <1>4, <1>5, <1>6, <1>7, <1>8 DEF Next, Prepare, Visit

\* The deletion of a queue's first test on one controller goes on to the next.
LEMMA DeleteStep ==
    ASSUME UsualProjects, LaunchInv, Next
    PROVE  DeleteInv'
<1>0. /\ StateInv /\ DiskInv /\ DeleteInv
      /\ DOMAIN snaps = Controllers
      /\ Ordered(prog) /\ ChildrenKnown(prog) /\ prog.tests \in Seq(Selected(prog))
      /\ Selected(prog) \subseteq Names /\ Initial \notin Names
      /\ project \in DOMAIN Projects /\ prog \in Versions(project)
      /\ \A t \in Selected(prog) : Controls(t) = Ctrl(prog, t) /\ Ctrl(prog, t) \subseteq Controllers
  BY ProgramFacts DEF LaunchInv, StateInv
<1>1. CASE pc' \notin {"invalidate", "delete"}
  BY <1>1 DEF DeleteInv
<1>2. ASSUME NEW names \in Invalidated, Begin(names)
      PROVE  DeleteInv'
  <2>1. pc' = "invalidate" /\ pending' = Controllers
    BY <1>2 DEF Begin
  <2> QED
    BY <2>1 DEF DeleteInv
<1>3. CASE CheckCache
  <2>1. /\ pc = "invalidate" /\ queue = <<>> /\ pc' = "delete" /\ prog' = prog /\ pending' = pending
        /\ ok' = is_cache_ok(prog) /\ queue' = get_topmost_uncached_tests(prog, ok')
    BY <1>3 DEF CheckCache, launch
  <2>2. pending = Controllers
    BY <1>0, <2>1 DEF DeleteInv
  <2>3. ok' \in SUBSET Selected(prog) /\ Upward(prog, ok')
    BY <1>0, <2>1, OkIsStored
  <2> DEFINE q == get_topmost_uncached_tests(prog, ok')
  <2>4. /\ q \in Seq(Selected(prog) \ ok')
        /\ Topmost(prog, ok') \subseteq ToSet(q)
    BY <1>0, <2>3, TopUncached
  <2> HIDE DEF q
  <2>5. queue' = q
    BY <2>1 DEF q
  <2>6. q # <<>> => Head(q) \in Selected(prog)
    <3> DEFINE S == Selected(prog) \ ok'
    <3> HIDE DEF S
    <3>1. q \in Seq(S)
      BY <2>4 DEF S
    <3>2. q # <<>> => Head(q) \in S
      BY <3>1
    <3> QED
      BY <3>2 DEF S
  <2>7. q # <<>> => Ctrl(prog, Head(q)) \ Controllers = {}
    BY <1>0, <2>6
  <2> QED
    BY <2>1, <2>2, <2>4, <2>5, <2>7 DEF DeleteInv
<1>4. ASSUME NEW d \in Controllers, DeleteSnapshots(d)
      PROVE  DeleteInv'
  <2> DEFINE t == Head(queue)
  <2>1. /\ queue # <<>> /\ d \in pending /\ pc' = pc /\ prog' = prog /\ ok' = ok /\ made' = made
        /\ \/ pending = {d} /\ queue' = Tail(queue) /\ pending' = Controllers
           \/ pending # {d} /\ queue' = queue /\ pending' = pending \ {d}
        /\ snaps' = IF d \in Controls(t) /\ made[d] # Nothing /\ has_snapshot(d, t)
                    THEN [snaps EXCEPT ![d] = delete_snapshot_with_children(d, t)]
                    ELSE snaps
    BY <1>4 DEF DeleteSnapshots, launch
  <2>2. queue' = <<>> => pending' = Controllers
    BY <2>1
  <2>3. CASE pc # "delete"
    BY <2>1, <2>2, <2>3 DEF DeleteInv
  <2>4. CASE pc = "delete"
    <3> DEFINE S == Selected(prog) \ ok
    <3>1. /\ queue \in Seq(S)
          /\ \A a \in Topmost(prog, ok) \ ToSet(queue) : \A c \in Ctrl(prog, a) : a \notin DOMAIN snaps[c]
          /\ \A c \in Ctrl(prog, t) \ pending : t \notin DOMAIN snaps[c]
      BY <1>0, <2>1, <2>4 DEF DeleteInv
    <3>2. t \in S /\ Tail(queue) \in Seq(S) /\ ToSet(queue) \subseteq {t} \cup ToSet(Tail(queue))
      <4> HIDE DEF S
      <4>1. queue \in Seq(S) /\ queue # <<>>
        BY <2>1, <3>1
      <4>2. t \in S /\ Tail(queue) \in Seq(S) /\ Len(Tail(queue)) = Len(queue) - 1 /\ Len(queue) \in Nat
        BY <4>1
      <4>3. ASSUME NEW x \in ToSet(queue), x # t
            PROVE  x \in ToSet(Tail(queue))
        <5>1. PICK i \in 1 .. Len(queue) : queue[i] = x
          BY <4>1 DEF ToSet
        <5>2. i # 1 /\ i - 1 \in 1 .. Len(Tail(queue)) /\ Tail(queue)[i - 1] = x
          BY <4>1, <4>2, <4>3, <5>1
        <5> QED
          BY <4>2, <5>2, ElementsOfSeq
      <4> QED
        BY <4>2, <4>3
    <3> HIDE DEF t
    <3>3. t \in Selected(prog) /\ t # Initial
      BY <1>0, <3>2
    <3>4. Column(project, d, made[d], snaps[d])
      BY <1>0 DEF DiskInv
    <3>5. ASSUME d \in Ctrl(prog, t)
          PROVE  t \notin DOMAIN snaps'[d]
      <4>1. CASE t \in DOMAIN snaps[d]
        <5>1. made[d] # Nothing
          BY <3>4, <4>1 DEF Column
        <5>2. snaps'[d] = Pruned(snaps[d], t)
          BY <1>0, <2>1, <3>3, <3>5, <4>1, <5>1, DeletionPrunes DEF has_snapshot
        <5>3. t \in Below(snaps[d], t)
          BY <1>0, <3>3, <3>4, <4>1, Pruning
        <5> QED
          BY <5>2, <5>3 DEF Pruned
      <4>2. CASE t \notin DOMAIN snaps[d]
        BY <2>1, <4>2 DEF has_snapshot
      <4> QED
        BY <4>1, <4>2
    <3>6. \A c \in Controllers : DOMAIN snaps'[c] \subseteq DOMAIN snaps[c]
      <4> TAKE c \in Controllers
      <4>1. snaps'[c] = snaps[c] \/ snaps'[c] = Pruned(snaps[c], t)
        BY <1>0, <2>1, DeletionPrunes
      <4>2. DOMAIN Pruned(snaps[c], t) \subseteq DOMAIN snaps[c]
        BY DEF Pruned
      <4> QED
        BY <4>1, <4>2
    <3>7. \A a \in Topmost(prog, ok) : a \in Selected(prog) /\ Ctrl(prog, a) \subseteq Controllers
      BY <1>0 DEF Topmost
    <3>8. \A a \in Topmost(prog, ok) \ ToSet(queue) : \A c \in Ctrl(prog, a) : a \notin DOMAIN snaps'[c]
      BY <3>1, <3>6, <3>7
    <3>9. \A c \in Ctrl(prog, t) \ (pending \ {d}) : t \notin DOMAIN snaps'[c]
      BY <1>0, <3>1, <3>3, <3>5, <3>6
    <3>10. CASE pending = {d} /\ queue' = Tail(queue) /\ pending' = Controllers
      <4>1. ASSUME NEW a \in Topmost(prog, ok) \ ToSet(queue'), NEW c \in Ctrl(prog, a)
            PROVE  a \notin DOMAIN snaps'[c]
        <5>1. CASE a \in ToSet(queue)
          BY <3>2, <3>9, <3>10, <4>1, <5>1
        <5>2. CASE a \notin ToSet(queue)
          BY <3>8, <5>2
        <5> QED
          BY <5>1, <5>2
      <4>2. queue' # <<>> => Head(queue') \in Selected(prog)
        <5> HIDE DEF S
        <5>1. queue' \in Seq(S)
          BY <3>2, <3>10
        <5>2. queue' # <<>> => Head(queue') \in S
          BY <5>1
        <5> QED
          BY <5>2 DEF S
      <4>3. queue' # <<>> => Ctrl(prog, Head(queue')) \ Controllers = {}
        BY <1>0, <4>2
      <4> QED
        BY <2>1, <2>2, <2>4, <3>2, <3>10, <4>1, <4>3 DEF DeleteInv
    <3>11. CASE pending # {d} /\ queue' = queue /\ pending' = pending \ {d}
      BY <2>1, <2>2, <2>4, <3>1, <3>8, <3>9, <3>11 DEF DeleteInv, t
    <3> QED
      BY <2>1, <3>10, <3>11
  <2> QED
    BY <2>3, <2>4
<1> QED
  BY <1>1, <1>2, <1>3, <1>4, QueueSteps

\* What can be had and the present run, while the runs stay.
LEMMA DoneSame ==
    ASSUME UNCHANGED <<ok, idx, status>>, plan'.runs = plan.runs
    PROVE  Done' = Done /\ Test' = Test /\ Run' = Run
BY DEF Done, Test, Run

\* The parents of a test whose turn it is can be had.
LEMMA ParentsDone ==
    ASSUME UsualProjects, StateInv, PlanInv, idx <= Len(plan.runs), ~SkipTest
    PROVE  ParentSet(prog, Test) \subseteq Done
<1>0. idx \in 1 .. Len(plan.runs) /\ Test = plan.runs[idx].test /\ Run = plan.runs[idx]
  BY PresentRun
<1> SUFFICES ASSUME NEW q \in ParentSet(prog, Test), q \notin ok
             PROVE  q \in Done
  BY DEF Done
<1>1. PICK i \in plan.runs[idx].parents : plan.runs[i].test = q
  BY <1>0 DEF PlanInv
<1>2. i \in 1 .. idx - 1
  BY <1>0, <1>1 DEF PlanInv
<1>3. status[i] = "passed"
  BY <1>0, <1>1 DEF SkipTest
<1> QED
  BY <1>1, <1>2, <1>3 DEF Done

\* What the steps of a visit do to the runs.
LEMMA VisitSteps ==
    ASSUME Next, pc' \in Visiting
    PROVE  \/ BuildPlan
           \/ NextRun
           \/ Skipped \/ CommandsFail
           \/ Passed
           \/ /\ UNCHANGED <<prog, ok, plan, idx, status>> /\ pc' # "next"
              /\ pc \in Visiting /\ (pc' \in Running => pc \in Running)
<1> DEFINE Same == /\ UNCHANGED <<prog, ok, plan, idx, status>> /\ pc' # "next"
                   /\ pc \in Visiting /\ (pc' \in Running => pc \in Running)
<1>1. ASSUME NEW names \in Invalidated
      PROVE  ~Begin(names)
  BY DEF Begin, Visiting, Running
<1>2. ASSUME NEW kept \in Uncleaned
      PROVE  ~Clean(kept)
  BY DEF Clean, Visiting, Running
<1>3. ASSUME NEW c \in Controllers
      PROVE  ~DeleteSnapshots(c)
  BY DEF DeleteSnapshots, Visiting, Running
<1>4. ~Decline /\ ~RestoreThrows /\ ~SnapshotThrows /\ ~Exit /\ ~Kill /\ ~CheckCache /\ ~Finish
  BY DEF Decline, RestoreThrows, SnapshotThrows, Exit, Kill, Ended, CheckCache, Finish, Visiting, Running
<1>5. ASSUME NEW q \in Names, NEW c \in Controllers, DropTemporary(q, c) \/ RestoreParent(q, c)
      PROVE  Same
  BY <1>5 DEF DropTemporary, RestoreParent, launch, Visiting, Running
<1>6. ASSUME NEW c \in Controllers, InstallController(c) \/ TakeSnapshot(c)
      PROVE  Same
  BY <1>6 DEF InstallController, TakeSnapshot, launch, Visiting, Running
<1>7. ASSUME NEW n \in Networks, CreateNetwork(n)
      PROVE  Same
  BY <1>7 DEF CreateNetwork, launch, Visiting, Running
<1>8. ASSUME NEW on \in BOOLEAN, CommandsPass(on)
      PROVE  Same
  BY <1>8 DEF CommandsPass, launch, Visiting, Running
<1>9. ASSUME ParentsRestored \/ NetworksCreated \/ ResumeParents \/ TemporariesDropped
      PROVE  Same
  BY <1>9 DEF ParentsRestored, NetworksCreated, ResumeParents, TemporariesDropped, launch, Visiting,
              Running
<1> HIDE DEF Same
<1>10. BuildPlan \/ NextRun \/ Skipped \/ CommandsFail \/ Passed \/ Same
  BY <1>1, <1>2, <1>3, <1>4, <1>5, <1>6, <1>7, <1>8, <1>9 DEF Next, Prepare, Visit
<1> QED
  BY <1>10 DEF Same

\* When the plan is made no uncached test has a snapshot on all its controllers.
LEMMA UncachedAreGone ==
    ASSUME UsualProjects, LaunchInv, pc = "delete", queue = <<>>, NEW t \in Selected(prog) \ ok
    PROVE  \E c \in Ctrl(prog, t) : t \notin DOMAIN snaps[c]
<1>0. /\ StateInv /\ DiskInv /\ DeleteInv /\ Version(prog) /\ Ordered(prog)
      /\ project \in DOMAIN Projects /\ prog \in Versions(project)
  BY ProgramFacts DEF LaunchInv
<1>1. /\ t \in Ancestors(prog, t) /\ Ancestors(prog, t) \subseteq Selected(prog)
      /\ Upward(prog, Ancestors(prog, t))
  BY <1>0, AncestorFacts
<1> DEFINE S == Ancestors(prog, t) \ ok
<1>2. PICK a \in S : ParentSet(prog, a) \cap S = {}
  <2>1. S \in SUBSET Selected(prog) /\ S # {}
    BY <1>1
  <2> HIDE DEF S
  <2> QED
    BY <1>0, <2>1 DEF Ordered, Hierarchy
<1>3. ParentSet(prog, a) \subseteq ok
  BY <1>1, <1>2 DEF Upward
<1>4. a \in Topmost(prog, ok)
  BY <1>1, <1>2, <1>3 DEF Topmost
<1>5. ToSet(queue) = {}
  BY DEF ToSet
<1>6. \A c \in Ctrl(prog, a) : a \notin DOMAIN snaps[c]
  BY <1>0, <1>4, <1>5 DEF DeleteInv
<1>7. PICK c \in Ctrl(prog, a) : TRUE
  BY <1>0, <1>1, <1>2 DEF Version
<1>8. c \in Ctrl(prog, t)
  BY <1>0, <1>2, <1>7, AncestorsControllers DEF Ctrl
<1>9. Column(project, c, made[c], snaps[c])
  BY <1>0, <1>8 DEF DiskInv, Version
<1>10. t \notin DOMAIN snaps[c]
  BY <1>0, <1>2, <1>6, <1>7, <1>9, ColumnChain
<1> QED
  BY <1>8, <1>10

\* The end of a run that passes adds its test to what can be had, that of another nothing.
LEMMA DoneGrows ==
    ASSUME UsualProjects, StateInv, PlanInv
    PROVE  /\ Skipped \/ CommandsFail => Done' = Done
           /\ Passed => Done' = Done \cup {Test}
<1>1. ASSUME NEW x, UNCHANGED <<ok, plan>>, idx' = idx + 1, status' = [status EXCEPT ![idx] = x],
             idx <= Len(plan.runs)
      PROVE  Done' = IF x = "passed" THEN Done \cup {Test} ELSE Done
  <2> DEFINE A == {i \in 1 .. idx - 1 : status[i] = "passed"}
             B == {i \in 1 .. idx' - 1 : status'[i] = "passed"}
  <2>1. idx \in 1 .. Len(plan.runs) /\ Len(plan.runs) \in Nat /\ Test = plan.runs[idx].test
    BY <1>1, PresentRun
  <2>2. status'[idx] = x /\ \A i \in 1 .. idx - 1 : status'[i] = status[i]
    BY <1>1, <2>1 DEF PlanInv
  <2>3. B = IF x = "passed" THEN A \cup {idx} ELSE A
    BY <1>1, <2>1, <2>2
  <2>4. Done' = ok \cup {plan.runs[i].test : i \in B} /\ Done = ok \cup {plan.runs[i].test : i \in A}
    BY <1>1 DEF Done
  <2> HIDE DEF A, B
  <2> QED
    BY <2>1, <2>3, <2>4
<1>2. ASSUME Skipped \/ CommandsFail
      PROVE  Done' = Done
  <2>1. /\ UNCHANGED <<ok, plan>> /\ idx' = idx + 1 /\ pc \in {"skip"} \cup Running
        /\ \E x \in {"failed", "skipped"} : status' = [status EXCEPT ![idx] = x]
    BY <1>2 DEF Skipped, CommandsFail, Running
  <2>2. idx <= Len(plan.runs)
    BY <2>1 DEF PlanInv
  <2> QED
    BY <1>1, <2>1, <2>2
<1>3. ASSUME Passed
      PROVE  Done' = Done \cup {Test}
  <2>1. /\ UNCHANGED <<ok, plan>> /\ idx' = idx + 1 /\ pc \in Running
        /\ status' = [status EXCEPT ![idx] = "passed"]
    BY <1>3 DEF Passed, Running
  <2>2. idx <= Len(plan.runs)
    BY <2>1 DEF PlanInv
  <2> QED
    BY <1>1, <2>1, <2>2
<1> QED
  BY <1>2, <1>3

\* Each step keeps what can be had.
LEMMA VisitStep ==
    ASSUME UsualProjects, LaunchInv, Next
    PROVE  VisitInv'
<1>0. /\ StateInv /\ DiskInv /\ PlanInv /\ OkInv /\ VisitInv /\ RunInv
      /\ Version(prog) /\ Ordered(prog)
      /\ \A t \in Selected(prog) : /\ Controls(t) = Ctrl(prog, t)
                                   /\ Ctrl(prog, t) # {} /\ Ctrl(prog, t) \subseteq Controllers
  BY ProgramFacts DEF LaunchInv
<1>1. CASE pc' \notin Visiting
  BY <1>1 DEF VisitInv, Visiting
<1>2. CASE BuildPlan /\ pc' \in Visiting
  <2>1. /\ pc = "delete" /\ queue = <<>> /\ pc' = "next" /\ idx' = 1
        /\ UNCHANGED <<prog, ok, made, snaps>>
    BY <1>2, BuiltPlan DEF BuildPlan, disk, launch, Visiting, Running
  <2>2. Done' = ok
    BY <2>1 DEF Done
  <2>3. \A t \in ok : Stored(prog, made, snaps, t) /\ t \in Selected(prog)
    BY <1>0, <2>1 DEF OkInv, StateInv
  <2>4. \A t \in Selected(prog) : \E c \in Ctrl(prog, t) : t \in DOMAIN snaps[c] => Matches(prog, snaps, c, t)
    <3> TAKE t \in Selected(prog)
    <3>1. CASE t \in ok
      BY <1>0, <2>3, <3>1 DEF Stored
    <3>2. CASE t \notin ok
      <4>1. \E c \in Ctrl(prog, t) : t \notin DOMAIN snaps[c]
        BY <2>1, <3>2, UncachedAreGone
      <4> QED
        BY <4>1
    <3> QED
      BY <3>1, <3>2
  <2>5. \A q \in ok : \A c \in Ctrl(prog, q) : IsRelevant(prog, made, snaps, c) /\ q \in DOMAIN snaps[c]
    BY <2>3 DEF Stored, Matches
  <2>6. Upward(prog, ok)
    BY <1>0 DEF StateInv
  <2>7. \A i \in 1 .. idx' - 1 : FALSE
    BY <2>1
  <2> QED
    BY <2>1, <2>2, <2>4, <2>5, <2>6, <2>7 DEF VisitInv, Running
<1>3. ASSUME pc \in Visiting, prog' = prog
      PROVE  /\ \A t \in Selected(prog) :
                    \E c \in Ctrl(prog, t) : t \in DOMAIN snaps'[c] => Matches(prog, snaps', c, t)
             /\ \A q \in Done : \A c \in Ctrl(prog, q) :
                    IsRelevant(prog, made', snaps', c) /\ q \in DOMAIN snaps'[c]
  <2>1. ASSUME NEW t \in Selected(prog)
        PROVE  \E c \in Ctrl(prog, t) : t \in DOMAIN snaps'[c] => Matches(prog, snaps', c, t)
    <3>1. PICK c \in Ctrl(prog, t) : t \in DOMAIN snaps[c] => Matches(prog, snaps, c, t)
      BY <1>0, <1>3 DEF VisitInv
    <3>2. Keeps(c)
      BY <1>0, <1>3, VisitKeeps
    <3> QED
      BY <3>1, <3>2 DEF Keeps
  <2>2. ASSUME NEW q \in Done, NEW c \in Ctrl(prog, q)
        PROVE  IsRelevant(prog, made', snaps', c) /\ q \in DOMAIN snaps'[c]
    <3>1. q \in Selected(prog)
      BY <1>0, <1>3, DoneSelected
    <3>2. Keeps(c)
      BY <1>0, <1>3, <3>1, VisitKeeps
    <3>3. IsRelevant(prog, made, snaps, c)
      BY <1>0, <1>3 DEF VisitInv
    <3> QED
      BY <3>2, <3>3 DEF Keeps
  <2> QED
    BY <2>1, <2>2
<1>4. ASSUME pc \in Visiting, UNCHANGED <<prog, ok, idx, status>>, plan'.runs = plan.runs,
             pc' \in Running => ParentSet(prog, Test) \subseteq Done
      PROVE  VisitInv'
  <2>1. Done' = Done /\ Test' = Test
    BY <1>4, DoneSame
  <2>2. Upward(prog, Done) /\ \A i \in 1 .. idx - 1 : i <= Len(plan.runs)
    BY <1>0, <1>4 DEF VisitInv
  <2> QED
    BY <1>3, <1>4, <2>1, <2>2 DEF VisitInv
<1>5. CASE NextRun
  <2>1. /\ plan' = [plan EXCEPT !.refs = RemainingRefs] /\ idx <= Len(plan.runs)
        /\ pc = "next" /\ pc' = IF SkipTest THEN "skip" ELSE "restore"
        /\ UNCHANGED <<prog, ok, idx, status>>
    BY <1>5 DEF NextRun, launch
  <2>2. plan = [stuck |-> plan.stuck, runs |-> plan.runs, refs |-> plan.refs]
    BY <1>0 DEF PlanInv
  <2>3. plan' = [stuck |-> plan.stuck, runs |-> plan.runs, refs |-> RemainingRefs]
    BY <2>1, <2>2
  <2>4. plan'.runs = plan.runs
    BY <2>3
  <2>5. pc' \in Running => ParentSet(prog, Test) \subseteq Done
    BY <1>0, <2>1, ParentsDone DEF Running
  <2> QED
    BY <1>4, <2>1, <2>4, <2>5 DEF Visiting
<1>6. CASE /\ UNCHANGED <<prog, ok, plan, idx, status>>
           /\ pc \in Visiting /\ (pc' \in Running => pc \in Running)
  <2>1. pc' \in Running => ParentSet(prog, Test) \subseteq Done
    BY <1>0, <1>6 DEF VisitInv
  <2> QED
    BY <1>4, <1>6, <2>1
<1>7. CASE Skipped \/ CommandsFail
  <2>1. /\ UNCHANGED <<prog, ok, plan>> /\ idx' = idx + 1 /\ pc' = "next"
        /\ pc \in {"skip"} \cup Running /\ pc \in Visiting
        /\ \E x \in {"failed", "skipped"} : status' = [status EXCEPT ![idx] = x]
    BY <1>7 DEF Skipped, CommandsFail, launch, Running, Visiting
  <2>2. idx <= Len(plan.runs) /\ idx \in 1 .. Len(plan.runs) /\ Len(plan.runs) \in Nat
    BY <1>0, <2>1, PresentRun DEF PlanInv
  <2>4. Done' = Done
    BY <1>0, <1>7, DoneGrows
  <2>5. Upward(prog, Done) /\ \A i \in 1 .. idx' - 1 : i <= Len(plan.runs)
    BY <1>0, <2>1, <2>2 DEF VisitInv
  <2> QED
    BY <1>3, <2>1, <2>4, <2>5 DEF VisitInv, Running
<1>8. CASE Passed
  <2>1. /\ UNCHANGED <<prog, ok, plan, made, snaps>> /\ idx' = idx + 1 /\ pc' = "next"
        /\ pc = "snapshot" /\ pc \in Visiting /\ pc \in Running /\ pending = {}
        /\ status' = [status EXCEPT ![idx] = "passed"]
    BY <1>8 DEF Passed, launch, disk, Running, Visiting
  <2>2. /\ idx <= Len(plan.runs) /\ idx \in 1 .. Len(plan.runs) /\ Len(plan.runs) \in Nat
        /\ Test = plan.runs[idx].test /\ Test \in Selected(prog) /\ Controls(Test) = Ctrl(prog, Test)
    BY <1>0, <2>1, PresentRun DEF PlanInv
  <2>4. Done' = Done \cup {Test}
    BY <1>0, <1>8, DoneGrows
  <2>5. ParentSet(prog, Test) \subseteq Done /\ Upward(prog, Done)
    BY <1>0, <2>1 DEF VisitInv
  <2>6. Upward(prog, Done')
    BY <2>4, <2>5 DEF Upward
  <2>7. \A c \in Ctrl(prog, Test) : IsRelevant(prog, made, snaps, c) /\ Test \in DOMAIN snaps[c]
    BY <1>0, <2>1, <2>2 DEF RunInv
  <2>8. \A q \in Done' : \A c \in Ctrl(prog, q) :
            IsRelevant(prog, made', snaps', c) /\ q \in DOMAIN snaps'[c]
    BY <1>3, <2>1, <2>4, <2>7
  <2>9. \A i \in 1 .. idx' - 1 : i <= Len(plan.runs)
    BY <2>1, <2>2
  <2> QED
    BY <1>3, <2>1, <2>6, <2>8, <2>9 DEF VisitInv, Running
<1> QED
  BY <1>1, <1>2, <1>5, <1>6, <1>7, <1>8, VisitSteps

\* A controller that a step of a run leaves relevant and where it was is still ready.
LEMMA ReadyKept ==
    ASSUME UsualProjects, LaunchInv, pc \in Visiting, Next, NEW c \in Controllers,
           Ready(c), cur'[c] = cur[c], UNCHANGED <<prog, idx, plan>>
    PROVE  Ready(c)'
<1>1. Keeps(c)
  BY VisitKeeps
<1>2. Test' = Test
  BY DEF Test, Run
<1>3. IsRelevant(prog, made', snaps', c) /\ OnParent(prog, c, Test, cur'[c])
  BY <1>1 DEF Keeps, Ready
<1> QED
  BY <1>2, <1>3 DEF Ready

\* The steps of a run.
LEMMA RunSteps ==
    ASSUME Next, pc' \in {"networks", "install", "commands", "drop", "snapshot"}
    PROVE  \/ ParentsRestored \/ NetworksCreated \/ ResumeParents \/ TemporariesDropped
           \/ \E n \in Networks : CreateNetwork(n)
           \/ \E c \in Controllers : InstallController(c)
           \/ \E on \in BOOLEAN : CommandsPass(on)
           \/ \E q \in Names, c \in Controllers : DropTemporary(q, c)
           \/ \E c \in Controllers : TakeSnapshot(c)
<1>1. ASSUME NEW names \in Invalidated
      PROVE  ~Begin(names)
  BY DEF Begin
<1>2. ASSUME NEW kept \in Uncleaned
      PROVE  ~Clean(kept)
  BY DEF Clean
<1>3. ASSUME NEW c \in Controllers
      PROVE  ~DeleteSnapshots(c)
  BY DEF DeleteSnapshots
<1>4. ~Decline /\ ~RestoreThrows /\ ~SnapshotThrows /\ ~Exit /\ ~Kill /\ ~CheckCache /\ ~Finish
  BY DEF Decline, RestoreThrows, SnapshotThrows, Exit, Kill, Ended, CheckCache, Finish
<1>5. ~BuildPlan /\ ~NextRun /\ ~Skipped /\ ~CommandsFail /\ ~Passed
  BY DEF BuildPlan, NextRun, Skipped, CommandsFail, Passed
<1>6. ASSUME NEW q \in Names, NEW c \in Controllers
      PROVE  ~RestoreParent(q, c)
  BY DEF RestoreParent
<1> QED
  BY <1>1, <1>2, <1>3, <1>4, <1>5, <1>6 DEF Next, Prepare, Visit

\* Each step of a run leaves its controllers ready for what follows.
LEMMA RunStep ==
    ASSUME UsualProjects, LaunchInv, Next
    PROVE  RunInv'
<1>0. /\ StateInv /\ DiskInv /\ PlanInv /\ OkInv /\ VisitInv /\ RunInv
      /\ Version(prog) /\ Ordered(prog) /\ passed \subseteq passed'
      /\ cur \in [Controllers -> Names \cup {Initial, ""}]
      /\ DOMAIN made = Controllers /\ DOMAIN snaps = Controllers
      /\ \A t \in Selected(prog) : Controls(t) = Ctrl(prog, t) /\ Ctrl(prog, t) \subseteq Controllers
  BY ProgramFacts, PassedStays DEF LaunchInv, StateInv
<1> DEFINE InRun == pc' \in {"networks", "install", "commands", "drop", "snapshot"}
           Same == UNCHANGED <<prog, ok, plan, idx, status>> /\ pc \in Running /\ pc \in Visiting
<1>1. CASE ~InRun
  BY <1>1 DEF RunInv
<1>2. ASSUME Same
      PROVE  /\ Test' = Test /\ Controls(Test)' = Controls(Test) /\ Inherited(Test)' = Inherited(Test)
             /\ Test \in Selected(prog) /\ Controls(Test) = Ctrl(prog, Test)
             /\ Controls(Test) \subseteq Controllers /\ Inherited(Test) \subseteq Controls(Test)
             /\ ParentSet(prog, Test) \subseteq Selected(prog) /\ ParentSet(prog, Test) \subseteq Done
             /\ <<Test, Lineage(prog)[Test]>> \in passed => <<Test', Lineage(prog')[Test']>> \in passed'
  <2>1. idx <= Len(plan.runs)
    BY <1>0, <1>2 DEF PlanInv
  <2>2. Test' = Test
    BY <1>2 DEF Test, Run
  <2>3. Controls(Test)' = Controls(Test) /\ Inherited(Test)' = Inherited(Test)
    BY <1>2, <2>2 DEF Controls, Inherited
  <2> QED
    BY <1>0, <1>2, <2>1, <2>2, <2>3, PresentRun DEF VisitInv
<1>3. CASE ParentsRestored
  <2>1. Same /\ pc' = "networks" /\ ToRestore = {} /\ UNCHANGED <<made, snaps, cur>>
    BY <1>3 DEF ParentsRestored, disk, launch, known, Running, Visiting
  <2>2. ASSUME NEW c \in Inherited(Test)
        PROVE  Ready(c)'
    <3>1. PICK q \in ParentSet(prog, Test) : c \in Controls(q)
      BY DEF Inherited
    <3>2. q \in Selected(prog) /\ q \in Done /\ c \in Ctrl(prog, q) /\ c \in Controllers
      BY <1>0, <1>2, <2>1, <3>1
    <3>3. cur[c] = q
      <4> DEFINE x == <<q, c>>
      <4>1. x \in ParentSet(prog, Test) \X Controllers /\ x[1] = q /\ x[2] = c
        BY <3>1, <3>2
      <4>2. x[2] \in Controls(x[1]) /\ x \notin ToRestore
        BY <2>1, <3>1, <4>1
      <4> QED
        BY <4>1, <4>2 DEF ToRestore
    <3>4. IsRelevant(prog, made, snaps, c)
      BY <1>0, <2>1, <3>2 DEF VisitInv
    <3>5. OnParent(prog, c, Test, cur[c])
      BY <1>2, <2>1, <3>1, <3>2, <3>3 DEF OnParent
    <3> QED
      BY <1>2, <2>1, <3>4, <3>5 DEF Ready
  <2> QED
    BY <1>2, <2>1, <2>2 DEF RunInv
<1>4. ASSUME NEW n \in Networks, CreateNetwork(n)
      PROVE  RunInv'
  <2>1. Same /\ pc = "networks" /\ pc' = pc /\ UNCHANGED <<made, snaps, cur>>
    BY <1>4 DEF CreateNetwork, launch, known, Running, Visiting
  <2>2. ASSUME NEW c \in Inherited(Test)
        PROVE  Ready(c)'
    BY <1>0, <1>2, <2>1 DEF RunInv, Ready
  <2> QED
    BY <1>2, <2>1, <2>2 DEF RunInv
<1>5. CASE NetworksCreated
  <2>1. /\ Same /\ pc = "networks" /\ pc' = "install" /\ UNCHANGED <<made, snaps, cur>>
        /\ pending' = Controls(Test) \ Inherited(Test)
    BY <1>5 DEF NetworksCreated, disk, launch, known, Running, Visiting
  <2>2. ASSUME NEW c \in Inherited(Test)
        PROVE  Ready(c)'
    BY <1>0, <1>2, <2>1 DEF RunInv, Ready
  <2>3. \A c \in Controls(Test) \ pending' : Ready(c)'
    BY <2>1, <2>2
  <2> QED
    BY <1>2, <2>1, <2>3 DEF RunInv
<1>6. ASSUME NEW d \in Controllers, InstallController(d)
      PROVE  RunInv'
  <2>1. /\ Same /\ pc = "install" /\ pc' = "install" /\ d \in pending /\ pending' = pending \ {d}
        /\ cur' = [cur EXCEPT ![d] = Initial]
        /\ \/ Relevant(prog, d) /\ made' = made /\ snaps' = snaps
           \/ /\ made' = [made EXCEPT ![d] = Config(prog, d)]
              /\ DOMAIN snaps'[d] = {Initial}
    <3>1. /\ Same /\ pc = "install" /\ pc' = "install" /\ d \in pending /\ pending' = pending \ {d}
          /\ cur' = [cur EXCEPT ![d] = Initial]
      BY <1>6 DEF InstallController, launch, Restored, Running, Visiting
    <3>2. CASE Relevant(prog, d)
      BY <1>6, <3>1, <3>2 DEF InstallController, disk
    <3>3. CASE ~Relevant(prog, d)
      <4>1. /\ made' = [made EXCEPT ![d] = Config(prog, d)]
            /\ snaps' = [snaps EXCEPT ![d] =
                  [s \in {Initial} |-> Record(<<>>, "", Image(Fresh, FALSE, FALSE), d \in Machines)]]
        BY <1>6, <3>3 DEF InstallController
      <4>2. DOMAIN snaps'[d] = {Initial}
        BY <1>0, <4>1
      <4> QED
        BY <3>1, <4>1, <4>2
    <3> QED
      BY <3>2, <3>3
  <2>2. d \in Controls(Test) \ Inherited(Test) /\ pending \subseteq Controls(Test) \ Inherited(Test)
    BY <1>0, <2>1 DEF RunInv
  <2>3. IsRelevant(prog, made', snaps', d)
    BY <1>0, <2>1 DEF IsRelevant, Relevant, has_snapshot
  <2>4. OnParent(prog, d, Test, Initial)
    <3>1. \A q \in ParentSet(prog, Test) : Controls(q) = Ctrl(prog, q)
      BY <1>0, <1>2, <2>1
    <3>2. ~ \E q \in ParentSet(prog, Test) : d \in Ctrl(prog, q)
      BY <2>2, <3>1 DEF Inherited
    <3> QED
      BY <1>2, <2>1, <2>2, <3>2 DEF OnParent
  <2>5. Ready(d)'
    BY <1>0, <1>2, <2>1, <2>3, <2>4 DEF Ready
  <2>6. ASSUME NEW c \in Controls(Test) \ pending', c # d
        PROVE  Ready(c)'
    <3>1. c \in Controls(Test) \ pending /\ c \in Controllers
      BY <1>2, <2>1, <2>6
    <3>2. Ready(c) /\ cur'[c] = cur[c]
      BY <1>0, <2>1, <2>6, <3>1 DEF RunInv
    <3> QED
      BY <2>1, <3>1, <3>2, ReadyKept
  <2> QED
    BY <1>2, <2>1, <2>2, <2>5, <2>6 DEF RunInv
<1>7. CASE ResumeParents
  <2>1. /\ Same /\ pc = "install" /\ pending = {} /\ pc' = "commands" /\ UNCHANGED <<made, snaps, cur>>
    BY <1>7 DEF ResumeParents, disk, launch, known, Running, Visiting
  <2>2. ASSUME NEW c \in Controls(Test)
        PROVE  Ready(c)'
    BY <1>0, <1>2, <2>1 DEF RunInv, Ready
  <2> QED
    BY <1>2, <2>1, <2>2 DEF RunInv
<1>8. ASSUME NEW on \in BOOLEAN, CommandsPass(on)
      PROVE  RunInv'
  <2>1. /\ Same /\ pc = "commands" /\ pc' = "drop" /\ UNCHANGED <<made, snaps, cur>>
        /\ passed' = passed \cup {<<Test, Lineage(prog)[Test]>>}
    BY <1>8 DEF CommandsPass, disk, launch, Running, Visiting
  <2>2. ASSUME NEW c \in Controls(Test)
        PROVE  Ready(c)'
    BY <1>0, <1>2, <2>1 DEF RunInv, Ready
  <2>3. <<Test', Lineage(prog')[Test']>> \in passed'
    BY <1>2, <2>1
  <2> QED
    BY <1>2, <2>1, <2>2, <2>3 DEF RunInv
<1>9. ASSUME NEW q \in Names, NEW d \in Controllers, DropTemporary(q, d), InRun
      PROVE  RunInv'
  <2>1. Same /\ pc = "drop" /\ pc' = "drop" /\ UNCHANGED cur
    BY <1>9 DEF DropTemporary, launch, known, Running, Visiting
  <2>2. ASSUME NEW c \in Controls(Test)
        PROVE  Ready(c)'
    <3>1. c \in Controllers /\ Ready(c)
      BY <1>0, <1>2, <2>1 DEF RunInv
    <3> QED
      BY <2>1, <3>1, ReadyKept
  <2>3. <<Test', Lineage(prog')[Test']>> \in passed'
    BY <1>0, <1>2, <2>1 DEF RunInv
  <2> QED
    BY <1>2, <2>1, <2>2, <2>3 DEF RunInv
<1>10. CASE TemporariesDropped
  <2>1. /\ Same /\ pc = "drop" /\ pc' = "snapshot" /\ UNCHANGED <<made, snaps, cur>>
        /\ pending' = Controls(Test)
    BY <1>10 DEF TemporariesDropped, disk, launch, known, Running, Visiting
  <2>2. ASSUME NEW c \in Controls(Test)
        PROVE  Ready(c)'
    BY <1>0, <1>2, <2>1 DEF RunInv, Ready
  <2>3. <<Test', Lineage(prog')[Test']>> \in passed'
    BY <1>0, <1>2, <2>1 DEF RunInv
  <2>4. pending' = Controls(Test)'
    BY <1>2, <2>1
  <2> QED
    BY <1>2, <2>1, <2>2, <2>3, <2>4 DEF RunInv
<1>11. ASSUME NEW d \in Controllers, TakeSnapshot(d)
       PROVE  RunInv'
  <2> DEFINE needed == is_hypervisor_snapshot_needed(Test)
             k == create_snapshot(d, Test, needed)
  <2>1. /\ Same /\ pc = "snapshot" /\ pc' = "snapshot" /\ d \in pending /\ pending' = pending \ {d}
        /\ cur' = [cur EXCEPT ![d] = Test] /\ made' = made
        /\ \/ Kept(d) /\ snaps' = snaps
           \/ snaps' = [snaps EXCEPT ![d] = k]
    BY <1>11 DEF TakeSnapshot, launch, Running, Visiting
  <2>2. needed \in BOOLEAN
    BY DEF is_hypervisor_snapshot_needed
  <2> HIDE DEF needed
  <2>3. /\ pending \subseteq Controls(Test)
        /\ \A c \in pending : Ready(c)
        /\ \A c \in Controls(Test) \ pending :
              IsRelevant(prog, made, snaps, c) /\ Test \in DOMAIN snaps[c]
        /\ <<Test, Lineage(prog)[Test]>> \in passed
    BY <1>0, <2>1 DEF RunInv
  <2>4. ASSUME NEW c \in pending'
        PROVE  Ready(c)'
    <3>1. c \in pending /\ c # d /\ c \in Controllers
      BY <1>2, <2>1, <2>3
    <3>2. Ready(c) /\ cur'[c] = cur[c]
      BY <1>0, <2>1, <2>3, <3>1
    <3> QED
      BY <2>1, <3>1, <3>2, ReadyKept
  <2>5. ASSUME NEW c \in Controls(Test) \ pending'
        PROVE  IsRelevant(prog, made', snaps', c) /\ Test \in DOMAIN snaps'[c]
    <3>1. c \in Controllers /\ IsRelevant(prog, made, snaps, c)
      BY <1>2, <2>1, <2>3 DEF Ready
    <3>2. Keeps(c)
      BY <2>1, <3>1, VisitKeeps
    <3>3. Test \in DOMAIN snaps'[c]
      <4>1. CASE c # d
        <5>1. Test \in DOMAIN snaps[c]
          BY <2>1, <2>3, <4>1
        <5> QED
          BY <1>0, <2>1, <3>1, <4>1, <5>1
      <4>2. CASE c = d /\ snaps' = snaps /\ Kept(d)
        BY <4>2 DEF Kept, has_snapshot
      <4>3. CASE c = d /\ snaps' = [snaps EXCEPT ![d] = k]
        <5>1. Matches(prog, [snaps EXCEPT ![d] = k], d, Test)
          BY <1>0, <2>1, <2>2, TakingSnapshot
        <5> QED
          BY <4>3, <5>1 DEF Matches
      <4> QED
        BY <2>1, <4>1, <4>2, <4>3
    <3> QED
      BY <3>1, <3>2, <3>3 DEF Keeps
  <2>6. pending' \subseteq Controls(Test)
    BY <2>1, <2>3
  <2>7. <<Test', Lineage(prog')[Test']>> \in passed'
    BY <1>2, <2>1, <2>3
  <2> QED
    BY <1>2, <2>1, <2>4, <2>5, <2>6, <2>7 DEF RunInv
<1> QED
  BY <1>1, <1>3, <1>4, <1>5, <1>6, <1>7, <1>8, <1>9, <1>10, <1>11, RunSteps

----------------------------------------------------------------------------
(* The theorems                                                            *)

\* Nothing is planned, known or stored before the first launch.
LEMMA LaunchInit ==
    ASSUME UsualProjects, Init
    PROVE  LaunchInv
<1>0. /\ project \in DOMAIN Projects /\ pc = "idle" /\ ok = {} /\ queue = <<>> /\ pending = {}
      /\ idx = 1 /\ status = <<>> /\ keys = {} /\ held = {}
      /\ made = [c \in Controllers |-> Nothing] /\ snaps = [c \in Controllers |-> <<>>]
      /\ power = [c \in Controllers |-> "stopped"] /\ cur = [c \in Controllers |-> ""]
      /\ plan = [stuck |-> FALSE, runs |-> <<>>, refs |-> <<>>]
  BY DEF Init
<1>1. prog \in Versions(project)
  <2> DEFINE d == CHOOSE d \in Projects[project] : TRUE
  <2>1. Projects[project] # {}
    BY <1>0, ProgramsAssumption
  <2>2. d \in Projects[project]
    BY <2>1
  <2>3. prog = setup_tests_parents(d)
    BY DEF Init
  <2> HIDE DEF d
  <2> QED
    BY <2>2, <2>3 DEF Versions
<1>2. StateInv
  <2>1. queue = <<>> /\ pc = "idle" /\ ok = {} /\ pending = {} /\ keys = {} /\ held = {}
        /\ project \in DOMAIN Projects
    BY <1>0
  <2>2. cur \in [Controllers -> Names \cup {Initial, ""}]
    BY DEF Init
  <2>3. DOMAIN made = Controllers /\ DOMAIN snaps = Controllers
    BY DEF Init
  <2>4. power \in [Controllers -> {"stopped", "running", "suspended"}]
        /\ \A c \in Controllers \ Machines : power[c] = "stopped"
    BY DEF Init
  <2>5. queue \in Seq(Selected(prog))
    BY <2>1
  <2>6. ok \in SUBSET Selected(prog) /\ Upward(prog, ok)
    BY <2>1 DEF Upward
  <2> QED
    BY <1>1, <2>1, <2>2, <2>3, <2>4, <2>5, <2>6 DEF StateInv
<1>3. DiskInv
  <2> SUFFICES ASSUME NEW c \in Controllers PROVE Column(project, c, made[c], snaps[c])
    BY DEF DiskInv
  <2>1. snaps[c] = <<>>
    BY DEF Init
  <2>2. DOMAIN snaps[c] = {}
    BY <2>1
  <2> QED
    BY <2>2 DEF Column
<1>4. PlanInv
  <2> DEFINE S == [test : Selected(prog), parents : SUBSET Nat]
  <2>0. plan = [stuck |-> FALSE, runs |-> <<>>, refs |-> <<>>] /\ status = <<>>
        /\ pc = "idle" /\ idx = 1
    BY DEF Init
  <2> HIDE DEF S
  <2>a. plan.runs = <<>> /\ plan = [stuck |-> plan.stuck, runs |-> plan.runs, refs |-> plan.refs]
    BY <2>0
  <2>1. /\ plan.runs = <<>> /\ plan.runs \in Seq(S)
        /\ plan = [stuck |-> plan.stuck, runs |-> plan.runs, refs |-> plan.refs]
    BY <2>a
  <2>2. Len(plan.runs) = 0
    BY <2>1
  <2>3. status \in [1 .. 0 -> {"unknown", "passed", "failed", "skipped"}]
    BY <2>0
  <2>4. \A i : i \notin 1 .. 0
    OBVIOUS
  <2> QED
    BY <2>0, <2>1, <2>2, <2>3, <2>4 DEF PlanInv, Running, S
<1>5. OkInv /\ DeleteInv /\ VisitInv /\ RunInv
  <2>1. pc = "idle" /\ ok = {}
    BY <1>0
  <2> QED
    BY <2>1 DEF OkInv, CacheSound, DeleteInv, VisitInv, RunInv, Visiting, Running
<1>6. Sound(project, made, snaps, passed)
  <2> SUFFICES ASSUME NEW p \in Versions(project), NEW t \in Cached(p, made, snaps)
               PROVE  FALSE
    BY DEF Sound
  <2>1. Version(p)
    BY <1>0, VersionFacts
  <2>2. t \in Selected(p) /\ Stored(p, made, snaps, t)
    BY <2>1, AncestorFacts DEF Cached, Version, Plannable
  <2>3. PICK c \in Ctrl(p, t) : c \in Controllers
    BY <2>1, <2>2 DEF Version
  <2>4. Initial \in DOMAIN snaps[c]
    BY <2>2 DEF Stored, IsRelevant
  <2>5. snaps[c] = <<>>
    BY <2>3 DEF Init
  <2>6. DOMAIN snaps[c] = {}
    BY <2>5
  <2> QED
    BY <2>4, <2>6
<1> QED
  BY <1>2, <1>3, <1>4, <1>5, <1>6 DEF LaunchInv

\* Steps that change nothing keep the invariant.
LEMMA LaunchStutters ==
    ASSUME LaunchInv, UNCHANGED vars
    PROVE  LaunchInv'
<1>1. Done' = Done /\ Test' = Test
  BY DEF vars, Done, Test, Run
<1>2. StateInv' /\ DiskInv' /\ PlanInv' /\ OkInv' /\ DeleteInv'
  <2>1. StateInv'
    BY DEF vars, LaunchInv, StateInv
  <2>2. DiskInv'
    BY DEF vars, LaunchInv, DiskInv
  <2>3. PlanInv'
    BY DEF vars, LaunchInv, PlanInv, Policy
  <2>4. OkInv'
    BY DEF vars, LaunchInv, OkInv, CacheSound
  <2>5. DeleteInv'
    BY DEF vars, LaunchInv, DeleteInv
  <2> QED
    BY <2>1, <2>2, <2>3, <2>4, <2>5
<1>3. VisitInv' /\ Sound(project, made, snaps, passed)'
  BY <1>1 DEF vars, LaunchInv, VisitInv
<1>4. RunInv'
  BY <1>1 DEF vars, LaunchInv, RunInv, Ready, Controls, Inherited
<1> QED
  BY <1>2, <1>3, <1>4 DEF LaunchInv

\* The invariant holds of every state of every history of a project.
LEMMA LaunchInvariant ==
    ASSUME UsualProjects
    PROVE  Spec => []LaunchInv
<1>1. Init => LaunchInv
  BY LaunchInit
<1>2. LaunchInv /\ [Next]_vars => LaunchInv'
  <2> SUFFICES ASSUME LaunchInv, [Next]_vars PROVE LaunchInv'
    OBVIOUS
  <2>1. CASE Next
    <3>1. StateInv' /\ DiskInv' /\ PlanInv' /\ OkInv'
      BY <2>1, StateStep, DiskStep, PlanStep, OkStep
    <3>2. DeleteInv' /\ VisitInv' /\ RunInv' /\ Sound(project, made, snaps, passed)'
      BY <2>1, DeleteStep, VisitStep, RunStep, SoundStep
    <3> QED
      BY <3>1, <3>2 DEF LaunchInv
  <2>2. CASE UNCHANGED vars
    BY <2>2, LaunchStutters
  <2> QED
    BY <2>1, <2>2
<1> QED
  BY <1>1, <1>2, PTL DEF Spec

\* A test is not run again only if it has passed before as it is now, with all its
\* ancestors as they are now, whatever has been edited, invalidated, cleaned or
\* interrupted in between.
THEOREM CacheIsSound ==
    ASSUME UsualProjects
    PROVE  Spec => []CacheSound
<1>1. LaunchInv => CacheSound
  BY DEF LaunchInv, OkInv
<1> QED
  BY <1>1, LaunchInvariant, PTL

\* The state keeps its type; the runs without a result are those still to come.
THEOREM StateIsTyped ==
    ASSUME UsualProjects
    PROVE  Spec => []TypeOK
<1>1. ASSUME LaunchInv
      PROVE  TypeOK
  <2>0. StateInv /\ DiskInv /\ PlanInv
    BY <1>1 DEF LaunchInv
  <2>1. \A c \in Controllers :
            /\ DOMAIN snaps[c] \subseteq Names \cup {Initial}
            /\ \A s \in DOMAIN snaps[c] : snaps[c][s].parent \in DOMAIN snaps[c] \cup {""}
    BY <2>0 DEF DiskInv, Column
  <2>2. /\ DOMAIN status = DOMAIN plan.runs
        /\ \A i \in DOMAIN status :
              status[i] \in {"unknown", "passed", "failed", "skipped"}
              /\ (status[i] = "unknown" <=> i >= idx)
    <3> DEFINE S == [test : Selected(prog), parents : SUBSET Nat]
               runs == plan.runs
    <3>1. /\ runs \in Seq(S)
          /\ status \in [1 .. Len(runs) -> {"unknown", "passed", "failed", "skipped"}]
          /\ \A i \in 1 .. Len(runs) : status[i] = "unknown" <=> i >= idx
      BY <2>0 DEF PlanInv
    <3> HIDE DEF S, runs
    <3>2. DOMAIN runs = 1 .. Len(runs)
      BY <3>1
    <3>3. DOMAIN status = DOMAIN runs /\ \A i \in DOMAIN status :
              status[i] \in {"unknown", "passed", "failed", "skipped"}
              /\ (status[i] = "unknown" <=> i >= idx)
      BY <3>1, <3>2
    <3> QED
      BY <3>3 DEF runs
  <2> QED
    BY <2>0, <2>1, <2>2 DEF TypeOK, StateInv
<1> QED
  BY <1>1, LaunchInvariant, PTL

----------------------------------------------------------------------------
(* What the plan decided to restore can be restored                        *)

\* A machine's record that was first written without a hypervisor snapshot never gets
\* the part from which one taken later is restored (the run store_opaque of
\* SnapshotStore): "auto" tests use flash drives only.
TemporariesOnFlash ==
    \A x \in DOMAIN Projects : \A p \in Versions(x) : \A t \in Selected(p) :
        p.policy[t] = "auto" => Ctrl(p, t) \cap Machines = {}

\* A hypervisor snapshot of a machine has what make_snapshot returned, and the
\* snapshot of a test that was "always" has its hypervisor part.
Opaque(c, r) ==
    c \in Machines =>
        \A s \in DOMAIN r \ {Initial} :
            /\ r[s].image.taken => r[s].opaque
            /\ r[s].cksum[2] = "always" => r[s].image.taken

OpaqueInv == \A c \in Controllers : Opaque(c, snaps[c])

\* All controllers of q are as q left them.
Loaded(q) == \A c \in Controls(q) : cur[c] = q

\* Run j will have the state of its parent q, if the run it follows passes: q was up to
\* date and its snapshots are kept for j; or no run in between uses q's controllers; or
\* a snapshot is taken for j, and kept.
Coming(q, j) ==
    \/ q \in ok /\ j \in plan.refs[q] /\ HasHypervisorSnapshots(q)
    \/ \E i \in plan.runs[j].parents :
          /\ LastRun(prog, plan, q, i, j - 1)
          /\ \/ /\ Clear(prog, plan, q, i + 1, j - 1)
                /\ i < idx /\ status[i] = "passed" => Loaded(q)
             \/ /\ Policy(q) # "never" /\ j \in plan.refs[q]
                /\ i < idx /\ status[i] = "passed" => HasHypervisorSnapshots(q)

ComingInv ==
    pc \in Visiting =>
        /\ DOMAIN plan.refs = Selected(prog)
        /\ \A j \in 1 .. Len(plan.runs) :
              j > idx \/ (pc = "next" /\ j = idx) =>
                  \A q \in ParentSet(prog, plan.runs[j].test) : Coming(q, j)

\* The present run has the states of its parents, and leaves its own.
RestoreInv ==
    /\ pc = "restore" =>
          \A q \in ParentSet(prog, Test) : HasHypervisorSnapshots(q) \/ Loaded(q)
    /\ pc = "snapshot" =>
          \A c \in Controls(Test) \ pending :
              /\ cur[c] = Test
              /\ is_hypervisor_snapshot_needed(Test) => has_hypervisor_snapshot(c, Test)

\* What create_snapshot writes.
LEMMA TakenRecords ==
    ASSUME NEW c, NEW needed \in BOOLEAN
    PROVE  LET k == create_snapshot(c, Test, needed)
           IN  /\ DOMAIN k \subseteq DOMAIN snaps[c] \cup {Test} /\ Test \in DOMAIN k
               /\ \A s \in DOMAIN k \ {Test} : k[s] = snaps[c][s]
               /\ k[Test].cksum = cksum(prog, Test)
               /\ k[Test].image = IF needed THEN Image(live[c], power[c] # "stopped", c \in keys)
                                 ELSE NoImage
               /\ k[Test].image.taken <=> needed
               /\ c \in Machines /\ needed =>
                     k[Test].opaque
                     \/ (has_snapshot(c, Test) /\ snaps[c][Test].cksum = cksum(prog, Test))
<1> DEFINE r == snaps[c]
           k == create_snapshot(c, Test, needed)
           image == IF needed THEN Image(live[c], power[c] # "stopped", c \in keys) ELSE NoImage
           opaque == needed /\ c \in Machines
           v == cksum(prog, Test)
           record == Record(v, cur[c], image, opaque)
           b == Pruned(r, Test)
<1>1. image.taken <=> needed
  BY DEF Image, NoImage
<1>2. record.cksum = v /\ record.image = image /\ record.opaque = opaque
  BY DEF Record
<1>3. \A w : /\ DOMAIN WithRecord(r, Test, w) = DOMAIN r \cup {Test}
             /\ WithRecord(r, Test, w)[Test] = w
             /\ \A s \in DOMAIN r \ {Test} : WithRecord(r, Test, w)[s] = r[s]
  BY DEF WithRecord
<1>4. \A w : /\ DOMAIN WithRecord(b, Test, w) = DOMAIN b \cup {Test}
             /\ WithRecord(b, Test, w)[Test] = w
             /\ \A s \in DOMAIN b \ {Test} : WithRecord(b, Test, w)[s] = b[s]
  BY DEF WithRecord
<1>5. DOMAIN b \subseteq DOMAIN r /\ \A s \in DOMAIN b : b[s] = r[s]
  BY DEF Pruned
<1>6. k = IF ~has_snapshot(c, Test) THEN WithRecord(r, Test, record)
          ELSE IF r[Test].cksum = v THEN WithRecord(r, Test, WithImage(r[Test], image))
               ELSE WithRecord(b, Test, record)
  BY DeletionPrunes DEF create_snapshot
<1>7. WithImage(r[Test], image).cksum = r[Test].cksum /\ WithImage(r[Test], image).image = image
  BY DEF WithImage, Record
<1>8. opaque <=> needed /\ c \in Machines
  OBVIOUS
<1> DEFINE w == WithImage(r[Test], image)
<1> HIDE DEF r, image, opaque, v, record, b, w
<1>9. CASE ~has_snapshot(c, Test)
  <2>1. k = WithRecord(r, Test, record)
    BY <1>6, <1>9
  <2> HIDE DEF k
  <2> QED
    BY <1>1, <1>2, <1>3, <1>8, <2>1 DEF k, r, v, image
<1>10. CASE has_snapshot(c, Test) /\ r[Test].cksum = v
  <2>1. k = WithRecord(r, Test, w)
    BY <1>6, <1>10 DEF w
  <2>2. w.cksum = r[Test].cksum /\ w.image = image
    BY <1>7 DEF w
  <2> HIDE DEF k
  <2> QED
    BY <1>1, <1>3, <1>10, <2>1, <2>2 DEF k, r, v, image
<1>11. CASE has_snapshot(c, Test) /\ r[Test].cksum # v
  <2>1. k = WithRecord(b, Test, record)
    BY <1>6, <1>11
  <2> HIDE DEF k
  <2> QED
    BY <1>1, <1>2, <1>4, <1>5, <1>8, <2>1 DEF k, r, v, image
<1> QED
  BY <1>9, <1>10, <1>11

\* Each step leaves the hypervisor snapshots of the machines whole.
LEMMA OpaqueStep ==
    ASSUME UsualProjects, TemporariesOnFlash, LaunchInv, OpaqueInv, Next
    PROVE  OpaqueInv'
<1>0. /\ StateInv /\ PlanInv /\ VisitInv /\ RunInv /\ DOMAIN snaps = Controllers
      /\ Version(prog) /\ Initial \notin Names /\ Selected(prog) \subseteq Names
      /\ project \in DOMAIN Projects /\ prog \in Versions(project)
      /\ \A t \in Selected(prog) : Controls(t) = Ctrl(prog, t)
  BY ProgramFacts DEF LaunchInv, StateInv
<1>1. \A c \in Controllers : snaps'[c] = snaps[c] => Opaque(c, snaps'[c])
  BY DEF OpaqueInv
<1>2. CASE snaps' = snaps
  BY <1>1, <1>2 DEF OpaqueInv
<1>3. ASSUME NEW kept \in Uncleaned, Clean(kept)
      PROVE  OpaqueInv'
  <2>1. \A c \in Controllers : snaps'[c] = snaps[c] \/ snaps'[c] = <<>>
    BY <1>3 DEF Clean
  <2>2. DOMAIN <<>> = {}
    OBVIOUS
  <2>3. \A c : Opaque(c, <<>>)
    BY <2>2 DEF Opaque
  <2> QED
    BY <1>1, <2>1, <2>3 DEF OpaqueInv
<1>4. ASSUME NEW d \in Controllers, DeleteSnapshots(d)
      PROVE  OpaqueInv'
  <2>1. snaps' = snaps \/ snaps' = [snaps EXCEPT ![d] = Pruned(snaps[d], Head(queue))]
    BY <1>4, DeletionPrunes DEF DeleteSnapshots
  <2>2. Opaque(d, Pruned(snaps[d], Head(queue)))
    BY DEF OpaqueInv, Opaque, Pruned
  <2>3. \A c \in Controllers : snaps'[c] = snaps[c] \/ (c = d /\ snaps'[c] = Pruned(snaps[d], Head(queue)))
    BY <1>0, <2>1
  <2> QED
    BY <1>1, <2>2, <2>3 DEF OpaqueInv
<1>5. ASSUME NEW q \in Names, NEW d \in Controllers, DropTemporary(q, d)
      PROVE  OpaqueInv'
  <2>1. /\ q \in ParentSet(prog, Test) /\ d \in Controls(q) /\ Policy(q) = "auto" /\ idx <= Len(plan.runs)
        /\ \A c \in Controllers : c = d \/ snaps'[c] = snaps[c]
    BY <1>0, <1>5 DEF DropTemporary, Temporary, PlanInv, Running
  <2>2. q \in Selected(prog)
    BY <1>0, <2>1, PresentRun
  <2>3. d \notin Machines
    BY <1>0, <2>1, <2>2 DEF TemporariesOnFlash, Policy
  <2> QED
    BY <1>1, <2>1, <2>3 DEF OpaqueInv, Opaque
<1>6. ASSUME NEW d \in Controllers, InstallController(d)
      PROVE  OpaqueInv'
  <2> DEFINE r == [s \in {Initial} |-> Record(<<>>, "", Image(Fresh, FALSE, FALSE), d \in Machines)]
  <2>1. snaps' = snaps \/ snaps' = [snaps EXCEPT ![d] = r]
    BY <1>6 DEF InstallController, disk
  <2>2. DOMAIN r \ {Initial} = {}
    OBVIOUS
  <2> HIDE DEF r
  <2>3. Opaque(d, r)
    BY <2>2 DEF Opaque
  <2>4. \A c \in Controllers : snaps'[c] = snaps[c] \/ (c = d /\ snaps'[c] = r)
    BY <1>0, <2>1
  <2> QED
    BY <1>1, <2>3, <2>4 DEF OpaqueInv
<1>7. ASSUME NEW d \in Controllers, TakeSnapshot(d)
      PROVE  OpaqueInv'
  <2> DEFINE needed == is_hypervisor_snapshot_needed(Test)
             k == create_snapshot(d, Test, needed)
  <2>1. /\ pc = "snapshot" /\ d \in pending
        /\ \/ snaps' = snaps
           \/ ~Kept(d) /\ snaps' = [snaps EXCEPT ![d] = k]
    BY <1>7 DEF TakeSnapshot
  <2>2. /\ needed \in BOOLEAN /\ (needed => Policy(Test) \in {"always", "auto"})
        /\ Policy(Test) = "always" => needed
    BY DEF is_hypervisor_snapshot_needed
  <2>3. /\ Test \in Selected(prog) /\ Test # Initial /\ d \in Ctrl(prog, Test)
    BY <1>0, <2>1, PresentRun DEF PlanInv, RunInv, Running
  <2>4. cksum(prog, Test)[2] = Policy(Test)
    BY DEF cksum, Policy
  <2>5. d \in Machines => Policy(Test) # "auto"
    BY <1>0, <2>3 DEF TemporariesOnFlash, Policy
  <2>6. ~Kept(d) => ~has_snapshot(d, Test) \/ (needed /\ ~snaps[d][Test].image.taken)
    BY DEF Kept, has_hypervisor_snapshot
  <2> HIDE DEF needed
  <2>7. /\ DOMAIN k \subseteq DOMAIN snaps[d] \cup {Test} /\ Test \in DOMAIN k
        /\ \A s \in DOMAIN k \ {Test} : k[s] = snaps[d][s]
        /\ k[Test].cksum = cksum(prog, Test)
        /\ k[Test].image.taken <=> needed
        /\ d \in Machines /\ needed =>
              k[Test].opaque
              \/ (has_snapshot(d, Test) /\ snaps[d][Test].cksum = cksum(prog, Test))
    BY <2>2, TakenRecords
  <2> HIDE DEF k
  <2>8. ASSUME ~Kept(d), d \in Machines
        PROVE  Opaque(d, k)
    <3>1. Opaque(d, snaps[d])
      BY DEF OpaqueInv
    <3>2. ~(has_snapshot(d, Test) /\ snaps[d][Test].cksum = cksum(prog, Test) /\ needed)
      <4> SUFFICES ASSUME has_snapshot(d, Test), snaps[d][Test].cksum = cksum(prog, Test), needed
                   PROVE  FALSE
        OBVIOUS
      <4>1. snaps[d][Test].cksum[2] = "always"
        BY <2>2, <2>4, <2>5, <2>8
      <4>2. snaps[d][Test].image.taken
        BY <2>3, <2>8, <3>1, <4>1 DEF Opaque, has_snapshot
      <4> QED
        BY <2>6, <2>8, <4>2
    <3>3. /\ k[Test].image.taken => k[Test].opaque
          /\ k[Test].cksum[2] = "always" => k[Test].image.taken
      BY <2>2, <2>4, <2>7, <2>8, <3>2
    <3>4. ASSUME NEW s \in DOMAIN k \ {Initial}, s # Test
          PROVE  /\ k[s].image.taken => k[s].opaque
                 /\ k[s].cksum[2] = "always" => k[s].image.taken
      <4>1. s \in DOMAIN snaps[d] \ {Initial} /\ k[s] = snaps[d][s]
        BY <2>7, <3>4
      <4> QED
        BY <2>8, <3>1, <4>1 DEF Opaque
    <3> QED
      BY <3>3, <3>4 DEF Opaque
  <2>9. ~Kept(d) => Opaque(d, k)
    BY <2>8 DEF Opaque
  <2>10. \A c \in Controllers : snaps'[c] = snaps[c] \/ (c = d /\ ~Kept(d) /\ snaps'[c] = k)
    BY <1>0, <2>1
  <2> QED
    BY <1>1, <2>9, <2>10 DEF OpaqueInv
<1> QED
  BY <1>2, <1>3, <1>4, <1>5, <1>6, <1>7, DiskChanges

\* Hypervisor snapshots that a run needs, or of tests that are not "auto", stay.
LEMMA ImageStays ==
    ASSUME UsualProjects, LaunchInv, pc \in Visiting, Next, NEW q \in Done,
           plan.refs[q] # {} \/ Policy(q) # "auto", HasHypervisorSnapshots(q)
    PROVE  \A c \in Ctrl(prog, q) : has_hypervisor_snapshot(c, q)'
<1>0. /\ StateInv /\ PlanInv /\ VisitInv /\ RunInv /\ DOMAIN snaps = Controllers
      /\ q \in Selected(prog) /\ Controls(q) = Ctrl(prog, q) /\ Ctrl(prog, q) \subseteq Controllers
  <2>1. StateInv /\ PlanInv /\ VisitInv /\ RunInv
    BY DEF LaunchInv
  <2>2. q \in Selected(prog)
    BY <2>1, DoneSelected
  <2> QED
    BY <2>1, <2>2, ProgramFacts DEF StateInv
<1> SUFFICES ASSUME NEW c \in Ctrl(prog, q)
             PROVE  has_hypervisor_snapshot(c, q)'
  OBVIOUS
<1>1. q \in DOMAIN snaps[c] /\ snaps[c][q].image.taken
  BY <1>0 DEF HasHypervisorSnapshots, has_hypervisor_snapshot, has_snapshot
<1>2. ASSUME snaps'[c] = snaps[c]
      PROVE  has_hypervisor_snapshot(c, q)'
  BY <1>1, <1>2 DEF has_hypervisor_snapshot, has_snapshot
<1>3. ASSUME NEW kept \in Uncleaned
      PROVE  ~Clean(kept)
  BY DEF Clean, Visiting, Running
<1>4. ASSUME NEW d \in Controllers
      PROVE  ~DeleteSnapshots(d)
  BY DEF DeleteSnapshots, Visiting, Running
<1>5. ASSUME NEW u \in Names, NEW d \in Controllers, DropTemporary(u, d)
      PROVE  has_hypervisor_snapshot(c, q)'
  <2> DEFINE w == WithImage(snaps[d][u], NoImage)
  <2>1. /\ snaps' = [snaps EXCEPT ![d] = WithRecord(snaps[d], u, w)]
        /\ Policy(u) = "auto" /\ plan.refs[u] = {}
    BY <1>5 DEF DropTemporary, Temporary
  <2> HIDE DEF w
  <2>2. u # q
    BY <2>1
  <2>3. CASE c = d
    <3>1. snaps'[c] = WithRecord(snaps[c], u, w)
      BY <1>0, <2>1, <2>3
    <3>2. q \in DOMAIN snaps'[c] /\ snaps'[c][q] = snaps[c][q]
      BY <1>1, <2>2, <3>1 DEF WithRecord
    <3> QED
      BY <1>1, <3>2 DEF has_hypervisor_snapshot, has_snapshot
  <2>4. CASE c # d
    BY <1>0, <1>2, <2>1, <2>4
  <2> QED
    BY <2>3, <2>4
<1>6. ASSUME NEW d \in Controllers, InstallController(d)
      PROVE  has_hypervisor_snapshot(c, q)'
  <2>1. Relevant(prog, c)
    BY <1>0 DEF VisitInv, IsRelevant, Relevant, has_snapshot
  <2>2. snaps'[c] = snaps[c]
    BY <1>0, <1>6, <2>1 DEF InstallController, disk
  <2> QED
    BY <1>2, <2>2
<1>7. ASSUME NEW d \in Controllers, TakeSnapshot(d)
      PROVE  has_hypervisor_snapshot(c, q)'
  <2> DEFINE needed == is_hypervisor_snapshot_needed(Test)
             k == create_snapshot(d, Test, needed)
  <2>1. snaps' = snaps \/ (~Kept(d) /\ snaps' = [snaps EXCEPT ![d] = k])
    BY <1>7 DEF TakeSnapshot
  <2>2. needed \in BOOLEAN
    BY DEF is_hypervisor_snapshot_needed
  <2> HIDE DEF needed
  <2>3. \A s \in DOMAIN k \ {Test} : k[s] = snaps[d][s]
    BY <2>2, TakenRecords
  <2> HIDE DEF k
  <2>4. CASE c = d /\ ~Kept(d) /\ snaps' = [snaps EXCEPT ![d] = k]
    <3>1. snaps'[c] = k
      BY <1>0, <2>4
    <3>2. q # Test
      BY <1>1, <2>4 DEF Kept, has_hypervisor_snapshot, has_snapshot
    <3>3. q \in DOMAIN k
      BY <1>0, <3>1, VisitKeeps DEF Keeps
    <3>4. snaps'[c][q] = snaps[c][q]
      BY <2>3, <2>4, <3>1, <3>2, <3>3
    <3> QED
      BY <1>1, <3>1, <3>3, <3>4 DEF has_hypervisor_snapshot, has_snapshot
  <2>5. snaps'[c] = snaps[c] \/ (c = d /\ ~Kept(d) /\ snaps' = [snaps EXCEPT ![d] = k])
    BY <1>0, <2>1
  <2> QED
    BY <1>2, <2>4, <2>5
<1> QED
  BY <1>2, <1>3, <1>4, <1>5, <1>6, <1>7, DiskChanges

\* A step of a run moves the controllers of its test only.
LEMMA OthersStay ==
    ASSUME UsualProjects, LaunchInv, pc \in Visiting, pc' \in Visiting, Next,
           NEW c \in Controllers, pc # "next" => c \notin Controls(Test)
    PROVE  cur'[c] = cur[c]
<1>0. StateInv /\ PlanInv /\ RunInv /\ cur \in [Controllers -> Names \cup {Initial, ""}]
  BY DEF LaunchInv, StateInv
<1>1. ASSUME NEW names \in Invalidated
      PROVE  ~Begin(names)
  BY DEF Begin, Visiting, Running
<1>2. ASSUME NEW kept \in Uncleaned
      PROVE  ~Clean(kept)
  BY DEF Clean, Visiting, Running
<1>3. ASSUME NEW d \in Controllers
      PROVE  ~DeleteSnapshots(d)
  BY DEF DeleteSnapshots, Visiting, Running
<1>4. ~Decline /\ ~RestoreThrows /\ ~SnapshotThrows /\ ~Exit /\ ~Kill /\ ~CheckCache /\ ~Finish /\ ~BuildPlan
  BY DEF Decline, RestoreThrows, SnapshotThrows, Exit, Kill, Ended, CheckCache, Finish, BuildPlan,
         Visiting, Running
<1>5. NextRun \/ Skipped \/ ParentsRestored \/ NetworksCreated \/ ResumeParents \/ TemporariesDropped
          => cur' = cur
  BY DEF NextRun, Skipped, ParentsRestored, NetworksCreated, ResumeParents, TemporariesDropped, known
<1>6. /\ \A q \in Names, d \in Controllers : DropTemporary(q, d) => cur' = cur
      /\ \A n \in Networks : CreateNetwork(n) => cur' = cur
      /\ \A on \in BOOLEAN : CommandsPass(on) => cur' = cur
  BY DEF DropTemporary, CreateNetwork, CommandsPass, known
<1>7. CASE CommandsFail \/ Passed
  <2>1. pc # "next" /\ (cur' = cur \/ Stopped(Test))
    BY <1>7 DEF CommandsFail, Passed
  <2> QED
    BY <2>1 DEF Stopped
<1>8. ASSUME NEW q \in Names, NEW d \in Controllers, RestoreParent(q, d)
      PROVE  cur'[c] = cur[c]
  <2>1. /\ pc = "restore" /\ cur' = [cur EXCEPT ![d] = q] /\ <<q, d>> \in ToRestore
    BY <1>8 DEF RestoreParent, Restored
  <2>2. q \in ParentSet(prog, Test) /\ d \in Controls(q)
    BY <2>1 DEF ToRestore
  <2>3. Inherited(Test) \subseteq Controls(Test)
    BY <1>0, <2>1, PresentRun DEF PlanInv, Running
  <2>4. d \in Controls(Test)
    BY <2>2, <2>3 DEF Inherited
  <2> QED
    BY <1>0, <2>1, <2>4
<1>9. ASSUME NEW d \in Controllers, InstallController(d) \/ TakeSnapshot(d)
      PROVE  cur'[c] = cur[c]
  <2>1. /\ pc \in {"install", "snapshot"} /\ d \in pending
        /\ \E s : cur' = [cur EXCEPT ![d] = s]
    BY <1>9 DEF InstallController, TakeSnapshot, Restored
  <2>2. d \in Controls(Test)
    BY <1>0, <2>1 DEF RunInv
  <2> QED
    BY <1>0, <2>1, <2>2
<1> QED
  BY <1>1, <1>2, <1>3, <1>4, <1>5, <1>6, <1>7, <1>8, <1>9 DEF Next, Prepare, Visit

\* The runs of a plan.
LEMMA RunFacts ==
    ASSUME PlanInv
    PROVE  /\ Len(plan.runs) \in Nat /\ idx \in Nat
           /\ \A j \in 1 .. Len(plan.runs) :
                 plan.runs[j].test \in Selected(prog) /\ plan.runs[j].parents \subseteq 1 .. j - 1
<1> DEFINE runs == plan.runs
           S == [test : Selected(prog), parents : SUBSET Nat]
<1>1. runs \in Seq(S) /\ \A j \in 1 .. Len(runs) : runs[j].parents \subseteq 1 .. j - 1
  BY DEF PlanInv
<1> HIDE DEF runs, S
<1>2. Len(runs) \in Nat /\ \A j \in 1 .. Len(runs) : runs[j] \in S
  BY <1>1
<1>3. \A j \in 1 .. Len(runs) : runs[j].test \in Selected(prog)
  BY <1>2 DEF S
<1> QED
  BY <1>1, <1>2, <1>3 DEF runs, PlanInv

\* The plan promises each run the states of its parents.
LEMMA ComingBuilt ==
    ASSUME UsualProjects, LaunchInv, BuildPlan
    PROVE  ComingInv'
<1> DEFINE H == {t \in ok : HasHypervisorSnapshots(t)}
           b == build_test_plan(prog, ok, H)
<1>0. /\ StateInv /\ Version(prog) /\ ok \in SUBSET Selected(prog) /\ Upward(prog, ok) /\ idx' = 1
  BY ProgramFacts, BuiltPlan DEF LaunchInv, StateInv
<1>1. Built(prog, ok, H, b)
  BY <1>0, PlanIsBuilt DEF Version
<1>2. /\ plan' = b /\ prog' = prog /\ ok' = ok /\ snaps' = snaps
      /\ pc' = IF b.stuck THEN "stuck" ELSE "next"
  BY DEF BuildPlan, launch, disk
<1> HIDE DEF b
<1>3. CASE b = StuckPlan(prog, TRUE)
  <2>1. pc' = "stuck"
    BY <1>2, <1>3 DEF StuckPlan
  <2> QED
    BY <2>1 DEF ComingInv, Visiting, Running
<1>4. CASE b \in GoodPlans(prog, ok, H)
  <2>1. b \in PlanSet(prog) /\ HasParents(prog, ok, H, b)
    BY <1>4 DEF GoodPlans, WellPlanned
  <2>2. DOMAIN b.refs = Selected(prog)
    BY <2>1 DEF PlanSet
  <2>3. ASSUME NEW j \in 1 .. Len(b.runs), NEW q \in ParentSet(prog, b.runs[j].test)
        PROVE  Coming(q, j)'
    <3>1. HasParent(prog, ok, H, b, q, j)
      BY <2>1 DEF HasParents
    <3>2. CASE q \in ok /\ q \in H /\ j \in b.refs[q]
      <4>1. HasHypervisorSnapshots(q)'
        BY <1>2, <3>2 DEF HasHypervisorSnapshots, has_hypervisor_snapshot, has_snapshot, Controls
      <4> QED
        BY <1>2, <3>2, <4>1 DEF Coming
    <3>3. CASE \E i \in b.runs[j].parents :
                   /\ LastRun(prog, b, q, i, j - 1)
                   /\ \/ Clear(prog, b, q, i + 1, j - 1)
                      \/ prog.policy[q] # "never" /\ j \in b.refs[q]
      <4>1. PICK i \in b.runs[j].parents :
                   /\ LastRun(prog, b, q, i, j - 1)
                   /\ \/ Clear(prog, b, q, i + 1, j - 1)
                      \/ prog.policy[q] # "never" /\ j \in b.refs[q]
        BY <3>3
      <4>2. i >= 1
        BY <4>1 DEF LastRun
      <4>3. ~(i < idx')
        BY <1>0, <4>1, <4>2 DEF LastRun
      <4> QED
        BY <1>2, <4>1, <4>3 DEF Coming, Policy
    <3> QED
      BY <3>1, <3>2, <3>3 DEF HasParent
  <2> QED
    BY <1>2, <2>2, <2>3 DEF ComingInv
<1> QED
  BY <1>1, <1>3, <1>4 DEF Built

\* The end of a run that passes leaves its state for the runs that follow it.
LEMMA PassedLeaves ==
    ASSUME UsualProjects, LaunchInv, RestoreInv, Passed, NEW j \in 1 .. Len(plan.runs), j > idx,
           idx \in plan.runs[j].parents, NEW q, q = Test
    PROVE  /\ Loaded(q)'
           /\ Policy(q) # "never" /\ j \in plan.refs[q] => HasHypervisorSnapshots(q)'
<1>0. /\ StateInv /\ PlanInv /\ pc = "snapshot" /\ pending = {} /\ UNCHANGED <<prog, plan, snaps>>
      /\ Test \in Selected(prog) /\ Version(prog)
  BY PresentRun, ProgramFacts DEF LaunchInv, PlanInv, Running, Passed, launch, disk
<1>1. Followed
  BY <1>0, RunFacts DEF Followed
<1>2. cur' = cur
  BY <1>1 DEF Passed
<1>3. \A c \in Controls(q) :
          cur[c] = q /\ (is_hypervisor_snapshot_needed(q) => has_hypervisor_snapshot(c, q))
  BY <1>0 DEF RestoreInv
<1>4. Controls(q)' = Controls(q)
  BY <1>0 DEF Controls
<1>5. Loaded(q)'
  BY <1>2, <1>3, <1>4 DEF Loaded
<1>6. HasHypervisorSnapshots(q) => HasHypervisorSnapshots(q)'
  BY <1>0, <1>4 DEF HasHypervisorSnapshots, has_hypervisor_snapshot, has_snapshot
<1>7. Policy(q) \in Policies
  BY <1>0 DEF Version, Plannable, Policy
<1>8. Policy(q) # "never" /\ j \in plan.refs[q] => is_hypervisor_snapshot_needed(q)
  BY <1>7 DEF Policies, is_hypervisor_snapshot_needed
<1> QED
  BY <1>3, <1>5, <1>6, <1>8 DEF HasHypervisorSnapshots

\* What is coming to a later run is still coming after a step of an earlier one.
LEMMA ComingKept ==
    ASSUME UsualProjects, LaunchInv, RestoreInv, Next, pc \in Visiting, pc' \in Visiting,
           UNCHANGED <<prog, ok>>, plan'.runs = plan.runs,
           NEW j \in 1 .. Len(plan.runs), j > idx,
           NEW q \in ParentSet(prog, plan.runs[j].test), Coming(q, j),
           j \in plan.refs[q] => j \in plan'.refs[q],
           idx' \in {idx, idx + 1}, \A i \in 1 .. idx - 1 : status'[i] = status[i],
           idx' = idx + 1 => pc # "next" /\ (status'[idx] = "passed" => Passed)
    PROVE  Coming(q, j)'
<1>0. /\ StateInv /\ PlanInv /\ Version(prog) /\ Ordered(prog)
      /\ \A t \in Selected(prog) : Controls(t) = Ctrl(prog, t) /\ Controls(t) \subseteq Controllers
  BY ProgramFacts DEF LaunchInv
<1>1. /\ Len(plan.runs) \in Nat /\ idx \in Nat /\ j \in Nat
      /\ plan.runs[j].test \in Selected(prog) /\ plan.runs[j].parents \subseteq 1 .. j - 1
  BY <1>0, RunFacts
<1>2. q \in Selected(prog)
  BY <1>0, <1>1, AncestorFacts
<1>3. Controls(q)' = Controls(q) /\ Policy(q)' = Policy(q)
  BY DEF Controls, Policy
<1>4. ASSUME q \in Done, j \in plan.refs[q], HasHypervisorSnapshots(q)
      PROVE  HasHypervisorSnapshots(q)'
  <2>1. \A c \in Ctrl(prog, q) : has_hypervisor_snapshot(c, q)'
    BY <1>4, ImageStays
  <2> QED
    BY <1>0, <1>2, <1>3, <2>1 DEF HasHypervisorSnapshots
<1>5. CASE q \in ok /\ j \in plan.refs[q] /\ HasHypervisorSnapshots(q)
  <2>1. HasHypervisorSnapshots(q)'
    BY <1>4, <1>5 DEF Done
  <2> QED
    BY <1>5, <2>1 DEF Coming
<1>6. ASSUME NEW i \in plan.runs[j].parents, LastRun(prog, plan, q, i, j - 1)
      PROVE  /\ LastRun(prog, plan', q, i, j - 1) /\ i \in 1 .. j - 1 /\ q = plan.runs[i].test
             /\ Clear(prog, plan', q, i + 1, j - 1) <=> Clear(prog, plan, q, i + 1, j - 1)
  BY <1>6 DEF LastRun, Clear
<1>7. ASSUME NEW i \in plan.runs[j].parents, LastRun(prog, plan, q, i, j - 1),
             i < idx', status'[i] = "passed"
      PROVE  \/ i < idx /\ status[i] = "passed" /\ q \in Done
             \/ i = idx /\ Passed /\ q = Test
  <2>1. i \in 1 .. j - 1 /\ q = plan.runs[i].test
    BY <1>6, <1>7
  <2>2. CASE i < idx
    <3>1. i \in 1 .. idx - 1 /\ status[i] = "passed"
      BY <1>1, <1>7, <2>1, <2>2
    <3> QED
      BY <2>1, <2>2, <3>1 DEF Done
  <2>3. CASE i = idx /\ idx' = idx + 1
    BY <1>7, <2>1, <2>3 DEF Test, Run
  <2> QED
    BY <1>1, <1>7, <2>1, <2>2, <2>3
<1>8. ASSUME NEW i \in plan.runs[j].parents, LastRun(prog, plan, q, i, j - 1),
             Clear(prog, plan, q, i + 1, j - 1), i < idx /\ status[i] = "passed" => Loaded(q),
             i < idx', status'[i] = "passed"
      PROVE  Loaded(q)'
  <2>1. CASE i < idx /\ status[i] = "passed"
    <3>1. i \in 1 .. j - 1
      BY <1>6, <1>8
    <3>2. ~Share(prog, plan.runs[idx].test, q)
      <4>1. idx \in i + 1 .. j - 1
        BY <1>1, <2>1, <3>1
      <4> QED
        BY <1>8, <4>1 DEF Clear
    <3>3. \A c \in Controls(q) : c \notin Controls(Test)
      BY <3>2 DEF Share, Controls, Test, Run
    <3>4. \A c \in Controls(q) : cur'[c] = cur[c]
      BY <1>0, <1>2, <3>3, OthersStay
    <3> QED
      BY <1>3, <1>8, <2>1, <3>4 DEF Loaded
  <2>2. CASE i = idx /\ Passed /\ q = Test
    BY <2>2, PassedLeaves
  <2> QED
    BY <1>7, <1>8, <2>1, <2>2
<1>9. ASSUME NEW i \in plan.runs[j].parents, LastRun(prog, plan, q, i, j - 1),
             Policy(q) # "never", j \in plan.refs[q],
             i < idx /\ status[i] = "passed" => HasHypervisorSnapshots(q),
             i < idx', status'[i] = "passed"
      PROVE  HasHypervisorSnapshots(q)'
  <2>1. CASE i < idx /\ status[i] = "passed" /\ q \in Done
    BY <1>4, <1>9, <2>1
  <2>2. CASE i = idx /\ Passed /\ q = Test
    BY <1>9, <2>2, PassedLeaves
  <2> QED
    BY <1>7, <1>9, <2>1, <2>2
<1>10. ASSUME NEW i \in plan.runs[j].parents, LastRun(prog, plan, q, i, j - 1),
              \/ /\ Clear(prog, plan, q, i + 1, j - 1)
                 /\ i < idx /\ status[i] = "passed" => Loaded(q)
              \/ /\ Policy(q) # "never" /\ j \in plan.refs[q]
                 /\ i < idx /\ status[i] = "passed" => HasHypervisorSnapshots(q)
       PROVE  Coming(q, j)'
  <2>1. LastRun(prog', plan', q, i, j - 1) /\ i \in plan'.runs[j].parents
    BY <1>6, <1>10
  <2>2. CASE /\ Clear(prog, plan, q, i + 1, j - 1)
             /\ i < idx /\ status[i] = "passed" => Loaded(q)
    <3>1. i < idx' /\ status'[i] = "passed" => Loaded(q)'
      BY <1>8, <1>10, <2>2
    <3>2. Clear(prog', plan', q, i + 1, j - 1)
      BY <1>6, <1>10, <2>2
    <3> QED
      BY <2>1, <3>1, <3>2 DEF Coming
  <2>3. CASE /\ Policy(q) # "never" /\ j \in plan.refs[q]
             /\ i < idx /\ status[i] = "passed" => HasHypervisorSnapshots(q)
    <3>1. i < idx' /\ status'[i] = "passed" => HasHypervisorSnapshots(q)'
      BY <1>9, <1>10, <2>3
    <3>2. Policy(q)' # "never" /\ j \in plan'.refs[q]
      BY <1>3, <2>3
    <3> QED
      BY <2>1, <3>1, <3>2 DEF Coming
  <2> QED
    BY <1>10, <2>2, <2>3
<1> QED
  BY <1>5, <1>10 DEF Coming

\* Each step keeps what the plan promises.
LEMMA ComingStep ==
    ASSUME UsualProjects, LaunchInv, ComingInv, RestoreInv, Next
    PROVE  ComingInv'
<1>0. StateInv /\ PlanInv
  BY DEF LaunchInv
<1>1. CASE pc' \notin Visiting
  BY <1>1 DEF ComingInv
<1>2. CASE BuildPlan
  BY <1>2, ComingBuilt
<1>3. ASSUME pc \in Visiting, pc' \in Visiting, UNCHANGED <<prog, ok>>, plan'.runs = plan.runs,
             DOMAIN plan'.refs = DOMAIN plan.refs,
             \A t \in Selected(prog) : \A j \in 1 .. Len(plan.runs) :
                 j > idx /\ j \in plan.refs[t] => j \in plan'.refs[t],
             idx' \in {idx, idx + 1}, \A i \in 1 .. idx - 1 : status'[i] = status[i],
             idx' = idx + 1 => pc # "next" /\ (status'[idx] = "passed" => Passed),
             idx' = idx => pc' # "next"
      PROVE  ComingInv'
  <2>1. ASSUME NEW j \in 1 .. Len(plan.runs), j > idx' \/ (pc' = "next" /\ j = idx'),
               NEW q \in ParentSet(prog, plan.runs[j].test)
        PROVE  Coming(q, j)'
    <3>1. j > idx /\ plan.runs[j].test \in Selected(prog)
      BY <1>0, <1>3, <2>1, RunFacts
    <3>2. Coming(q, j)
      BY <1>3, <3>1 DEF ComingInv
    <3>3. q \in Selected(prog)
      BY <1>0, <3>1, ProgramFacts, AncestorFacts
    <3>4. j \in plan.refs[q] => j \in plan'.refs[q]
      BY <1>3, <3>1, <3>3
    <3> QED
      BY <1>3, <3>1, <3>2, <3>4, ComingKept
  <2> QED
    BY <1>3, <2>1 DEF ComingInv
<1>4. CASE NextRun
  <2>1. /\ plan' = [plan EXCEPT !.refs = RemainingRefs] /\ pc = "next" /\ pc' \in {"skip", "restore"}
        /\ UNCHANGED <<prog, ok, idx, status>>
    BY <1>4 DEF NextRun, launch
  <2>2. plan = [stuck |-> plan.stuck, runs |-> plan.runs, refs |-> plan.refs]
    BY <1>0 DEF PlanInv
  <2>3. plan' = [stuck |-> plan.stuck, runs |-> plan.runs, refs |-> RemainingRefs]
    BY <2>1, <2>2
  <2>4. plan'.runs = plan.runs /\ plan'.refs = RemainingRefs
    BY <2>3
  <2>5. DOMAIN plan.refs = Selected(prog)
    BY <2>1 DEF ComingInv, Visiting
  <2>6. DOMAIN plan'.refs = DOMAIN plan.refs
    BY <2>4 DEF RemainingRefs
  <2>7. \A t \in Selected(prog) : \A j \in 1 .. Len(plan.runs) :
            j > idx /\ j \in plan.refs[t] => j \in plan'.refs[t]
    <3> SUFFICES ASSUME NEW t \in Selected(prog), NEW j \in 1 .. Len(plan.runs),
                        j > idx, j \in plan.refs[t]
                 PROVE  j \in plan'.refs[t]
      OBVIOUS
    <3>1. idx \in Nat /\ j # idx
      BY <1>0 DEF PlanInv
    <3> QED
      BY <2>4, <2>5, <3>1 DEF RemainingRefs
  <2>8. idx' # idx + 1
    BY <1>0, <2>1 DEF PlanInv
  <2> QED
    BY <1>3, <2>1, <2>4, <2>6, <2>7, <2>8 DEF Visiting, Running
<1>5. CASE Skipped \/ CommandsFail \/ Passed
  <2>1. /\ UNCHANGED <<prog, ok, plan>> /\ idx' = idx + 1 /\ pc' = "next"
        /\ pc \in {"skip"} \cup Running /\ pc \in Visiting /\ pc # "next"
        /\ \E x \in {"passed", "failed", "skipped"} :
              status' = [status EXCEPT ![idx] = x] /\ (x = "passed" => Passed)
    BY <1>5 DEF Skipped, CommandsFail, Passed, launch, Running, Visiting
  <2>2. idx \in 1 .. Len(plan.runs) /\ DOMAIN status = 1 .. Len(plan.runs) /\ Len(plan.runs) \in Nat
    BY <1>0, <2>1, PresentRun DEF PlanInv
  <2>3. /\ status'[idx] = "passed" => Passed
        /\ \A i \in 1 .. idx - 1 : status'[i] = status[i]
    BY <2>1, <2>2
  <2>4. idx' # idx
    BY <2>1, <2>2
  <2> QED
    BY <1>3, <2>1, <2>3, <2>4 DEF Visiting
<1>6. CASE /\ UNCHANGED <<prog, ok, plan, idx, status>> /\ pc' # "next" /\ pc \in Visiting
           /\ pc' \in Visiting
  <2>1. idx' # idx + 1
    BY <1>0, <1>6 DEF PlanInv
  <2> QED
    BY <1>3, <1>6, <2>1
<1> QED
  BY <1>1, <1>2, <1>4, <1>5, <1>6, VisitSteps

\* Each step keeps what the present run has and leaves.
LEMMA RestoreStep ==
    ASSUME UsualProjects, LaunchInv, ComingInv, RestoreInv, Next
    PROVE  RestoreInv'
<1>0. /\ StateInv /\ PlanInv /\ RunInv /\ Version(prog) /\ Ordered(prog)
      /\ cur \in [Controllers -> Names \cup {Initial, ""}] /\ DOMAIN snaps = Controllers
      /\ \A t \in Selected(prog) : Controls(t) = Ctrl(prog, t)
  BY ProgramFacts DEF LaunchInv, StateInv
<1>1. CASE pc' \notin {"restore", "snapshot"}
  BY <1>1 DEF RestoreInv
<1>2. CASE NextRun /\ pc' = "restore"
  <2>1. /\ pc = "next" /\ idx <= Len(plan.runs) /\ ~SkipTest
        /\ UNCHANGED <<prog, idx, cur, snaps>> /\ plan' = [plan EXCEPT !.refs = RemainingRefs]
    BY <1>2 DEF NextRun, launch, disk, known
  <2>2. plan' = [stuck |-> plan.stuck, runs |-> plan.runs, refs |-> RemainingRefs]
    BY <1>0, <2>1 DEF PlanInv
  <2>3. idx \in 1 .. Len(plan.runs) /\ Test = plan.runs[idx].test /\ Run = plan.runs[idx]
    BY <1>0, <2>1, PresentRun
  <2>4. ASSUME NEW q \in ParentSet(prog, Test)
        PROVE  HasHypervisorSnapshots(q) \/ Loaded(q)
    <3>1. Coming(q, idx)
      BY <2>1, <2>3 DEF ComingInv, Visiting
    <3>2. \A i \in plan.runs[idx].parents : i < idx /\ status[i] = "passed"
      <4>1. \A i \in plan.runs[idx].parents : i \in 1 .. idx - 1
        BY <1>0, <2>3, RunFacts
      <4> QED
        BY <2>1, <2>3, <4>1 DEF SkipTest
    <3> QED
      BY <3>1, <3>2 DEF Coming
  <2>5. Test' = Test
    BY <2>1, <2>2 DEF Test, Run
  <2>6. \A q : HasHypervisorSnapshots(q)' <=> HasHypervisorSnapshots(q)
    BY <2>1 DEF HasHypervisorSnapshots, has_hypervisor_snapshot, has_snapshot, Controls
  <2>7. \A q : Loaded(q)' <=> Loaded(q)
    BY <2>1 DEF Loaded, Controls
  <2> QED
    BY <1>2, <2>1, <2>4, <2>5, <2>6, <2>7 DEF RestoreInv
<1>3. ASSUME NEW q \in Names, NEW d \in Controllers, RestoreParent(q, d)
      PROVE  RestoreInv'
  <2>1. /\ pc = "restore" /\ pc' = "restore" /\ UNCHANGED <<prog, plan, idx, snaps>>
        /\ cur' = [cur EXCEPT ![d] = q] /\ <<q, d>> \in ToRestore
    BY <1>3 DEF RestoreParent, Restored, launch, disk
  <2>2. Test' = Test
    BY <2>1 DEF Test, Run
  <2>3. Test \in Selected(prog) /\ ParentSet(prog, Test) \subseteq Selected(prog)
    BY <1>0, <2>1, PresentRun DEF PlanInv, Running
  <2>4. q \in ParentSet(prog, Test) /\ d \in Controls(q)
    BY <2>1 DEF ToRestore
  <2>5. ASSUME NEW u \in ParentSet(prog, Test), Loaded(u)
        PROVE  Loaded(u)'
    <3>1. ASSUME d \in Controls(u)
          PROVE  u = q
      <4>1. d \in Ctrl(prog, u) /\ d \in Ctrl(prog, q)
        BY <1>0, <2>3, <2>4, <3>1
      <4> QED
        BY <1>0, <2>3, <2>4, <4>1, OneParent
    <3>2. \A c \in Controls(u) : cur[c] = u /\ c \in Controllers
      BY <1>0, <2>3, <2>5 DEF Loaded, Version
    <3>3. \A c \in Controls(u) : cur'[c] = u
      BY <1>0, <2>1, <3>1, <3>2
    <3> QED
      BY <2>1, <3>3 DEF Loaded, Controls
  <2>6. \A u : HasHypervisorSnapshots(u)' <=> HasHypervisorSnapshots(u)
    BY <2>1 DEF HasHypervisorSnapshots, has_hypervisor_snapshot, has_snapshot, Controls
  <2> QED
    BY <2>1, <2>2, <2>5, <2>6 DEF RestoreInv
<1>4. CASE TemporariesDropped
  <2>1. /\ pc' = "snapshot" /\ pending' = Controls(Test) /\ UNCHANGED <<prog, plan, idx>>
    BY <1>4 DEF TemporariesDropped, launch
  <2>2. Controls(Test)' = Controls(Test)
    BY <2>1 DEF Controls, Test, Run
  <2> QED
    BY <2>1, <2>2 DEF RestoreInv
<1>5. ASSUME NEW d \in Controllers, TakeSnapshot(d)
      PROVE  RestoreInv'
  <2> DEFINE needed == is_hypervisor_snapshot_needed(Test)
             k == create_snapshot(d, Test, needed)
  <2>1. /\ pc = "snapshot" /\ pc' = "snapshot" /\ UNCHANGED <<prog, plan, idx>>
        /\ d \in pending /\ pending' = pending \ {d} /\ cur' = [cur EXCEPT ![d] = Test]
        /\ \/ Kept(d) /\ snaps' = snaps
           \/ snaps' = [snaps EXCEPT ![d] = k]
    BY <1>5 DEF TakeSnapshot, launch
  <2>2. needed \in BOOLEAN
    BY DEF is_hypervisor_snapshot_needed
  <2>3. Test' = Test /\ Controls(Test)' = Controls(Test) /\ needed' = needed
    BY <2>1 DEF Controls, Test, Run, is_hypervisor_snapshot_needed, Policy
  <2>4. Kept(d) => (needed => has_hypervisor_snapshot(d, Test))
    BY DEF Kept
  <2>5. Controls(Test) \subseteq Controllers
    BY <1>0, <2>1, PresentRun DEF PlanInv, Running
  <2>6. \A c \in Controls(Test) \ pending :
            cur[c] = Test /\ (needed => has_hypervisor_snapshot(c, Test))
    BY <2>1 DEF RestoreInv
  <2> HIDE DEF needed
  <2>7. Test \in DOMAIN k /\ (needed => k[Test].image.taken)
    BY <2>2, TakenRecords
  <2> HIDE DEF k
  <2>8. ASSUME NEW c \in Controls(Test) \ pending'
        PROVE  cur'[c] = Test /\ (needed => Test \in DOMAIN snaps'[c] /\ snaps'[c][Test].image.taken)
    <3>1. CASE c = d
      <4>1. cur'[c] = Test
        BY <1>0, <2>1, <3>1
      <4>2. CASE Kept(d) /\ snaps' = snaps
        BY <2>4, <3>1, <4>1, <4>2 DEF has_hypervisor_snapshot, has_snapshot
      <4>3. CASE snaps' = [snaps EXCEPT ![d] = k]
        <5>1. snaps'[c] = k
          BY <1>0, <3>1, <4>3
        <5> QED
          BY <2>7, <4>1, <5>1
      <4> QED
        BY <2>1, <4>2, <4>3
    <3>2. CASE c # d
      <4>1. c \in Controls(Test) \ pending /\ c \in Controllers
        BY <2>1, <2>5, <3>2
      <4>2. cur'[c] = cur[c] /\ snaps'[c] = snaps[c]
        BY <1>0, <2>1, <3>2, <4>1
      <4> QED
        BY <2>6, <4>1, <4>2 DEF has_hypervisor_snapshot, has_snapshot
    <3> QED
      BY <3>1, <3>2
  <2>9. \A c : has_hypervisor_snapshot(c, Test)' <=>
               Test' \in DOMAIN snaps'[c] /\ snaps'[c][Test'].image.taken
    BY DEF has_hypervisor_snapshot, has_snapshot
  <2>10. ASSUME NEW c \in Controls(Test)' \ pending'
         PROVE  cur'[c] = Test' /\ (needed' => has_hypervisor_snapshot(c, Test)')
    BY <2>3, <2>8, <2>9, <2>10
  <2> QED
    BY <2>1, <2>10 DEF RestoreInv, needed
<1>6. ASSUME pc' \in {"restore", "snapshot"}
      PROVE  \/ NextRun
             \/ \E q \in Names, c \in Controllers : RestoreParent(q, c)
             \/ TemporariesDropped
             \/ \E c \in Controllers : TakeSnapshot(c)
  <2>1. /\ \A names \in Invalidated : ~Begin(names)
        /\ \A kept \in Uncleaned : ~Clean(kept)
        /\ \A c \in Controllers : ~DeleteSnapshots(c)
    BY <1>6 DEF Begin, Clean, DeleteSnapshots
  <2>2. ~Decline /\ ~RestoreThrows /\ ~SnapshotThrows /\ ~Exit /\ ~Kill /\ ~CheckCache /\ ~Finish
    BY <1>6 DEF Decline, RestoreThrows, SnapshotThrows, Exit, Kill, Ended, CheckCache, Finish
  <2>3. ~BuildPlan /\ ~Skipped /\ ~CommandsFail /\ ~Passed
        /\ ~ParentsRestored /\ ~NetworksCreated /\ ~ResumeParents
    BY <1>6 DEF BuildPlan, Skipped, CommandsFail, Passed, ParentsRestored, NetworksCreated, ResumeParents
  <2>4. /\ \A q \in Names, c \in Controllers : ~DropTemporary(q, c)
        /\ \A c \in Controllers : ~InstallController(c)
        /\ \A n \in Networks : ~CreateNetwork(n)
        /\ \A on \in BOOLEAN : ~CommandsPass(on)
    BY <1>6 DEF DropTemporary, InstallController, CreateNetwork, CommandsPass
  <2> QED
    BY <2>1, <2>2, <2>3, <2>4 DEF Next, Prepare, Visit
<1>7. NextRun => pc' # "snapshot"
  BY DEF NextRun
<1> QED
  BY <1>1, <1>2, <1>3, <1>4, <1>5, <1>6, <1>7

\* What is needed of the launch to know that its rollbacks succeed.
RollbackInv == OpaqueInv /\ ComingInv /\ RestoreInv

\* It holds of every state of every history of a project.
LEMMA RollbackInvariant ==
    ASSUME UsualProjects, TemporariesOnFlash
    PROVE  Spec => [](LaunchInv /\ RollbackInv)
<1>1. Init => RollbackInv
  <2> SUFFICES ASSUME Init PROVE RollbackInv
    OBVIOUS
  <2>1. pc = "idle"
    BY DEF Init
  <2>2. \A c \in Controllers : snaps[c] = <<>>
    BY DEF Init
  <2>3. DOMAIN <<>> = {}
    OBVIOUS
  <2>4. OpaqueInv
    BY <2>2, <2>3 DEF OpaqueInv, Opaque
  <2> QED
    BY <2>1, <2>4 DEF RollbackInv, ComingInv, RestoreInv, Visiting, Running
<1>2. LaunchInv /\ RollbackInv /\ [Next]_vars => RollbackInv'
  <2> SUFFICES ASSUME LaunchInv, RollbackInv, [Next]_vars PROVE RollbackInv'
    OBVIOUS
  <2>1. CASE Next
    BY <2>1, OpaqueStep, ComingStep, RestoreStep DEF RollbackInv
  <2>2. CASE UNCHANGED vars
    <3> USE <2>2 DEF vars
    <3>1. OpaqueInv'
      BY DEF RollbackInv, OpaqueInv
    <3>2. \A q : /\ Controls(q)' = Controls(q)
                 /\ Loaded(q)' <=> Loaded(q)
                 /\ HasHypervisorSnapshots(q)' <=> HasHypervisorSnapshots(q)
      BY DEF Controls, Loaded, HasHypervisorSnapshots, has_hypervisor_snapshot, has_snapshot
    <3>3. \A q, j : Coming(q, j)' <=> Coming(q, j)
      BY <3>2 DEF Coming, Policy
    <3>4. ComingInv'
      BY <3>3 DEF RollbackInv, ComingInv
    <3>5. Test' = Test
      BY DEF Test, Run
    <3>6. RestoreInv'
      BY <3>2, <3>5 DEF RollbackInv, RestoreInv, is_hypervisor_snapshot_needed, Policy,
                        has_hypervisor_snapshot, has_snapshot
    <3> QED
      BY <3>1, <3>4, <3>6 DEF RollbackInv
  <2> QED
    BY <2>1, <2>2
<1> QED
  BY <1>1, <1>2, LaunchInvariant, PTL DEF Spec

\* Whatever the plan decided to restore can be restored, as long as the tests whose
\* hypervisor snapshots come and go within a launch use flash drives only.
THEOREM RestoreIsPossible ==
    ASSUME UsualProjects, TemporariesOnFlash
    PROVE  Spec => []RestoreSucceeds
<1>1. ASSUME LaunchInv, RollbackInv
      PROVE  RestoreSucceeds
  <2> SUFFICES ASSUME pc = "restore", NEW x \in ToRestore
               PROVE  CanRestore(x[2], x[1])
    BY DEF RestoreSucceeds
  <2> DEFINE q == x[1]
             c == x[2]
  <2>1. /\ q \in ParentSet(prog, Test) /\ c \in Controllers /\ c \in Controls(q) /\ cur[c] # q
    BY DEF ToRestore
  <2> HIDE DEF q, c
  <2>2. StateInv /\ PlanInv /\ idx <= Len(plan.runs)
    BY <1>1 DEF LaunchInv, PlanInv, Running
  <2>3. q \in Selected(prog) /\ q # Initial
    BY <2>1, <2>2, PresentRun, ProgramFacts
  <2>4. HasHypervisorSnapshots(q) \/ Loaded(q)
    BY <1>1, <2>1 DEF RollbackInv, RestoreInv
  <2>5. has_hypervisor_snapshot(c, q)
    BY <2>1, <2>4 DEF Loaded, HasHypervisorSnapshots
  <2>6. Opaque(c, snaps[c])
    BY <1>1, <2>1 DEF RollbackInv, OpaqueInv
  <2>7. CanRestore(c, q)
    BY <2>3, <2>5, <2>6 DEF CanRestore, Opaque, has_hypervisor_snapshot, has_snapshot
  <2> QED
    BY <2>7 DEF q, c
<1> QED
  BY <1>1, RollbackInvariant, PTL


----------------------------------------------------------------------------
(* No key is down when commands start                                      *)

\* What a step writes about a snapshot: that its hypervisor part is gone, an initial
\* snapshot, or the one of the present run.
LEMMA RecordSteps ==
    ASSUME UsualProjects, LaunchInv, Next, NEW c \in Controllers, NEW s \in DOMAIN snaps'[c]
    PROVE  \/ s \in DOMAIN snaps[c] /\ snaps'[c][s] = snaps[c][s]
           \/ /\ s \in DOMAIN snaps[c] /\ snaps'[c][s] = WithImage(snaps[c][s], NoImage)
              /\ DropTemporary(s, c)
           \/ s = Initial /\ snaps'[c][s].image = Image(Fresh, FALSE, FALSE)
           \/ /\ s = Test /\ TakeSnapshot(c) /\ ~Kept(c) /\ pc = "snapshot" /\ c \in pending
              /\ snaps'[c][s].cksum = cksum(prog, Test)
              /\ snaps'[c][s].image = IF is_hypervisor_snapshot_needed(Test)
                                      THEN Image(live[c], power[c] # "stopped", c \in keys)
                                      ELSE NoImage
<1>0. DOMAIN snaps = Controllers
  BY DEF LaunchInv, StateInv
<1> DEFINE Old == s \in DOMAIN snaps[c] /\ snaps'[c][s] = snaps[c][s]
<1>1. snaps'[c] = snaps[c] => Old
  OBVIOUS
<1>2. ASSUME NEW kept \in Uncleaned, Clean(kept)
      PROVE  Old
  <2>1. snaps'[c] = snaps[c] \/ snaps'[c] = <<>>
    BY <1>2 DEF Clean
  <2>2. DOMAIN <<>> = {}
    OBVIOUS
  <2> QED
    BY <1>1, <2>1, <2>2
<1>3. ASSUME NEW d \in Controllers, DeleteSnapshots(d)
      PROVE  Old
  <2>1. snaps' = snaps \/ snaps' = [snaps EXCEPT ![d] = Pruned(snaps[d], Head(queue))]
    BY <1>3, DeletionPrunes DEF DeleteSnapshots
  <2>2. snaps'[c] = snaps[c] \/ snaps'[c] = Pruned(snaps[c], Head(queue))
    BY <1>0, <2>1
  <2> QED
    BY <1>1, <2>2 DEF Pruned
<1>4. ASSUME NEW q \in Names, NEW d \in Controllers, DropTemporary(q, d)
      PROVE  \/ Old
             \/ /\ s \in DOMAIN snaps[c] /\ snaps'[c][s] = WithImage(snaps[c][s], NoImage)
                /\ DropTemporary(s, c)
  <2> DEFINE w == WithImage(snaps[d][q], NoImage)
  <2>1. q \in DOMAIN snaps[d] /\ snaps' = [snaps EXCEPT ![d] = WithRecord(snaps[d], q, w)]
    BY <1>4 DEF DropTemporary, Temporary, has_hypervisor_snapshot, has_snapshot
  <2> HIDE DEF w
  <2>2. snaps'[c] = snaps[c] \/ (c = d /\ snaps'[c] = WithRecord(snaps[c], q, w))
    BY <1>0, <2>1
  <2>3. CASE c = d /\ snaps'[c] = WithRecord(snaps[c], q, w)
    <3>1. s \in DOMAIN snaps[c] /\ snaps'[c][s] = IF s = q THEN w ELSE snaps[c][s]
      BY <2>1, <2>3 DEF WithRecord
    <3> QED
      BY <1>4, <2>3, <3>1 DEF w
  <2> QED
    BY <1>1, <2>2, <2>3
<1>5. ASSUME NEW d \in Controllers, InstallController(d)
      PROVE  Old \/ (s = Initial /\ snaps'[c][s].image = Image(Fresh, FALSE, FALSE))
  <2> DEFINE w == Record(<<>>, "", Image(Fresh, FALSE, FALSE), d \in Machines)
  <2>1. snaps' = snaps \/ snaps' = [snaps EXCEPT ![d] = [n \in {Initial} |-> w]]
    BY <1>5 DEF InstallController, disk
  <2>2. w.image = Image(Fresh, FALSE, FALSE)
    BY DEF Record
  <2> HIDE DEF w
  <2>3. snaps'[c] = snaps[c] \/ snaps'[c] = [n \in {Initial} |-> w]
    BY <1>0, <2>1
  <2>4. CASE snaps'[c] = [n \in {Initial} |-> w]
    <3>1. s = Initial /\ snaps'[c][s] = w
      BY <2>4
    <3> QED
      BY <2>2, <3>1
  <2> QED
    BY <1>1, <2>3, <2>4
<1>6. ASSUME NEW d \in Controllers, TakeSnapshot(d)
      PROVE  \/ Old
             \/ /\ s = Test /\ TakeSnapshot(c) /\ ~Kept(c) /\ pc = "snapshot" /\ c \in pending
                /\ snaps'[c][s].cksum = cksum(prog, Test)
                /\ snaps'[c][s].image = IF is_hypervisor_snapshot_needed(Test)
                                        THEN Image(live[c], power[c] # "stopped", c \in keys)
                                        ELSE NoImage
  <2> DEFINE needed == is_hypervisor_snapshot_needed(Test)
             k == create_snapshot(d, Test, needed)
  <2>1. /\ pc = "snapshot" /\ d \in pending
        /\ snaps' = snaps \/ (~Kept(d) /\ snaps' = [snaps EXCEPT ![d] = k])
    BY <1>6 DEF TakeSnapshot
  <2>2. needed \in BOOLEAN
    BY DEF is_hypervisor_snapshot_needed
  <2> HIDE DEF needed
  <2>3. /\ DOMAIN k \subseteq DOMAIN snaps[d] \cup {Test}
        /\ \A n \in DOMAIN k \ {Test} : k[n] = snaps[d][n]
        /\ k[Test].cksum = cksum(prog, Test)
        /\ k[Test].image = IF needed THEN Image(live[d], power[d] # "stopped", d \in keys) ELSE NoImage
    BY <2>2, TakenRecords
  <2> HIDE DEF k
  <2>4. snaps'[c] = snaps[c] \/ (c = d /\ ~Kept(d) /\ snaps'[c] = k)
    BY <1>0, <2>1
  <2>5. CASE c = d /\ ~Kept(d) /\ snaps'[c] = k
    <3>1. CASE s = Test
      BY <1>6, <2>1, <2>3, <2>5, <3>1 DEF needed
    <3>2. CASE s # Test
      BY <2>3, <2>5, <3>2
    <3> QED
      BY <3>1, <3>2
  <2> QED
    BY <1>1, <2>4, <2>5
<1> HIDE DEF Old
<1>7. CASE snaps' = snaps
  BY <1>1, <1>7 DEF Old
<1> QED
  BY <1>2, <1>3, <1>4, <1>5, <1>6, <1>7, DiskChanges DEF Old

\* The tests that leave a key down use machines only.
HoldersOnMachines ==
    \A x \in DOMAIN Projects : \A p \in Versions(x) : \A t \in Selected(p) :
        <<t, p.body[t]>> \in Forgetful => Ctrl(p, t) \subseteq Machines

\* No snapshot has a key in it, nor is it of a test that leaves one down.
ReleasedInv ==
    \A c \in Controllers : \A s \in DOMAIN snaps[c] :
        /\ ~snaps[c][s].image.key
        /\ c \in Machines /\ s # Initial => <<s, snaps[c][s].cksum[3]>> \notin Forgetful

\* A machine whose state is known has no key down, unless the present run has just put
\* it there; then the interpreter knows of the key.
KeyInv ==
    /\ pc \notin Visiting \cup {"finished"} => \A c \in Controllers : cur[c] = ""
    /\ pc \in Visiting =>
          \A c \in keys : cur[c] # "" => pc \in {"drop", "snapshot"} /\ c \in Controls(Test)
                                         /\ Forgets(Test)
    /\ pc \in {"drop", "snapshot"} /\ Forgets(Test) => MachinesOf(Test) \subseteq held

\* The state of a controller that is ready is known.
LEMMA ReadyIsKnown ==
    ASSUME UsualProjects, LaunchInv, pc \in Running, NEW c \in Controls(Test), Ready(c)
    PROVE  cur[c] # ""
<1>1. /\ StateInv /\ PlanInv /\ idx <= Len(plan.runs)
  BY DEF LaunchInv, PlanInv
<1>2. ParentSet(prog, Test) \subseteq Names /\ "" \notin Names
  BY <1>1, PresentRun, ProgramFacts
<1>3. cur[c] \in ParentSet(prog, Test) \cup {Initial}
  BY DEF Ready, OnParent
<1> QED
  BY <1>2, <1>3 DEF Initial


\* Each step keeps keys out of the snapshots.
LEMMA ReleasedStep ==
    ASSUME UsualProjects, LaunchInv, ReleasedInv, KeyInv, Next
    PROVE  ReleasedInv'
<1> SUFFICES ASSUME NEW c \in Controllers, NEW s \in DOMAIN snaps'[c]
             PROVE  /\ ~snaps'[c][s].image.key
                    /\ c \in Machines /\ s # Initial => <<s, snaps'[c][s].cksum[3]>> \notin Forgetful
  BY DEF ReleasedInv
<1>1. CASE s \in DOMAIN snaps[c] /\ snaps'[c][s] = snaps[c][s]
  BY <1>1 DEF ReleasedInv
<1>2. CASE s \in DOMAIN snaps[c] /\ snaps'[c][s] = WithImage(snaps[c][s], NoImage)
  <2>1. snaps'[c][s].image.key = FALSE /\ snaps'[c][s].cksum = snaps[c][s].cksum
    BY <1>2 DEF WithImage, Record, NoImage
  <2> QED
    BY <1>2, <2>1 DEF ReleasedInv
<1>3. CASE s = Initial /\ snaps'[c][s].image = Image(Fresh, FALSE, FALSE)
  BY <1>3 DEF Image
<1>4. CASE /\ s = Test /\ TakeSnapshot(c) /\ ~Kept(c) /\ pc = "snapshot" /\ c \in pending
           /\ snaps'[c][s].cksum = cksum(prog, Test)
           /\ snaps'[c][s].image = IF is_hypervisor_snapshot_needed(Test)
                                   THEN Image(live[c], power[c] # "stopped", c \in keys)
                                   ELSE NoImage
  <2>1. StateInv /\ PlanInv /\ RunInv /\ keys \subseteq Machines
    BY DEF LaunchInv, StateInv
  <2>2. c \in Controls(Test) /\ Ready(c)
    BY <1>4, <2>1 DEF RunInv
  <2>3. cur[c] # ""
    BY <1>4, <2>2, ReadyIsKnown DEF Running
  <2>4. c \notin held
    BY <1>4 DEF TakeSnapshot, KeyHeld
  <2>5. c \in Machines => ~Forgets(Test)
    BY <1>4, <2>2, <2>4 DEF KeyInv, MachinesOf
  <2>6. c \notin keys
    BY <1>4, <2>1, <2>3, <2>5 DEF KeyInv, Visiting, Running
  <2>7. ~snaps'[c][s].image.key
    <3>1. ~NoImage.key /\ \A x, on : Image(x, on, FALSE).key = FALSE
      BY DEF Image, NoImage
    <3>2. (c \in keys) = FALSE
      BY <2>6
    <3> QED
      BY <1>4, <3>1, <3>2
  <2>8. cksum(prog, Test)[3] = prog.body[Test]
    BY DEF cksum
  <2> QED
    BY <1>4, <2>5, <2>7, <2>8 DEF Forgets
<1> QED
  BY <1>1, <1>2, <1>3, <1>4, RecordSteps

\* A test that leaves a key down does not get as far as having passed: its snapshot
\* cannot be taken.
LEMMA ForgetfulStop ==
    ASSUME UsualProjects, HoldersOnMachines, LaunchInv, ReleasedInv, Passed
    PROVE  ~Forgets(Test)
<1>0. /\ StateInv /\ PlanInv /\ VisitInv /\ RunInv /\ pc = "snapshot" /\ pending = {}
      /\ idx <= Len(plan.runs)
  BY DEF LaunchInv, PlanInv, Passed, Running
<1>1. /\ Test \in Selected(prog) /\ Test # Initial /\ Controls(Test) = Ctrl(prog, Test)
      /\ Controls(Test) \subseteq Controllers /\ project \in DOMAIN Projects /\ prog \in Versions(project)
  BY <1>0, PresentRun, ProgramFacts
<1>2. PICK c \in Ctrl(prog, Test) : Test \in DOMAIN snaps[c] => Matches(prog, snaps, c, Test)
  BY <1>0, <1>1 DEF VisitInv, Visiting, Running
<1>3. Matches(prog, snaps, c, Test)
  BY <1>0, <1>1, <1>2 DEF RunInv
<1>4. snaps[c][Test].cksum[3] = prog.body[Test]
  BY <1>3 DEF Matches, cksum
<1>5. Test \in DOMAIN snaps[c]
  BY <1>3 DEF Matches
<1> SUFFICES ASSUME Forgets(Test) PROVE FALSE
  OBVIOUS
<1>6. c \in Machines
  BY <1>1 DEF Forgets, HoldersOnMachines
<1> QED
  BY <1>1, <1>4, <1>5, <1>6 DEF ReleasedInv, Forgets


\* Each step keeps what is known of the keys.
LEMMA KeyStep ==
    ASSUME UsualProjects, HoldersOnMachines, LaunchInv, ReleasedInv, KeyInv, Next
    PROVE  KeyInv'
<1>0. /\ StateInv /\ DiskInv /\ PlanInv /\ RunInv /\ VisitInv /\ keys \subseteq Machines
      /\ cur \in [Controllers -> Names \cup {Initial, ""}] /\ DOMAIN snaps = Controllers
      /\ Machines \subseteq Controllers /\ Version(prog)
      /\ \A t \in Selected(prog) : Controls(t) = Ctrl(prog, t)
  BY MachinesAssumption, ProgramFacts DEF LaunchInv, StateInv
\* Outside a visit nothing is known.
<1>1. ASSUME pc' \notin Visiting, pc' # "finished" => \A c \in Controllers : cur'[c] = ""
      PROVE  KeyInv'
  BY <1>1 DEF KeyInv, Visiting, Running
\* Between two runs and before the commands no key is down on a machine that is known.
<1>2. ASSUME pc' \in Visiting \ {"drop", "snapshot"},
             \A c \in keys' : cur'[c] # "" => c \in keys /\ cur[c] # "",
             \/ pc \in Visiting \ {"drop", "snapshot"}
             \/ pc \in Visiting /\ ~Forgets(Test)
             \/ \A c \in Controllers : cur[c] = ""
      PROVE  KeyInv'
  <2>1. \A c \in keys : cur[c] = ""
    <3>1. keys \subseteq Controllers
      BY <1>0
    <3> QED
      BY <1>2, <3>1 DEF KeyInv
  <2>2. \A c \in keys' : cur'[c] = ""
    BY <1>2, <2>1
  <2> QED
    BY <1>2, <2>2 DEF KeyInv
\* After the commands.
<1>3. ASSUME pc' \in {"drop", "snapshot"}, Test' = Test, Controls(Test)' = Controls(Test),
             Forgets(Test)' <=> Forgets(Test),
             \A c \in keys' : cur'[c] # "" => c \in Controls(Test) /\ Forgets(Test),
             Forgets(Test) => MachinesOf(Test) \subseteq held'
      PROVE  KeyInv'
  <2>1. MachinesOf(Test)' = MachinesOf(Test)
    BY <1>3 DEF MachinesOf
  <2>2. Forgets(Test)' => MachinesOf(Test)' \subseteq held'
    BY <1>3, <2>1
  <2>3. \A c \in keys' : cur'[c] # "" => c \in Controls(Test)' /\ Forgets(Test)'
    BY <1>3
  <2>4. pc' \notin Visiting \cup {"finished"} => \A c \in Controllers : cur'[c] = ""
    BY <1>3 DEF Visiting, Running
  <2> QED
    BY <1>3, <2>2, <2>3, <2>4 DEF KeyInv
<1>4. UNCHANGED <<prog, plan, idx>> =>
         Test' = Test /\ Controls(Test)' = Controls(Test) /\ (Forgets(Test)' <=> Forgets(Test))
  BY DEF Test, Run, Controls, Forgets
<1>5. ASSUME NEW names \in Invalidated, Begin(names)
      PROVE  KeyInv'
  <2>1. pc = "idle" /\ pc' = "invalidate" /\ cur' = cur
    BY <1>5 DEF Begin, known
  <2> QED
    BY <1>1, <2>1 DEF KeyInv, Visiting, Running
<1>6. ASSUME NEW kept \in Uncleaned, Clean(kept)
      PROVE  KeyInv'
  <2>1. pc = "idle" /\ pc' = "idle" /\ cur' = cur
    BY <1>6 DEF Clean, known
  <2> QED
    BY <1>1, <2>1 DEF KeyInv, Visiting, Running
<1>7. ASSUME NEW c \in Controllers, DeleteSnapshots(c)
      PROVE  KeyInv'
  <2>1. pc \in {"invalidate", "delete"} /\ pc' = pc /\ cur' = cur
    BY <1>7 DEF DeleteSnapshots, known
  <2> QED
    BY <1>1, <2>1 DEF KeyInv, Visiting, Running
<1>8. CASE Ended
  <2>1. pc' = "idle" /\ cur' = [c \in Controllers |-> ""]
    BY <1>8 DEF Ended, NothingDone
  <2> QED
    BY <1>1, <2>1 DEF Visiting, Running
<1>9. CASE CheckCache
  <2>1. pc = "invalidate" /\ pc' = "delete" /\ cur' = cur
    BY <1>9 DEF CheckCache, known
  <2> QED
    BY <1>1, <2>1 DEF KeyInv, Visiting, Running
<1>10. CASE BuildPlan
  <2>1. /\ pc = "delete" /\ pc' \in {"stuck", "next"} /\ cur' = cur /\ keys' = keys
        /\ \A c \in Controllers : cur[c] = ""
    BY <1>10 DEF BuildPlan, known, world, KeyInv, Visiting, Running
  <2>2. CASE pc' = "stuck"
    BY <1>1, <2>1, <2>2 DEF Visiting, Running
  <2>3. CASE pc' = "next"
    <3>1. pc' \in Visiting \ {"drop", "snapshot"}
      BY <2>3 DEF Visiting
    <3> QED
      BY <1>2, <2>1, <3>1
  <2> QED
    BY <2>1, <2>2, <2>3
<1>11. CASE NextRun \/ Skipped \/ ParentsRestored \/ NetworksCreated \/ ResumeParents
  <2>1. /\ cur' = cur /\ keys' = keys
        /\ pc \in Visiting \ {"drop", "snapshot"} /\ pc' \in Visiting \ {"drop", "snapshot"}
    BY <1>11 DEF NextRun, Skipped, ParentsRestored, NetworksCreated, ResumeParents, known, world,
                 Visiting, Running
  <2> QED
    BY <1>2, <2>1
<1>12. ASSUME NEW n \in Networks, CreateNetwork(n)
       PROVE  KeyInv'
  <2>1. /\ cur' = cur /\ keys' = keys
        /\ pc \in Visiting \ {"drop", "snapshot"} /\ pc' \in Visiting \ {"drop", "snapshot"}
    BY <1>12 DEF CreateNetwork, known, world, Visiting, Running
  <2> QED
    BY <1>2, <2>1
<1>13. ASSUME NEW q \in Names, NEW d \in Controllers, DropTemporary(q, d)
       PROVE  KeyInv'
  <2>1. pc \in {"skip", "drop"} /\ pc' = pc /\ UNCHANGED <<prog, plan, idx, cur, keys, held>>
    BY <1>13 DEF DropTemporary, known, world, launch
  <2>2. CASE pc = "skip"
    BY <1>2, <2>1, <2>2 DEF Visiting
  <2>3. CASE pc = "drop"
    <3>1. \A c \in keys : cur[c] # "" => c \in Controls(Test) /\ Forgets(Test)
      BY <2>3 DEF KeyInv, Visiting, Running
    <3>2. Forgets(Test) => MachinesOf(Test) \subseteq held
      BY <2>3 DEF KeyInv
    <3> QED
      BY <1>3, <1>4, <2>1, <2>3, <3>1, <3>2
  <2> QED
    BY <2>1, <2>2, <2>3
<1>14. ASSUME NEW d \in Controllers, NEW s \in DOMAIN snaps[d], Restored(d, s),
              pc \in {"restore", "install"}, pc' = pc
       PROVE  KeyInv'
  <2>1. /\ keys' = IF snaps[d][s].image.key THEN keys \cup {d} ELSE keys \ {d}
        /\ cur' = [cur EXCEPT ![d] = s]
    BY <1>14 DEF Restored
  <2>2. keys' = keys \ {d}
    BY <2>1 DEF ReleasedInv
  <2>3. \A c \in keys' : c \in keys /\ cur'[c] = cur[c]
    BY <1>0, <2>1, <2>2
  <2> QED
    BY <1>2, <1>14, <2>3 DEF Visiting, Running
<1>15. ASSUME NEW q \in Names, NEW d \in Controllers, RestoreParent(q, d)
       PROVE  KeyInv'
  <2>1. pc = "restore" /\ pc' = pc /\ q \in DOMAIN snaps[d] /\ Restored(d, q)
    BY <1>15 DEF RestoreParent, CanRestore, has_hypervisor_snapshot, has_snapshot
  <2> QED
    BY <1>14, <2>1
<1>16. ASSUME NEW d \in Controllers, InstallController(d)
       PROVE  KeyInv'
  <2>1. pc = "install" /\ pc' = pc
    BY <1>16 DEF InstallController
  <2>2. CASE Relevant(prog, d)
    <3>1. Restored(d, Initial) /\ Initial \in DOMAIN snaps[d]
      BY <1>16, <2>2 DEF InstallController, Relevant, has_snapshot
    <3> QED
      BY <1>14, <2>1, <3>1
  <2>3. CASE ~Relevant(prog, d)
    <3>1. keys' = keys \ {d} /\ cur' = [cur EXCEPT ![d] = Initial]
      BY <1>16, <2>3 DEF InstallController
    <3>2. \A c \in keys' : c \in keys /\ cur'[c] = cur[c]
      BY <1>0, <3>1
    <3> QED
      BY <1>2, <2>1, <3>2 DEF Visiting, Running
  <2> QED
    BY <2>2, <2>3
<1>17. ASSUME NEW on \in BOOLEAN, CommandsPass(on)
       PROVE  KeyInv'
  <2>1. /\ pc = "commands" /\ pc' = "drop" /\ UNCHANGED <<prog, plan, idx, cur>>
        /\ held' = IF Forgets(Test) THEN held \cup MachinesOf(Test) ELSE held
        /\ keys' \subseteq IF Forgets(Test) THEN keys \cup MachinesOf(Test) ELSE keys
    BY <1>17 DEF CommandsPass, launch
  <2>2. \A c \in keys : cur[c] = ""
    BY <1>0, <2>1 DEF KeyInv, Visiting, Running
  <2>3. \A c \in keys' : cur'[c] # "" => c \in Controls(Test) /\ Forgets(Test)
    BY <2>1, <2>2 DEF MachinesOf
  <2>4. Forgets(Test) => MachinesOf(Test) \subseteq held'
    BY <2>1
  <2> QED
    BY <1>3, <1>4, <2>1, <2>3, <2>4
<1>18. ASSUME Stopped(Test) \/ UNCHANGED <<keys, cur>>
       PROVE  \A c \in keys' : cur'[c] # "" => c \in keys /\ cur[c] # ""
  <2>1. CASE Stopped(Test)
    <3>1. keys' = keys \ Controls(Test)
      BY <2>1 DEF Stopped
    <3>2. \A c \in Controllers : cur'[c] # "" => cur[c] # ""
      BY <2>1 DEF Stopped
    <3> QED
      BY <1>0, <3>1, <3>2
  <2> QED
    BY <1>18, <2>1
<1>19. CASE CommandsFail
  <2>1. pc = "commands" /\ pc' = "next" /\ Stopped(Test)
    BY <1>19 DEF CommandsFail
  <2> QED
    BY <1>2, <1>18, <2>1 DEF Visiting, Running
<1>20. CASE Passed
  <2>1. /\ pc = "snapshot" /\ pc' = "next" /\ (Stopped(Test) \/ UNCHANGED <<keys, cur>>)
        /\ ~Forgets(Test)
    BY <1>20, ForgetfulStop DEF Passed
  <2> QED
    BY <1>2, <1>18, <2>1 DEF Visiting, Running
<1>21. CASE TemporariesDropped
  <2>1. pc = "drop" /\ pc' = "snapshot" /\ UNCHANGED <<prog, plan, idx, cur, keys, held>>
    BY <1>21 DEF TemporariesDropped, known, world, launch
  <2>2. \A c \in keys : cur[c] # "" => c \in Controls(Test) /\ Forgets(Test)
    BY <2>1 DEF KeyInv, Visiting, Running
  <2>3. Forgets(Test) => MachinesOf(Test) \subseteq held
    BY <2>1 DEF KeyInv
  <2> QED
    BY <1>3, <1>4, <2>1, <2>2, <2>3
<1>22. ASSUME NEW d \in Controllers, TakeSnapshot(d)
       PROVE  KeyInv'
  <2>1. /\ pc = "snapshot" /\ pc' = "snapshot" /\ UNCHANGED <<prog, plan, idx, keys, held>>
        /\ d \in pending /\ cur' = [cur EXCEPT ![d] = Test]
    BY <1>22 DEF TakeSnapshot, world, launch
  <2>2. d \in Controls(Test) /\ Ready(d)
    BY <1>0, <2>1 DEF RunInv
  <2>3. cur[d] # ""
    BY <2>1, <2>2, ReadyIsKnown DEF Running
  <2>4. \A c \in keys : cur[c] # "" => c \in Controls(Test) /\ Forgets(Test)
    BY <2>1 DEF KeyInv, Visiting, Running
  <2>5. \A c \in keys' : cur'[c] # "" => c \in Controls(Test) /\ Forgets(Test)
    BY <1>0, <2>1, <2>3, <2>4
  <2>6. Forgets(Test) => MachinesOf(Test) \subseteq held
    BY <2>1 DEF KeyInv
  <2> QED
    BY <1>3, <1>4, <2>1, <2>5, <2>6
<1>23. CASE Finish
  <2>1. pc' = "finished"
    BY <1>23 DEF Finish
  <2> QED
    BY <1>1, <2>1 DEF Visiting, Running
<1>24. Decline \/ RestoreThrows \/ SnapshotThrows \/ Exit \/ Kill => Ended
  BY DEF Decline, RestoreThrows, SnapshotThrows, Exit, Kill
<1> QED
  BY <1>5, <1>6, <1>7, <1>8, <1>9, <1>10, <1>11, <1>12, <1>13, <1>15, <1>16, <1>17, <1>19, <1>20,
     <1>21, <1>22, <1>23, <1>24 DEF Next, Prepare, Visit

\* No test starts in a machine with a key down, whatever the tests before it left down,
\* failed at or were killed in.
THEOREM KeysReleased ==
    ASSUME UsualProjects, HoldersOnMachines
    PROVE  Spec => []KeysUp
<1>1. Init => ReleasedInv /\ KeyInv
  <2> SUFFICES ASSUME Init PROVE ReleasedInv /\ KeyInv
    OBVIOUS
  <2>1. pc = "idle" /\ cur = [c \in Controllers |-> ""] /\ snaps = [c \in Controllers |-> <<>>]
    BY DEF Init
  <2>2. DOMAIN <<>> = {}
    OBVIOUS
  <2> QED
    BY <2>1, <2>2 DEF ReleasedInv, KeyInv, Visiting, Running
<1>2. LaunchInv /\ (ReleasedInv /\ KeyInv) /\ [Next]_vars => (ReleasedInv /\ KeyInv)'
  <2> SUFFICES ASSUME LaunchInv, ReleasedInv, KeyInv, [Next]_vars PROVE ReleasedInv' /\ KeyInv'
    OBVIOUS
  <2>1. CASE Next
    BY <2>1, ReleasedStep, KeyStep
  <2>2. CASE UNCHANGED vars
    <3>1. ReleasedInv'
      BY <2>2 DEF vars, ReleasedInv
    <3>2. Test' = Test /\ Controls(Test)' = Controls(Test)
      BY <2>2 DEF vars, Test, Run, Controls
    <3>3. Forgets(Test)' <=> Forgets(Test)
      BY <2>2, <3>2 DEF vars, Forgets
    <3>4. MachinesOf(Test)' = MachinesOf(Test)
      BY <3>2 DEF MachinesOf
    <3>5. UNCHANGED <<pc, cur, keys, held>>
      BY <2>2 DEF vars
    <3>6. KeyInv'
      BY <3>2, <3>3, <3>4, <3>5 DEF KeyInv
    <3> QED
      BY <3>1, <3>6
  <2> QED
    BY <2>1, <2>2
<1>3. ASSUME LaunchInv, KeyInv
      PROVE  KeysUp
  <2> SUFFICES ASSUME pc = "commands", NEW c \in keys, c \in MachinesOf(Test)
               PROVE  FALSE
    BY DEF KeysUp
  <2>1. c \in Controls(Test)
    BY DEF MachinesOf
  <2>2. Ready(c)
    BY <1>3, <2>1 DEF LaunchInv, RunInv
  <2>3. cur[c] # ""
    BY <1>3, <2>1, <2>2, ReadyIsKnown DEF Running
  <2> QED
    BY <1>3, <2>3 DEF KeyInv, Visiting, Running
<1> QED
  BY <1>1, <1>2, <1>3, LaunchInvariant, PTL DEF Spec


----------------------------------------------------------------------------
(* What has passed is up to date for the next launch                       *)

\* The networks of a test are those of its ancestors' machines.
LEMMA NetworksIn ==
    ASSUME NEW p, Ordered(p), NEW N,
           \A t \in Selected(p) : UNION {p.nics[c] : c \in p.mentions[t]} \subseteq N
    PROVE  \A t \in Selected(p) : get_all_networks(p)[t] \subseteq N
<1> DEFINE Own(t) == UNION {p.nics[c] : c \in p.mentions[t]}
           Is(h) == h = [t \in Selected(p) |-> Own(t) \cup UNION {h[q] : q \in ParentSet(p, t)}]
           g == [t \in Selected(p) |-> UNION {Own(u) : u \in Ancestors(p, t)}]
           f == CHOOSE h : Is(h)
<1>1. get_all_networks(p) = f
  BY DEF get_all_networks
<1> HIDE DEF Own
<1>2. ASSUME NEW t \in Selected(p)
      PROVE  g[t] = Own(t) \cup UNION {g[q] : q \in ParentSet(p, t)}
  <2>1. ParentSet(p, t) \subseteq Selected(p) /\ t \in Ancestors(p, t)
        /\ ParentSet(p, t) \subseteq Ancestors(p, t)
    BY AncestorFacts
  <2>2. \A q \in ParentSet(p, t) : Ancestors(p, q) \subseteq Ancestors(p, t)
    BY <2>1, AncestorsStep
  <2>3. \A q \in ParentSet(p, t) : g[q] = UNION {Own(u) : u \in Ancestors(p, q)}
    BY <2>1
  <2>4. g[t] = UNION {Own(u) : u \in Ancestors(p, t)}
    OBVIOUS
  <2> HIDE DEF g
  <2>5. ASSUME NEW n \in g[t]
        PROVE  n \in Own(t) \cup UNION {g[q] : q \in ParentSet(p, t)}
    <3>1. PICK u \in Ancestors(p, t) : n \in Own(u)
      BY <2>4, <2>5
    <3>2. CASE u # t
      <4>1. PICK q \in ParentSet(p, t) : u \in Ancestors(p, q)
        BY <3>1, <3>2, AncestorsStep
      <4> QED
        BY <2>3, <3>1, <4>1
    <3> QED
      BY <3>1, <3>2
  <2>6. ASSUME NEW n \in Own(t) \cup UNION {g[q] : q \in ParentSet(p, t)}
        PROVE  n \in g[t]
    <3>1. CASE n \in Own(t)
      BY <2>1, <2>4, <3>1
    <3>2. ASSUME NEW q \in ParentSet(p, t), n \in g[q]
          PROVE  n \in g[t]
      BY <2>2, <2>3, <2>4, <3>2
    <3> QED
      BY <2>6, <3>1, <3>2
  <2> QED
    BY <2>5, <2>6
<1>3. Is(g)
  <2> DEFINE b == [t \in Selected(p) |-> Own(t) \cup UNION {g[q] : q \in ParentSet(p, t)}]
  <2>1. \A t \in Selected(p) : g[t] = b[t]
    BY <1>2
  <2> QED
    BY <2>1
<1>4. Is(f)
  <2> HIDE DEF Is, g
  <2> QED
    BY <1>3
<1> HIDE DEF f
<1>5. \A t \in Selected(p) : f[t] = Own(t) \cup UNION {f[q] : q \in ParentSet(p, t)}
  BY <1>4
<1> DEFINE T == {t \in Selected(p) : ~(f[t] \subseteq N)}
<1>6. T = {}
  <2> SUFFICES ASSUME T # {} PROVE FALSE
    OBVIOUS
  <2>1. PICK t \in T : ParentSet(p, t) \cap T = {}
    BY DEF Ordered, Hierarchy
  <2>2. ParentSet(p, t) \subseteq Selected(p)
    BY <2>1, AncestorFacts
  <2>3. \A q \in ParentSet(p, t) : f[q] \subseteq N
    BY <2>1, <2>2
  <2>4. Own(t) \subseteq N
    BY <2>1 DEF Own
  <2>5. f[t] = Own(t) \cup UNION {f[q] : q \in ParentSet(p, t)}
    BY <1>5, <2>1
  <2>6. f[t] \subseteq N
    BY <2>3, <2>4, <2>5
  <2> QED
    BY <2>1, <2>6
<1> QED
  BY <1>1, <1>6

\* The networks of the tests of a launch are networks.
LEMMA ProgramNetworks ==
    ASSUME UsualProjects, StateInv
    PROVE  \A t \in Selected(prog) : get_all_networks(prog)[t] \subseteq Networks
<1>1. PICK d \in Projects[project] : prog = setup_tests_parents(d)
  BY ProgramFacts DEF Versions
<1>2. d \in Programs
  BY <1>1, ProgramFacts DEF Programs
<1>3. /\ IsProgram(d) /\ "nics" \in DOMAIN d /\ d.nics \in [Controllers -> SUBSET Networks]
      /\ DOMAIN d.mentions = Declared(d) /\ \A t \in Declared(d) : d.mentions[t] \subseteq Controllers
  BY <1>2, ProgramsAssumption DEF IsProgram
<1>4. prog.mentions = d.mentions /\ Selected(prog) \subseteq Declared(d) /\ Ordered(prog)
  BY <1>1, <1>3, SelectionIsRight, ProgramFacts DEF Selection
<1>5. prog.nics = d.nics
  BY <1>1, <1>3 DEF setup_tests_parents
<1>6. ASSUME NEW t \in Selected(prog)
      PROVE  UNION {prog.nics[c] : c \in prog.mentions[t]} \subseteq Networks
  <2>1. \A c \in prog.mentions[t] : prog.nics[c] \subseteq Networks
    BY <1>3, <1>4, <1>5
  <2> QED
    BY <2>1
<1> QED
  BY <1>4, <1>6, NetworksIn

\* A test is edited, from one version to another, only if its ancestors use all its
\* controllers: a test that uses another controller keeps its snapshot there when one
\* of them loses its cache.
EditsAreWhole ==
    \A x \in DOMAIN Projects : \A p \in Versions(x) : \A t \in Selected(p) :
        \/ \A e \in Versions(x) : t \in Selected(e) => cksum(e, t) = cksum(p, t)
        \/ \A a \in Ancestors(p, t) : Ctrl(p, a) = Ctrl(p, t)

\* A snapshot is of some version of its test.
VersionedInv ==
    \A c \in Controllers : \A s \in DOMAIN snaps[c] \ {Initial} :
        \E e \in Versions(project) : s \in Selected(e) /\ snaps[c][s].cksum = cksum(e, s)

\* In a visit it is of the present version.
CurrentInv ==
    pc \in Visiting =>
        \A t \in Selected(prog) : \A c \in Ctrl(prog, t) :
            t \in DOMAIN snaps[c] => Matches(prog, snaps, c, t)

NetReady(t) == \A n \in get_all_networks(prog)[t] : NetworkReady(prog, n)

\* The networks of what can be had are as the program has them.
NetInv ==
    /\ DOMAIN nets = Networks
    /\ pc = "delete" => \A t \in ok : NetReady(t)
    /\ pc \in Visiting => \A t \in Done : NetReady(t)
    /\ pc \in {"install", "commands", "drop", "snapshot"} => NetReady(Test)

\* Every test that is not up to date has a run.
AllHaveRuns ==
    pc \in Visiting =>
        \A t \in Selected(prog) \ ok : \E i \in 1 .. Len(plan.runs) : plan.runs[i].test = t

\* Each step keeps snapshots of known versions.
LEMMA VersionedStep ==
    ASSUME UsualProjects, LaunchInv, VersionedInv, Next
    PROVE  VersionedInv'
<1>1. project' = project
  BY DiskChanges
<1> SUFFICES ASSUME NEW c \in Controllers, NEW s \in DOMAIN snaps'[c] \ {Initial}
             PROVE  \E e \in Versions(project) : s \in Selected(e) /\ snaps'[c][s].cksum = cksum(e, s)
  BY <1>1 DEF VersionedInv
<1>2. CASE s \in DOMAIN snaps[c] /\ snaps'[c][s] = snaps[c][s]
  BY <1>2 DEF VersionedInv
<1>3. CASE s \in DOMAIN snaps[c] /\ snaps'[c][s] = WithImage(snaps[c][s], NoImage)
  <2>1. snaps'[c][s].cksum = snaps[c][s].cksum
    BY <1>3 DEF WithImage, Record
  <2> QED
    BY <1>3, <2>1 DEF VersionedInv
<1>4. CASE s = Test /\ pc = "snapshot" /\ snaps'[c][s].cksum = cksum(prog, Test)
  <2>1. StateInv /\ PlanInv /\ idx <= Len(plan.runs)
    BY <1>4 DEF LaunchInv, PlanInv, Running
  <2>2. prog \in Versions(project) /\ Test \in Selected(prog)
    BY <2>1, PresentRun, ProgramFacts
  <2> QED
    BY <1>4, <2>2
<1> QED
  BY <1>2, <1>3, <1>4, RecordSteps

\* When the plan is made the snapshots of the selected tests are of their present
\* versions.
LEMMA CurrentWhenPlanned ==
    ASSUME UsualProjects, EditsAreWhole, LaunchInv, VersionedInv, pc = "delete", queue = <<>>,
           NEW t \in Selected(prog), NEW c \in Ctrl(prog, t), t \in DOMAIN snaps[c]
    PROVE  Matches(prog, snaps, c, t)
<1>0. /\ StateInv /\ DiskInv /\ OkInv /\ DeleteInv /\ Version(prog) /\ Ordered(prog)
      /\ project \in DOMAIN Projects /\ prog \in Versions(project)
      /\ t # Initial /\ c \in Controllers
  BY ProgramFacts DEF LaunchInv
<1>1. CASE t \in ok
  BY <1>0, <1>1 DEF OkInv, Stored
<1>2. CASE \A e \in Versions(project) : t \in Selected(e) => cksum(e, t) = cksum(prog, t)
  <2>1. PICK e \in Versions(project) : t \in Selected(e) /\ snaps[c][t].cksum = cksum(e, t)
    BY <1>0 DEF VersionedInv
  <2> QED
    BY <1>2, <2>1 DEF Matches
<1>3. ASSUME t \notin ok, \A a \in Ancestors(prog, t) : Ctrl(prog, a) = Ctrl(prog, t)
      PROVE  FALSE
  <2>1. /\ t \in Ancestors(prog, t) /\ Ancestors(prog, t) \subseteq Selected(prog)
        /\ Upward(prog, Ancestors(prog, t))
    BY <1>0, AncestorFacts
  <2> DEFINE S == Ancestors(prog, t) \ ok
  <2>2. PICK a \in S : ParentSet(prog, a) \cap S = {}
    <3>1. S \in SUBSET Selected(prog) /\ S # {}
      BY <1>3, <2>1
    <3> HIDE DEF S
    <3> QED
      BY <1>0, <3>1 DEF Ordered, Hierarchy
  <2>3. a \in Topmost(prog, ok)
    BY <2>1, <2>2 DEF Topmost, Upward
  <2>4. ToSet(queue) = {}
    BY DEF ToSet
  <2>5. c \in Ctrl(prog, a) /\ a \notin DOMAIN snaps[c]
    BY <1>0, <1>3, <2>2, <2>3, <2>4 DEF DeleteInv
  <2>6. Column(project, c, made[c], snaps[c])
    BY <1>0 DEF DiskInv
  <2>7. t \notin DOMAIN snaps[c]
    BY <1>0, <2>2, <2>5, <2>6, ColumnChain
  <2> QED
    BY <2>7
<1> QED
  BY <1>0, <1>1, <1>2, <1>3 DEF EditsAreWhole

\* Each step keeps the snapshots of the present version.
LEMMA CurrentStep ==
    ASSUME UsualProjects, EditsAreWhole, LaunchInv, VersionedInv, CurrentInv, Next
    PROVE  CurrentInv'
<1> SUFFICES ASSUME pc' \in Visiting
             PROVE  CurrentInv'
  BY DEF CurrentInv
<1>0. StateInv /\ PlanInv /\ \A t \in Selected(prog) : Ctrl(prog, t) \subseteq Controllers
  BY ProgramFacts DEF LaunchInv, Version
<1>1. CASE BuildPlan
  <2>1. pc = "delete" /\ queue = <<>> /\ UNCHANGED <<prog, snaps>>
    BY <1>1 DEF BuildPlan, disk, launch
  <2> QED
    BY <2>1, CurrentWhenPlanned DEF CurrentInv, Matches
<1>2. ASSUME pc \in Visiting, prog' = prog
      PROVE  CurrentInv'
  <2>1. ASSUME NEW t \in Selected(prog), NEW c \in Ctrl(prog, t), t \in DOMAIN snaps'[c]
        PROVE  Matches(prog, snaps', c, t)
    <3>1. Keeps(c)
      BY <1>0, <1>2, VisitKeeps
    <3>2. Matches(prog, snaps, c, t) \/ t \notin DOMAIN snaps[c]
      BY <1>2 DEF CurrentInv
    <3> QED
      BY <2>1, <3>1, <3>2 DEF Keeps
  <2> QED
    BY <1>2, <2>1 DEF CurrentInv
<1>3. NextRun \/ Skipped \/ CommandsFail \/ Passed => pc \in Visiting /\ prog' = prog
  BY DEF NextRun, Skipped, CommandsFail, Passed, launch, Visiting, Running
<1> QED
  BY <1>1, <1>2, <1>3, VisitSteps


\* The steps that change a network.
LEMMA NetChanges ==
    ASSUME Next
    PROVE  \/ nets' = nets
           \/ \E kept \in Uncleaned : Clean(kept)
           \/ \E n \in Networks : CreateNetwork(n)
<1>1. (\E names \in Invalidated : Begin(names)) => nets' = nets
  BY DEF Begin, disk
<1>2. (\E c \in Controllers : DeleteSnapshots(c)) \/ Decline \/ CheckCache \/ BuildPlan => nets' = nets
  BY DEF DeleteSnapshots, Decline, CheckCache, BuildPlan, disk
<1>3. NextRun \/ Skipped \/ RestoreThrows \/ ParentsRestored \/ NetworksCreated \/ ResumeParents
      => nets' = nets
  BY DEF NextRun, Skipped, RestoreThrows, ParentsRestored, NetworksCreated, ResumeParents, disk
<1>4. CommandsFail \/ TemporariesDropped \/ SnapshotThrows \/ Passed \/ Finish \/ Exit \/ Kill
      => nets' = nets
  BY DEF CommandsFail, TemporariesDropped, SnapshotThrows, Passed, Finish, Exit, Kill, disk
<1>5. /\ \A q \in Names, c \in Controllers : DropTemporary(q, c) \/ RestoreParent(q, c) => nets' = nets
      /\ \A on \in BOOLEAN : CommandsPass(on) => nets' = nets
      /\ \A c \in Controllers : TakeSnapshot(c) => nets' = nets
  BY DEF DropTemporary, RestoreParent, CommandsPass, TakeSnapshot, disk
<1>6. \A c \in Controllers : InstallController(c) => nets' = nets
  BY DEF InstallController, disk
<1> QED
  BY <1>1, <1>2, <1>3, <1>4, <1>5, <1>6 DEF Next, Prepare, Visit

\* Each step keeps the networks.
LEMMA NetStep ==
    ASSUME UsualProjects, LaunchInv, NetInv, Next
    PROVE  NetInv'
<1>0. /\ StateInv /\ PlanInv /\ VisitInv /\ Ordered(prog) /\ ok \subseteq Selected(prog)
      /\ DOMAIN nets = Networks
      /\ \A t \in Selected(prog) : get_all_networks(prog)[t] \subseteq Networks
  BY ProgramFacts, ProgramNetworks DEF LaunchInv, NetInv, StateInv
<1>1. DOMAIN nets' = Networks
  <2>1. ASSUME NEW kept \in Uncleaned, Clean(kept)
        PROVE  DOMAIN nets' = Networks
    BY <2>1 DEF Clean
  <2>2. ASSUME NEW n \in Networks, CreateNetwork(n)
        PROVE  DOMAIN nets' = Networks
    BY <1>0, <2>2 DEF CreateNetwork
  <2> QED
    BY <1>0, <2>1, <2>2, NetChanges
<1>2. ASSUME pc' # "idle", prog' = prog, NEW t \in Selected(prog), NetReady(t)
      PROVE  NetReady(t)'
  <2>1. CASE nets' = nets
    BY <1>2, <2>1 DEF NetReady, NetworkReady
  <2>2. ASSUME NEW n \in Networks, CreateNetwork(n)
        PROVE  NetReady(t)'
    <3>1. nets' = [nets EXCEPT ![n] = prog.mode[n]]
      BY <2>2 DEF CreateNetwork
    <3>2. \A m \in get_all_networks(prog)[t] : m \in Networks /\ nets[m] = prog.mode[m]
      BY <1>0, <1>2 DEF NetReady, NetworkReady
    <3>3. \A m \in get_all_networks(prog)[t] : nets'[m] = prog.mode[m]
      BY <1>0, <3>1, <3>2
    <3> QED
      BY <1>2, <3>3 DEF NetReady, NetworkReady
  <2>3. ASSUME NEW kept \in Uncleaned
        PROVE  ~Clean(kept)
    BY <1>2 DEF Clean
  <2> QED
    BY <2>1, <2>2, <2>3, NetChanges
<1>3. CASE pc' = "delete"
  <2>1. CASE CheckCache
    <3>1. ok' = is_cache_ok(prog) /\ nets' = nets /\ prog' = prog
      BY <2>1 DEF CheckCache, disk, launch
    <3>2. \A t \in ok' : NetReady(t)
      BY <1>0, <3>1, OkIsStored DEF ValidHere, NetReady
    <3>3. \A t \in ok' : NetReady(t)'
      BY <3>1, <3>2 DEF NetReady, NetworkReady
    <3> QED
      BY <1>1, <1>3, <3>3 DEF NetInv, Visiting, Running
  <2>2. ASSUME NEW c \in Controllers, DeleteSnapshots(c)
        PROVE  NetInv'
    <3>1. pc = "delete" /\ UNCHANGED <<prog, ok>>
      BY <1>3, <2>2 DEF DeleteSnapshots, launch
    <3>2. \A t \in ok : NetReady(t)'
      BY <1>0, <1>2, <1>3, <3>1 DEF NetInv
    <3> QED
      BY <1>1, <1>3, <3>1, <3>2 DEF NetInv, Visiting, Running
  <2>3. ASSUME NEW names \in Invalidated
        PROVE  ~Begin(names)
    BY <1>3 DEF Begin
  <2> QED
    BY <1>3, <2>1, <2>2, <2>3, QueueSteps
<1>4. ASSUME pc' \in Visiting, prog' = prog, \A t \in Done' : t \in Selected(prog) /\ NetReady(t),
             pc' \in {"install", "commands", "drop", "snapshot"} =>
                 Test' = Test /\ Test \in Selected(prog) /\ NetReady(Test)
      PROVE  NetInv'
  <2>1. pc' # "idle" /\ pc' # "delete"
    BY <1>4 DEF Visiting, Running
  <2>2. \A t \in Done' : NetReady(t)'
    BY <1>2, <1>4, <2>1
  <2>3. ASSUME pc' \in {"install", "commands", "drop", "snapshot"}
        PROVE  NetReady(Test)'
    <3>1. ASSUME NEW q \in Selected(prog), Test' = q, NetReady(q)
          PROVE  NetReady(Test)'
      <4>1. NetReady(q)'
        BY <1>2, <1>4, <2>1, <3>1
      <4> QED
        BY <3>1, <4>1 DEF NetReady
    <3> QED
      BY <1>4, <2>3, <3>1
  <2> QED
    BY <1>1, <2>1, <2>2, <2>3 DEF NetInv
<1>5. CASE pc' \in Visiting /\ BuildPlan
  <2>1. /\ pc = "delete" /\ idx' = 1 /\ UNCHANGED <<prog, ok>> /\ pc' = "next"
    BY <1>5, BuiltPlan DEF BuildPlan, launch, Visiting, Running
  <2>2. Done' = ok
    BY <2>1 DEF Done
  <2> QED
    BY <1>0, <1>4, <1>5, <2>1, <2>2 DEF NetInv
<1>6. ASSUME pc \in Visiting
      PROVE  \A t \in Done : t \in Selected(prog) /\ NetReady(t)
  BY <1>0, <1>6, DoneSelected DEF NetInv
<1>7. CASE NextRun
  <2>1. /\ plan' = [plan EXCEPT !.refs = RemainingRefs] /\ UNCHANGED <<prog, ok, idx, status>>
        /\ pc = "next" /\ pc' \in {"skip", "restore"}
    BY <1>7 DEF NextRun, launch
  <2>2. plan' = [stuck |-> plan.stuck, runs |-> plan.runs, refs |-> RemainingRefs]
    BY <1>0, <2>1 DEF PlanInv
  <2>3. Done' = Done
    BY <2>1, <2>2, DoneSame
  <2> QED
    BY <1>4, <1>6, <2>1, <2>3 DEF Visiting, Running
<1>8. CASE Skipped \/ CommandsFail
  <2>1. pc \in Visiting /\ pc' = "next" /\ prog' = prog
    BY <1>8 DEF Skipped, CommandsFail, launch, Visiting, Running
  <2>2. Done' = Done
    BY <1>0, <1>8, DoneGrows
  <2> QED
    BY <1>4, <1>6, <2>1, <2>2 DEF Visiting
<1>9. CASE Passed
  <2>1. pc = "snapshot" /\ pc' = "next" /\ prog' = prog /\ NetReady(Test)
    BY <1>9 DEF Passed, launch, NetInv
  <2>2. Done' = Done \cup {Test}
    BY <1>0, <1>9, DoneGrows
  <2>3. Test \in Selected(prog)
    BY <1>0, <2>1, PresentRun DEF PlanInv, Running
  <2> QED
    BY <1>4, <1>6, <2>1, <2>2, <2>3 DEF Visiting, Running
<1>10. CASE /\ UNCHANGED <<prog, ok, plan, idx, status>> /\ pc' \in Visiting
            /\ pc \in Visiting /\ (pc' \in Running => pc \in Running)
  <2>1. Done' = Done /\ Test' = Test
    BY <1>10, DoneSame
  <2>2. ASSUME pc' \in {"install", "commands", "drop", "snapshot"}
        PROVE  Test \in Selected(prog) /\ NetReady(Test)
    <3>1. pc \in Running
      BY <1>10, <2>2 DEF Running
    <3>2. Test \in Selected(prog)
      BY <1>0, <3>1, PresentRun DEF PlanInv, Running
    <3>3. NetworksCreated => NetReady(Test)
      BY DEF NetworksCreated, NetReady
    <3>4. ~NetworksCreated => pc \in {"install", "commands", "drop", "snapshot"}
      <4>1. /\ ~ParentsRestored
            /\ \A n \in Networks : ~CreateNetwork(n)
            /\ ResumeParents \/ TemporariesDropped => pc \in {"install", "drop"}
        BY <2>2 DEF ParentsRestored, CreateNetwork, ResumeParents, TemporariesDropped
      <4>2. /\ \A c \in Controllers : InstallController(c) \/ TakeSnapshot(c) => pc \in {"install", "snapshot"}
            /\ \A on \in BOOLEAN : CommandsPass(on) => pc = "commands"
            /\ \A q \in Names, c \in Controllers : DropTemporary(q, c) => pc' = pc
        BY DEF InstallController, TakeSnapshot, CommandsPass, DropTemporary
      <4> QED
        BY <2>2, <4>1, <4>2, RunSteps
    <3> QED
      BY <3>2, <3>3, <3>4 DEF NetInv
  <2> QED
    BY <1>4, <1>6, <1>10, <2>1, <2>2
<1>11. CASE pc' \notin {"delete"} \cup Visiting
  BY <1>1, <1>11 DEF NetInv, Visiting, Running
<1> QED
  BY <1>3, <1>5, <1>7, <1>8, <1>9, <1>10, <1>11, VisitSteps

\* Each step keeps a run for every test that is not up to date.
LEMMA AllHaveRunsStep ==
    ASSUME UsualProjects, LaunchInv, AllHaveRuns, Next
    PROVE  AllHaveRuns'
<1> SUFFICES ASSUME pc' \in Visiting
             PROVE  AllHaveRuns'
  BY DEF AllHaveRuns
<1>0. PlanInv
  BY DEF LaunchInv
<1>1. CASE BuildPlan
  <2>1. pc' = "next" /\ UNCHANGED <<prog, ok>>
    BY <1>1 DEF BuildPlan, launch, Visiting, Running
  <2> QED
    BY <1>1, <2>1, BuiltPlan DEF AllHaveRuns
<1>2. ASSUME pc \in Visiting, UNCHANGED <<prog, ok>>, plan'.runs = plan.runs
      PROVE  AllHaveRuns'
  BY <1>2 DEF AllHaveRuns
<1>3. CASE NextRun
  <2>1. plan' = [plan EXCEPT !.refs = RemainingRefs] /\ UNCHANGED <<prog, ok>> /\ pc = "next"
    BY <1>3 DEF NextRun, launch
  <2>2. plan' = [stuck |-> plan.stuck, runs |-> plan.runs, refs |-> RemainingRefs]
    BY <1>0, <2>1 DEF PlanInv
  <2> QED
    BY <1>2, <2>1, <2>2 DEF Visiting
<1>4. CASE Skipped \/ CommandsFail \/ Passed
  BY <1>2, <1>4 DEF Skipped, CommandsFail, Passed, launch, Visiting, Running
<1>5. CASE UNCHANGED <<prog, ok, plan>> /\ pc \in Visiting
  BY <1>2, <1>5
<1> QED
  BY <1>1, <1>3, <1>4, <1>5, VisitSteps

\* A test is in its own subtree.
LEMMA SubtreesOf ==
    ASSUME NEW p, Ordered(p), ChildrenKnown(p)
    PROVE  \A t \in Selected(p) : t \in Subtrees(p)[t]
<1> DEFINE Is(h) == h = [t \in Selected(p) |-> {t} \cup UNION {h[u] : u \in ToSet(p.children[t])}]
           g == [t \in Selected(p) |-> {u \in Selected(p) : t \in Ancestors(p, u)}]
           f == CHOOSE h : Is(h)
<1>1. Subtrees(p) = f
  BY DEF Subtrees, get_children
<1>2. ASSUME NEW t \in Selected(p)
      PROVE  g[t] = {t} \cup UNION {g[u] : u \in ToSet(p.children[t])}
  <2>1. ToSet(p.children[t]) \subseteq Selected(p)
    BY ElementsOfSeq DEF ChildrenKnown
  <2>2. \A u \in ToSet(p.children[t]) : t \in ParentSet(p, u)
    BY <2>1 DEF ChildrenKnown
  <2>3. \A u \in Selected(p) : /\ u \in Ancestors(p, u) /\ Ancestors(p, u) \subseteq Selected(p)
                               /\ Upward(p, Ancestors(p, u))
    BY AncestorFacts
  <2>4. \A v \in Selected(p) : v \in g[t] <=> t \in Ancestors(p, v)
    OBVIOUS
  <2>5. \A u \in ToSet(p.children[t]), v \in Selected(p) : v \in g[u] <=> u \in Ancestors(p, v)
    BY <2>1
  <2>6. g[t] \subseteq Selected(p) /\ \A u \in ToSet(p.children[t]) : g[u] \subseteq Selected(p)
    BY <2>1
  <2> HIDE DEF g
  <2>7. ASSUME NEW v \in g[t]
        PROVE  v \in {t} \cup UNION {g[u] : u \in ToSet(p.children[t])}
    <3>1. CASE t # v
      <4>1. PICK u \in ToSet(p.children[t]) : u \in Ancestors(p, v)
        BY <2>4, <2>6, <3>1, ChildTowards
      <4>2. v \in g[u]
        BY <2>5, <2>6, <4>1
      <4> QED
        BY <4>1, <4>2
    <3> QED
      BY <3>1
  <2>8. ASSUME NEW u \in ToSet(p.children[t]), NEW v \in g[u]
        PROVE  v \in g[t]
    <3>1. v \in Selected(p) /\ u \in Ancestors(p, v)
      BY <2>5, <2>6
    <3>2. t \in Ancestors(p, v)
      BY <2>2, <2>3, <3>1 DEF Upward
    <3> QED
      BY <2>4, <3>1, <3>2
  <2>9. t \in g[t]
    BY <2>3, <2>4
  <2> QED
    BY <2>7, <2>8, <2>9
<1>3. Is(g)
  <2> DEFINE b == [t \in Selected(p) |-> {t} \cup UNION {g[u] : u \in ToSet(p.children[t])}]
  <2>1. \A t \in Selected(p) : g[t] = b[t]
    BY <1>2
  <2> QED
    BY <2>1
<1>4. Is(f)
  <2> HIDE DEF Is, g
  <2> QED
    BY <1>3
<1> HIDE DEF f
<1> QED
  BY <1>1, <1>4

\* The tests that passed in a launch that finishes, in all their runs, are up to date.
LEMMA FinishUpdates ==
    ASSUME UsualProjects, LaunchInv, CurrentInv, NetInv, AllHaveRuns, Finish
    PROVE  CacheUpdated'
<1>0. /\ StateInv /\ PlanInv /\ VisitInv /\ pc = "next" /\ idx > Len(plan.runs) /\ Ordered(prog)
      /\ ok \subseteq Selected(prog) /\ ChildrenKnown(prog)
      /\ UNCHANGED <<made, nets, snaps, prog, plan, status>>
  BY ProgramFacts DEF LaunchInv, StateInv, Finish, disk, launch
<1>1. Done \in SUBSET Selected(prog) /\ Upward(prog, Done)
  BY <1>0, DoneSelected DEF VisitInv, Visiting
<1>2. \A t \in Done : ValidHere(prog, t)
  <2> SUFFICES ASSUME NEW t \in Done PROVE ValidHere(prog, t)
    OBVIOUS
  <2>1. \A n \in get_all_networks(prog)[t] : NetworkReady(prog, n)
    BY <1>0 DEF NetInv, NetReady, Visiting
  <2>2. \A c \in Ctrl(prog, t) : IsRelevant(prog, made, snaps, c) /\ t \in DOMAIN snaps[c]
    BY <1>0 DEF VisitInv, Visiting
  <2>3. \A c \in Ctrl(prog, t) : Matches(prog, snaps, c, t)
    BY <1>0, <1>1, <2>2 DEF CurrentInv, Visiting
  <2> QED
    BY <2>1, <2>2, <2>3 DEF ValidHere, IsRelevant, Matches, Relevant, has_snapshot, Ctrl
<1>3. Done \subseteq is_cache_ok(prog)
  BY <1>0, <1>1, <1>2, OkIsStored
<1>4. ASSUME NEW t \in Selected(prog),
             \A i \in DOMAIN status : plan.runs[i].test = t => status[i] = "passed"
      PROVE  t \in Done
  <2>1. CASE t \in ok
    BY <2>1 DEF Done
  <2>2. CASE t \notin ok
    <3>1. PICK i \in 1 .. Len(plan.runs) : plan.runs[i].test = t
      BY <1>0, <2>2 DEF AllHaveRuns, Visiting
    <3>2. i \in 1 .. idx - 1 /\ DOMAIN status = 1 .. Len(plan.runs)
      BY <1>0, <3>1, RunFacts DEF PlanInv
    <3>3. status[i] = "passed"
      BY <1>4, <3>1, <3>2
    <3> QED
      BY <3>1, <3>2, <3>3 DEF Done
  <2> QED
    BY <2>1, <2>2
<1>5. is_cache_ok(prog)' = is_cache_ok(prog)
  BY <1>0 DEF is_cache_ok, NetworkReady, Relevant, has_snapshot
<1>6. \A t \in Selected(prog) : t \in Subtrees(prog)[t]
  BY <1>0, SubtreesOf
<1> QED
  BY <1>0, <1>3, <1>4, <1>5, <1>6 DEF CacheUpdated

\* A launch finishes by visiting the last of its runs.
LEMMA FinishedSteps ==
    ASSUME PlanInv, Next, pc' = "finished"
    PROVE  Finish
<1>1. \A names \in Invalidated : ~Begin(names)
  BY DEF Begin
<1>2. \A c \in Controllers : ~DeleteSnapshots(c)
  BY DEF DeleteSnapshots
<1>3. ~Decline /\ ~CheckCache /\ ~Exit /\ ~Kill /\ \A kept \in Uncleaned : ~Clean(kept)
  BY DEF Decline, CheckCache, Exit, Kill, Clean, Ended
<1>4. ~BuildPlan
  BY DEF BuildPlan
<1>5. ~NextRun /\ ~Skipped /\ ~RestoreThrows /\ ~CommandsFail /\ ~SnapshotThrows /\ ~Passed
  BY DEF NextRun, Skipped, RestoreThrows, CommandsFail, SnapshotThrows, Passed, Ended
<1>6. ~ParentsRestored /\ ~NetworksCreated /\ ~ResumeParents /\ ~TemporariesDropped
  BY DEF ParentsRestored, NetworksCreated, ResumeParents, TemporariesDropped
<1>7. \A q \in Names, c \in Controllers : ~DropTemporary(q, c) /\ ~RestoreParent(q, c)
  BY DEF DropTemporary, RestoreParent
<1>8. /\ \A c \in Controllers : ~InstallController(c) /\ ~TakeSnapshot(c)
      /\ \A n \in Networks : ~CreateNetwork(n)
      /\ \A on \in BOOLEAN : ~CommandsPass(on)
  BY DEF InstallController, TakeSnapshot, CreateNetwork, CommandsPass
<1> QED
  BY <1>1, <1>2, <1>3, <1>4, <1>5, <1>6, <1>7, <1>8 DEF Next, Prepare, Visit

\* The next launch finds the cache of whatever passed in a launch that finished, unless a
\* test whose controllers are not those of all its ancestors is edited.
THEOREM CacheIsUpdated ==
    ASSUME UsualProjects, EditsAreWhole
    PROVE  Spec => []CacheUpdated
<1> DEFINE UpdatedInv == VersionedInv /\ CurrentInv /\ NetInv /\ AllHaveRuns /\ CacheUpdated
<1>1. Init => UpdatedInv
  <2> SUFFICES ASSUME Init PROVE UpdatedInv
    OBVIOUS
  <2>1. /\ pc = "idle" /\ snaps = [c \in Controllers |-> <<>>]
        /\ nets = [n \in Networks |-> 0]
    BY DEF Init
  <2>2. DOMAIN <<>> = {}
    OBVIOUS
  <2>3. VersionedInv
    BY <2>1, <2>2 DEF VersionedInv
  <2> QED
    BY <2>1, <2>3 DEF CurrentInv, NetInv, AllHaveRuns, CacheUpdated, Visiting, Running
<1>2. LaunchInv /\ UpdatedInv /\ [Next]_vars => UpdatedInv'
  <2> SUFFICES ASSUME LaunchInv, VersionedInv, CurrentInv, NetInv, AllHaveRuns, CacheUpdated,
                      [Next]_vars
               PROVE  VersionedInv' /\ CurrentInv' /\ NetInv' /\ AllHaveRuns' /\ CacheUpdated'
    OBVIOUS
  <2>1. CASE Next
    <3>1. VersionedInv' /\ CurrentInv' /\ NetInv' /\ AllHaveRuns'
      BY <2>1, VersionedStep, CurrentStep, NetStep, AllHaveRunsStep
    <3>2. ASSUME pc' # "finished"
          PROVE  CacheUpdated'
      BY <3>2 DEF CacheUpdated
    <3>3. ASSUME pc' = "finished"
          PROVE  CacheUpdated'
      <4>1. Finish
        BY <2>1, <3>3, FinishedSteps DEF LaunchInv
      <4> QED
        BY <4>1, FinishUpdates
    <3> QED
      BY <3>1, <3>2, <3>3
  <2>2. CASE UNCHANGED vars
    <3>1. VersionedInv' /\ CurrentInv' /\ AllHaveRuns'
      BY <2>2 DEF vars, VersionedInv, CurrentInv, AllHaveRuns, Matches
    <3>2. NetInv'
      BY <2>2 DEF vars, NetInv, NetReady, NetworkReady, Done, Test, Run
    <3>3. is_cache_ok(prog)' = is_cache_ok(prog)
      BY <2>2 DEF vars, is_cache_ok, NetworkReady, Relevant, has_snapshot
    <3>4. CacheUpdated'
      BY <2>2, <3>3 DEF vars, CacheUpdated
    <3> QED
      BY <3>1, <3>2, <3>4
  <2> QED
    BY <2>1, <2>2
<1>3. UpdatedInv => CacheUpdated
  OBVIOUS
<1> QED
  BY <1>1, <1>2, <1>3, LaunchInvariant, PTL DEF Spec


----------------------------------------------------------------------------
(* A run finds what its parents left                                       *)

\* A test uses no controller that its parents do not use.
WholeTests ==
    \A x \in DOMAIN Projects : \A p \in Versions(x) : \A t \in Selected(p) :
        \A q \in ParentSet(p, t) : Ctrl(p, q) = Ctrl(p, t)

\* A test with temporary snapshots uses one controller: of two, one may lose its
\* snapshot and the other keep it when the launch is killed.
TemporaryOnOne ==
    \A x \in DOMAIN Projects : \A p \in Versions(x) : \A t \in Selected(p) :
        p.policy[t] = "auto" => \E c \in Controllers : Ctrl(p, t) = {c}

\* A test that may fail uses machines only: the state of a flash drive is not forgotten.
FailuresOnMachines ==
    \A x \in DOMAIN Projects : \A p \in Versions(x) : \A t \in Selected(p) :
        t \in Failing \/ <<t, p.body[t]>> \in Holders => Ctrl(p, t) \subseteq Machines

\* The hypervisor's snapshots are of what the last passed run of their test left, and
\* those of a test that should always or never have them are all there or not at all.
ImageInv ==
    /\ DOMAIN left = Names /\ DOMAIN live = Controllers
    /\ \A c \in Controllers : \A s \in DOMAIN snaps[c] :
          LET image == snaps[c][s].image
          IN  IF s = Initial THEN image.content = Fresh /\ image.on = FALSE
              ELSE /\ image.taken => /\ c \in DOMAIN left[s] /\ image.content = left[s][c].content
                                     /\ c \in Machines => (image.on <=> left[s][c].on)
                   /\ snaps[c][s].cksum[2] = "never" => ~image.taken
                   /\ snaps[c][s].cksum[2] = "always" => image.taken

\* A test that is still to run has none.
BareInv ==
    pc \in Visiting =>
        \A j \in 1 .. Len(plan.runs) : j > idx \/ (j = idx /\ pc # "snapshot") =>
            \A c \in Ctrl(prog, plan.runs[j].test) :
                ~has_hypervisor_snapshot(c, plan.runs[j].test)

\* Controller c is as the last passed run of q left it: of content live and with power,
\* where a machine that was on is now in the state on.
AsLeft(live_, power_, left_, c, q, on) ==
    /\ c \in DOMAIN left_[q] /\ live_[c] = left_[q][c].content
    /\ c \in Machines => power_[c] = IF left_[q][c].on THEN on ELSE "stopped"
As(c, q, on) == AsLeft(live, power, left, c, q, on)

\* The present run is changing controller c, or has changed it.
Busy(c) == \/ pc \in {"commands", "drop"} /\ c \in Controls(Test)
           \/ pc = "snapshot" /\ c \in pending

\* A controller whose state is known is in that state.
LiveInv ==
    /\ pc \notin Visiting \cup {"finished"} => \A c \in Controllers : cur[c] = ""
    /\ pc \in Visiting => \A c \in Controllers :
          cur[c] \notin {"", Initial} =>
              /\ cur[c] \in Selected(prog) /\ c \in Ctrl(prog, cur[c])
              /\ Busy(c) \/ As(c, cur[c], "suspended")
    /\ pc = "commands" => \A c \in Inherited(Test) : As(c, cur[c], "running")
    /\ pc \in {"drop", "snapshot"} => \A c \in Controls(Test) : As(c, Test, "suspended")
    /\ pc = "install" =>
          \A c \in Controls(Test) \ (Inherited(Test) \cup pending) : live[c] = Fresh
    /\ pc = "commands" => \A c \in Controls(Test) \ Inherited(Test) : live[c] = Fresh

\* With whole tests, no edit leaves a controller behind.
LEMMA WholeEdits ==
    ASSUME UsualProjects, WholeTests
    PROVE  EditsAreWhole
<1> SUFFICES ASSUME NEW x \in DOMAIN Projects, NEW p \in Versions(x), NEW t \in Selected(p)
             PROVE  \A a \in Ancestors(p, t) : Ctrl(p, a) = Ctrl(p, t)
  BY DEF EditsAreWhole
<1> DEFINE S == {v \in Selected(p) : Ctrl(p, v) = Ctrl(p, t)}
<1>1. Ordered(p)
  BY VersionFacts DEF Version, Plannable
<1>2. ASSUME NEW v \in S, NEW q \in ParentSet(p, v)
      PROVE  q \in S
  <2>1. q \in Selected(p)
    BY <1>1, AncestorFacts
  <2>2. Ctrl(p, q) = Ctrl(p, v)
    BY DEF WholeTests
  <2> QED
    BY <2>1, <2>2
<1>3. t \in S /\ S \in SUBSET Selected(p)
  OBVIOUS
<1>4. Ancestors(p, t) \subseteq S
  <2> HIDE DEF S
  <2> QED
    BY <1>2, <1>3, AncestorsIn DEF Upward
<1> QED
  BY <1>4

\* When the plan is made, the tests that are not up to date have no snapshots at all.
LEMMA UncachedAreGoneEverywhere ==
    ASSUME UsualProjects, WholeTests, LaunchInv, pc = "delete", queue = <<>>,
           NEW t \in Selected(prog) \ ok, NEW c \in Ctrl(prog, t)
    PROVE  t \notin DOMAIN snaps[c]
<1>0. /\ StateInv /\ DiskInv /\ DeleteInv /\ Version(prog) /\ Ordered(prog)
      /\ project \in DOMAIN Projects /\ prog \in Versions(project)
  BY ProgramFacts DEF LaunchInv
<1>1. /\ t \in Ancestors(prog, t) /\ Ancestors(prog, t) \subseteq Selected(prog)
      /\ Upward(prog, Ancestors(prog, t))
  BY <1>0, AncestorFacts
<1> DEFINE S == Ancestors(prog, t) \ ok
           D == {v \in Selected(prog) : Ctrl(prog, v) = Ctrl(prog, t)}
<1>2. PICK a \in S : ParentSet(prog, a) \cap S = {}
  <2>1. S \in SUBSET Selected(prog) /\ S # {}
    BY <1>1
  <2> HIDE DEF S
  <2> QED
    BY <1>0, <2>1 DEF Ordered, Hierarchy
<1>3. a \in Topmost(prog, ok)
  <2>1. ParentSet(prog, a) \subseteq ok
    BY <1>1, <1>2 DEF Upward
  <2> QED
    BY <1>1, <1>2, <2>1 DEF Topmost
<1>4. ToSet(queue) = {}
  BY DEF ToSet
<1>5. \A d \in Ctrl(prog, a) : a \notin DOMAIN snaps[d]
  BY <1>0, <1>3, <1>4 DEF DeleteInv
<1>6. Ancestors(prog, t) \subseteq D
  <2>1. ASSUME NEW v \in D, NEW q \in ParentSet(prog, v)
        PROVE  q \in D
    <3>1. q \in Selected(prog)
      BY <1>0, AncestorFacts
    <3>2. Ctrl(prog, q) = Ctrl(prog, v)
      BY <1>0 DEF WholeTests
    <3> QED
      BY <3>1, <3>2
  <2>2. t \in D /\ D \in SUBSET Selected(prog)
    OBVIOUS
  <2> HIDE DEF D
  <2> QED
    BY <2>1, <2>2, AncestorsIn DEF Upward
<1>7. c \in Ctrl(prog, a)
  BY <1>2, <1>6
<1>8. Column(project, c, made[c], snaps[c])
  BY <1>0 DEF DiskInv, Version
<1> QED
  BY <1>0, <1>2, <1>5, <1>7, <1>8, ColumnChain

\* No run is planned of a test that can be restored.
LEMMA PlannedAreMissing ==
    ASSUME UsualProjects, LaunchInv, BuildPlan
    PROVE  \A j \in 1 .. Len(plan'.runs) :
               plan'.runs[j].test \in Selected(prog)
               /\ (plan'.runs[j].test \in ok => ~HasHypervisorSnapshots(plan'.runs[j].test))
<1> DEFINE H == {t \in ok : HasHypervisorSnapshots(t)}
           b == build_test_plan(prog, ok, H)
<1>0. Version(prog) /\ ok \in SUBSET Selected(prog) /\ Upward(prog, ok)
  BY ProgramFacts DEF LaunchInv, StateInv
<1>1. Built(prog, ok, H, b)
  BY <1>0, PlanIsBuilt DEF Version
<1>2. plan' = b
  BY DEF BuildPlan
<1> HIDE DEF b
<1>3. CASE b = StuckPlan(prog, TRUE)
  <2>1. b.runs = <<>>
    BY <1>3 DEF StuckPlan
  <2> QED
    BY <1>2, <2>1
<1>4. CASE b \in GoodPlans(prog, ok, H)
  <2>1. b \in PlanSet(prog) /\ NotInVain(prog, ok, H, b)
    BY <1>4 DEF GoodPlans, WellPlanned
  <2>2. \A j \in 1 .. Len(b.runs) : b.runs[j].test \in Selected(prog)
    <3> DEFINE runs == b.runs
               R == RunSet(prog)
    <3>1. runs \in Seq(R) /\ \A r \in R : r.test \in Selected(prog)
      BY <2>1, PlanFacts DEF RunSet
    <3> HIDE DEF runs, R
    <3>2. \A j \in 1 .. Len(runs) : runs[j] \in R
      BY <3>1
    <3> QED
      BY <3>1, <3>2 DEF runs
  <2> QED
    BY <1>2, <2>1, <2>2 DEF NotInVain
<1> QED
  BY <1>1, <1>3, <1>4 DEF Built

\* The steps of the snapshots.
LEMMA FromSnapshot ==
    ASSUME Next, pc = "snapshot"
    PROVE  SnapshotThrows \/ Passed \/ Kill \/ \E c \in Controllers : TakeSnapshot(c)
<1>1. /\ \A names \in Invalidated : ~Begin(names)
      /\ \A kept \in Uncleaned : ~Clean(kept)
      /\ \A c \in Controllers : ~DeleteSnapshots(c)
  BY DEF Begin, Clean, DeleteSnapshots
<1>2. ~Decline /\ ~CheckCache /\ ~BuildPlan /\ ~NextRun /\ ~Skipped /\ ~Finish /\ ~Exit
  BY DEF Decline, CheckCache, BuildPlan, NextRun, Skipped, Finish, Exit
<1>3. /\ ~RestoreThrows /\ ~ParentsRestored /\ ~NetworksCreated /\ ~ResumeParents
      /\ ~CommandsFail /\ ~TemporariesDropped
  BY DEF RestoreThrows, ParentsRestored, NetworksCreated, ResumeParents, CommandsFail,
         TemporariesDropped
<1>4. /\ \A q \in Names, c \in Controllers : ~DropTemporary(q, c) /\ ~RestoreParent(q, c)
      /\ \A c \in Controllers : ~InstallController(c)
      /\ \A n \in Networks : ~CreateNetwork(n)
      /\ \A on \in BOOLEAN : ~CommandsPass(on)
  BY DEF DropTemporary, RestoreParent, InstallController, CreateNetwork, CommandsPass
<1> QED
  BY <1>1, <1>2, <1>3, <1>4 DEF Next, Prepare, Visit

\* When the plan is made, the tests to run have no hypervisor snapshots.
LEMMA BareBuilt ==
    ASSUME UsualProjects, WholeTests, TemporaryOnOne, LaunchInv, ImageInv, BuildPlan
    PROVE  BareInv'
<1>0. /\ StateInv /\ OkInv /\ Version(prog) /\ project \in DOMAIN Projects
      /\ prog \in Versions(project) /\ pc = "delete" /\ queue = <<>>
      /\ \A t \in Selected(prog) : Controls(t) = Ctrl(prog, t) /\ Ctrl(prog, t) \subseteq Controllers
      /\ Initial \notin Names /\ Selected(prog) \subseteq Names
  BY ProgramFacts DEF LaunchInv, BuildPlan
<1>1. snaps' = snaps /\ prog' = prog
  BY DEF BuildPlan, disk, launch
<1>2. ASSUME NEW t \in Selected(prog), t \in ok => ~HasHypervisorSnapshots(t),
             NEW c \in Ctrl(prog, t), has_hypervisor_snapshot(c, t)
      PROVE  FALSE
  <2>1. t \in DOMAIN snaps[c] /\ snaps[c][t].image.taken /\ t # Initial /\ c \in Controllers
    BY <1>0, <1>2 DEF has_hypervisor_snapshot, has_snapshot
  <2>2. t \in ok
    BY <1>0, <1>2, <2>1, UncachedAreGoneEverywhere
  <2>3. PICK d \in Ctrl(prog, t) : ~has_hypervisor_snapshot(d, t)
    BY <1>0, <1>2, <2>2 DEF HasHypervisorSnapshots
  <2>4. /\ Matches(prog, snaps, c, t) /\ Matches(prog, snaps, d, t)
    BY <1>0, <2>2 DEF OkInv, Stored
  <2>5. snaps[c][t].cksum[2] = prog.policy[t] /\ snaps[d][t].cksum[2] = prog.policy[t]
        /\ t \in DOMAIN snaps[d] /\ d \in Controllers
    BY <1>0, <2>4 DEF Matches, cksum
  <2>6. prog.policy[t] # "never"
    BY <2>1, <2>5 DEF ImageInv
  <2>7. prog.policy[t] # "always"
    BY <2>1, <2>3, <2>5 DEF ImageInv, has_hypervisor_snapshot, has_snapshot
  <2>8. prog.policy[t] \in Policies
    BY <1>0 DEF Version, Plannable, Ordered
  <2>9. \E e \in Controllers : Ctrl(prog, t) = {e}
    BY <1>0, <2>6, <2>7, <2>8 DEF TemporaryOnOne, Policies
  <2> QED
    BY <1>2, <2>3, <2>9
<1> QED
  BY <1>1, <1>2, PlannedAreMissing DEF BareInv, has_hypervisor_snapshot, has_snapshot

\* Each step leaves the tests that are still to run without hypervisor snapshots.
LEMMA BareStep ==
    ASSUME UsualProjects, WholeTests, TemporaryOnOne, LaunchInv, ImageInv, BareInv, Next
    PROVE  BareInv'
<1> SUFFICES ASSUME pc' \in Visiting
             PROVE  BareInv'
  BY DEF BareInv
<1>0. /\ StateInv /\ PlanInv /\ Initial \notin Names /\ Len(plan.runs) \in Nat /\ idx \in Nat
      /\ \A t \in Selected(prog) : t \in Names /\ Ctrl(prog, t) \subseteq Controllers
  BY ProgramFacts, RunFacts DEF LaunchInv
<1>1. CASE BuildPlan
  BY <1>1, BareBuilt
<1>2. ASSUME pc \in Visiting, prog' = prog, plan'.runs = plan.runs,
             \/ idx' = idx + 1
             \/ idx' = idx /\ (pc = "snapshot" => pc' = "snapshot")
      PROVE  BareInv'
  <2> SUFFICES ASSUME NEW j \in 1 .. Len(plan.runs), j > idx' \/ (j = idx' /\ pc' # "snapshot"),
                      NEW t, t = plan.runs[j].test, NEW c \in Ctrl(prog, t),
                      t \in DOMAIN snaps'[c]
               PROVE  ~snaps'[c][t].image.taken
    BY <1>2 DEF BareInv, has_hypervisor_snapshot, has_snapshot
  <2>1. t \in Selected(prog) /\ t # Initial /\ c \in Controllers
    BY <1>0, RunFacts
  <2>2. j > idx \/ (j = idx /\ pc # "snapshot")
    BY <1>0, <1>2
  <2>3. ~(t \in DOMAIN snaps[c] /\ snaps[c][t].image.taken)
    BY <1>2, <2>2 DEF BareInv, has_hypervisor_snapshot, has_snapshot
  <2>4. CASE t \in DOMAIN snaps[c] /\ snaps'[c][t] = snaps[c][t]
    BY <2>3, <2>4
  <2>5. CASE snaps'[c][t] = WithImage(snaps[c][t], NoImage)
    BY <2>5 DEF WithImage, Record, NoImage
  <2>6. CASE /\ t = Test /\ pc = "snapshot"
             /\ snaps'[c][t].image = IF is_hypervisor_snapshot_needed(Test)
                                     THEN Image(live[c], power[c] # "stopped", c \in keys)
                                     ELSE NoImage
    <3>1. idx <= Len(plan.runs)
      BY <1>0, <2>6 DEF PlanInv, Running
    <3>2. Test = plan.runs[idx].test /\ idx \in 1 .. Len(plan.runs)
      BY <1>0, <3>1, PresentRun
    <3>3. j > idx /\ idx \in 1 .. j - 1
      BY <2>2, <2>6, <3>2
    <3>4. Policy(Test) = "never"
      <4>1. \A i \in 1 .. j - 1 :
                plan.runs[i].test = plan.runs[j].test => Policy(plan.runs[j].test) = "never"
        BY <1>0 DEF PlanInv
      <4>2. plan.runs[idx].test = plan.runs[j].test /\ plan.runs[j].test = Test
        BY <2>6, <3>2
      <4> QED
        BY <3>3, <4>1, <4>2
    <3>5. ~is_hypervisor_snapshot_needed(Test)
      BY <3>4 DEF is_hypervisor_snapshot_needed
    <3> QED
      BY <2>6, <3>5 DEF NoImage
  <2> QED
    BY <2>1, <2>4, <2>5, <2>6, RecordSteps
<1>3. CASE NextRun
  <2>1. plan' = [plan EXCEPT !.refs = RemainingRefs] /\ UNCHANGED <<prog, idx>> /\ pc = "next"
    BY <1>3 DEF NextRun, launch
  <2>2. plan' = [stuck |-> plan.stuck, runs |-> plan.runs, refs |-> RemainingRefs]
    BY <1>0, <2>1 DEF PlanInv
  <2> QED
    BY <1>2, <2>1, <2>2 DEF Visiting
<1>4. CASE Skipped \/ CommandsFail \/ Passed
  BY <1>2, <1>4 DEF Skipped, CommandsFail, Passed, launch, Visiting, Running
<1>5. CASE UNCHANGED <<prog, plan, idx>> /\ pc' # "next" /\ pc \in Visiting
  <2>1. ASSUME pc = "snapshot"
        PROVE  pc' = "snapshot"
    <3>1. ~SnapshotThrows /\ ~Kill /\ ~Passed
      BY <1>5 DEF SnapshotThrows, Kill, Ended, Passed, Visiting, Running
    <3> QED
      BY <2>1, <3>1, FromSnapshot DEF TakeSnapshot
  <2> QED
    BY <1>2, <1>5, <2>1
<1> QED
  BY <1>1, <1>3, <1>4, <1>5, VisitSteps

\* Only commands that pass are remembered, and a step leaves something on every controller.
LEMMA LeftSteps ==
    ASSUME Next, DOMAIN live = Controllers
    PROVE  /\ left' = left \/ \E on \in BOOLEAN : CommandsPass(on)
           /\ DOMAIN live' = Controllers
<1> DEFINE Kept_ == left' = left /\ DOMAIN live' = Controllers
<1>1. /\ \A names \in Invalidated : Begin(names) => Kept_
      /\ \A kept \in Uncleaned : Clean(kept) => Kept_
      /\ \A c \in Controllers : DeleteSnapshots(c) => Kept_
  BY DEF Begin, Clean, DeleteSnapshots, ghosts, world
<1>2. Decline \/ CheckCache \/ BuildPlan => Kept_
  BY DEF Decline, CheckCache, BuildPlan, ghosts, world
<1>3. NextRun \/ Skipped \/ RestoreThrows \/ ParentsRestored \/ NetworksCreated \/ ResumeParents => Kept_
  BY DEF NextRun, Skipped, RestoreThrows, ParentsRestored, NetworksCreated, ResumeParents, ghosts, world
<1>4. CommandsFail \/ TemporariesDropped \/ SnapshotThrows \/ Passed \/ Finish \/ Exit \/ Kill => Kept_
  BY DEF CommandsFail, TemporariesDropped, SnapshotThrows, Passed, Finish, Exit, Kill, CutShort,
         ghosts, world
<1>5. /\ \A q \in Names, c \in Controllers : DropTemporary(q, c) \/ RestoreParent(q, c) => Kept_
      /\ \A n \in Networks : CreateNetwork(n) => Kept_
      /\ \A c \in Controllers : InstallController(c) \/ TakeSnapshot(c) => Kept_
  BY DEF DropTemporary, RestoreParent, CreateNetwork, InstallController, TakeSnapshot, Restored,
         ghosts, world
<1>6. \A on \in BOOLEAN : CommandsPass(on) => DOMAIN live' = Controllers
  BY DEF CommandsPass
<1> HIDE DEF Kept_
<1> QED
  BY <1>1, <1>2, <1>3, <1>4, <1>5, <1>6 DEF Next, Prepare, Visit, Kept_

\* Each step keeps the hypervisor's snapshots what the tests left.
LEMMA ImageStep ==
    ASSUME UsualProjects, LaunchInv, CurrentInv, ImageInv, BareInv, LiveInv, Next
    PROVE  ImageInv'
<1>0. /\ StateInv /\ DiskInv /\ PlanInv /\ RunInv /\ Initial \notin Names
      /\ \A t \in Selected(prog) : t \in Names /\ Controls(t) = Ctrl(prog, t)
      /\ prog \in Versions(project)
      /\ DOMAIN live' = Controllers /\ (left' = left \/ \E on \in BOOLEAN : CommandsPass(on))
  BY ProgramFacts, LeftSteps DEF LaunchInv, ImageInv
<1>1. ASSUME NEW on \in BOOLEAN, CommandsPass(on)
      PROVE  ImageInv'
  <2>1. /\ pc = "commands" /\ snaps' = snaps
        /\ left' = [left EXCEPT ![Test] = [c \in Controls(Test) |->
                             Image(live'[c], power'[c] # "stopped", c \in keys')]]
    BY <1>1 DEF CommandsPass, disk
  <2>2. idx <= Len(plan.runs)
    BY <1>0, <2>1 DEF PlanInv, Running
  <2>3. /\ Test = plan.runs[idx].test /\ idx \in 1 .. Len(plan.runs)
        /\ Test \in Selected(prog) /\ Test \in Names
    BY <1>0, <2>2, PresentRun
  <2>4. DOMAIN left' = Names /\ \A s \in Names \ {Test} : left'[s] = left[s]
    BY <2>1, <2>3 DEF ImageInv
  <2>5. ASSUME NEW c \in Controllers, Test \in DOMAIN snaps[c]
        PROVE  ~snaps[c][Test].image.taken
    <3>1. Column(project, c, made[c], snaps[c])
      BY <1>0 DEF DiskInv
    <3>2. OnParent(prog, c, Test, snaps[c][Test].parent)
      BY <1>0, <2>3, <2>5, <3>1 DEF Column
    <3>3. c \in Ctrl(prog, Test)
      BY <3>2 DEF OnParent
    <3> QED
      BY <2>1, <2>3, <2>5, <3>3 DEF BareInv, Visiting, Running, has_hypervisor_snapshot, has_snapshot
  <2>6. \A c \in Controllers : DOMAIN snaps[c] \subseteq Names \cup {Initial}
    BY <1>0 DEF DiskInv, Column
  <2>7. Test # Initial
    BY <1>0, <2>3
  <2> QED
    BY <1>0, <2>1, <2>4, <2>5, <2>6, <2>7 DEF ImageInv
<1>2. CASE left' = left
  <2> SUFFICES ASSUME NEW c \in Controllers, NEW s \in DOMAIN snaps'[c]
               PROVE  LET image == snaps'[c][s].image
                      IN  IF s = Initial THEN image.content = Fresh /\ image.on = FALSE
                          ELSE /\ image.taken => /\ c \in DOMAIN left[s]
                                                 /\ image.content = left[s][c].content
                                                 /\ c \in Machines => (image.on <=> left[s][c].on)
                               /\ snaps'[c][s].cksum[2] = "never" => ~image.taken
                               /\ snaps'[c][s].cksum[2] = "always" => image.taken
    BY <1>0, <1>2 DEF ImageInv
  <2>1. CASE s \in DOMAIN snaps[c] /\ snaps'[c][s] = snaps[c][s]
    BY <2>1 DEF ImageInv
  <2>2. CASE /\ s \in DOMAIN snaps[c] /\ snaps'[c][s] = WithImage(snaps[c][s], NoImage)
             /\ DropTemporary(s, c)
    <3>1. snaps'[c][s].image = NoImage /\ snaps'[c][s].cksum = snaps[c][s].cksum
      BY <2>2 DEF WithImage, Record
    <3>2. /\ pc \in {"skip", "drop"} /\ s \in ParentSet(prog, Test) /\ Policy(s) = "auto"
          /\ c \in Controls(s)
      BY <2>2 DEF DropTemporary, Temporary
    <3>3. s \in Selected(prog)
      BY <1>0, <3>2, PresentRun DEF PlanInv, Running
    <3>4. Matches(prog, snaps, c, s)
      BY <1>0, <2>2, <3>2, <3>3 DEF CurrentInv, Visiting, Running
    <3>5. snaps'[c][s].cksum[2] = "auto"
      BY <3>1, <3>2, <3>4 DEF Matches, cksum, Policy
    <3>6. NoImage.content = Fresh /\ NoImage.on = FALSE /\ ~NoImage.taken
      BY DEF NoImage
    <3> QED
      BY <3>1, <3>5, <3>6
  <2>3. CASE s = Initial /\ snaps'[c][s].image = Image(Fresh, FALSE, FALSE)
    BY <2>3 DEF Image
  <2>4. CASE /\ s = Test /\ pc = "snapshot" /\ c \in pending
             /\ snaps'[c][s].cksum = cksum(prog, Test)
             /\ snaps'[c][s].image = IF is_hypervisor_snapshot_needed(Test)
                                     THEN Image(live[c], power[c] # "stopped", c \in keys)
                                     ELSE NoImage
    <3> DEFINE image == snaps'[c][s].image
    <3>1. idx <= Len(plan.runs) /\ c \in Controls(Test)
      BY <1>0, <2>4 DEF PlanInv, Running, RunInv
    <3>2. Test \in Names /\ Test # Initial
      BY <1>0, <3>1, PresentRun
    <3>3. As(c, Test, "suspended")
      BY <2>4, <3>1 DEF LiveInv
    <3>4. snaps'[c][s].cksum[2] = Policy(Test)
      BY <2>4 DEF cksum, Policy
    <3>5. CASE is_hypervisor_snapshot_needed(Test)
      <4>1. /\ image.content = live[c] /\ (image.on <=> power[c] # "stopped") /\ image.taken
        <5> DEFINE x == power[c] # "stopped"
                   y == c \in keys
        <5>1. image = Image(live[c], x, y)
          BY <2>4, <3>5
        <5> HIDE DEF x, y
        <5>2. image.content = live[c] /\ image.on = x /\ image.taken
          BY <5>1 DEF Image
        <5> QED
          BY <5>2 DEF x
      <4>2. Policy(Test) # "never"
        BY <3>5 DEF is_hypervisor_snapshot_needed
      <4>3. c \in Machines => (image.on <=> left[s][c].on)
        BY <2>4, <3>3, <4>1 DEF As, AsLeft
      <4> QED
        BY <2>4, <3>2, <3>3, <3>4, <4>1, <4>2, <4>3 DEF As, AsLeft
    <3>6. CASE ~is_hypervisor_snapshot_needed(Test)
      <4>1. ~image.taken
        BY <2>4, <3>6 DEF NoImage
      <4>2. Policy(Test) # "always"
        BY <3>6 DEF is_hypervisor_snapshot_needed
      <4> QED
        BY <2>4, <3>2, <3>4, <4>1, <4>2
    <3> QED
      BY <3>5, <3>6
  <2> QED
    BY <2>1, <2>2, <2>3, <2>4, RecordSteps
<1> QED
  BY <1>0, <1>1, <1>2

\* What is known of controller c: if that is the state of a test, the controller is in it.
Known(p, live_, power_, left_, cur_, c) ==
    cur_[c] \notin {"", Initial} =>
        /\ cur_[c] \in Selected(p) /\ c \in Ctrl(p, cur_[c])
        /\ AsLeft(live_, power_, left_, c, cur_[c], "suspended")

\* Each step keeps what is known of the controllers right.
LEMMA LiveStep ==
    ASSUME UsualProjects, FailuresOnMachines, LaunchInv, ImageInv, LiveInv, Next
    PROVE  LiveInv'
<1>0. /\ StateInv /\ DiskInv /\ PlanInv /\ RunInv
      /\ cur \in [Controllers -> Names \cup {Initial, ""}] /\ DOMAIN snaps = Controllers
      /\ power \in [Controllers -> {"stopped", "running", "suspended"}]
      /\ DOMAIN live = Controllers /\ DOMAIN left = Names
      /\ project \in DOMAIN Projects /\ prog \in Versions(project)
      /\ \A t \in Selected(prog) : Controls(t) = Ctrl(prog, t) /\ Controls(t) \subseteq Controllers
      /\ "" \notin Names /\ Initial \notin Names /\ Selected(prog) \subseteq Names
  BY ProgramFacts DEF LaunchInv, StateInv, ImageInv
<1>1. ASSUME pc \in Running
      PROVE  /\ Test \in Selected(prog) /\ Controls(Test) = Ctrl(prog, Test)
             /\ Controls(Test) \subseteq Controllers /\ Inherited(Test) \subseteq Controls(Test)
             /\ ParentSet(prog, Test) \subseteq Selected(prog)
  BY <1>0, <1>1, PresentRun DEF PlanInv
<1>2. UNCHANGED <<prog, plan, idx>> =>
         Test' = Test /\ Controls(Test)' = Controls(Test) /\ Inherited(Test)' = Inherited(Test)
  BY DEF Test, Run, Controls, Inherited
<1>3. ASSUME NEW c \in Controllers, pc \in {"next", "skip", "restore", "networks", "install"}
      PROVE  Known(prog, live, power, left, cur, c)
  <2>1. ~Busy(c) /\ pc \in Visiting
    BY <1>3 DEF Busy, Visiting, Running
  <2> QED
    BY <2>1 DEF LiveInv, Known, As
\* Outside a visit nothing is known.
<1>4. ASSUME pc' \notin Visiting, pc' # "finished" => \A c \in Controllers : cur'[c] = ""
      PROVE  LiveInv'
  BY <1>4 DEF LiveInv, Visiting, Running
\* Between the commands of two runs.
<1>5. ASSUME pc' \in {"next", "skip", "restore", "networks"},
             \A c \in Controllers : Known(prog', live', power', left', cur', c)
      PROVE  LiveInv'
  <2>1. \A c \in Controllers : cur'[c] \notin {"", Initial} =>
            cur'[c] \in Selected(prog') /\ c \in Ctrl(prog', cur'[c]) /\ As(c, cur[c], "suspended")'
    BY <1>5 DEF Known, As
  <2>2. pc' \in Visiting /\ pc' \notin {"commands", "drop", "snapshot", "install"}
    BY <1>5 DEF Visiting, Running
  <2> QED
    BY <2>1, <2>2 DEF LiveInv
\* When the controllers no parent uses are put in place.
<1>6. ASSUME pc' = "install",
             \A c \in Controllers : Known(prog', live', power', left', cur', c),
             \A c \in Controls(Test)' \ (Inherited(Test)' \cup pending') : live'[c] = Fresh
      PROVE  LiveInv'
  <2>1. \A c \in Controllers : cur'[c] \notin {"", Initial} =>
            cur'[c] \in Selected(prog') /\ c \in Ctrl(prog', cur'[c]) /\ As(c, cur[c], "suspended")'
    BY <1>6 DEF Known, As
  <2>2. pc' \in Visiting /\ pc' \notin {"commands", "drop", "snapshot"}
    BY <1>6 DEF Visiting, Running
  <2> QED
    BY <1>6, <2>1, <2>2 DEF LiveInv
\* From the end of the commands to the last snapshot.
<1>7. ASSUME pc' \in {"drop", "snapshot"}, UNCHANGED <<prog, plan, idx>>,
             \A c \in Controllers : cur'[c] \notin {"", Initial} =>
                 /\ cur'[c] \in Selected(prog) /\ c \in Ctrl(prog, cur'[c])
                 /\ \/ pc' = "drop" /\ c \in Controls(Test)
                    \/ pc' = "snapshot" /\ c \in pending'
                    \/ AsLeft(live', power', left', c, cur'[c], "suspended"),
             \A c \in Controls(Test) : AsLeft(live', power', left', c, Test, "suspended")
      PROVE  LiveInv'
  <2>1. Test' = Test /\ Controls(Test)' = Controls(Test)
    BY <1>2, <1>7
  <2>2. \A c \in Controllers : cur'[c] \notin {"", Initial} =>
            /\ cur'[c] \in Selected(prog') /\ c \in Ctrl(prog', cur'[c])
            /\ Busy(c)' \/ As(c, cur[c], "suspended")'
    BY <1>7, <2>1 DEF Busy, As
  <2>3. \A c \in Controls(Test)' : As(c, Test, "suspended")'
    BY <1>7, <2>1 DEF As
  <2>4. pc' \in Visiting /\ pc' \notin {"commands", "install"}
    BY <1>7 DEF Visiting, Running
  <2> QED
    BY <2>2, <2>3, <2>4 DEF LiveInv
<1>8. ASSUME NEW names \in Invalidated, Begin(names)
      PROVE  LiveInv'
  <2>1. pc = "idle" /\ pc' = "invalidate" /\ cur' = cur
    BY <1>8 DEF Begin, known
  <2> QED
    BY <1>4, <2>1 DEF LiveInv, Visiting, Running
<1>9. ASSUME NEW kept \in Uncleaned, Clean(kept)
      PROVE  LiveInv'
  <2>1. pc = "idle" /\ pc' = "idle" /\ cur' = cur
    BY <1>9 DEF Clean, known
  <2> QED
    BY <1>4, <2>1 DEF LiveInv, Visiting, Running
<1>10. ASSUME NEW c \in Controllers, DeleteSnapshots(c)
      PROVE  LiveInv'
  <2>1. pc \in {"invalidate", "delete"} /\ pc' = pc /\ cur' = cur
    BY <1>10 DEF DeleteSnapshots, known
  <2> QED
    BY <1>4, <2>1 DEF LiveInv, Visiting, Running
<1>11. CASE Ended
  <2>1. pc' = "idle" /\ cur' = [c \in Controllers |-> ""]
    BY <1>11 DEF Ended, NothingDone
  <2> QED
    BY <1>4, <2>1 DEF Visiting, Running
<1>12. CASE CheckCache
  <2>1. pc = "invalidate" /\ pc' = "delete" /\ cur' = cur
    BY <1>12 DEF CheckCache, known
  <2> QED
    BY <1>4, <2>1 DEF LiveInv, Visiting, Running
<1>13. CASE BuildPlan
  <2>1. pc = "delete" /\ pc' \in {"stuck", "next"} /\ cur' = cur
    BY <1>13 DEF BuildPlan, known
  <2>2. \A c \in Controllers : cur'[c] = ""
    BY <2>1 DEF LiveInv, Visiting, Running
  <2>3. CASE pc' = "stuck"
    BY <1>4, <2>2, <2>3 DEF Visiting, Running
  <2>4. CASE pc' = "next"
    BY <1>5, <2>2, <2>4 DEF Known
  <2> QED
    BY <2>1, <2>3, <2>4
<1>14. CASE NextRun \/ Skipped \/ ParentsRestored
  <2>1. /\ UNCHANGED <<prog, live, power, left, cur>>
        /\ pc \in {"next", "skip", "restore"} /\ pc' \in {"next", "skip", "restore", "networks"}
    BY <1>14 DEF NextRun, Skipped, ParentsRestored, known, world, launch, ghosts
  <2> QED
    BY <1>3, <1>5, <2>1
<1>15. ASSUME NEW n \in Networks, CreateNetwork(n)
       PROVE  LiveInv'
  <2>1. UNCHANGED <<prog, live, power, left, cur>> /\ pc = "networks" /\ pc' = pc
    BY <1>15 DEF CreateNetwork, known, world, launch, ghosts
  <2> QED
    BY <1>3, <1>5, <2>1
<1>16. CASE NetworksCreated
  <2>1. /\ UNCHANGED <<prog, plan, idx, live, power, left, cur>> /\ pc = "networks"
        /\ pc' = "install" /\ pending' = Controls(Test) \ Inherited(Test)
    BY <1>16 DEF NetworksCreated, known, world, launch, ghosts
  <2> QED
    BY <1>2, <1>3, <1>6, <2>1
<1>17. ASSUME NEW q \in Names, NEW d \in Controllers, DropTemporary(q, d)
       PROVE  LiveInv'
  <2>1. /\ pc \in {"skip", "drop"} /\ pc' = pc
        /\ UNCHANGED <<prog, plan, idx, live, power, left, cur>>
    BY <1>17 DEF DropTemporary, known, world, launch, ghosts
  <2>2. CASE pc = "skip"
    BY <1>3, <1>5, <2>1, <2>2
  <2>3. CASE pc = "drop"
    <3>1. \A c \in Controllers : cur[c] \notin {"", Initial} =>
              /\ cur[c] \in Selected(prog) /\ c \in Ctrl(prog, cur[c])
              /\ c \in Controls(Test) \/ AsLeft(live, power, left, c, cur[c], "suspended")
      BY <2>3 DEF LiveInv, As, Busy, Visiting, Running
    <3>2. \A c \in Controls(Test) : AsLeft(live, power, left, c, Test, "suspended")
      BY <2>3 DEF LiveInv, As
    <3> QED
      BY <1>7, <2>1, <2>3, <3>1, <3>2
  <2> QED
    BY <2>1, <2>2, <2>3
<1>18. ASSUME NEW d \in Controllers, NEW s, cur' = [cur EXCEPT ![d] = s],
              \A c \in Controllers \ {d} : live'[c] = live[c] /\ power'[c] = power[c],
              UNCHANGED <<prog, left>>, pc \in {"restore", "install"},
              s # Initial => /\ s \in Selected(prog) /\ d \in Ctrl(prog, s)
                             /\ AsLeft(live', power', left', d, s, "suspended")
       PROVE  \A c \in Controllers : Known(prog', live', power', left', cur', c)
  <2>1. ASSUME NEW c \in Controllers, c # d
        PROVE  Known(prog', live', power', left', cur', c)
    <3>1. Known(prog, live, power, left, cur, c)
      BY <1>3, <1>18
    <3>2. cur'[c] = cur[c] /\ live'[c] = live[c] /\ power'[c] = power[c]
      BY <1>0, <1>18, <2>1
    <3> QED
      BY <1>18, <3>1, <3>2 DEF Known, AsLeft
  <2>2. cur'[d] = s
    BY <1>0, <1>18
  <2>3. Known(prog', live', power', left', cur', d)
    BY <1>18, <2>2 DEF Known
  <2> QED
    BY <2>1, <2>3
<1>19. ASSUME NEW d \in Controllers, NEW s \in DOMAIN snaps[d], Restored(d, s)
       PROVE  /\ cur' = [cur EXCEPT ![d] = s]
              /\ \A c \in Controllers \ {d} : live'[c] = live[c] /\ power'[c] = power[c]
              /\ live'[d] = snaps[d][s].image.content
              /\ power'[d] = IF snaps[d][s].image.on THEN "suspended" ELSE "stopped"
  BY <1>0, <1>19 DEF Restored
<1>20. ASSUME NEW q \in Names, NEW d \in Controllers, RestoreParent(q, d)
       PROVE  LiveInv'
  <2>1. /\ pc = "restore" /\ pc' = pc /\ q \in DOMAIN snaps[d] /\ Restored(d, q)
        /\ snaps[d][q].image.taken /\ UNCHANGED <<prog, left>> /\ <<q, d>> \in ToRestore
    BY <1>20 DEF RestoreParent, CanRestore, has_hypervisor_snapshot, has_snapshot, launch, ghosts
  <2>2. q \in Selected(prog) /\ d \in Ctrl(prog, q)
    BY <1>0, <1>1, <2>1 DEF ToRestore, Running
  <2>3. AsLeft(live', power', left', d, q, "suspended")
    <3> DEFINE image == snaps[d][q].image
    <3>1. /\ d \in DOMAIN left[q] /\ image.content = left[q][d].content
          /\ d \in Machines => (image.on <=> left[q][d].on)
      BY <1>0, <2>1, <2>2 DEF ImageInv
    <3>2. live'[d] = image.content /\ power'[d] = IF image.on THEN "suspended" ELSE "stopped"
      BY <1>19, <2>1
    <3> HIDE DEF image
    <3> QED
      BY <2>1, <3>1, <3>2 DEF AsLeft
  <2>4. \A c \in Controllers : Known(prog', live', power', left', cur', c)
    BY <1>18, <1>19, <2>1, <2>2, <2>3
  <2> QED
    BY <1>5, <2>1, <2>4
<1>21. ASSUME NEW d \in Controllers, InstallController(d)
       PROVE  LiveInv'
  <2>1. /\ pc = "install" /\ pc' = pc /\ pending' = pending \ {d} /\ d \in pending
        /\ UNCHANGED <<prog, plan, idx, left>>
    BY <1>21 DEF InstallController, launch, ghosts
  <2>2. /\ cur' = [cur EXCEPT ![d] = Initial] /\ live'[d] = Fresh
        /\ \A c \in Controllers \ {d} : live'[c] = live[c] /\ power'[c] = power[c]
    <3>1. CASE Relevant(prog, d)
      <4>1. Restored(d, Initial) /\ Initial \in DOMAIN snaps[d]
        BY <1>21, <3>1 DEF InstallController, Relevant, has_snapshot
      <4>2. snaps[d][Initial].image.content = Fresh
        BY <4>1 DEF ImageInv
      <4> QED
        BY <1>19, <4>1, <4>2
    <3>2. CASE ~Relevant(prog, d)
      <4>1. /\ live' = [live EXCEPT ![d] = Fresh] /\ power' = [power EXCEPT ![d] = "stopped"]
            /\ cur' = [cur EXCEPT ![d] = Initial]
        BY <1>21, <3>2 DEF InstallController
      <4> QED
        BY <1>0, <4>1
    <3> QED
      BY <3>1, <3>2
  <2>3. \A c \in Controllers : Known(prog', live', power', left', cur', c)
    BY <1>18, <2>1, <2>2
  <2>4. \A c \in Controls(Test) \ (Inherited(Test) \cup pending) : live[c] = Fresh
    BY <2>1 DEF LiveInv
  <2>5. Controls(Test) \subseteq Controllers
    BY <1>1, <2>1 DEF Running
  <2>6. \A c \in Controls(Test)' \ (Inherited(Test)' \cup pending') : live'[c] = Fresh
    BY <1>2, <2>1, <2>2, <2>4, <2>5
  <2> QED
    BY <1>6, <2>1, <2>3, <2>6
<1>22. CASE ResumeParents
  <2>1. /\ pc = "install" /\ pc' = "commands" /\ pending = {}
        /\ UNCHANGED <<prog, plan, idx, live, left, cur>>
        /\ power' = [c \in Controllers |-> IF c \in Inherited(Test) /\ power[c] = "suspended"
                                           THEN "running" ELSE power[c]]
    BY <1>22 DEF ResumeParents, known, launch, ghosts
  <2>2. /\ Test' = Test /\ Controls(Test)' = Controls(Test) /\ Inherited(Test)' = Inherited(Test)
    BY <1>2, <2>1
  <2>3. /\ Controls(Test) \subseteq Controllers /\ Inherited(Test) \subseteq Controls(Test)
        /\ ParentSet(prog, Test) \subseteq Names /\ Test \in Selected(prog)
        /\ Controls(Test) = Ctrl(prog, Test)
    BY <1>0, <1>1, <2>1 DEF Running
  <2>4. ASSUME NEW c \in Inherited(Test)
        PROVE  As(c, cur[c], "running")'
    <3>1. Ready(c)
      BY <1>0, <2>1, <2>3 DEF RunInv
    <3>2. \E q \in ParentSet(prog, Test) : c \in Ctrl(prog, q)
      BY <1>0, <1>1, <2>1 DEF Inherited, Running
    <3>3. cur[c] \in ParentSet(prog, Test)
      BY <3>1, <3>2 DEF Ready, OnParent
    <3>4. cur[c] \notin {"", Initial} /\ c \in Controllers
      BY <1>0, <2>3, <3>3
    <3>5. AsLeft(live, power, left, c, cur[c], "suspended")
      BY <1>3, <2>1, <3>4 DEF Known
    <3>6. power'[c] = IF power[c] = "suspended" THEN "running" ELSE power[c]
      BY <2>1, <3>4
    <3>7. AsLeft(live', power', left', c, cur'[c], "running")
      BY <2>1, <3>5, <3>6 DEF AsLeft
    <3> QED
      BY <3>7 DEF As
  <2>5. \A c \in Controls(Test)' \ Inherited(Test)' : live'[c] = Fresh
    BY <2>1, <2>2 DEF LiveInv
  <2>6. ASSUME NEW c \in Controllers, cur'[c] \notin {"", Initial}
        PROVE  /\ cur'[c] \in Selected(prog') /\ c \in Ctrl(prog', cur'[c])
               /\ Busy(c)' \/ As(c, cur[c], "suspended")'
    <3>1. Known(prog, live, power, left, cur, c)
      BY <1>3, <2>1
    <3>2. CASE c \in Controls(Test)
      BY <2>1, <2>2, <2>6, <3>1, <3>2 DEF Busy, Known
    <3>3. CASE c \notin Controls(Test)
      <4>1. power'[c] = power[c]
        BY <2>1, <2>3, <3>3
      <4>2. AsLeft(live', power', left', c, cur'[c], "suspended")
        BY <2>1, <2>6, <3>1, <4>1 DEF AsLeft, Known
      <4> QED
        BY <2>1, <2>6, <3>1, <4>2 DEF As, Known
    <3> QED
      BY <3>2, <3>3
  <2>7. pc' \in Visiting
    BY <2>1 DEF Visiting, Running
  <2> QED
    BY <2>1, <2>2, <2>4, <2>5, <2>6, <2>7 DEF LiveInv
<1>23. ASSUME NEW on \in BOOLEAN, CommandsPass(on)
       PROVE  LiveInv'
  <2>1. /\ pc = "commands" /\ pc' = "drop" /\ UNCHANGED <<prog, plan, idx, cur>>
        /\ left' = [left EXCEPT ![Test] = [c \in Controls(Test) |->
                             Image(live'[c], power'[c] # "stopped", c \in keys')]]
        /\ power' = [c \in Controllers |-> IF c \in MachinesOf(Test)
                                           THEN IF on THEN "suspended" ELSE "stopped"
                                           ELSE power[c]]
        /\ \A c \in Controllers \ Controls(Test) : live'[c] = live[c]
    BY <1>23 DEF CommandsPass, launch
  <2>2. /\ Controls(Test) \subseteq Controllers /\ Test \in Names
        /\ Controls(Test) = Ctrl(prog, Test)
    BY <1>0, <1>1, <2>1 DEF Running
  <2>3. /\ left'[Test] = [c \in Controls(Test) |->
                             Image(live'[c], power'[c] # "stopped", c \in keys')]
        /\ \A t \in Names \ {Test} : left'[t] = left[t]
    BY <1>0, <2>1, <2>2
  <2>4. ASSUME NEW c \in Controls(Test)
        PROVE  AsLeft(live', power', left', c, Test, "suspended")
    <3> DEFINE x == power'[c] # "stopped"
               y == c \in keys'
    <3>1. left'[Test][c] = Image(live'[c], x, y) /\ c \in DOMAIN left'[Test]
      BY <2>3
    <3>2. c \in Machines => power'[c] = IF x THEN "suspended" ELSE "stopped"
      BY <2>1, <2>2 DEF MachinesOf
    <3> HIDE DEF x, y
    <3>3. Image(live'[c], x, y).content = live'[c] /\ Image(live'[c], x, y).on = x
      BY DEF Image
    <3> QED
      BY <3>1, <3>2, <3>3 DEF AsLeft
  <2>5. ASSUME NEW c \in Controllers, cur'[c] \notin {"", Initial}
        PROVE  /\ cur'[c] \in Selected(prog) /\ c \in Ctrl(prog, cur'[c])
               /\ c \in Controls(Test) \/ AsLeft(live', power', left', c, cur'[c], "suspended")
    <3>1. /\ cur[c] \in Selected(prog) /\ c \in Ctrl(prog, cur[c])
          /\ Busy(c) \/ AsLeft(live, power, left, c, cur[c], "suspended")
      BY <2>1, <2>5 DEF LiveInv, Visiting, Running, As
    <3>2. ASSUME c \notin Controls(Test)
          PROVE  AsLeft(live', power', left', c, cur'[c], "suspended")
      <4>1. ~Busy(c) /\ cur[c] # Test /\ cur[c] \in Names
        BY <1>0, <2>1, <2>2, <3>1, <3>2 DEF Busy
      <4>2. left'[cur[c]] = left[cur[c]] /\ live'[c] = live[c] /\ power'[c] = power[c]
        BY <2>1, <2>3, <3>2, <4>1 DEF MachinesOf
      <4> QED
        BY <2>1, <3>1, <4>1, <4>2 DEF AsLeft
    <3> QED
      BY <2>1, <3>1, <3>2
  <2> QED
    BY <1>7, <2>1, <2>4, <2>5
<1>24. CASE CommandsFail
  <2>1. /\ pc = "commands" /\ pc' = "next" /\ Stopped(Test) /\ (Test \in Failing \/ Holds(Test))
        /\ UNCHANGED <<prog, left>>
        /\ \A c \in Controllers \ Controls(Test) : live'[c] = live[c]
    BY <1>24 DEF CommandsFail, HoldRefused, launch, ghosts
  <2>2. Controls(Test) \subseteq Machines
    <3>1. Test \in Selected(prog) /\ Controls(Test) = Ctrl(prog, Test)
      BY <1>1, <2>1 DEF Running
    <3>2. Test \in Failing \/ <<Test, prog.body[Test]>> \in Holders => Ctrl(prog, Test) \subseteq Machines
      BY <1>0, <3>1 DEF FailuresOnMachines
    <3> QED
      BY <2>1, <3>1, <3>2 DEF Holds
  <2>3. ASSUME NEW c \in Controllers, cur'[c] # ""
        PROVE  Known(prog', live', power', left', cur', c)
    <3>1. c \notin Controls(Test) /\ cur'[c] = cur[c] /\ power'[c] = power[c] /\ live'[c] = live[c]
      BY <2>1, <2>2, <2>3 DEF Stopped
    <3>2. ~Busy(c)
      BY <2>1, <3>1 DEF Busy
    <3>3. Known(prog, live, power, left, cur, c)
      BY <2>1, <3>2 DEF LiveInv, Known, As, Visiting, Running
    <3> QED
      BY <2>1, <3>1, <3>3 DEF Known, AsLeft
  <2>4. \A c \in Controllers : Known(prog', live', power', left', cur', c)
    BY <2>3 DEF Known
  <2> QED
    BY <1>5, <2>1, <2>4
<1>25. CASE TemporariesDropped
  <2>1. /\ pc = "drop" /\ pc' = "snapshot" /\ pending' = Controls(Test)
        /\ UNCHANGED <<prog, plan, idx, live, power, left, cur>>
    BY <1>25 DEF TemporariesDropped, known, world, launch, ghosts
  <2>2. \A c \in Controllers : cur[c] \notin {"", Initial} =>
            /\ cur[c] \in Selected(prog) /\ c \in Ctrl(prog, cur[c])
            /\ c \in Controls(Test) \/ AsLeft(live, power, left, c, cur[c], "suspended")
    BY <2>1 DEF LiveInv, As, Busy, Visiting, Running
  <2>3. \A c \in Controls(Test) : AsLeft(live, power, left, c, Test, "suspended")
    BY <2>1 DEF LiveInv, As
  <2> QED
    BY <1>7, <2>1, <2>2, <2>3
<1>26. ASSUME NEW d \in Controllers, TakeSnapshot(d)
       PROVE  LiveInv'
  <2>1. /\ pc = "snapshot" /\ pc' = "snapshot" /\ UNCHANGED <<prog, plan, idx, live, power, left>>
        /\ d \in pending /\ pending' = pending \ {d} /\ cur' = [cur EXCEPT ![d] = Test]
    BY <1>26 DEF TakeSnapshot, world, launch, ghosts
  <2>2. \A c \in Controls(Test) : AsLeft(live, power, left, c, Test, "suspended")
    BY <2>1 DEF LiveInv, As
  <2>3. d \in Controls(Test) /\ Test \in Selected(prog) /\ Controls(Test) = Ctrl(prog, Test)
    BY <1>0, <1>1, <2>1 DEF RunInv, Running
  <2>4. ASSUME NEW c \in Controllers, cur'[c] \notin {"", Initial}
        PROVE  /\ cur'[c] \in Selected(prog) /\ c \in Ctrl(prog, cur'[c])
               /\ c \in pending' \/ AsLeft(live', power', left', c, cur'[c], "suspended")
    <3>1. CASE c = d
      <4>1. cur'[c] = Test
        BY <1>0, <2>1, <3>1
      <4> QED
        BY <2>1, <2>2, <2>3, <3>1, <4>1
    <3>2. CASE c # d
      <4>1. cur'[c] = cur[c] /\ (c \in pending' <=> c \in pending)
        BY <1>0, <2>1, <3>2
      <4>2. /\ cur[c] \in Selected(prog) /\ c \in Ctrl(prog, cur[c])
            /\ c \in pending \/ AsLeft(live, power, left, c, cur[c], "suspended")
        BY <2>1, <2>4, <4>1 DEF LiveInv, As, Busy, Visiting, Running
      <4> QED
        BY <2>1, <4>1, <4>2
    <3> QED
      BY <3>1, <3>2
  <2> QED
    BY <1>7, <2>1, <2>2, <2>4
<1>27. CASE Passed
  <2>1. /\ pc = "snapshot" /\ pc' = "next" /\ pending = {} /\ UNCHANGED <<prog, live, left>>
        /\ Stopped(Test) \/ UNCHANGED <<power, cur>>
    BY <1>27 DEF Passed, launch, ghosts
  <2>2. ASSUME NEW c \in Controllers
        PROVE  Known(prog, live, power, left, cur, c)
    BY <2>1 DEF LiveInv, Known, As, Busy, Visiting, Running
  <2>3. ASSUME NEW c \in Controllers
        PROVE  \/ cur'[c] = ""
               \/ cur'[c] = cur[c] /\ (c \in Machines => power'[c] = power[c])
    BY <2>1 DEF Stopped
  <2>4. \A c \in Controllers : Known(prog', live', power', left', cur', c)
    BY <2>1, <2>2, <2>3 DEF Known, AsLeft
  <2> QED
    BY <1>5, <2>1, <2>4
<1>28. CASE Finish
  <2>1. pc' = "finished"
    BY <1>28 DEF Finish
  <2> QED
    BY <1>4, <2>1 DEF Visiting, Running
<1>29. Decline \/ RestoreThrows \/ SnapshotThrows \/ Exit \/ Kill => Ended
  BY DEF Decline, RestoreThrows, SnapshotThrows, Exit, Kill
<1> QED
  BY <1>8, <1>9, <1>10, <1>11, <1>12, <1>13, <1>14, <1>15, <1>16, <1>17, <1>20, <1>21, <1>22, <1>23,
     <1>24, <1>25, <1>26, <1>27, <1>28, <1>29 DEF Next, Prepare, Visit

\* With all controllers known to be in the states of the parents, the environment of a
\* run is the one its parents left.
LEMMA RightWhenKnown ==
    ASSUME UsualProjects, LaunchInv, LiveInv
    PROVE  EnvironmentIsRight
<1> SUFFICES ASSUME pc = "commands"
             PROVE  EnvironmentIsRight
  BY DEF EnvironmentIsRight
<1>0. /\ StateInv /\ PlanInv /\ RunInv /\ Version(prog)
      /\ \A t \in Selected(prog) : Controls(t) = Ctrl(prog, t)
  BY ProgramFacts DEF LaunchInv
<1>1. /\ Test \in Selected(prog) /\ Controls(Test) = Ctrl(prog, Test)
      /\ Inherited(Test) \subseteq Controls(Test) /\ ParentSet(prog, Test) \subseteq Selected(prog)
  BY <1>0, PresentRun DEF PlanInv, Running
<1>2. ASSUME NEW q \in ParentSet(prog, Test), NEW c \in Controls(q)
      PROVE  /\ live[c] = left[q][c].content
             /\ c \in Machines => power[c] = IF left[q][c].on THEN "running" ELSE "stopped"
  <2>1. c \in Inherited(Test)
    BY <1>2 DEF Inherited
  <2>2. OnParent(prog, c, Test, cur[c])
    BY <1>0, <1>1, <2>1 DEF RunInv, Ready
  <2>3. cur[c] = q
    BY <1>0, <1>1, <1>2, <2>2, OneParent DEF OnParent
  <2>4. As(c, q, "running")
    BY <2>1, <2>3 DEF LiveInv
  <2> QED
    BY <2>4 DEF As, AsLeft
<1>3. \A c \in Controls(Test) \ Inherited(Test) : live[c] = Fresh
  BY DEF LiveInv
<1> QED
  BY <1>2, <1>3 DEF EnvironmentIsRight

\* Commands start on controllers that are as the last passed runs of the parents left
\* them, or as good as new, whatever was edited, failed or killed before.
THEOREM EnvironmentRight ==
    ASSUME UsualProjects, WholeTests, TemporaryOnOne, FailuresOnMachines
    PROVE  Spec => []EnvironmentIsRight
<1> DEFINE RightInv == VersionedInv /\ CurrentInv /\ ImageInv /\ BareInv /\ LiveInv
<1>0. EditsAreWhole
  BY WholeEdits
<1>1. Init => RightInv
  <2> SUFFICES ASSUME Init PROVE RightInv
    OBVIOUS
  <2>1. /\ pc = "idle" /\ snaps = [c \in Controllers |-> <<>>]
        /\ cur = [c \in Controllers |-> ""] /\ live = [c \in Controllers |-> Fresh]
        /\ left = [t \in Names |-> <<>>]
    BY DEF Init
  <2>2. DOMAIN <<>> = {}
    OBVIOUS
  <2>3. VersionedInv /\ ImageInv
    BY <2>1, <2>2 DEF VersionedInv, ImageInv
  <2>4. CurrentInv /\ BareInv /\ LiveInv
    BY <2>1 DEF CurrentInv, BareInv, LiveInv, Visiting, Running
  <2> QED
    BY <2>3, <2>4
<1>2. LaunchInv /\ RightInv /\ [Next]_vars => RightInv'
  <2> SUFFICES ASSUME LaunchInv, VersionedInv, CurrentInv, ImageInv, BareInv, LiveInv, [Next]_vars
               PROVE  VersionedInv' /\ CurrentInv' /\ ImageInv' /\ BareInv' /\ LiveInv'
    OBVIOUS
  <2>1. CASE Next
    BY <1>0, <2>1, VersionedStep, CurrentStep, ImageStep, BareStep, LiveStep
  <2>2. CASE UNCHANGED vars
    <3>1. VersionedInv' /\ CurrentInv' /\ ImageInv'
      BY <2>2 DEF vars, VersionedInv, CurrentInv, ImageInv, Matches
    <3>2. BareInv'
      BY <2>2 DEF vars, BareInv, has_hypervisor_snapshot, has_snapshot
    <3>3. Test' = Test /\ Controls(Test)' = Controls(Test) /\ Inherited(Test)' = Inherited(Test)
      BY <2>2 DEF vars, Test, Run, Controls, Inherited
    <3>4. /\ \A c, q, x : As(c, q, x)' <=> AsLeft(live, power, left, c, q, x)
          /\ \A c : Busy(c)' <=> Busy(c)
      BY <2>2, <3>3 DEF vars, As, Busy
    <3>5. UNCHANGED <<prog, pc, cur, live, power, left, pending>>
      BY <2>2 DEF vars
    <3>6. LiveInv'
      BY <3>3, <3>4, <3>5 DEF LiveInv, As, Busy
    <3> QED
      BY <3>1, <3>2, <3>6
  <2> QED
    BY <2>1, <2>2
<1>3. LaunchInv /\ RightInv => EnvironmentIsRight
  BY RightWhenKnown
<1> QED
  BY <1>1, <1>2, <1>3, LaunchInvariant, PTL DEF Spec



----------------------------------------------------------------------------
(* No machine is left on                                                   *)

\* No test waits for one that is not its parent: a test is skipped because of a parent,
\* whose machines are then off, and not with its parents' machines left on for it.
NoDependencies ==
    \A x \in DOMAIN Projects : \A p \in Versions(x) : \A t \in Selected(p) : ToSet(p.depends[t]) = {}

\* Test t may not come to pass: it may fail, or one above it.
MayStop(p, t) == \E a \in Ancestors(p, t) : a \in Failing \/ <<a, p.body[a]>> \in Holders

\* A test that may be skipped because of a parent uses no other controller than that
\* parent: a machine of its own could have been left on by an earlier launch.
SkippedAreWhole ==
    \A x \in DOMAIN Projects : \A p \in Versions(x) : \A t \in Selected(p) :
        \A q \in ParentSet(p, t) : MayStop(p, q) => Ctrl(p, q) = Ctrl(p, t)

\* The parents of a run are the last runs of their tests before it.
LinkInv ==
    pc \in Visiting =>
        \A j \in 1 .. Len(plan.runs) : \A i \in plan.runs[j].parents :
            \E q \in ParentSet(prog, plan.runs[j].test) : LastRun(prog, plan, q, i, j - 1)

\* Run j will not be skipped.
Secure(j) ==
    \A i \in plan.runs[j].parents : status[i] = "passed" \/ ~MayStop(prog, plan.runs[i].test)

\* A run that uses controller c is still to come, or under way.
Awaited(c) ==
    \E j \in 1 .. Len(plan.runs) : j >= idx /\ c \in Ctrl(prog, plan.runs[j].test) /\ Secure(j)

\* The machines of the runs so far are off, or on for a run that will use them.
PowerInv ==
    /\ pc \in Visiting =>
        \A i \in 1 .. Len(plan.runs) : i < idx =>
            /\ status[i] = "passed" \/ MayStop(prog, plan.runs[i].test)
            /\ \A c \in Ctrl(prog, plan.runs[i].test) : power[c] = "stopped" \/ Awaited(c)
    /\ pc = "skip" => \E i \in Run.parents : status[i] # "passed"
    /\ pc \in Running => \A i \in Run.parents : status[i] = "passed"

\* The plan links each run to the last runs of the parents.
LEMMA LinkStep ==
    ASSUME UsualProjects, LaunchInv, LinkInv, Next
    PROVE  LinkInv'
<1> SUFFICES ASSUME pc' \in Visiting
             PROVE  LinkInv'
  BY DEF LinkInv
<1>0. StateInv /\ PlanInv /\ Version(prog) /\ ok \in SUBSET Selected(prog) /\ Upward(prog, ok)
  BY ProgramFacts DEF LaunchInv, StateInv
<1>1. CASE BuildPlan
  <2> DEFINE H == {t \in ok : HasHypervisorSnapshots(t)}
             b == build_test_plan(prog, ok, H)
  <2>1. Built(prog, ok, H, b)
    BY <1>0, PlanIsBuilt DEF Version
  <2>2. plan' = b /\ prog' = prog /\ pc' = IF b.stuck THEN "stuck" ELSE "next"
    BY <1>1 DEF BuildPlan, launch
  <2> HIDE DEF b
  <2>3. CASE b = StuckPlan(prog, TRUE)
    <3>1. pc' = "stuck"
      BY <2>2, <2>3 DEF StuckPlan
    <3> QED
      BY <3>1 DEF Visiting, Running
  <2>4. CASE b \in GoodPlans(prog, ok, H)
    <3>1. LinksBack(prog, b)
      BY <2>4 DEF GoodPlans, WellPlanned
    <3>2. \A j \in 1 .. Len(b.runs) : \A i \in b.runs[j].parents :
              \E q \in ParentSet(prog, b.runs[j].test) : LastRun(prog, b, q, i, j - 1)
      BY <3>1 DEF LinksBack
    <3> QED
      BY <2>2, <3>2 DEF LinkInv
  <2> QED
    BY <2>1, <2>3, <2>4 DEF Built
<1>2. ASSUME pc \in Visiting, prog' = prog, plan'.runs = plan.runs
      PROVE  LinkInv'
  BY <1>2 DEF LinkInv, LastRun
<1>3. CASE NextRun
  <2>1. plan' = [plan EXCEPT !.refs = RemainingRefs] /\ prog' = prog /\ pc = "next"
    BY <1>3 DEF NextRun, launch
  <2>2. plan' = [stuck |-> plan.stuck, runs |-> plan.runs, refs |-> RemainingRefs]
    BY <1>0, <2>1 DEF PlanInv
  <2> QED
    BY <1>2, <2>1, <2>2 DEF Visiting
<1>4. CASE Skipped \/ CommandsFail \/ Passed
  BY <1>2, <1>4 DEF Skipped, CommandsFail, Passed, launch, Visiting, Running
<1>5. CASE UNCHANGED <<prog, plan>> /\ pc \in Visiting
  BY <1>2, <1>5
<1> QED
  BY <1>1, <1>3, <1>4, <1>5, VisitSteps

\* The steps of a run turn on and off its own machines only.
LEMMA PowerSteps ==
    ASSUME UsualProjects, LaunchInv, Next, pc \in Visiting, pc' \in Visiting
    PROVE  /\ \A c \in Controllers :
                 power'[c] = power[c] \/ (pc \in Running /\ c \in Controls(Test))
           /\ pc' = "skip" => NextRun \/ pc = "skip"
<1> DEFINE Right == /\ \A c \in Controllers :
                          power'[c] = power[c] \/ (pc \in Running /\ c \in Controls(Test))
                    /\ pc' = "skip" => NextRun \/ pc = "skip"
<1>0. /\ StateInv /\ PlanInv /\ RunInv
      /\ power \in [Controllers -> {"stopped", "running", "suspended"}]
      /\ \A t \in Selected(prog) : Controls(t) = Ctrl(prog, t)
  BY ProgramFacts DEF LaunchInv, StateInv
<1>1. pc \in Running => /\ Inherited(Test) \subseteq Controls(Test)
                        /\ Controls(Test) \subseteq Controllers
  BY <1>0, PresentRun DEF PlanInv
<1>2. /\ \A names \in Invalidated : ~Begin(names)
      /\ \A kept \in Uncleaned : ~Clean(kept)
      /\ \A c \in Controllers : ~DeleteSnapshots(c)
      /\ ~Decline /\ ~CheckCache /\ ~BuildPlan /\ ~Exit
  BY DEF Begin, Clean, DeleteSnapshots, Decline, CheckCache, BuildPlan, Exit, Visiting, Running
<1>3. ~RestoreThrows /\ ~SnapshotThrows /\ ~Finish /\ ~Kill
  BY DEF RestoreThrows, SnapshotThrows, Finish, Kill, Ended, Visiting, Running
<1>4. CASE NextRun
  BY <1>4 DEF NextRun, world
<1>5. CASE Skipped \/ ParentsRestored \/ NetworksCreated \/ TemporariesDropped
  BY <1>5 DEF Skipped, ParentsRestored, NetworksCreated, TemporariesDropped, world
<1>6. ASSUME NEW q \in Names, NEW c \in Controllers, DropTemporary(q, c)
      PROVE  Right
  BY <1>6 DEF DropTemporary, world
<1>7. ASSUME NEW n \in Networks, CreateNetwork(n)
      PROVE  Right
  BY <1>7 DEF CreateNetwork, world
<1>8. ASSUME NEW c \in Controllers, TakeSnapshot(c)
      PROVE  Right
  BY <1>8 DEF TakeSnapshot, world
<1>9. ASSUME NEW q \in Names, NEW d \in Controllers, RestoreParent(q, d)
      PROVE  Right
  <2>1. pc = "restore" /\ pc' = pc /\ <<q, d>> \in ToRestore /\ Restored(d, q)
    BY <1>9 DEF RestoreParent
  <2>2. d \in Controls(Test)
    BY <1>1, <2>1 DEF ToRestore, Inherited, Running
  <2>3. \A c \in Controllers \ {d} : power'[c] = power[c]
    BY <1>0, <2>1 DEF Restored
  <2> QED
    BY <2>1, <2>2, <2>3 DEF Running
<1>10. ASSUME NEW d \in Controllers, InstallController(d)
       PROVE  Right
  <2>1. pc = "install" /\ pc' = pc /\ d \in pending
    BY <1>10 DEF InstallController
  <2>2. d \in Controls(Test)
    BY <1>0, <2>1 DEF RunInv
  <2>3. \A c \in Controllers \ {d} : power'[c] = power[c]
    BY <1>0, <1>10 DEF InstallController, Restored
  <2> QED
    BY <2>1, <2>2, <2>3 DEF Running
<1>11. CASE ResumeParents
  <2>1. /\ pc = "install" /\ pc' = "commands"
        /\ \A c \in Controllers \ Inherited(Test) : power'[c] = power[c]
    BY <1>11 DEF ResumeParents
  <2> QED
    BY <1>1, <2>1 DEF Running
<1>12. ASSUME NEW on \in BOOLEAN, CommandsPass(on)
       PROVE  Right
  <2>1. /\ pc = "commands" /\ pc' = "drop"
        /\ \A c \in Controllers \ MachinesOf(Test) : power'[c] = power[c]
    BY <1>12 DEF CommandsPass
  <2> QED
    BY <2>1 DEF Running, MachinesOf
<1>13. ASSUME Stopped(Test)
       PROVE  \A c \in Controllers \ Controls(Test) : power'[c] = power[c]
  BY <1>13 DEF Stopped
<1>14. CASE CommandsFail
  <2>1. pc = "commands" /\ pc' = "next" /\ Stopped(Test)
    BY <1>14 DEF CommandsFail
  <2> QED
    BY <1>13, <2>1 DEF Running
<1>15. CASE Passed
  <2>1. pc = "snapshot" /\ pc' = "next" /\ (Stopped(Test) \/ power' = power)
    BY <1>15 DEF Passed
  <2> QED
    BY <1>13, <2>1 DEF Running
<1> QED
  BY <1>2, <1>3, <1>4, <1>5, <1>6, <1>7, <1>8, <1>9, <1>10, <1>11, <1>12, <1>14, <1>15
     DEF Next, Prepare, Visit

\* Each step keeps track of what is on, and for which run.
LEMMA PowerStep ==
    ASSUME UsualProjects, NoDependencies, SkippedAreWhole, LaunchInv, LinkInv, PowerInv, Next
    PROVE  PowerInv'
<1> SUFFICES ASSUME pc' \in Visiting
             PROVE  PowerInv'
  BY DEF PowerInv, Visiting
<1>0. /\ StateInv /\ PlanInv /\ Version(prog) /\ Ordered(prog) /\ Len(plan.runs) \in Nat /\ idx \in Nat
      /\ project \in DOMAIN Projects /\ prog \in Versions(project)
      /\ \A t \in Selected(prog) : Controls(t) = Ctrl(prog, t) /\ Ctrl(prog, t) \subseteq Controllers
      /\ \A j \in 1 .. Len(plan.runs) :
            plan.runs[j].test \in Selected(prog) /\ plan.runs[j].parents \subseteq 1 .. j - 1
      /\ status \in [1 .. Len(plan.runs) -> {"unknown", "passed", "failed", "skipped"}]
      /\ \A i \in 1 .. Len(plan.runs) : status[i] = "unknown" <=> i >= idx
  BY ProgramFacts, RunFacts DEF LaunchInv, PlanInv
<1>1. ASSUME pc \in {"skip"} \cup Running
      PROVE  /\ idx \in 1 .. Len(plan.runs) /\ Test = plan.runs[idx].test /\ Run = plan.runs[idx]
             /\ Test \in Selected(prog) /\ Controls(Test) = Ctrl(prog, Test)
  BY <1>0, <1>1, PresentRun DEF PlanInv
\* A parent that may stop makes its child one that may, with the same controllers.
<1>2. ASSUME pc \in Visiting, NEW j \in 1 .. Len(plan.runs), NEW i \in plan.runs[j].parents
      PROVE  /\ plan.runs[i].test \in ParentSet(prog, plan.runs[j].test)
             /\ LastRun(prog, plan, plan.runs[i].test, i, j - 1)
             /\ MayStop(prog, plan.runs[i].test) =>
                    /\ MayStop(prog, plan.runs[j].test)
                    /\ Ctrl(prog, plan.runs[i].test) = Ctrl(prog, plan.runs[j].test)
  <2> DEFINE t == plan.runs[j].test
  <2>1. PICK q \in ParentSet(prog, t) : LastRun(prog, plan, q, i, j - 1)
    BY <1>2 DEF LinkInv
  <2>2. q = plan.runs[i].test
    BY <2>1 DEF LastRun
  <2>3. t \in Selected(prog)
    BY <1>0
  <2> HIDE DEF t
  <2>4. q \in Ancestors(prog, t)
    BY <1>0, <2>1, <2>3, AncestorFacts
  <2>5. Ancestors(prog, q) \subseteq Ancestors(prog, t)
    BY <1>0, <2>3, <2>4, AncestorsStep
  <2>6. MayStop(prog, q) => MayStop(prog, t)
    BY <2>5 DEF MayStop
  <2>7. MayStop(prog, q) => Ctrl(prog, q) = Ctrl(prog, t)
    BY <1>0, <2>1, <2>3 DEF SkippedAreWhole
  <2> QED
    BY <2>1, <2>2, <2>6, <2>7 DEF t
\* Steps within a run.
<1>3. ASSUME pc \in Visiting, UNCHANGED <<prog, idx, status>>, plan'.runs = plan.runs
      PROVE  /\ Run' = Run
             /\ \A c : Awaited(c) => Awaited(c)'
  BY <1>3 DEF Run, Awaited, Secure
<1>4. ASSUME pc \in Visiting, UNCHANGED <<prog, idx, status>>, plan'.runs = plan.runs,
             NEW i \in 1 .. Len(plan.runs), i < idx
      PROVE  /\ status[i] = "passed" \/ MayStop(prog, plan.runs[i].test)
             /\ \A c \in Ctrl(prog, plan.runs[i].test) : power'[c] = "stopped" \/ Awaited(c)'
  <2>1. status[i] = "passed" \/ MayStop(prog, plan.runs[i].test)
    BY <1>4 DEF PowerInv
  <2>2. ASSUME NEW c \in Ctrl(prog, plan.runs[i].test)
        PROVE  power'[c] = "stopped" \/ Awaited(c)'
    <3>1. c \in Controllers
      BY <1>0
    <3>2. CASE power'[c] = power[c]
      BY <1>3, <1>4, <3>2 DEF PowerInv
    <3>3. CASE pc \in Running /\ c \in Controls(Test)
      <4>1. Secure(idx)
        BY <1>1, <3>3 DEF PowerInv, Secure
      <4>2. Awaited(c)
        BY <1>0, <1>1, <3>3, <4>1 DEF Awaited
      <4> QED
        BY <1>3, <1>4, <4>2
    <3> QED
      BY <1>4, <3>1, <3>2, <3>3, PowerSteps
  <2> QED
    BY <2>1, <2>2
<1>5. CASE BuildPlan
  <2>1. pc' = "next" /\ idx' = 1
    BY <1>0, <1>5, BuiltPlan DEF BuildPlan, Visiting, Running
  <2> QED
    BY <2>1 DEF PowerInv, Running
<1>6. CASE NextRun
  <2>1. /\ plan' = [plan EXCEPT !.refs = RemainingRefs] /\ UNCHANGED <<prog, idx, status>>
        /\ pc = "next" /\ idx <= Len(plan.runs) /\ pc' = IF SkipTest THEN "skip" ELSE "restore"
    BY <1>6 DEF NextRun, launch
  <2>2. plan'.runs = plan.runs /\ pc \in Visiting
    BY <1>0, <2>1 DEF PlanInv, Visiting
  <2>3. Test \in Selected(prog)
    BY <1>0, <2>1, PresentRun
  <2>4. ToSet(prog.depends[Test]) = {}
    BY <1>0, <2>3 DEF NoDependencies
  <2>5. SkipTest <=> \E i \in Run.parents : status[i] # "passed"
    BY <2>4 DEF SkipTest
  <2>6. Run' = Run
    BY <1>3, <2>1, <2>2
  <2>7. /\ pc' = "skip" => \E i \in Run'.parents : status'[i] # "passed"
        /\ pc' \in Running => \A i \in Run'.parents : status'[i] = "passed"
    BY <2>1, <2>5, <2>6 DEF Running
  <2>8. \A i \in 1 .. Len(plan'.runs) : i < idx' =>
            /\ status'[i] = "passed" \/ MayStop(prog', plan'.runs[i].test)
            /\ \A c \in Ctrl(prog', plan'.runs[i].test) : power'[c] = "stopped" \/ Awaited(c)'
    BY <1>4, <2>1, <2>2
  <2> QED
    BY <2>7, <2>8 DEF PowerInv
<1>7. ASSUME UNCHANGED <<prog, plan, idx, status>>, pc \in Visiting, pc' # "next", ~NextRun,
             pc' \in Running => pc \in Running
      PROVE  PowerInv'
  <2>1. Run' = Run
    BY <1>3, <1>7
  <2>2. pc' = "skip" => pc = "skip"
    BY <1>7, PowerSteps
  <2>3. /\ pc' = "skip" => \E i \in Run'.parents : status'[i] # "passed"
        /\ pc' \in Running => \A i \in Run'.parents : status'[i] = "passed"
    BY <1>7, <2>1, <2>2 DEF PowerInv
  <2>4. \A i \in 1 .. Len(plan'.runs) : i < idx' =>
            /\ status'[i] = "passed" \/ MayStop(prog', plan'.runs[i].test)
            /\ \A c \in Ctrl(prog', plan'.runs[i].test) : power'[c] = "stopped" \/ Awaited(c)'
    BY <1>4, <1>7
  <2> QED
    BY <2>3, <2>4 DEF PowerInv
\* The end of a run.
<1>8. ASSUME pc \in {"skip"} \cup Running, UNCHANGED <<prog, plan>>, idx' = idx + 1, pc' = "next",
             NEW v \in {"passed", "failed", "skipped"}, status' = [status EXCEPT ![idx] = v],
             v = "passed" \/ MayStop(prog, Test),
             \A c \in Ctrl(prog, Test) : power'[c] = "stopped" \/ Awaited(c)',
             \A c \in Controllers \ Ctrl(prog, Test) : power'[c] = power[c],
             v = "skipped" => power' = power /\ ~Secure(idx)
      PROVE  PowerInv'
  <2>1. ASSUME NEW j \in 1 .. Len(plan.runs), Secure(j)
        PROVE  Secure(j)'
    <3> SUFFICES ASSUME NEW i \in plan.runs[j].parents, status[i] = "passed"
                 PROVE  status'[i] = "passed"
      BY <1>8, <2>1 DEF Secure
    <3>1. i # idx
      BY <1>0, <1>1, <1>8
    <3> QED
      BY <1>0, <1>8, <3>1
  <2>2. ASSUME NEW c, Awaited(c), c \notin Ctrl(prog, Test) \/ ~Secure(idx)
        PROVE  Awaited(c)'
    <3>1. PICK j \in 1 .. Len(plan.runs) : j >= idx /\ c \in Ctrl(prog, plan.runs[j].test) /\ Secure(j)
      BY <2>2 DEF Awaited
    <3>2. j # idx
      BY <1>1, <1>8, <2>2, <3>1
    <3>3. j >= idx + 1
      BY <1>0, <3>1, <3>2
    <3> QED
      BY <1>8, <2>1, <3>1, <3>3 DEF Awaited
  <2>3. ASSUME NEW i \in 1 .. Len(plan.runs), i < idx + 1
        PROVE  /\ status'[i] = "passed" \/ MayStop(prog, plan.runs[i].test)
               /\ \A c \in Ctrl(prog, plan.runs[i].test) : power'[c] = "stopped" \/ Awaited(c)'
    <3>1. CASE i = idx
      BY <1>0, <1>1, <1>8, <3>1
    <3>2. CASE i # idx
      <4>1. i < idx /\ status'[i] = status[i] /\ pc \in Visiting
        BY <1>0, <1>8, <2>3, <3>2 DEF Visiting
      <4>2. status'[i] = "passed" \/ MayStop(prog, plan.runs[i].test)
        BY <4>1 DEF PowerInv
      <4>3. ASSUME NEW c \in Ctrl(prog, plan.runs[i].test)
            PROVE  power'[c] = "stopped" \/ Awaited(c)'
        <5>1. c \in Controllers /\ (power[c] = "stopped" \/ Awaited(c))
          BY <1>0, <4>1 DEF PowerInv
        <5>2. CASE c \in Ctrl(prog, Test)
          BY <1>8, <5>2
        <5>3. CASE c \notin Ctrl(prog, Test)
          BY <1>8, <2>2, <5>1, <5>3
        <5> QED
          BY <5>2, <5>3
      <4> QED
        BY <4>2, <4>3
    <3> QED
      BY <3>1, <3>2
  <2> QED
    BY <1>8, <2>3 DEF PowerInv, Running
<1>9. CASE Skipped
  <2>1. /\ pc = "skip" /\ UNCHANGED <<prog, plan, power>> /\ idx' = idx + 1 /\ pc' = "next"
        /\ status' = [status EXCEPT ![idx] = "skipped"]
    BY <1>9 DEF Skipped, launch, world
  <2>2. PICK k \in plan.runs[idx].parents : status[k] # "passed"
    BY <1>1, <2>1 DEF PowerInv
  <2>3. pc \in Visiting /\ idx \in 1 .. Len(plan.runs) /\ Test = plan.runs[idx].test
    BY <1>1, <2>1 DEF Visiting
  <2>4. k \in 1 .. Len(plan.runs) /\ k < idx
    BY <1>0, <2>2, <2>3
  <2>5. MayStop(prog, plan.runs[k].test)
    BY <2>2, <2>3, <2>4 DEF PowerInv
  <2>6. MayStop(prog, Test) /\ Ctrl(prog, plan.runs[k].test) = Ctrl(prog, Test)
    BY <1>2, <2>2, <2>3, <2>5
  <2>7. ~Secure(idx)
    BY <2>2, <2>5 DEF Secure
  <2>8. ASSUME NEW c \in Ctrl(prog, Test), Awaited(c)
        PROVE  Awaited(c)'
    <3>1. PICK j \in 1 .. Len(plan.runs) : j >= idx /\ c \in Ctrl(prog, plan.runs[j].test) /\ Secure(j)
      BY <2>8 DEF Awaited
    <3>2. j >= idx + 1
      BY <1>0, <2>7, <3>1
    <3>3. ASSUME NEW i \in plan.runs[j].parents, status[i] = "passed"
          PROVE  status'[i] = "passed"
      <4>1. i # idx
        BY <1>0, <2>3, <3>3
      <4> QED
        BY <1>0, <2>1, <3>3, <4>1
    <3>4. Secure(j)'
      BY <2>1, <3>1, <3>3 DEF Secure
    <3> QED
      BY <2>1, <3>1, <3>2, <3>4 DEF Awaited
  <2>9. \A c \in Ctrl(prog, Test) : power[c] = "stopped" \/ Awaited(c)
    BY <2>3, <2>4, <2>6 DEF PowerInv
  <2>10. \A c \in Ctrl(prog, Test) : power'[c] = "stopped" \/ Awaited(c)'
    BY <2>1, <2>8, <2>9
  <2> QED
    BY <1>8, <2>1, <2>6, <2>7, <2>10
<1>10. ASSUME Stopped(Test), pc \in Running
       PROVE  /\ \A c \in Ctrl(prog, Test) : power'[c] = "stopped"
              /\ \A c \in Controllers \ Ctrl(prog, Test) : power'[c] = power[c]
  BY <1>0, <1>1, <1>10 DEF Stopped
<1>11. CASE CommandsFail
  <2>1. /\ pc = "commands" /\ UNCHANGED <<prog, plan>> /\ idx' = idx + 1 /\ pc' = "next"
        /\ status' = [status EXCEPT ![idx] = "failed"] /\ Stopped(Test)
        /\ Test \in Failing \/ Holds(Test)
    BY <1>11 DEF CommandsFail, HoldRefused, launch
  <2>2. Test \in Ancestors(prog, Test)
    BY <1>0, <1>1, <2>1, AncestorFacts DEF Running
  <2>3. MayStop(prog, Test)
    BY <2>1, <2>2 DEF MayStop, Holds
  <2> QED
    BY <1>8, <1>10, <2>1, <2>3 DEF Running
<1>12. CASE Passed
  <2>1. /\ pc = "snapshot" /\ UNCHANGED <<prog, plan>> /\ idx' = idx + 1 /\ pc' = "next"
        /\ status' = [status EXCEPT ![idx] = "passed"]
        /\ (Followed /\ power' = power) \/ Stopped(Test)
    BY <1>12 DEF Passed, launch
  <2>2. CASE Stopped(Test)
    BY <1>8, <1>10, <2>1, <2>2 DEF Running
  <2>3. CASE Followed /\ power' = power
    <3>1. /\ idx \in 1 .. Len(plan.runs) /\ Test = plan.runs[idx].test /\ Test \in Selected(prog)
          /\ pc \in Visiting
      BY <1>1, <2>1 DEF Visiting, Running
    <3>2. PICK j \in idx .. Len(plan.runs) : idx \in plan.runs[j].parents
      BY <2>3 DEF Followed
    <3>3. j \in 1 .. Len(plan.runs) /\ j >= idx + 1
      BY <1>0, <3>1, <3>2
    <3> DEFINE t == plan.runs[j].test
    <3>4. t \in Selected(prog) /\ Test \in ParentSet(prog, t) /\ LastRun(prog, plan, Test, idx, j - 1)
      BY <1>0, <1>2, <3>1, <3>2, <3>3
    <3>5. Ctrl(prog, Test) \subseteq Ctrl(prog, t) /\ Ctrl(prog, Test) # {}
      <4>1. Test \in Ancestors(prog, t)
        BY <1>0, <3>4, AncestorFacts
      <4>2. Ctrl(prog, Test) \subseteq Ctrl(prog, t)
        BY <1>0, <3>4, <4>1, AncestorsControllers DEF Ctrl
      <4> QED
        BY <1>0, <3>1, <4>2 DEF Version
    <3>6. ASSUME NEW i \in plan.runs[j].parents, MayStop(prog, plan.runs[i].test)
          PROVE  status'[i] = "passed"
      <4> DEFINE q == plan.runs[i].test
      <4>1. q \in ParentSet(prog, t) /\ LastRun(prog, plan, q, i, j - 1) /\ Ctrl(prog, q) = Ctrl(prog, t)
        BY <1>2, <3>1, <3>3, <3>6
      <4>2. PICK c \in Ctrl(prog, Test) : c \in Ctrl(prog, q)
        BY <3>5, <4>1
      <4>3. q = Test
        <5> HIDE DEF q, t
        <5> QED
          BY <1>0, <3>4, <4>1, <4>2, OneParent
      <4>4. i = idx
        BY <1>0, <3>1, <3>3, <3>4, <4>1, <4>3 DEF LastRun
      <4> QED
        BY <1>0, <2>1, <3>1, <4>4
    <3>7. Secure(j)'
      BY <2>1, <3>6 DEF Secure
    <3>8. \A c \in Ctrl(prog, Test) : Awaited(c)'
      BY <2>1, <3>3, <3>5, <3>7 DEF Awaited
    <3> QED
      BY <1>8, <2>1, <2>3, <3>8 DEF Running
  <2> QED
    BY <2>1, <2>2, <2>3
<1> QED
  BY <1>5, <1>6, <1>7, <1>9, <1>11, <1>12, VisitSteps

\* A launch that comes to its end has turned off every machine it used, unless one of
\* its tests waited for another.
THEOREM MachinesAreStopped ==
    ASSUME UsualProjects, NoDependencies, SkippedAreWhole
    PROVE  Spec => []MachinesStopped
<1> DEFINE OffInv == LinkInv /\ PowerInv /\ MachinesStopped
<1>1. Init => OffInv
  <2> SUFFICES ASSUME Init PROVE OffInv
    OBVIOUS
  <2>1. pc = "idle"
    BY DEF Init
  <2> QED
    BY <2>1 DEF LinkInv, PowerInv, MachinesStopped, Visiting, Running
<1>2. LaunchInv /\ OffInv /\ [Next]_vars => OffInv'
  <2> SUFFICES ASSUME LaunchInv, LinkInv, PowerInv, MachinesStopped, [Next]_vars
               PROVE  LinkInv' /\ PowerInv' /\ MachinesStopped'
    OBVIOUS
  <2>1. CASE Next
    <3>1. LinkInv' /\ PowerInv'
      BY <2>1, LinkStep, PowerStep
    <3>2. ASSUME pc' = "finished"
          PROVE  MachinesStopped'
      <4>1. Finish
        BY <2>1, <3>2, FinishedSteps DEF LaunchInv
      <4>2. /\ pc = "next" /\ idx > Len(plan.runs) /\ UNCHANGED <<prog, plan, status, power>>
        BY <4>1 DEF Finish, launch, world
      <4>3. /\ \A t \in Selected(prog) : Controls(t) = Ctrl(prog, t)
            /\ DOMAIN status = 1 .. Len(plan.runs) /\ Len(plan.runs) \in Nat /\ idx \in Nat
        BY ProgramFacts, RunFacts DEF LaunchInv, PlanInv
      <4>4. \A c : ~Awaited(c)
        BY <4>2, <4>3 DEF Awaited
      <4>5. \A i \in 1 .. Len(plan.runs) : \A c \in Ctrl(prog, plan.runs[i].test) : power[c] = "stopped"
        BY <4>2, <4>3, <4>4 DEF PowerInv, Visiting
      <4>6. Selected(prog') = Selected(prog) /\ \A t : Controls(t)' = Controls(t)
        BY <4>2 DEF Controls
      <4> QED
        BY <4>2, <4>3, <4>5, <4>6 DEF MachinesStopped
    <3>3. ASSUME pc' # "finished"
          PROVE  MachinesStopped'
      BY <3>3 DEF MachinesStopped
    <3> QED
      BY <3>1, <3>2, <3>3
  <2>2. CASE UNCHANGED vars
    <3>1. UNCHANGED <<pc, prog, plan, idx, status, power>>
      BY <2>2 DEF vars
    <3>2. LinkInv'
      BY <3>1 DEF LinkInv, LastRun
    <3>3. Run' = Run /\ \A c : Awaited(c)' <=> Awaited(c)
      BY <3>1 DEF Run, Awaited, Secure
    <3>4. PowerInv'
      BY <3>1, <3>3 DEF PowerInv
    <3>5. \A t : Controls(t)' = Controls(t)
      BY <3>1 DEF Controls
    <3>6. MachinesStopped'
      BY <3>1, <3>5 DEF MachinesStopped
    <3> QED
      BY <3>2, <3>4, <3>6
  <2> QED
    BY <2>1, <2>2
<1>3. OffInv => MachinesStopped
  OBVIOUS
<1> QED
  BY <1>1, <1>2, <1>3, LaunchInvariant, PTL DEF Spec


----------------------------------------------------------------------------
(* No temporary snapshot outlives its launch                               *)

\* A test releases the keys it holds, whatever becomes of it: no snapshot is refused.
KeysComeUp ==
    \A x \in DOMAIN Projects : \A p \in Versions(x) : \A t \in Selected(p) :
        /\ <<t, p.body[t]>> \notin Forgetful
        /\ <<t, p.body[t]>> \in Holders => t \notin Failing

\* A test that may fail has no parent with temporary snapshots: its failure would leave
\* them.
FailuresElsewhere ==
    \A x \in DOMAIN Projects : \A p \in Versions(x) : \A t \in Selected(p) :
        t \in Failing => \A q \in ParentSet(p, t) : p.policy[q] # "auto"

\* No launch is interrupted once it has deleted what is out of date.
Unkilled == Kills \cap Visiting = {}

\* References are to runs to come, of children.
RefsInv ==
    pc \in Visiting =>
        /\ DOMAIN plan.refs = Selected(prog)
        /\ \A t \in Selected(prog) : \A j \in plan.refs[t] :
              /\ j \in 1 .. Len(plan.runs) /\ t \in ParentSet(prog, plan.runs[j].test)
              /\ j >= idx /\ (pc # "next" => j > idx)

\* A hypervisor snapshot of an "auto" test is there in a visit only, for a run to come or
\* until the present run drops it.
TemporaryInv ==
    \A c \in Controllers : \A s \in DOMAIN snaps[c] \ {Initial} :
        snaps[c][s].cksum[2] = "auto" /\ snaps[c][s].image.taken =>
            /\ pc \in Visiting /\ s \in Selected(prog)
            /\ \/ plan.refs[s] # {}
               \/ pc \notin {"next", "snapshot"} /\ s \in ParentSet(prog, Test)

\* The ways to the snapshots of a run, and out of a visit.
LEMMA LeavingSteps ==
    ASSUME Next, pc \in Visiting
    PROVE  /\ pc' \notin Visiting => RestoreThrows \/ SnapshotThrows \/ Finish \/ Kill
           /\ pc' = "snapshot" => TemporariesDropped \/ pc = "snapshot"
<1> DEFINE Right == /\ pc' \notin Visiting => RestoreThrows \/ SnapshotThrows \/ Finish \/ Kill
                    /\ pc' = "snapshot" => TemporariesDropped \/ pc = "snapshot"
<1>0. ASSUME pc' \in Visiting, pc' # "snapshot" \/ pc = "snapshot" \/ TemporariesDropped
      PROVE  Right
  BY <1>0
<1>1. pc \in {"next", "skip"} \cup Running
  BY DEF Visiting
<1>2. ASSUME NEW names \in Invalidated
      PROVE  ~Begin(names)
  BY <1>1 DEF Begin, Running
<1>3. ASSUME NEW kept \in Uncleaned
      PROVE  ~Clean(kept)
  BY <1>1 DEF Clean, Running
<1>4. ~Prepare /\ ~Exit
  BY <1>1 DEF Prepare, DeleteSnapshots, Decline, CheckCache, BuildPlan, Exit, Running
<1>5. CASE RestoreThrows \/ SnapshotThrows \/ Finish \/ Kill
  <2>1. pc' # "snapshot"
    BY <1>5 DEF RestoreThrows, SnapshotThrows, Finish, Kill, Ended
  <2> QED
    BY <1>5, <2>1
<1>6. CASE NextRun
  BY <1>0, <1>6 DEF NextRun, Visiting, Running
<1>7. ASSUME NEW q \in Names, NEW c \in Controllers, DropTemporary(q, c) \/ RestoreParent(q, c)
      PROVE  Right
  <2>1. pc' = pc
    BY <1>7 DEF DropTemporary, RestoreParent
  <2> QED
    BY <1>0, <2>1
<1>8. CASE Skipped \/ ParentsRestored \/ NetworksCreated \/ ResumeParents \/ CommandsFail
           \/ TemporariesDropped \/ Passed
  <2>1. pc' \in Visiting /\ (pc' = "snapshot" => TemporariesDropped)
    BY <1>8 DEF Skipped, ParentsRestored, NetworksCreated, ResumeParents, CommandsFail,
                TemporariesDropped, Passed, Visiting, Running
  <2> QED
    BY <1>0, <2>1
<1>9. ASSUME NEW n \in Networks, CreateNetwork(n)
      PROVE  Right
  BY <1>0, <1>9 DEF CreateNetwork
<1>10. ASSUME NEW c \in Controllers, InstallController(c) \/ TakeSnapshot(c)
       PROVE  Right
  <2>1. pc' = pc
    BY <1>10 DEF InstallController, TakeSnapshot
  <2> QED
    BY <1>0, <2>1
<1>11. ASSUME NEW on \in BOOLEAN, CommandsPass(on)
       PROVE  Right
  BY <1>0, <1>11 DEF CommandsPass, Visiting, Running
<1> QED
  BY <1>2, <1>3, <1>4, <1>5, <1>6, <1>7, <1>8, <1>9, <1>10, <1>11 DEF Next, Visit

\* A run takes its references away when it starts.
LEMMA RefsStep ==
    ASSUME UsualProjects, LaunchInv, RefsInv, Next
    PROVE  RefsInv'
<1> SUFFICES ASSUME pc' \in Visiting
             PROVE  RefsInv'
  BY DEF RefsInv
<1>0. /\ StateInv /\ PlanInv /\ Version(prog) /\ ok \in SUBSET Selected(prog) /\ Upward(prog, ok)
      /\ idx \in Nat \ {0}
  BY ProgramFacts DEF LaunchInv, StateInv, PlanInv
<1>1. CASE BuildPlan
  <2> DEFINE H == {t \in ok : HasHypervisorSnapshots(t)}
             b == build_test_plan(prog, ok, H)
  <2>1. Built(prog, ok, H, b)
    BY <1>0, PlanIsBuilt DEF Version
  <2>2. /\ plan' = b /\ prog' = prog /\ idx' = idx /\ pc' = IF b.stuck THEN "stuck" ELSE "next"
        /\ pc = "delete"
    BY <1>1 DEF BuildPlan, launch
  <2>3. idx = 1
    BY <1>0, <2>2 DEF PlanInv, Visiting, Running
  <2> HIDE DEF b
  <2>4. CASE b = StuckPlan(prog, TRUE)
    <3>1. pc' = "stuck"
      BY <2>2, <2>4 DEF StuckPlan
    <3> QED
      BY <3>1 DEF Visiting, Running
  <2>5. CASE b \in GoodPlans(prog, ok, H)
    <3>1. LinksBack(prog, b) /\ b.refs \in [Selected(prog) -> SUBSET Nat] /\ b.stuck = FALSE
      BY <2>5 DEF GoodPlans, WellPlanned, PlanSet
    <3>2. \A t \in Selected(prog) : \A j \in b.refs[t] :
              j \in 1 .. Len(b.runs) /\ t \in ParentSet(prog, b.runs[j].test) /\ j >= 1
      BY <3>1 DEF LinksBack
    <3> QED
      BY <2>2, <2>3, <3>1, <3>2 DEF RefsInv
  <2> QED
    BY <2>1, <2>4, <2>5 DEF Built
<1>2. CASE NextRun
  <2>1. /\ plan' = [plan EXCEPT !.refs = RemainingRefs] /\ prog' = prog /\ idx' = idx /\ pc = "next"
        /\ idx <= Len(plan.runs)
    BY <1>2 DEF NextRun, launch
  <2>2. plan' = [stuck |-> plan.stuck, runs |-> plan.runs, refs |-> RemainingRefs]
    BY <1>0, <2>1 DEF PlanInv
  <2>3. DOMAIN plan.refs = Selected(prog)
    BY <2>1 DEF RefsInv, Visiting
  <2>4. \A t \in Selected(prog) : \A j \in RemainingRefs[t] :
            /\ j \in 1 .. Len(plan.runs) /\ t \in ParentSet(prog, plan.runs[j].test)
            /\ j > idx
    <3> SUFFICES ASSUME NEW t \in Selected(prog), NEW j \in RemainingRefs[t]
                 PROVE  /\ j \in 1 .. Len(plan.runs) /\ t \in ParentSet(prog, plan.runs[j].test)
                        /\ j > idx
      OBVIOUS
    <3>1. j \in plan.refs[t] /\ (t \in ParentSet(prog, Test) => j # idx)
      BY <2>3 DEF RemainingRefs
    <3>2. j \in 1 .. Len(plan.runs) /\ t \in ParentSet(prog, plan.runs[j].test) /\ j >= idx
      BY <2>1, <3>1 DEF RefsInv, Visiting
    <3>3. j # idx
      BY <3>1, <3>2 DEF Test, Run
    <3> QED
      BY <1>0, <3>2, <3>3
  <2>5. DOMAIN RemainingRefs = Selected(prog)
    BY <2>3 DEF RemainingRefs
  <2> HIDE DEF RemainingRefs
  <2>6. \A t \in Selected(prog) : \A j \in RemainingRefs[t] : j >= idx
    BY <1>0, <2>4
  <2> QED
    BY <2>1, <2>2, <2>4, <2>5, <2>6 DEF RefsInv
<1>3. CASE Skipped \/ CommandsFail \/ Passed
  <2>1. /\ pc \in Visiting /\ pc # "next" /\ pc' = "next"
        /\ plan' = plan /\ prog' = prog /\ idx' = idx + 1
    BY <1>3 DEF Skipped, CommandsFail, Passed, launch, Visiting, Running
  <2>2. \A t \in Selected(prog) : \A j \in plan.refs[t] : j >= idx + 1
    BY <1>0, <2>1 DEF RefsInv
  <2> QED
    BY <2>1, <2>2 DEF RefsInv
<1>4. CASE UNCHANGED <<prog, plan, idx>> /\ pc' # "next" /\ pc \in Visiting /\ (pc' \in Running => pc \in Running)
  <2>1. CASE NextRun
    BY <1>2, <2>1
  <2>2. CASE pc # "next"
    BY <1>4, <2>2 DEF RefsInv
  <2>3. pc' = "skip" => NextRun \/ pc = "skip"
    BY <1>4, PowerSteps
  <2> QED
    BY <1>4, <2>1, <2>2, <2>3 DEF Visiting, Running
<1> QED
  BY <1>1, <1>2, <1>3, <1>4, VisitSteps

\* The interpreter never takes a key for held after a run.
LEMMA HeldStep ==
    ASSUME UsualProjects, KeysComeUp, LaunchInv, held = {}, Next
    PROVE  held' = {}
<1>0. StateInv /\ PlanInv
  BY DEF LaunchInv
<1>1. ASSUME pc = "commands"
      PROVE  ~Forgets(Test) /\ (Test \in Failing => ~Holds(Test)) /\ ~HoldRefused(Test)
  <2>1. idx <= Len(plan.runs)
    BY <1>0, <1>1 DEF PlanInv, Running
  <2>2. Test \in Selected(prog) /\ project \in DOMAIN Projects /\ prog \in Versions(project)
    BY <1>0, <2>1, PresentRun, ProgramFacts
  <2> QED
    BY <2>2 DEF KeysComeUp, Forgets, Holds, HoldRefused
<1>2. ASSUME NEW on \in BOOLEAN, CommandsPass(on)
      PROVE  held' = {}
  BY <1>1, <1>2 DEF CommandsPass
<1>3. CASE CommandsFail
  <2>1. pc = "commands" /\ (Test \in Failing \/ HoldRefused(Test))
        /\ held' \in {held, IF Holds(Test) THEN held \cup MachinesOf(Test) ELSE held}
    BY <1>3 DEF CommandsFail
  <2> QED
    BY <1>1, <2>1
<1>4. (\E names \in Invalidated : Begin(names)) \/ (\E kept \in Uncleaned : Clean(kept)) => held' = {}
  BY DEF Begin, Clean, known
<1>5. (\E c \in Controllers : DeleteSnapshots(c)) \/ Decline \/ CheckCache \/ BuildPlan => held' = {}
  BY DEF DeleteSnapshots, Decline, CheckCache, BuildPlan, known, Ended, NothingDone
<1>6. NextRun \/ Skipped \/ ParentsRestored \/ NetworksCreated \/ ResumeParents \/ TemporariesDropped
      \/ Passed \/ Finish => held' = {}
  BY DEF NextRun, Skipped, ParentsRestored, NetworksCreated, ResumeParents, TemporariesDropped,
         Passed, Finish, known
<1>7. RestoreThrows \/ SnapshotThrows \/ Exit \/ Kill => held' = {}
  BY DEF RestoreThrows, SnapshotThrows, Exit, Kill, Ended, NothingDone
<1>8. /\ \A q \in Names, c \in Controllers : DropTemporary(q, c) \/ RestoreParent(q, c) => held' = {}
      /\ \A n \in Networks : CreateNetwork(n) => held' = {}
      /\ \A c \in Controllers : InstallController(c) \/ TakeSnapshot(c) => held' = {}
  BY DEF DropTemporary, RestoreParent, CreateNetwork, InstallController, TakeSnapshot, known
<1> QED
  BY <1>2, <1>3, <1>4, <1>5, <1>6, <1>7, <1>8 DEF Next, Prepare, Visit

\* In a visit the record of a selected test's snapshot has its present policy.
LEMMA PolicyIsRecorded ==
    ASSUME UsualProjects, LaunchInv, CurrentInv, pc \in Visiting,
           NEW c \in Controllers, NEW s \in DOMAIN snaps[c] \cap Selected(prog)
    PROVE  /\ c \in Controls(s) /\ snaps[c][s].cksum[2] = Policy(s)
<1>1. /\ StateInv /\ DiskInv /\ prog \in Versions(project)
      /\ Controls(s) = Ctrl(prog, s)
  BY ProgramFacts DEF LaunchInv
<1>2. Column(project, c, made[c], snaps[c])
  BY <1>1 DEF DiskInv
<1>3. c \in Ctrl(prog, s)
  BY <1>1, <1>2 DEF Column, OnParent
<1>4. snaps[c][s].cksum = cksum(prog, s)
  BY <1>3 DEF CurrentInv, Matches
<1> QED
  BY <1>1, <1>3, <1>4 DEF cksum, Policy

\* A hypervisor snapshot that was there before the step is kept by it for a later run.
LEMMA TemporaryKept ==
    ASSUME UsualProjects, KeysComeUp, FailuresElsewhere, Unkilled, LaunchInv, RestoreSucceeds,
           CurrentInv, RefsInv, TemporaryInv, held = {}, Next,
           NEW c \in Controllers, NEW s \in DOMAIN snaps[c] \ {Initial},
           snaps[c][s].cksum[2] = "auto", snaps[c][s].image.taken
    PROVE  /\ pc' \in Visiting /\ s \in Selected(prog')
           /\ \/ plan'.refs[s] # {}
              \/ pc' \notin {"next", "snapshot"} /\ s \in ParentSet(prog', Test')
<1>0. /\ StateInv /\ PlanInv /\ Version(prog) /\ project \in DOMAIN Projects /\ prog \in Versions(project)
      /\ idx \in Nat \ {0}
  BY ProgramFacts DEF LaunchInv, PlanInv
<1>1. /\ pc \in Visiting /\ s \in Selected(prog)
      /\ \/ plan.refs[s] # {}
         \/ pc \notin {"next", "snapshot"} /\ s \in ParentSet(prog, Test)
  BY DEF TemporaryInv
<1>2. c \in Controls(s) /\ Policy(s) = "auto"
  BY <1>1, PolicyIsRecorded
<1>3. has_hypervisor_snapshot(c, s)
  BY DEF has_hypervisor_snapshot, has_snapshot
<1>4. NoTemporary => plan.refs[s] # {}
  <2> SUFFICES ASSUME NoTemporary, plan.refs[s] = {} PROVE FALSE
    OBVIOUS
  <2>1. s \in ParentSet(prog, Test)
    BY <1>1
  <2> QED
    BY <1>2, <1>3, <2>1 DEF NoTemporary, Temporary
<1>5. CASE pc' \notin Visiting
  <2>1. ~RestoreThrows
    BY DEF RestoreSucceeds, RestoreThrows
  <2>2. ~SnapshotThrows
    BY DEF SnapshotThrows, KeyHeld
  <2>3. ~Kill
    BY <1>1 DEF Kill, Unkilled
  <2>4. ~Finish
    <3> SUFFICES ASSUME Finish PROVE FALSE
      OBVIOUS
    <3>1. pc = "next" /\ idx > Len(plan.runs)
      BY DEF Finish
    <3>2. PICK j \in plan.refs[s] : TRUE
      BY <1>1, <3>1
    <3>3. j \in 1 .. Len(plan.runs) /\ j >= idx
      BY <1>1, <3>2 DEF RefsInv
    <3> QED
      BY <1>0, <3>1, <3>3
  <2> QED
    BY <1>1, <1>5, <2>1, <2>2, <2>3, <2>4, LeavingSteps
<1>6. CASE NextRun
  <2>1. /\ plan' = [plan EXCEPT !.refs = RemainingRefs] /\ prog' = prog /\ idx' = idx /\ pc = "next"
        /\ pc' \in {"skip", "restore"}
    BY <1>6 DEF NextRun, launch
  <2>2. plan' = [stuck |-> plan.stuck, runs |-> plan.runs, refs |-> RemainingRefs]
    BY <1>0, <2>1 DEF PlanInv
  <2>3. Test' = Test
    BY <2>1, <2>2 DEF Test, Run
  <2>4. s \in DOMAIN plan.refs
    BY <1>1 DEF RefsInv
  <2>5. s \notin ParentSet(prog, Test) => RemainingRefs[s] = plan.refs[s]
    BY <2>4 DEF RemainingRefs
  <2> QED
    BY <1>1, <2>1, <2>2, <2>3, <2>5 DEF Visiting, Running
<1>7. CASE CommandsFail
  <2>1. pc = "commands" /\ (Test \in Failing \/ HoldRefused(Test)) /\ pc' = "next"
        /\ plan' = plan /\ prog' = prog
    BY <1>7 DEF CommandsFail, launch
  <2>2. idx <= Len(plan.runs)
    BY <1>0, <2>1 DEF PlanInv, Running
  <2>3. Test \in Selected(prog)
    BY <1>0, <2>2, PresentRun
  <2>4. Test \in Failing
    BY <2>1 DEF HoldRefused
  <2>5. s \notin ParentSet(prog, Test)
    BY <1>0, <1>2, <2>3, <2>4 DEF FailuresElsewhere, Policy
  <2> QED
    BY <1>1, <2>1, <2>5 DEF Visiting
<1>8. CASE Skipped
  <2>1. NoTemporary /\ pc' = "next" /\ plan' = plan /\ prog' = prog
    BY <1>8 DEF Skipped, launch
  <2> QED
    BY <1>1, <1>4, <2>1 DEF Visiting
<1>9. CASE Passed
  <2>1. pc = "snapshot" /\ pc' = "next" /\ plan' = plan /\ prog' = prog
    BY <1>9 DEF Passed, launch
  <2> QED
    BY <1>1, <2>1 DEF Visiting
<1>10. CASE TemporariesDropped
  <2>1. NoTemporary /\ pc' = "snapshot" /\ plan' = plan /\ prog' = prog
    BY <1>10 DEF TemporariesDropped, launch
  <2> QED
    BY <1>1, <1>4, <2>1 DEF Visiting, Running
<1>11. ASSUME pc' \in Visiting, UNCHANGED <<prog, plan, idx>>, pc' # "next",
              pc' = "snapshot" => pc = "snapshot", pc # "next"
       PROVE  /\ s \in Selected(prog')
              /\ \/ plan'.refs[s] # {}
                 \/ pc' \notin {"next", "snapshot"} /\ s \in ParentSet(prog', Test')
  <2>1. Test' = Test
    BY <1>11 DEF Test, Run
  <2>2. CASE plan.refs[s] # {}
    BY <1>1, <1>11, <2>2
  <2>3. CASE pc' = "snapshot"
    BY <1>1, <1>11, <2>3
  <2>4. CASE pc' # "snapshot" /\ s \in ParentSet(prog, Test)
    BY <1>1, <1>11, <2>1, <2>4
  <2> QED
    BY <1>1, <2>2, <2>3, <2>4
<1>12. CASE pc' \in Visiting /\ UNCHANGED <<prog, plan, idx>> /\ pc' # "next" /\ pc \in Visiting
            /\ (pc' \in Running => pc \in Running)
  <2>1. pc' = "skip" => NextRun \/ pc = "skip"
    BY <1>12, PowerSteps
  <2>2. pc = "next" => NextRun
    BY <1>12, <2>1 DEF Visiting, Running
  <2>3. pc' = "snapshot" => TemporariesDropped \/ pc = "snapshot"
    BY <1>12, LeavingSteps
  <2> QED
    BY <1>6, <1>10, <1>11, <1>12, <2>2, <2>3
<1>13. ~BuildPlan
  BY <1>1 DEF BuildPlan, Visiting, Running
<1> QED
  BY <1>5, <1>6, <1>7, <1>8, <1>9, <1>12, <1>13, VisitSteps

\* Each step keeps the temporary snapshots in their place.
LEMMA TemporaryStep ==
    ASSUME UsualProjects, KeysComeUp, FailuresElsewhere, Unkilled, LaunchInv, RestoreSucceeds,
           CurrentInv, RefsInv, TemporaryInv, held = {}, Next
    PROVE  TemporaryInv'
<1> SUFFICES ASSUME NEW c \in Controllers, NEW s \in DOMAIN snaps'[c] \ {Initial},
                    snaps'[c][s].cksum[2] = "auto", snaps'[c][s].image.taken
             PROVE  /\ pc' \in Visiting /\ s \in Selected(prog')
                    /\ \/ plan'.refs[s] # {}
                       \/ pc' \notin {"next", "snapshot"} /\ s \in ParentSet(prog', Test')
  BY DEF TemporaryInv
<1>1. CASE s \in DOMAIN snaps[c] /\ snaps'[c][s] = snaps[c][s]
  BY <1>1, TemporaryKept
<1>2. CASE s \in DOMAIN snaps[c] /\ snaps'[c][s] = WithImage(snaps[c][s], NoImage)
  BY <1>2 DEF WithImage, Record, NoImage
<1>3. CASE /\ s = Test /\ TakeSnapshot(c) /\ snaps'[c][s].cksum = cksum(prog, Test)
           /\ snaps'[c][s].image = IF is_hypervisor_snapshot_needed(Test)
                                   THEN Image(live[c], power[c] # "stopped", c \in keys)
                                   ELSE NoImage
  <2>1. pc = "snapshot" /\ pc' = pc /\ plan' = plan /\ prog' = prog
    BY <1>3 DEF TakeSnapshot, launch
  <2>2. StateInv /\ PlanInv /\ idx <= Len(plan.runs)
    BY <2>1 DEF LaunchInv, PlanInv, Running
  <2>3. Test \in Selected(prog)
    BY <2>2, PresentRun
  <2>4. Policy(Test) = "auto"
    BY <1>3 DEF cksum, Policy
  <2>5. is_hypervisor_snapshot_needed(Test)
    BY <1>3 DEF NoImage
  <2>6. plan.refs[s] # {}
    BY <1>3, <2>4, <2>5 DEF is_hypervisor_snapshot_needed
  <2> QED
    BY <1>3, <2>1, <2>3, <2>6 DEF Visiting, Running
<1> QED
  BY <1>1, <1>2, <1>3, RecordSteps

\* A launch that comes to its end has dropped every hypervisor snapshot of an "auto"
\* test, unless a test failed on top of one, a snapshot was refused or a launch was
\* interrupted.
THEOREM NoTemporaryStays ==
    ASSUME UsualProjects, EditsAreWhole, TemporariesOnFlash, KeysComeUp, FailuresElsewhere,
           Unkilled
    PROVE  Spec => []NoTemporaryLeft
<1> DEFINE GoneInv == /\ VersionedInv /\ CurrentInv /\ RefsInv /\ held = {}
                      /\ TemporaryInv /\ NoTemporaryLeft
<1>1. Init => GoneInv
  <2> SUFFICES ASSUME Init PROVE GoneInv
    OBVIOUS
  <2>1. pc = "idle" /\ snaps = [c \in Controllers |-> <<>>] /\ held = {}
    BY DEF Init
  <2>2. DOMAIN <<>> = {}
    OBVIOUS
  <2>3. VersionedInv /\ TemporaryInv
    BY <2>1, <2>2 DEF VersionedInv, TemporaryInv
  <2> QED
    BY <2>1, <2>3 DEF CurrentInv, RefsInv, NoTemporaryLeft, Visiting, Running
<1>2. LaunchInv /\ RestoreSucceeds /\ GoneInv /\ [Next]_vars => GoneInv'
  <2> SUFFICES ASSUME LaunchInv, RestoreSucceeds, VersionedInv, CurrentInv, RefsInv, held = {},
                      TemporaryInv, NoTemporaryLeft, [Next]_vars
               PROVE  /\ VersionedInv' /\ CurrentInv' /\ RefsInv' /\ held' = {}
                      /\ TemporaryInv' /\ NoTemporaryLeft'
    OBVIOUS
  <2>1. CASE Next
    <3>1. VersionedInv' /\ CurrentInv' /\ RefsInv' /\ held' = {} /\ TemporaryInv'
      BY <2>1, VersionedStep, CurrentStep, RefsStep, HeldStep, TemporaryStep
    <3>2. ASSUME pc' = "finished", NEW t \in Selected(prog'), Policy(t)' = "auto",
                 NEW c \in Controls(t)', has_hypervisor_snapshot(c, t)'
          PROVE  FALSE
      <4>1. Finish
        BY <2>1, <3>2, FinishedSteps DEF LaunchInv
      <4>2. pc = "next" /\ prog' = prog /\ snaps' = snaps
        BY <4>1 DEF Finish, launch, disk
      <4>3. t \in Selected(prog) /\ c \in Controls(t) /\ Policy(t) = "auto"
        BY <3>2, <4>2 DEF Controls, Policy
      <4>4. c \in Controllers /\ t # Initial
        BY <4>3, ProgramFacts DEF LaunchInv
      <4>5. t \in DOMAIN snaps[c] /\ snaps[c][t].image.taken
        BY <3>2, <4>2 DEF has_hypervisor_snapshot, has_snapshot
      <4>6. snaps[c][t].cksum[2] = "auto"
        BY <4>2, <4>3, <4>4, <4>5, PolicyIsRecorded DEF Visiting
      <4>7. t \in DOMAIN snaps'[c] \ {Initial} /\ snaps'[c][t] = snaps[c][t]
        BY <4>2, <4>4, <4>5
      <4>8. pc' \in Visiting
        BY <3>1, <4>4, <4>5, <4>6, <4>7 DEF TemporaryInv
      <4> QED
        BY <3>2, <4>8 DEF Visiting, Running
    <3>3. NoTemporaryLeft'
      BY <3>2 DEF NoTemporaryLeft
    <3> QED
      BY <3>1, <3>3
  <2>2. CASE UNCHANGED vars
    <3>1. Test' = Test /\ \A t : Controls(t)' = Controls(t) /\ Policy(t)' = Policy(t)
      BY <2>2 DEF vars, Test, Run, Controls, Policy
    <3> QED
      BY <2>2, <3>1 DEF vars, VersionedInv, CurrentInv, RefsInv, TemporaryInv, NoTemporaryLeft,
                        Matches, has_hypervisor_snapshot, has_snapshot
  <2> QED
    BY <2>1, <2>2
<1>3. GoneInv => NoTemporaryLeft
  OBVIOUS
<1> QED
  BY <1>1, <1>2, <1>3, LaunchInvariant, RestoreIsPossible, PTL DEF Spec

=============================================================================
