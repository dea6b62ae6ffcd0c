--------------------------- MODULE Planning_proofs -------------------------
(***************************************************************************)
(* Proofs about Planning, for any programs and whatever their disks        *)
(* remember: every uncached test has a run, nothing runs in vain, each     *)
(* run's parents' states can be had when it starts, and no order that      *)
(* respects the dependencies is missed.                                    *)
(***************************************************************************)
EXTENDS Planning, TestWalks_proofs

----------------------------------------------------------------------------
(* What the disks remember                                                 *)

\* What a launch can find: up to date are tests with their parents, and of those
\* the ones whose snapshots are there are the "always" tests and some "auto" ones.
Remembered(p, S, H) ==
    /\ S \in SUBSET Selected(p) /\ Upward(p, S)
    /\ H \subseteq S /\ \A t \in H : p.policy[t] # "never"

\* The memories that the specification starts with are such.
LEMMA MemoriesFacts ==
    ASSUME NEW p, NEW S \in UpToDate(p), NEW H \in Held(p, S)
    PROVE  Remembered(p, S, H)
  BY DEF UpToDate, Held, Remembered, Upward

----------------------------------------------------------------------------
(* The specification                                                       *)

\* The plan is made from what the launch has found, and from nothing else.
PlanInv ==
    /\ pc \in {"selected", "planned"}
    /\ Plannable(prog) /\ Remembered(prog, ok, held)
    /\ pc = "selected" => plan = NoRuns(prog)
    /\ pc = "planned" => Built(prog, ok, held, plan) /\ Scheduled(prog, ok, plan)

\* The invariant holds throughout.
LEMMA PlanInvHolds == Spec => []PlanInv
<1>1. Init => PlanInv
  <2> SUFFICES ASSUME Init
               PROVE  PlanInv
    OBVIOUS
  <2>1. PICK d \in Programs : prog = setup_tests_parents(d)
    BY DEF Init
  <2>2. Plannable(prog)
    BY <2>1, ProgramsArePlannable, ProgramsAssumption
  <2>3. ok \in UpToDate(prog) /\ held \in Held(prog, ok)
    BY DEF Init
  <2>4. Remembered(prog, ok, held)
    BY <2>3, MemoriesFacts
  <2> QED
    BY <2>2, <2>4 DEF Init, PlanInv
<1>2. PlanInv /\ [Next]_vars => PlanInv'
  <2> SUFFICES ASSUME PlanInv, [Next]_vars
               PROVE  PlanInv'
    OBVIOUS
  <2>1. CASE BuildTestPlan
    <3>1. /\ Built(prog, ok, held, build_test_plan(prog, ok, held))
          /\ Scheduled(prog, ok, build_test_plan(prog, ok, held))
      BY PlanIsBuilt, PlanIsScheduled DEF PlanInv, Remembered
    <3> QED
      BY <2>1, <3>1 DEF BuildTestPlan, PlanInv
  <2>2. CASE UNCHANGED vars
    BY <2>2 DEF PlanInv, vars
  <2> QED
    BY <2>1, <2>2 DEF Next
<1> QED
  BY <1>1, <1>2, PTL DEF Spec

\* The plan is empty, or it is good.
LEMMA PlanIsGood ==
    ASSUME PlanInv
    PROVE  /\ pc \in {"selected", "planned"} /\ Plannable(prog) /\ Remembered(prog, ok, held)
           /\ \/ plan = StuckPlan(prog, plan.stuck) /\ plan.stuck \in BOOLEAN
              \/ plan \in GoodPlans(prog, ok, held)
           /\ Planned => /\ plan \in GoodPlans(prog, ok, held)
                         /\ \A t \in Selected(prog) \ ok : HasRun(plan, t)
<1>1. NoRuns(prog) = StuckPlan(prog, FALSE)
  BY StuckPlanFacts
<1>2. \A x : StuckPlan(prog, x).stuck = x
  BY DEF StuckPlan
<1>3. CASE pc = "selected"
  <2>1. plan = StuckPlan(prog, FALSE)
    BY <1>1, <1>3 DEF PlanInv
  <2>2. plan = StuckPlan(prog, plan.stuck) /\ plan.stuck \in BOOLEAN
    BY <1>2, <2>1
  <2> QED
    BY <1>3, <2>2 DEF Planned, PlanInv
<1>4. CASE pc = "planned"
  <2>1. CASE plan = StuckPlan(prog, TRUE)
    <3>1. plan.stuck = TRUE
      BY <1>2, <2>1
    <3> QED
      BY <2>1, <3>1 DEF Planned, PlanInv
  <2>2. CASE plan # StuckPlan(prog, TRUE)
    BY <1>4, <2>2 DEF Built, PlanInv
  <2> QED
    BY <2>1, <2>2
<1> QED
  BY <1>3, <1>4 DEF PlanInv

\* A good plan's runs are numbered.
LEMMA RunFacts ==
    ASSUME plan \in GoodPlans(prog, ok, held)
    PROVE  /\ plan.stuck = FALSE /\ Len(plan.runs) \in Nat /\ Runs = 1 .. Len(plan.runs)
           /\ \A i \in Runs : TestOf(i) \in Selected(prog)
           /\ plan.refs \in [Selected(prog) -> SUBSET Nat]
           /\ LinksBack(prog, plan) /\ NotInVain(prog, ok, held, plan)
           /\ HasParents(prog, ok, held, plan) /\ Used(ok, plan, {})
<1>1. plan \in PlanSet(prog)
  BY DEF GoodPlans
<1>2. plan.stuck = FALSE
  BY <1>1 DEF PlanSet
<1>3. \A i \in DOMAIN plan.runs : plan.runs[i].test \in Selected(prog)
  BY <1>1, PlanFacts DEF RunSet
<1> QED
  BY <1>1, <1>2, <1>3, PlanFacts DEF GoodPlans, WellPlanned, Runs, TestOf

\* A plan is a sequence of runs of selected tests, each with earlier runs as its
\* parents; a test's snapshot is only promised to runs of its own children.
THEOREM TypeCorrect == Spec => []TypeOK
<1>1. ASSUME PlanInv
      PROVE  TypeOK
  <2>1. CASE plan = StuckPlan(prog, plan.stuck) /\ plan.stuck \in BOOLEAN
    <3>1. Runs = {} /\ plan.refs = [t \in Selected(prog) |-> {}]
      BY <2>1 DEF StuckPlan, Runs
    <3>2. /\ plan.refs \in [Selected(prog) -> SUBSET Runs]
          /\ \A t \in Selected(prog) : plan.refs[t] = {}
      BY <3>1
    <3> QED
      BY <1>1, <2>1, <3>1, <3>2, PlanIsGood DEF TypeOK
  <2>2. CASE plan \in GoodPlans(prog, ok, held)
    <3>1. /\ \A i \in Runs : TestOf(i) \in Selected(prog) /\ plan.runs[i].parents \subseteq 1 .. i - 1
          /\ \A t \in Selected(prog) : \A i \in plan.refs[t] :
                i \in Runs /\ t \in ParentSet(prog, TestOf(i))
      BY <2>2, RunFacts DEF LinksBack, TestOf
    <3>2. plan.refs \in [Selected(prog) -> SUBSET Runs]
      BY <2>2, <3>1, RunFacts
    <3>3. plan.stuck \in BOOLEAN
      BY <2>2, RunFacts
    <3> QED
      BY <1>1, <3>1, <3>2, <3>3, PlanIsGood DEF TypeOK
  <2> QED
    BY <1>1, <2>1, <2>2, PlanIsGood
<1> QED
  BY <1>1, PlanInvHolds, PTL

\* Every test that is not up to date has a run, an up-to-date test has one only if
\* a later run builds on it, and a test that keeps snapshots never has two.
THEOREM EveryTestRuns == Spec => []RunsWhatItShould
<1>1. ASSUME PlanInv
      PROVE  RunsWhatItShould
  <2> SUFFICES ASSUME Planned
               PROVE  /\ \A t \in Selected(prog) \ ok : RunsOf(t) # {}
                      /\ \A i \in Runs : TestOf(i) \in ok => \E j \in Runs : i \in plan.runs[j].parents
                      /\ \A t \in Selected(prog) :
                             prog.policy[t] # "never" => Cardinality(RunsOf(t)) <= 1
    BY DEF RunsWhatItShould
  <2>1. plan \in GoodPlans(prog, ok, held) /\ \A t \in Selected(prog) \ ok : HasRun(plan, t)
    BY <1>1, PlanIsGood
  <2>2. \A t \in Selected(prog) \ ok : RunsOf(t) # {}
    BY <2>1, RunFacts DEF HasRun, RunsOf, TestOf
  <2>3. \A i \in Runs : TestOf(i) \in ok => \E j \in Runs : i \in plan.runs[j].parents
    BY <2>1, RunFacts DEF Used, TestOf
  <2>4. ASSUME NEW t \in Selected(prog), prog.policy[t] # "never"
        PROVE  Cardinality(RunsOf(t)) <= 1
    <3>1. ASSUME NEW i \in RunsOf(t), NEW j \in RunsOf(t), i < j
          PROVE  FALSE
      <4>1. /\ j \in 1 .. Len(plan.runs) /\ i \in 1 .. j - 1
            /\ plan.runs[i].test = t /\ plan.runs[j].test = t
        BY <2>1, <3>1, RunFacts DEF RunsOf, TestOf
      <4>2. NotInVain(prog, ok, held, plan)
        BY <2>1, RunFacts
      <4> QED
        BY <2>4, <4>1, <4>2 DEF NotInVain
    <3>2. RunsOf(t) \subseteq Nat
      BY <2>1, RunFacts DEF RunsOf
    <3>3. \A i, j \in RunsOf(t) : i = j
      BY <3>1, <3>2
    <3>4. CASE RunsOf(t) = {}
      BY <3>4, FS_EmptySet
    <3>5. CASE RunsOf(t) # {}
      <4>1. PICK i : i \in RunsOf(t)
        BY <3>5
      <4>2. RunsOf(t) = {i}
        BY <3>3, <4>1
      <4> QED
        BY <4>2, FS_Singleton
    <3> QED
      BY <3>4, <3>5
  <2> QED
    BY <2>2, <2>3, <2>4
<1> QED
  BY <1>1, PlanInvHolds, PTL

\* When a run starts, each of its parents' states can be had: left on the
\* controllers by the parent's last run, or in a snapshot that is kept until then.
THEOREM ParentStatesKept == Spec => []ParentStatesAvailable
<1>1. ASSUME PlanInv
      PROVE  ParentStatesAvailable
  <2> SUFFICES ASSUME Planned, NEW j \in Runs, NEW q \in ParentSet(prog, TestOf(j))
               PROVE  IF \E i \in RunsOf(q) : i < j
                      THEN LET i == LastBefore(q, j)
                           IN  i \in plan.runs[j].parents /\ (Untouched(i, j) \/ KeptFor(q, j))
                      ELSE q \in ok /\ q \in held /\ KeptFor(q, j)
    BY DEF ParentStatesAvailable
  <2>1. plan \in GoodPlans(prog, ok, held)
    BY <1>1, PlanIsGood
  <2>2. Ordered(prog) /\ (\A t \in Selected(prog) : prog.policy[t] \in Policies)
    BY <1>1, PlanIsGood DEF Plannable
  <2>3. q \in Selected(prog)
    <3>1. TestOf(j) \in Selected(prog)
      BY <2>1, RunFacts
    <3> QED
      BY <2>2, <3>1, AncestorFacts
  <2>4. HasParent(prog, ok, held, plan, q, j)
    BY <2>1, RunFacts DEF HasParents, TestOf
  <2>5. prog.policy[q] # "never" /\ j \in plan.refs[q] => KeptFor(q, j)
    BY <2>2, <2>3 DEF KeptFor, Policies
  <2>6. CASE q \in ok /\ q \in held /\ j \in plan.refs[q]
    <3>1. RunsOf(q) = {}
      BY <2>1, <2>6, RunFacts DEF NotInVain, RunsOf, TestOf
    <3>2. prog.policy[q] # "never"
      BY <1>1, <2>6, PlanIsGood DEF Remembered
    <3> QED
      BY <2>5, <2>6, <3>1, <3>2
  <2>7. CASE ~(q \in ok /\ q \in held /\ j \in plan.refs[q])
    <3>1. PICK i \in plan.runs[j].parents :
              /\ LastRun(prog, plan, q, i, j - 1)
              /\ \/ Clear(prog, plan, q, i + 1, j - 1)
                 \/ prog.policy[q] # "never" /\ j \in plan.refs[q]
      BY <2>4, <2>7 DEF HasParent
    <3>2. j \in 1 .. Len(plan.runs) /\ Len(plan.runs) \in Nat /\ Runs = 1 .. Len(plan.runs)
      BY <2>1, RunFacts
    <3>3. /\ i \in 1 .. j - 1 /\ TestOf(i) = q
          /\ \A k \in i + 1 .. j - 1 : TestOf(k) # q
      BY <3>1 DEF LastRun, TestOf
    <3>4. i \in RunsOf(q) /\ i < j
      BY <3>2, <3>3 DEF RunsOf
    <3>5. i = LastBefore(q, j)
      <4> DEFINE B == {k \in RunsOf(q) : k < j}
      <4>1. i \in B /\ B \in SUBSET (1 .. Len(plan.runs)) /\ \A k \in B : k <= i
        BY <3>2, <3>3, <3>4 DEF RunsOf
      <4> HIDE DEF B
      <4>2. Max(B) \in B /\ i <= Max(B)
        BY <3>2, <4>1, MaxOfNumbers
      <4>3. \A m \in B : i <= m => m = i
        BY <3>2, <4>1
      <4> QED
        BY <4>2, <4>3 DEF LastBefore, B
    <3>6. Clear(prog, plan, q, i + 1, j - 1) => Untouched(i, j)
      BY <3>3 DEF Clear, Untouched, Share, TestOf
    <3> QED
      BY <2>5, <3>1, <3>4, <3>5, <3>6
  <2> QED
    BY <2>6, <2>7
<1> QED
  BY <1>1, PlanInvHolds, PTL

\* IsSchedule is Schedule: Subtrees are the tests below a test.
LEMMA SchedulesAre ==
    ASSUME Plannable(prog), NEW rank, DOMAIN rank = Selected(prog) \ ok
    PROVE  IsSchedule(rank) <=> Schedule(prog, ok, rank)
<1>1. \A t \in Selected(prog) : Subtrees(prog)[t] = Under(prog, t)
  BY SubtreesAre DEF Plannable
<1> QED
  BY <1>1 DEF IsSchedule, Schedule

\* "Can't decide which test to execute first" is only reported when there is no
\* schedule, whatever the number of tests.
NoScheduleMissed ==
    pc = "planned" /\ plan.stuck =>
        \A rank \in [Selected(prog) \ ok -> Nat] : ~IsSchedule(rank)

\* The walk over the leaves misses no order of the tests, however many parents
\* they have.
THEOREM NoOrderIsMissed == Spec => []NoScheduleMissed
<1>1. ASSUME PlanInv
      PROVE  NoScheduleMissed
  <2> SUFFICES ASSUME pc = "planned", plan.stuck, NEW rank \in [Selected(prog) \ ok -> Nat]
               PROVE  ~IsSchedule(rank)
    BY DEF NoScheduleMissed
  <2>1. ~Schedule(prog, ok, rank)
    BY <1>1 DEF PlanInv, Scheduled
  <2>2. DOMAIN rank = Selected(prog) \ ok
    OBVIOUS
  <2> QED
    BY <1>1, <2>1, <2>2, SchedulesAre DEF PlanInv
<1> QED
  BY <1>1, PlanInvHolds, PTL

\* Where no test has two parents, the first runs are a schedule.
LEMMA FirstRunsAre ==
    ASSUME PlanInv, Planned, Single(prog)
    PROVE  Schedule(prog, ok, [t \in Selected(prog) \ ok |-> Min(RunsOf(t))])
<1>1. Scheduled(prog, ok, plan)
  BY DEF PlanInv, Planned
<1>2. plan \in GoodPlans(prog, ok, held)
  BY PlanIsGood
<1>3. Runs = 1 .. Len(plan.runs)
  BY <1>2, RunFacts
<1>4. \A t : RunsOf(t) = {i \in 1 .. Len(plan.runs) : plan.runs[i].test = t}
  BY <1>3 DEF RunsOf, TestOf
<1>5. [t \in Selected(prog) \ ok |-> Min(RunsOf(t))] = FirstRuns(prog, ok, plan)
  BY <1>4 DEF FirstRuns, FirstRun
<1> QED
  BY <1>1, <1>5 DEF Scheduled, Planned

\* Where no test has two parents, the tests are first run in the order of a
\* schedule, unless there is none.
THEOREM ScheduleIsFound == Spec => []FindsASchedule
<1>1. ASSUME PlanInv
      PROVE  FindsASchedule
  <2> DEFINE todo == Selected(prog) \ ok
             first == [t \in todo |-> Min(RunsOf(t))]
  <2> SUFFICES ASSUME pc = "planned", Single(prog)
               PROVE  IF plan.stuck
                      THEN \A rank \in Bijection(todo, 1 .. Cardinality(todo)) : ~IsSchedule(rank)
                      ELSE IsSchedule(first)
    BY DEF FindsASchedule, Single
  <2>1. Plannable(prog) /\ Scheduled(prog, ok, plan) /\ Remembered(prog, ok, held)
    BY <1>1 DEF PlanInv
  <2>2. CASE plan.stuck
    <3> SUFFICES ASSUME NEW rank \in Bijection(todo, 1 .. Cardinality(todo))
                 PROVE  ~IsSchedule(rank)
      BY <2>2
    <3>1. rank \in [todo -> 1 .. Cardinality(todo)]
      BY DEF Bijection, Injection
    <3>2. rank \in [todo -> Nat]
      <4>1. \A t \in todo : rank[t] \in Nat
        BY <3>1
      <4> QED
        BY <3>1, <4>1
    <3>3. ~Schedule(prog, ok, rank)
      BY <2>1, <2>2, <3>2 DEF Scheduled
    <3> QED
      BY <2>1, <3>2, <3>3, SchedulesAre
  <2>3. CASE ~plan.stuck
    <3>1. Schedule(prog, ok, first) /\ DOMAIN first = Selected(prog) \ ok
      BY <1>1, <2>3, FirstRunsAre DEF Planned
    <3> HIDE DEF first
    <3> QED
      BY <2>1, <2>3, <3>1, SchedulesAre
  <2> QED
    BY <2>2, <2>3
<1> QED
  BY <1>1, PlanInvHolds, PTL

\* Where no test has two parents, no test is run before those it depends on, as the
\* documentation says (docs/reference/Tests.md:30).
THEOREM DependenciesComeFirst == Spec => [](Single(prog) => DependenciesFirst)
<1>1. ASSUME PlanInv
      PROVE  Single(prog) => DependenciesFirst
  <2> SUFFICES ASSUME Planned, Single(prog),
                      NEW t \in Selected(prog) \ ok, NEW d \in ToSet(prog.depends[t]) \ ok
               PROVE  \E i \in RunsOf(d) : i < Min(RunsOf(t))
    BY DEF DependenciesFirst
  <2>1. d \in Selected(prog) \ ok
    BY <1>1 DEF PlanInv, Plannable, Waiting
  <2>2. Min(RunsOf(d)) < Min(RunsOf(t))
    BY <1>1, <2>1, FirstRunsAre DEF Schedule
  <2>3. plan \in GoodPlans(prog, ok, held) /\ HasRun(plan, d)
    BY <1>1, <2>1, PlanIsGood
  <2>4. Len(plan.runs) \in Nat /\ RunsOf(d) \in SUBSET (1 .. Len(plan.runs)) /\ RunsOf(d) # {}
    BY <2>3, RunFacts DEF HasRun, RunsOf, TestOf
  <2>5. Min(RunsOf(d)) \in RunsOf(d)
    BY <2>4, MinOfNumbers
  <2> QED
    BY <2>2, <2>5
<1> QED
  BY <1>1, PlanInvHolds, PTL

=============================================================================
