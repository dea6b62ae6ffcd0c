------------------------------ MODULE Planning -----------------------------
(***************************************************************************)
(* The scheduler: a program and what its disk remembers go in, a plan of   *)
(* test runs comes out (VisitorInterpreter::init), and these are the       *)
(* promises the rest of the interpreter relies on when it walks the plan   *)
(* (VisitorInterpreter::visit).  The algorithms are in TestPlan.           *)
(***************************************************************************)
EXTENDS TestPlan, Functions

CONSTANT Programs   \* The declarations of the programs to plan for.

ASSUME ProgramsAssumption ==
    \A d \in Programs : IsProgram(d) /\ Valid(setup_tests_parents(d))

VARIABLES
    prog,   \* The program, its tests selected.
    ok,     \* The tests whose cache_status is OK.
    held,   \* Those of them with a hypervisor snapshot on every controller.
    plan,   \* tests_runs, and the snapshot_refs of each test.
    pc      \* "selected", "planned"

vars == <<prog, ok, held, plan, pc>>

\* A test is up to date only if its parents are.
UpToDate(p) == {S \in SUBSET Selected(p) : \A t \in S : ParentSet(p, t) \subseteq S}

\* An up-to-date "always" test has its snapshots, a "never" test has none; whether
\* an "auto" test still has them depends on how its last launch ended.
Held(p, S) ==
    {H \in SUBSET S : \A t \in S : /\ p.policy[t] = "always" => t \in H
                                   /\ p.policy[t] = "never" => t \notin H}

Init ==
    /\ prog \in {setup_tests_parents(d) : d \in Programs}
    /\ ok \in UpToDate(prog)
    /\ held \in Held(prog, ok)
    /\ plan = NoRuns(prog)
    /\ pc = "selected"

BuildTestPlan ==
    /\ pc = "selected"
    /\ plan' = build_test_plan(prog, ok, held)
    /\ pc' = "planned"
    /\ UNCHANGED <<prog, ok, held>>

Next == BuildTestPlan

Spec == Init /\ [][Next]_vars

----------------------------------------------------------------------------
(* Properties                                                              *)

Runs == DOMAIN plan.runs
TestOf(i) == plan.runs[i].test
RunsOf(t) == {i \in Runs : TestOf(i) = t}
Planned == pc = "planned" /\ ~plan.stuck

\* A plan is a sequence of runs of selected tests, each with earlier runs as its
\* parents; a test's snapshot is only promised to runs of its own children.
TypeOK ==
    /\ pc \in {"selected", "planned"}
    /\ plan.stuck \in BOOLEAN
    /\ plan.refs \in [Selected(prog) -> SUBSET Runs]
    /\ \A i \in Runs : TestOf(i) \in Selected(prog) /\ plan.runs[i].parents \subseteq 1 .. i - 1
    /\ \A t \in Selected(prog) : \A i \in plan.refs[t] : t \in ParentSet(prog, TestOf(i))

\* Every test that is not up to date is run, however the leaves that lead to it
\* are ordered, and so is nothing that has no use: an up-to-date test runs again
\* only to put its controllers into its state for a later run, and a test that
\* keeps snapshots never runs twice.
RunsWhatItShould ==
    Planned =>
        /\ \A t \in Selected(prog) \ ok : RunsOf(t) # {}
        /\ \A i \in Runs : TestOf(i) \in ok => \E j \in Runs : i \in plan.runs[j].parents
        /\ \A t \in Selected(prog) : prog.policy[t] # "never" => Cardinality(RunsOf(t)) <= 1

\* The run of t whose outcome run j builds on: the last one before j.
LastBefore(t, j) == Max({i \in RunsOf(t) : i < j})

\* Nothing between runs i and j touches the controllers of i's test.
Untouched(i, j) ==
    \A k \in i + 1 .. j - 1 :
        get_all_controllers(prog)[TestOf(k)] \cap get_all_controllers(prog)[TestOf(i)] = {}

\* t keeps a snapshot until run j has restored it.
KeptFor(t, j) == prog.policy[t] = "always" \/ (prog.policy[t] = "auto" /\ j \in plan.refs[t])

\* When a run starts, each of its parents' states can be had: the parent's last
\* run is among the run's parents and has either left its controllers alone since
\* or keeps a snapshot for this run; a parent without a run before is up to date
\* and has kept its snapshot from an earlier launch.
ParentStatesAvailable ==
    Planned =>
        \A j \in Runs : \A q \in ParentSet(prog, TestOf(j)) :
            IF \E i \in RunsOf(q) : i < j
            THEN LET i == LastBefore(q, j)
                 IN  i \in plan.runs[j].parents /\ (Untouched(i, j) \/ KeptFor(q, j))
            ELSE q \in ok /\ q \in held /\ KeptFor(q, j)

\* "This attribute makes sure that the current test will not be started until all
\* the tests in the list are successfully finished" (docs/reference/Tests.md:30):
\* a test's first run comes after a run of each test it depends on.
DependenciesFirst ==
    Planned =>
        \A t \in Selected(prog) \ ok : \A d \in ToSet(prog.depends[t]) \ ok :
            \E i \in RunsOf(d) : i < Min(RunsOf(t))

\* A schedule of the tests to run: every subtree in one piece, its root first,
\* and every test after those it depends on.
IsSchedule(rank) ==
    \A t \in DOMAIN rank :
        /\ \A x \in Subtrees(prog)[t] :
              /\ rank[t] <= rank[x]
              /\ \A y \in DOMAIN rank \ Subtrees(prog)[t] : rank[y] < rank[t] \/ rank[x] < rank[y]
        /\ \A d \in ToSet(prog.depends[t]) \ ok : rank[d] < rank[t]

\* Where no test has two parents, the tests first run in the order of a schedule,
\* and "Can't decide which test to execute first" is reported only when there is
\* none: taking the first child that is ready never misses an order.  Orders of
\* more than four tests are not searched.
FindsASchedule ==
    LET todo == Selected(prog) \ ok
        single == \A t \in Selected(prog) : Len(prog.parents[t]) <= 1
    IN  pc = "planned" /\ single /\ (plan.stuck => Cardinality(todo) <= 4) =>
            IF plan.stuck
            THEN \A rank \in Bijection(todo, 1 .. Cardinality(todo)) : ~IsSchedule(rank)
            ELSE IsSchedule([t \in todo |-> Min(RunsOf(t))])

=============================================================================
