------------------------------ MODULE TestPlan -----------------------------
(***************************************************************************)
(* What the interpreter decides before it runs anything: which of the      *)
(* selected tests have lost their cache, in which order their leaves are   *)
(* reached, which test runs are planned and which snapshots later runs     *)
(* will need.  Source: visitors/VisitorInterpreter.cpp, IR/Test.cpp.       *)
(*                                                                         *)
(* A program p is a record with                                            *)
(*   declared  the tests that match the test pattern, in file order        *)
(*   parents   the parents of each test, in the order of its declaration   *)
(*   depends   the tests of its depends_on attribute, in that order        *)
(*   mentions  the controllers whose names the commands of a test use      *)
(*   policy    "always", "auto" or "never", per test                       *)
(* and, once setup_tests_parents has seen it,                              *)
(*   tests     all_selected_tests                                          *)
(*   children  the selected children of each test                          *)
(***************************************************************************)
EXTENDS Integers, Sequences, FiniteSets, SequencesExt, FiniteSetsExt

Policies == {"always", "auto", "never"}

Declared(p) == DOMAIN p.parents
ParentSet(p, t) == ToSet(p.parents[t])

\* A program as it comes out of the parser: the declarations name declared tests.
IsProgram(d) ==
    /\ {"declared", "parents", "depends", "mentions", "policy"} \subseteq DOMAIN d
    /\ IsFiniteSet(Declared(d))
    /\ d.declared \in Seq(Declared(d))
    /\ d.parents \in [Declared(d) -> Seq(Declared(d))]
    /\ d.depends \in [Declared(d) -> Seq(Declared(d))]
    /\ DOMAIN d.mentions = Declared(d)
    /\ d.policy \in [Declared(d) -> Policies]

\* Select a test after those of s: itself, its parents, the tests it depends on.
setup_test_parents(p) ==
    LET setup[x \in [test : Declared(p),
                     s : [tests : Seq(Declared(p)),
                          children : [Declared(p) -> Seq(Declared(p))]]]] ==
            LET Parent(s, q) ==
                    setup[[test |-> q, s |-> [s EXCEPT !.children[q] =
                              IF x.test \in ToSet(@) THEN @ ELSE Append(@, x.test)]]]
                Dependency(s, d) == setup[[test |-> d, s |-> s]]
            IN  IF x.test \in ToSet(x.s.tests) THEN x.s
                ELSE FoldLeft(Dependency,
                              FoldLeft(Parent, [x.s EXCEPT !.tests = Append(@, x.test)],
                                       p.parents[x.test]),
                              p.depends[x.test])
    IN  setup

setup_tests_parents(p) ==
    LET s == FoldLeft(LAMBDA s_, t : setup_test_parents(p)[[test |-> t, s |-> s_]],
                      [tests |-> <<>>, children |-> [t \in Declared(p) |-> <<>>]],
                      p.declared)
    IN  [f \in DOMAIN p \cup {"tests", "children"} |->
            IF f = "tests" THEN s.tests ELSE IF f = "children" THEN s.children ELSE p[f]]

Selected(p) == ToSet(p.tests)
get_children(p, t) == p.children[t]

\* The controllers of a test: its own and those of its parents.
get_all_controllers(p) ==
    LET controllers[t \in Selected(p)] ==
            p.mentions[t] \cup UNION {controllers[q] : q \in ParentSet(p, t)}
    IN  controllers

\* A test with all the tests below it.
Subtrees(p) ==
    LET subtree[t \in Selected(p)] ==
            {t} \cup UNION {subtree[u] : u \in ToSet(get_children(p, t))}
    IN  subtree

\* (mutant) A test waits for its own dependencies, not for those below it.
OwnDependencies(p, t) == ToSet(p.depends[t]) \ Subtrees(p)[t]

\* What has to come before a test and the tests below it.
get_external_dependencies(p, t) ==
    LET below == Subtrees(p)[t] IN (UNION {ToSet(p.depends[u]) : u \in below}) \ below

----------------------------------------------------------------------------
(* Programs                                                                *)

\* The chains of parents end, and so does every walk down the children.
Hierarchy(p) ==
    \A S \in SUBSET Selected(p) :
        S # {} => \E t \in S : ParentSet(p, t) \cap S = {}

\* What the parser, Program::setup_test_parents, VisitorSemantic::visit and
\* Test::_get_external_dependencies let through, of the programs whose chains of
\* parents end (Test::get_all_machines never returns from the others).
Valid(p) ==
    /\ Hierarchy(p)
    /\ \A t \in Selected(p) :
        /\ ParentSet(p, t) \cup ToSet(p.depends[t]) \subseteq Selected(p)
        /\ IsInjective(p.parents[t])
        /\ ToSet(p.depends[t]) \cap Subtrees(p)[t] = {}
        /\ \A q, r \in ParentSet(p, t) :
              q # r => get_all_controllers(p)[q] \cap get_all_controllers(p)[r] = {}

----------------------------------------------------------------------------
(* Which tests to run                                                      *)

\* ok is the set of the up-to-date tests.  From the tests without parents down,
\* the first tests that are not in it.
get_topmost_uncached_tests(p, ok) ==
    LET Root(roots, t) == IF p.parents[t] = <<>> THEN Append(roots, t) ELSE roots
        walk[s \in [todo : Seq(Selected(p)), result : Seq(Selected(p))]] ==
            IF s.todo = <<>> THEN s.result
            ELSE LET t == Head(s.todo)
                     rest == Tail(s.todo)
                 IN  walk[IF ~(ParentSet(p, t) \subseteq ok) THEN [s EXCEPT !.todo = rest]
                          ELSE IF t \in ok THEN [s EXCEPT !.todo = get_children(p, t) \o rest]
                          ELSE [todo |-> rest, result |-> Append(s.result, t)]]
    IN  walk[[todo |-> FoldLeft(Root, <<>>, p.tests), result |-> <<>>]]

\* An entry of the DFS stack: a test (none at the bottom) and the children still
\* to visit.
leaf_entry(p, t) == [test |-> <<t>>, todo |-> get_children(p, t)]

\* Depth first from the topmost uncached tests; of the children to visit, the
\* first whose external dependencies are all visited goes first.  The walk is
\* stuck when there is none.
get_leaf_tests_in_dfs_order(p, ok) ==
    LET Ready(t, visited) == get_external_dependencies(p, t) \subseteq visited
        Entries == [test : Seq(Selected(p)), todo : Seq(Selected(p))]
        walk[s \in [stack : Seq(Entries), visited : SUBSET Selected(p),
                    leaves : Seq(Selected(p))]] ==
            IF s.stack = <<>> THEN [stuck |-> FALSE, leaves |-> s.leaves]
            ELSE LET top == Last(s.stack)
                     next == SelectInSeq(top.todo, LAMBDA t : Ready(t, s.visited))
                 IN  IF top.todo = <<>>
                     THEN walk[[s EXCEPT
                            !.stack = Front(@),
                            !.leaves = IF top.test # <<>>
                                          /\ get_children(p, top.test[1]) = <<>>
                                          /\ top.test[1] \notin ToSet(@)
                                       THEN @ \o top.test ELSE @]]
                     ELSE IF next = 0 THEN [stuck |-> TRUE, leaves |-> <<>>]
                     ELSE walk[[s EXCEPT
                            !.stack = Front(@) \o
                               << [top EXCEPT !.todo = RemoveAt(@, next)],
                                  leaf_entry(p, top.todo[next]) >>,
                            !.visited = @ \cup {top.todo[next]}]]
    IN  walk[[stack |-> << [test |-> <<>>,
                            todo |-> get_topmost_uncached_tests(p, ok)] >>,
              visited |-> ok, leaves |-> <<>>]]

----------------------------------------------------------------------------
(* The test runs                                                           *)

\* A plan: the runs, each with the runs of its parents, and per test the runs
\* that will restore its snapshot.
NoRuns(p) == [stuck |-> FALSE, runs |-> <<>>, refs |-> [t \in Selected(p) |-> {}]]

\* (mutants) A run is followed though others have used its controllers since, or
\* only if none has.
RunsSoFar(p, runs, t) == {i \in DOMAIN runs : runs[i].test = t}

UndisturbedRuns(p, runs, t) ==
    LET all == get_all_controllers(p)
    IN  {i \in DOMAIN runs :
           /\ runs[i].test = t
           /\ \A j \in i + 1 .. Len(runs) : all[runs[j].test] \cap all[t] = {}}

\* The planned runs of t that a child of t can follow: the last run to touch t's
\* controllers, or any run of t whose snapshot will exist.
FollowedRuns(p, runs, t) ==
    LET all == get_all_controllers(p)
    IN  {i \in DOMAIN runs :
           /\ runs[i].test = t
           /\ p.policy[t] = "never" =>
                \A j \in i + 1 .. Len(runs) : all[runs[j].test] \cap all[t] = {}}

\* A parent q as the run of t finds it: run is 0 when q is up to date.  q keeps
\* its snapshot for t unless its run is the last one planned.
NoParent(plan) == [plan |-> plan, parents |-> {}, kept |-> {}]

WithParent(w, q, run, plan) ==
    [plan |-> plan,
     parents |-> w.parents \cup ({run} \ {0}),
     kept |-> IF run # Len(plan.runs) \/ run = 0 THEN w.kept \cup {q} ELSE w.kept]

\* (mutant) The snapshot is referenced at the test itself, not at its parent.
PushRunReferringToItself(p, t, w) ==
    LET n == Len(w.plan.runs) + 1
    IN  [w.plan EXCEPT !.runs = Append(@, [test |-> t, parents |-> w.parents]),
                       !.refs[t] = IF w.kept = {} THEN @ ELSE @ \cup {n}]

\* The plan with one more run, of t after its parents.
PushRun(p, t, w) ==
    LET n == Len(w.plan.runs) + 1
    IN  [w.plan EXCEPT !.runs = Append(@, [test |-> t, parents |-> w.parents]),
                       !.refs = [q \in Selected(p) |->
                                   IF q \in w.kept THEN @[q] \cup {n} ELSE @[q]]]

\* Plan a run of t behind those planned already, its parents first, and say which
\* one it is: 0 when t's snapshot will be restored.  ok are the up-to-date tests
\* and held those with a hypervisor snapshot on each of their controllers.
add_test_to_plan(p, ok, held) ==
    LET Plans == [stuck : {FALSE},
                  runs : Seq([test : Selected(p), parents : SUBSET Nat]),
                  refs : [Selected(p) -> SUBSET Nat]]
        add[x \in [test : Selected(p), plan : Plans]] ==
            LET t == x.test
                followed == FollowedRuns(p, x.plan.runs, t)
                Parent(w, q) == LET added == add[[test |-> q, plan |-> w.plan]]
                                IN  WithParent(w, q, added.run, added.plan)
            IN  IF t \in ok /\ t \in held THEN [run |-> 0, plan |-> x.plan]
                ELSE IF followed # {} THEN [run |-> Max(followed), plan |-> x.plan]
                ELSE LET plan_ == PushRun(p, t, FoldLeft(Parent, NoParent(x.plan), p.parents[t]))
                     IN  [run |-> Len(plan_.runs), plan |-> plan_]
    IN  add

\* The plan of a launch.
build_test_plan(p, ok, held) ==
    LET walk == get_leaf_tests_in_dfs_order(p, ok)
    IN  FoldLeft(LAMBDA plan, t :
                    add_test_to_plan(p, ok, held)[[test |-> t, plan |-> plan]].plan,
                 [NoRuns(p) EXCEPT !.stuck = walk.stuck], walk.leaves)

=============================================================================
