---------------------------- MODULE MC_Planning ----------------------------
(***************************************************************************)
(* Programs of four tests over two controllers, and the examples.          *)
(***************************************************************************)
EXTENDS PlanExamples

Names == <<"A", "B", "C", "D">>
Tests == {"A", "B", "C", "D"}
Before == [A |-> {}, B |-> {"A"}, C |-> {"A", "B"}, D |-> {"A", "B", "C"}]
InOrder(S) == SelectSeq(Names, LAMBDA t : t \in S)

Declaration(order, above, depends, mentions, policy) ==
    [declared |-> order, parents |-> [t \in Tests |-> InOrder(above[t])],
     depends |-> [t \in Tests |-> InOrder(depends[t])],
     mentions |-> mentions, policy |-> policy]

\* What setup_tests_parents and the semantic check accept.
Accepted(declarations) == {d \in declarations : Valid(setup_tests_parents(d))}

\* Ways to inherit from at most n tests named before.
Above(n) == {a \in [Tests -> {S \in SUBSET Before["D"] : Cardinality(S) <= n}] :
               \A t \in Tests : a[t] \subseteq Before[t]}

\* Any inheritance and any policies (the policy of a leaf has no say).  A test
\* without parents uses one of two controllers, A the first one; the last test may
\* take the second one in addition to its parents'.  No test names a dependency.
AnyHierarchy ==
    LET Apart == [t \in Tests |-> {}]
        Used(a) ==
            {m \in [Tests -> {{}, {"m1"}, {"m2"}}] :
                /\ m["A"] = {"m1"}
                /\ \A t \in Tests : IF a[t] = {} THEN m[t] # {}
                                   ELSE m[t] = {} \/ (t = "D" /\ m[t] = {"m2"})}
        Kept(a) == {p \in [Tests -> Policies] :
                      \A t \in Tests : p[t] = "always" \/ \E u \in Tests : t \in a[u]}
    IN  UNION {Accepted({Declaration(order, a, Apart, m, p) :
                   order \in {Names, Reverse(Names)}, m \in Used(a), p \in Kept(a)}) :
               a \in Above(3)}

\* Dependencies of at most three tests, each on one test.
Dependencies == {d \in [Tests -> {S \in SUBSET Tests : Cardinality(S) <= 1}] :
               Cardinality({t \in Tests : d[t] # {}}) \in 1 .. 3}

\* Tests with one parent at most.
AnyDependencies ==
    LET Use(a) == [t \in Tests |-> IF a[t] = {} THEN {"m1"} ELSE {}]
    IN  Accepted({Declaration(order, above, depends, Use(above), [t \in Tests |-> "always"]) :
            order \in {Names, Reverse(Names)}, above \in Above(1), depends \in Dependencies})

AnyProgram == AnyHierarchy \cup AnyDependencies \cup Examples

\* As AnyDependencies, with a test that has two parents.
TwoParents ==
    LET Use == ("A" :> {"m1"} @@ "B" :> {"m2"} @@ "C" :> {} @@ "D" :> {})
    IN  Accepted({Declaration(Names, [t \in Tests |-> CASE t = "C" -> {"A", "B"}
                                                        [] t = "D" -> {"C"}
                                                        [] OTHER -> {}],
                              depends, Use, [t \in Tests |-> "always"]) :
            depends \in Dependencies})

=============================================================================
