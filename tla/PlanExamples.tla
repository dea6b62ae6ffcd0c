---------------------------- MODULE PlanExamples ---------------------------
(***************************************************************************)
(* The programs of tests/scheduler, with the plans tests/test_scheduler.py *)
(* expects of them when every cache is lost (testo run --invalidate "*").  *)
(* All their tests use the flash drive foo, but for the superroot half of  *)
(* dfs_multiple_parents, which uses bar.                                   *)
(***************************************************************************)
EXTENDS Planning

Example(order, parents, depends) ==
    LET all == ToSet(order)
        Of(f, t) == IF t \in DOMAIN f THEN f[t] ELSE <<>>
    IN  [declared |-> order,
         parents |-> [t \in all |-> Of(parents, t)],
         depends |-> [t \in all |-> Of(depends, t)],
         mentions |-> [t \in all |-> CASE t = "superroot" -> {"bar"}
                                       [] t # "superroot" /\ Of(parents, t) = <<>> -> {"foo"}
                                       [] OTHER -> {}],
         policy |-> [t \in all |-> "always"]]

dfs_basic ==
    Example(<<"root", "A", "B", "A1", "B1", "B2", "A2">>,
            [A |-> <<"root">>, B |-> <<"root">>, A1 |-> <<"A">>, B1 |-> <<"B">>,
             B2 |-> <<"B">>, A2 |-> <<"A">>],
            <<>>)

dfs_multiple_parents ==
    Example(<<"root", "A", "B", "A1", "B1", "B2", "A2",
              "superroot", "D", "D1", "D2", "C", "C1", "C2">>,
            [A |-> <<"C1", "root">>, B |-> <<"root">>, A1 |-> <<"A">>, B1 |-> <<"B">>,
             B2 |-> <<"B">>, A2 |-> <<"A">>, D |-> <<"superroot">>, D1 |-> <<"D">>,
             D2 |-> <<"D">>, C |-> <<"superroot">>, C1 |-> <<"C">>, C2 |-> <<"C">>],
            <<>>)

depends_on_basic ==
    Example(<<"A", "A1", "A2", "B", "B1", "B11", "C", "C1">>,
            [A1 |-> <<"A">>, A2 |-> <<"A">>, B1 |-> <<"B">>, B11 |-> <<"B1">>, C1 |-> <<"C">>],
            [A1 |-> <<"A2">>, A2 |-> <<"C">>, C1 |-> <<"B">>])

depends_on_cyclic ==
    Example(<<"A", "A1", "A2", "B", "B1", "B11", "C", "C1">>,
            [A1 |-> <<"A">>, A2 |-> <<"A">>, B1 |-> <<"B">>, B11 |-> <<"B1">>, C1 |-> <<"C">>],
            [A1 |-> <<"B11">>, B1 |-> <<"C">>, C1 |-> <<"A2">>])

depends_on_multiple_deps ==
    Example(<<"A", "B", "C">>, <<>>, [A |-> <<"B">>, C |-> <<"B", "A">>])

Examples == {dfs_basic, dfs_multiple_parents, depends_on_basic, depends_on_cyclic,
             depends_on_multiple_deps}

\* A launch that has lost every cache plans what the tests of the repository
\* expect, or reports that it cannot decide.
ExpectedPlans ==
    pc = "planned" /\ ok = {} =>
        LET Is(example) == prog = setup_tests_parents(example)
            Plans(order) == ~plan.stuck /\ [i \in Runs |-> TestOf(i)] = order
        IN  /\ Is(depends_on_cyclic) => plan.stuck
            /\ Is(dfs_basic) => Plans(<<"root", "A", "A1", "A2", "B", "B1", "B2">>)
            /\ Is(dfs_multiple_parents) =>
                  Plans(<<"superroot", "C", "C1", "root", "A", "A1", "A2", "B", "B1", "B2",
                          "C2", "D", "D1", "D2">>)
            /\ Is(depends_on_basic) => Plans(<<"B", "B1", "B11", "C", "C1", "A", "A2", "A1">>)
            /\ Is(depends_on_multiple_deps) => Plans(<<"B", "A", "C">>)

=============================================================================
