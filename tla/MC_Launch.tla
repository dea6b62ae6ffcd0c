----------------------------- MODULE MC_Launch -----------------------------
(***************************************************************************)
(* Instances of Launch for TLC: a base test with tests on top of it, and   *)
(* what the user may change from one launch to the next.                   *)
(***************************************************************************)
EXTENDS Launch

\* The declarations of a program: the tests in file order, their parents, the
\* controllers they mention, their policies, the versions of their bodies and of
\* the controllers' configurations.
Declaration(order, parents, mentions, policy, body, config) ==
    [declared |-> order, parents |-> parents, depends |-> [t \in ToSet(order) |-> <<>>],
     mentions |-> mentions, policy |-> policy, body |-> body, config |-> config,
     nics |-> [c \in Controllers |-> {}], mode |-> [n \in Networks |-> 1]]

ABC == {"A", "B", "C"}
ABCD == {"A", "B", "C", "D"}
Always(tests) == [t \in tests |-> "always"]
Unedited(tests) == [t \in tests |-> 1]
Plain == [c \in Controllers |-> 1]

\* B and C on top of A, on one machine; the bodies of A and B change, or the
\* configuration of the machine.
EditedFork ==
    {Declaration(<<"A", "B", "C">>, [A |-> <<>>, B |-> <<"A">>, C |-> <<"A">>],
                 [t \in ABC |-> {"m"}], Always(ABC), edit[1], [Plain EXCEPT !["m"] = edit[2]]) :
        edit \in ({b \in [ABC -> {1, 2}] : b["C"] = 1} \X {1}) \cup {<<Unedited(ABC), 2>>}}

\* C and D on top of B on top of A, all on controller c; the policies of A and B and
\* the body of C change.
Tree(c) ==
    {Declaration(<<"A", "B", "C", "D">>,
                 [A |-> <<>>, B |-> <<"A">>, C |-> <<"B">>, D |-> <<"B">>],
                 [t \in ABCD |-> {c}], policy, [Unedited(ABCD) EXCEPT !["C"] = v], Plain) :
        policy \in {p \in [ABCD -> Policies] : \A t \in {"C", "D"} : p[t] = "always"},
        v \in {1, 2}}

\* B on top of A and D, tests on a machine each, and C on top of B; B and C change.
TwoParents ==
    {Declaration(<<"A", "B", "C", "D">>,
                 [A |-> <<>>, B |-> <<"A", "D">>, C |-> <<"B">>, D |-> <<>>],
                 [A |-> {"m"}, B |-> {}, C |-> {}, D |-> {"m2"}], Always(ABCD), body, Plain) :
        body \in {b \in [ABCD -> {1, 2}] : b["A"] = 1 /\ b["D"] = 1}}

\* Q on top of P waits for R; or R waits for Q as well, and nothing can go first.
Waiting(c) ==
    LET tests == {"P", "Q", "R"}
    IN  {[Declaration(<<"R", "P", "Q">>, [P |-> <<>>, Q |-> <<"P">>, R |-> <<>>],
                      [t \in tests |-> {c}], Always(tests),
                      Unedited(tests), Plain)
            EXCEPT !.depends = [P |-> <<>>, Q |-> <<"R">>, R |-> r]] : r \in {<<>>, <<"Q">>}}

\* A on a machine, C on top of B on another, both attached to a network; the mode of
\* the network changes, and A alone may be selected.
Networked ==
    {[Declaration(<<"A", "B", "C">>, [A |-> <<>>, B |-> <<>>, C |-> <<"B">>],
                  [A |-> {"m"}, B |-> {"m2"}, C |-> {}], Always(ABC), Unedited(ABC), Plain)
        EXCEPT !.declared = selected, !.nics = [c \in Controllers |-> Networks],
               !.mode = [n \in Networks |-> v]] :
        selected \in {<<"A", "B", "C">>, <<"A">>}, v \in {1, 2}}

\* B on top of A, on a second machine as well, and C on top of B; A and C change.
SecondMachine ==
    {Declaration(<<"A", "B", "C">>, [A |-> <<>>, B |-> <<"A">>, C |-> <<"B">>],
                 [A |-> {"m"}, B |-> {"m", "m2"}, C |-> {}], Always(ABC), body, Plain) :
        body \in {b \in [ABC -> {1, 2}] : b["B"] = 1}}

\* B and C on top of A, which has temporary snapshots on two machines.
TemporaryPair ==
    {Declaration(<<"A", "B", "C">>, [A |-> <<>>, B |-> <<"A">>, C |-> <<"A">>],
                 [t \in ABC |-> {"m", "m2"}], [Always(ABC) EXCEPT !["A"] = "auto"],
                 Unedited(ABC), Plain)}

\* B on top of A, on two machines: A moves from one of them to the other.
Moved ==
    {Declaration(<<"A", "B">>, [A |-> <<>>, B |-> <<"A">>], [A |-> {c}, B |-> {"m", "m2"}],
                 Always({"A", "B"}), [A |-> c, B |-> 1], Plain) : c \in {"m", "m2"}}

Edited == [fork |-> EditedFork, parents |-> TwoParents, tree |-> Tree("m"),
           networked |-> Networked]
EditedLaunches == [fork |-> 3, parents |-> 3, tree |-> 2, networked |-> 3]

\* B and C on top of A, all on a flash drive.
SiblingsOnFlash ==
    {Declaration(<<"A", "B", "C">>, [A |-> <<>>, B |-> <<"A">>, C |-> <<"A">>],
                 [t \in ABC |-> {"f"}], Always(ABC), Unedited(ABC), Plain)}

Siblings == [siblings |-> SiblingsOnFlash]
AutoAndWaiting == [tree |-> Tree("f"), waiting |-> Waiting("f")]
Second == [second |-> SecondMachine]
Pair == [pair |-> TemporaryPair]
Moving == [moving |-> Moved]
Launches(n) == [x \in DOMAIN Projects |-> n]
Once == Launches(1)
Thrice == Launches(3)

Everything == Points

\* B and C hold a key; when B is edited it forgets to release it.
HoldingBodies == {<<"B", 1>>, <<"B", 2>>, <<"C", 1>>}
ForgetfulBodies == {<<"B", 2>>}
=============================================================================
