-------------------------- MODULE TestWalks_proofs --------------------------
(***************************************************************************)
(* Proofs about the walks that come before the plan: setup_test_parents,   *)
(* get_topmost_uncached_tests and get_leaf_tests_in_dfs_order end, for any *)
(* program, and find what they look for: the selection is closed under     *)
(* parents and dependencies, and every test that is not up to date is a    *)
(* leaf or above a leaf of the walk.  The walk is stuck only where no      *)
(* order of the tests respects the dependencies.                           *)
(* With TestPlan_proofs: the plan built from these leaves is a good one,   *)
(* and its runs are in such an order where no test has two parents.        *)
(***************************************************************************)
EXTENDS TestPlan_proofs

----------------------------------------------------------------------------
(* Recursion that ends                                                     *)

\* Whatever holds at the final states, and before a step where it holds after it,
\* holds of all states: from each state the steps lead to a final one.
Terminates(X, Final, next) ==
    \A C \in SUBSET X :
        Final \subseteq C /\ (\A x \in X \ Final : next[x] \in C => x \in C) => X \subseteq C

\* A set of pairs of a state and a result that goes with the steps.
ClosedPairs(X, V, Final, next, out) ==
    {R \in SUBSET (X \X V) :
        /\ \A x \in Final : <<x, out[x]>> \in R
        /\ \A x \in X \ Final, v \in V : <<next[x], v>> \in R => <<x, v>> \in R}

\* What a loop computes.
Loops(g, X, Final, next, out) ==
    \A x \in X : g[x] = IF x \in Final THEN out[x] ELSE g[next[x]]

\* A loop that ends has a result from every state it may start in.
LEMMA LoopExists ==
    ASSUME NEW X, NEW V, NEW Final \in SUBSET X, NEW next \in [X \ Final -> X],
           NEW out \in [Final -> V], Terminates(X, Final, next)
    PROVE  \E g \in [X -> V] : Loops(g, X, Final, next, out)
<1> DEFINE Closed == ClosedPairs(X, V, Final, next, out)
           R == {e \in X \X V : \A Q \in Closed : e \in Q}
           Total == {x \in X : \E v \in V : <<x, v>> \in R}
           Single == {x \in X : \A v, w \in V : <<x, v>> \in R /\ <<x, w>> \in R => v = w}
<1>1. R \in Closed
  BY DEF ClosedPairs
<1>2. \A Q \in Closed : R \subseteq Q
  OBVIOUS
<1> HIDE DEF R
<1>3. /\ R \subseteq X \X V
      /\ \A x \in Final : <<x, out[x]>> \in R
      /\ \A x \in X \ Final, v \in V : <<next[x], v>> \in R => <<x, v>> \in R
  BY <1>1 DEF ClosedPairs
<1>4. X \subseteq Total
  <2>1. Final \subseteq Total
    BY <1>3
  <2>2. \A x \in X \ Final : next[x] \in Total => x \in Total
    BY <1>3
  <2>3. Total \in SUBSET X
    OBVIOUS
  <2> HIDE DEF Total
  <2> QED
    BY <2>1, <2>2, <2>3 DEF Terminates
\* A pair that no rule gives can be left out.
<1>5. ASSUME NEW x \in X, NEW v \in V, <<x, v>> \in R, R \ {<<x, v>>} \in Closed
      PROVE  FALSE
  BY <1>2, <1>5
<1>6. ASSUME NEW x \in Final, NEW v \in V, <<x, v>> \in R
      PROVE  v = out[x]
  <2> SUFFICES ASSUME v # out[x] PROVE FALSE
    OBVIOUS
  <2>1. R \ {<<x, v>>} \in Closed
    BY <1>3, <1>6 DEF ClosedPairs
  <2> QED
    BY <1>5, <1>6, <2>1
<1>7. ASSUME NEW x \in X \ Final, NEW v \in V, <<x, v>> \in R
      PROVE  <<next[x], v>> \in R
  <2> SUFFICES ASSUME <<next[x], v>> \notin R PROVE FALSE
    OBVIOUS
  <2>1. R \ {<<x, v>>} \in Closed
    BY <1>3, <1>7 DEF ClosedPairs
  <2> QED
    BY <1>5, <1>7, <2>1
<1>8. X \subseteq Single
  <2>1. Final \subseteq Single
    BY <1>6
  <2>2. \A x \in X \ Final : next[x] \in Single => x \in Single
    BY <1>7
  <2>3. Single \in SUBSET X
    OBVIOUS
  <2> HIDE DEF Single
  <2> QED
    BY <2>1, <2>2, <2>3 DEF Terminates
<1> DEFINE g == [x \in X |-> CHOOSE v \in V : <<x, v>> \in R]
<1>9. \A x \in X : g[x] \in V /\ <<x, g[x]>> \in R
  BY <1>4
<1>10. \A x \in X, v \in V : <<x, v>> \in R => v = g[x]
  BY <1>8, <1>9
<1>11. g \in [X -> V]
  BY <1>9
<1> HIDE DEF g
<1>12. \A x \in Final : g[x] = out[x]
  BY <1>6, <1>9
<1>13. \A x \in X \ Final : g[x] = g[next[x]]
  BY <1>7, <1>9, <1>10
<1> QED
  BY <1>11, <1>12, <1>13 DEF Loops

----------------------------------------------------------------------------
(* setup_test_parents                                                      *)

\* The states of the selection, and the arguments of the recursion.
SelStates(p) == [tests : Seq(Declared(p)), children : [Declared(p) -> Seq(Declared(p))]]
SelArgs(p) == [test : Declared(p), s : SelStates(p)]

\* Test t is made a child of q.
Link(t, s, q) == [s EXCEPT !.children[q] = IF t \in ToSet(@) THEN @ ELSE Append(@, t)]

\* The parents, then the dependencies of a test are selected by g.
ParentVisit(g, t, s, q) == g[[test |-> q, s |-> Link(t, s, q)]]
DependencyVisit(g, s, d) == g[[test |-> d, s |-> s]]
ParentsVisited(g, t, base, seq) == FoldLeft(LAMBDA s, q : ParentVisit(g, t, s, q), base, seq)
DependenciesVisited(g, base, seq) == FoldLeft(LAMBDA s, d : DependencyVisit(g, s, d), base, seq)

Enlisted(s, t) == [s EXCEPT !.tests = Append(@, t)]

\* The body of the recursion, which calls g.
SetupBody(p, g, x) ==
    IF x.test \in ToSet(x.s.tests) THEN x.s
    ELSE DependenciesVisited(g, ParentsVisited(g, x.test, Enlisted(x.s, x.test), p.parents[x.test]),
                             p.depends[x.test])

\* What the interpreter has of a program: lists of declared tests.
Declaring(p) ==
    /\ IsFiniteSet(Declared(p))
    /\ \A t \in Declared(p) : p.parents[t] \in Seq(Declared(p)) /\ p.depends[t] \in Seq(Declared(p))
    /\ p.declared \in Seq(Declared(p))

\* The tests that are still to be selected.
Unselected(p, s) == Cardinality(Declared(p) \ ToSet(s.tests))
StatesBelow(p, k) == {s \in SelStates(p) : Unselected(p, s) < k}
ArgsBelow(p, k) == {x \in SelArgs(p) : Unselected(p, x.s) < k}

\* All of u's parents are selected and know it; so are its dependencies.
Complete(p, s, u) ==
    /\ \A q \in ParentSet(p, u) : q \in ToSet(s.tests) /\ u \in ToSet(s.children[q])
    /\ ToSet(p.depends[u]) \subseteq ToSet(s.tests)

\* The children of a test are selected tests that name it as their parent.
Proper(p, s) ==
    \A t \in Declared(p) : \A u \in ToSet(s.children[t]) :
        t \in ParentSet(p, u) /\ u \in ToSet(s.tests)

\* b can come after a: nothing is lost, and what is new is complete.
Later(p, a, b) ==
    /\ b \in SelStates(p)
    /\ ToSet(a.tests) \subseteq ToSet(b.tests)
    /\ \A t \in Declared(p) : ToSet(a.children[t]) \subseteq ToSet(b.children[t])
    /\ Proper(p, a) => Proper(p, b)
    /\ \A u \in ToSet(b.tests) \ ToSet(a.tests) : Complete(p, b, u)

\* g does its work for the tests of a state with fewer than k left to select.
Selects(p, k, g) ==
    \A x \in ArgsBelow(p, k) : Later(p, x.s, g[x]) /\ x.test \in ToSet(g[x].tests)
SetupSolves(p, k, g) == \A x \in ArgsBelow(p, k) : g[x] = SetupBody(p, g, x)
SetupAgree(p, k, g, h) == \A x \in ArgsBelow(p, k) : h[x] = g[x]

\* An appended element is the one element that is new.
LEMMA ElementsOfAppend ==
    ASSUME NEW S, NEW s \in Seq(S), NEW x \in S
    PROVE  ToSet(Append(s, x)) = ToSet(s) \cup {x}
<1> DEFINE n == Len(s)
           a == Append(s, x)
<1>1. n \in Nat /\ DOMAIN s = 1 .. n /\ DOMAIN a = 1 .. n + 1
  OBVIOUS
<1>2. (\A i \in 1 .. n : a[i] = s[i]) /\ a[n + 1] = x
  OBVIOUS
<1> HIDE DEF a, n
<1>3. \A i \in 1 .. n + 1 : i = n + 1 \/ i \in 1 .. n
  BY <1>1
<1>4. n + 1 \in 1 .. n + 1 /\ \A i \in 1 .. n : i \in 1 .. n + 1
  BY <1>1
<1>5. ToSet(a) = {a[i] : i \in 1 .. n + 1} /\ ToSet(s) = {s[i] : i \in 1 .. n}
  BY <1>1 DEF ToSet
<1>6. ToSet(a) = ToSet(s) \cup {x}
  BY <1>2, <1>3, <1>4, <1>5
<1> QED
  BY <1>6 DEF a

\* The fields of a state of the selection.
LEMMA SelFacts ==
    ASSUME NEW p, NEW s \in SelStates(p)
    PROVE  /\ s.tests \in Seq(Declared(p)) /\ s.children \in [Declared(p) -> Seq(Declared(p))]
           /\ ToSet(s.tests) \subseteq Declared(p)
           /\ \A t \in Declared(p) : /\ s.children[t] \in Seq(Declared(p))
                                     /\ ToSet(s.children[t]) \subseteq Declared(p)
<1>1. s.tests \in Seq(Declared(p)) /\ s.children \in [Declared(p) -> Seq(Declared(p))]
  BY DEF SelStates
<1>2. \A t \in Declared(p) : s.children[t] \in Seq(Declared(p))
  BY <1>1
<1> QED
  BY <1>1, <1>2, ElementsOfSeq

\* With more tests selected, fewer are left.
LEMMA FewerLeft ==
    ASSUME NEW p, IsFiniteSet(Declared(p)), NEW a \in SelStates(p), NEW b \in SelStates(p),
           ToSet(a.tests) \subseteq ToSet(b.tests)
    PROVE  /\ Unselected(p, a) \in Nat /\ Unselected(p, b) \in Nat
           /\ Unselected(p, b) <= Unselected(p, a)
<1> DEFINE A == Declared(p) \ ToSet(a.tests)
           B == Declared(p) \ ToSet(b.tests)
<1>1. B \subseteq A /\ IsFiniteSet(A) /\ IsFiniteSet(B)
  BY FS_Difference
<1>2. Cardinality(B) <= Cardinality(A)
  BY <1>1, FS_Subset
<1> QED
  BY <1>1, <1>2, FS_CardinalityType DEF Unselected

\* A state of the selection is later than or equal to itself.
LEMMA LaterReflexive ==
    ASSUME NEW p, NEW s \in SelStates(p)
    PROVE  Later(p, s, s)
BY DEF Later

\* What is later than a later state is later.
LEMMA LaterTransitive ==
    ASSUME NEW p, Declaring(p), NEW a \in SelStates(p), NEW b, NEW c, Later(p, a, b), Later(p, b, c)
    PROVE  Later(p, a, c)
<1>1. b \in SelStates(p) /\ c \in SelStates(p)
  BY DEF Later
<1>2. ASSUME NEW u \in ToSet(b.tests), Complete(p, b, u)
      PROVE  Complete(p, c, u)
  <2>1. u \in Declared(p)
    BY <1>1, SelFacts
  <2>2. ParentSet(p, u) \subseteq Declared(p)
    BY <2>1, ElementsOfSeq DEF Declaring, ParentSet
  <2> QED
    BY <1>2, <2>2 DEF Later, Complete
<1>3. ASSUME NEW u \in ToSet(c.tests) \ ToSet(a.tests)
      PROVE  Complete(p, c, u)
  <2>1. CASE u \in ToSet(b.tests)
    BY <1>2, <2>1 DEF Later
  <2>2. CASE u \notin ToSet(b.tests)
    BY <2>2 DEF Later
  <2> QED
    BY <2>1, <2>2
<1> QED
  BY <1>3 DEF Later

\* l is s with t among the children of q.
IsLinked(p, t, s, q, l) ==
    /\ l \in SelStates(p)
    /\ l.tests = s.tests
    /\ ToSet(l.children[q]) = ToSet(s.children[q]) \cup {t}
    /\ \A r \in Declared(p) \ {q} : l.children[r] = s.children[r]

\* Link adds t to the children of q, once, and changes nothing else.
LEMMA LinkFacts ==
    ASSUME NEW p, NEW s \in SelStates(p), NEW t \in Declared(p), NEW q \in Declared(p)
    PROVE  IsLinked(p, t, s, q, Link(t, s, q))
<1> DEFINE c == s.children[q]
           n == IF t \in ToSet(c) THEN c ELSE Append(c, t)
           m == [s.children EXCEPT ![q] = n]
<1>1. s = [tests |-> s.tests, children |-> s.children]
  BY DEF SelStates
<1>2. c \in Seq(Declared(p)) /\ s.children \in [Declared(p) -> Seq(Declared(p))] /\ s.tests \in Seq(Declared(p))
  BY SelFacts
<1>3. Link(t, s, q) = [tests |-> s.tests, children |-> m]
  <2>1. Link(t, s, q) = [s EXCEPT !.children = m]
    BY DEF Link
  <2> HIDE DEF m
  <2> QED
    BY <1>1, <2>1
<1>4. n \in Seq(Declared(p)) /\ ToSet(n) = ToSet(c) \cup {t}
  <2> HIDE DEF c
  <2>1. ToSet(Append(c, t)) = ToSet(c) \cup {t}
    BY <1>2, ElementsOfAppend
  <2> QED
    BY <1>2, <2>1
<1> HIDE DEF n
<1>5. m \in [Declared(p) -> Seq(Declared(p))] /\ m[q] = n /\ \A r \in Declared(p) \ {q} : m[r] = s.children[r]
  BY <1>2, <1>4
<1> HIDE DEF m
<1>6. /\ Link(t, s, q).tests = s.tests /\ Link(t, s, q).children = m
      /\ Link(t, s, q) \in SelStates(p)
  BY <1>2, <1>3, <1>5 DEF SelStates
<1> QED
  BY <1>4, <1>5, <1>6 DEF IsLinked

\* Linking a selected test to one of its parents keeps what is there.
LEMMA LinkLater ==
    ASSUME NEW p, NEW s \in SelStates(p), NEW t \in ToSet(s.tests), NEW q \in ParentSet(p, t),
           q \in Declared(p)
    PROVE  Later(p, s, Link(t, s, q))
<1>1. t \in Declared(p)
  BY SelFacts
<1> DEFINE l == Link(t, s, q)
<1>2. IsLinked(p, t, s, q, l)
  BY <1>1, LinkFacts
<1> HIDE DEF l
<1>3. Proper(p, s) => Proper(p, l)
  BY <1>2 DEF Proper, IsLinked
<1>4. \A r \in Declared(p) : ToSet(s.children[r]) \subseteq ToSet(l.children[r])
  BY <1>2 DEF IsLinked
<1>5. Later(p, s, l)
  BY <1>2, <1>3, <1>4 DEF Later, IsLinked
<1> QED
  BY <1>5 DEF l

\* To enlist a test selects it, which leaves one test fewer to select.
LEMMA EnlistedFacts ==
    ASSUME NEW p, Declaring(p), NEW s \in SelStates(p), NEW t \in Declared(p), t \notin ToSet(s.tests)
    PROVE  /\ Enlisted(s, t) \in SelStates(p)
           /\ ToSet(Enlisted(s, t).tests) = ToSet(s.tests) \cup {t}
           /\ Enlisted(s, t).children = s.children
           /\ Unselected(p, Enlisted(s, t)) = Unselected(p, s) - 1
<1> DEFINE q == Append(s.tests, t)
<1>1. s = [tests |-> s.tests, children |-> s.children]
  BY DEF SelStates
<1>2. s.children \in [Declared(p) -> Seq(Declared(p))] /\ s.tests \in Seq(Declared(p))
  BY SelFacts
<1>3. ToSet(q) = ToSet(s.tests) \cup {t} /\ q \in Seq(Declared(p))
  BY <1>2, ElementsOfAppend
<1>4. Enlisted(s, t) = [tests |-> q, children |-> s.children]
  <2>1. Enlisted(s, t) = [s EXCEPT !.tests = q]
    BY DEF Enlisted
  <2> HIDE DEF q
  <2> QED
    BY <1>1, <2>1
<1> HIDE DEF q
<1>5. Enlisted(s, t) \in SelStates(p) /\ Enlisted(s, t).tests = q /\ Enlisted(s, t).children = s.children
  BY <1>2, <1>3, <1>4 DEF SelStates
<1>6. Declared(p) \ ToSet(q) = (Declared(p) \ ToSet(s.tests)) \ {t}
  BY <1>3
<1>7. Cardinality((Declared(p) \ ToSet(s.tests)) \ {t}) = Cardinality(Declared(p) \ ToSet(s.tests)) - 1
  BY FS_RemoveElement, FS_Difference DEF Declaring
<1> QED
  BY <1>3, <1>5, <1>6, <1>7 DEF Unselected

\* A step of a fold: g is asked for a test with fewer than k left.
LEMMA DependencyStep ==
    ASSUME NEW p, Declaring(p), NEW k, NEW g, Selects(p, k, g),
           NEW s \in StatesBelow(p, k), NEW d \in Declared(p), k \in Nat
    PROVE  /\ [test |-> d, s |-> s] \in ArgsBelow(p, k)
           /\ DependencyVisit(g, s, d) \in StatesBelow(p, k)
           /\ Later(p, s, DependencyVisit(g, s, d))
           /\ d \in ToSet(DependencyVisit(g, s, d).tests)
<1> DEFINE x == [test |-> d, s |-> s]
           r == g[x]
<1>1. s \in SelStates(p) /\ Unselected(p, s) < k
  BY DEF StatesBelow
<1>2. x \in ArgsBelow(p, k) /\ x.s = s /\ x.test = d
  BY <1>1 DEF ArgsBelow, SelArgs
<1> HIDE DEF x
<1>3. Later(p, s, r) /\ d \in ToSet(r.tests)
  BY <1>2 DEF Selects
<1> HIDE DEF r
<1>4. r \in SelStates(p) /\ ToSet(s.tests) \subseteq ToSet(r.tests)
  BY <1>3 DEF Later
<1>5. /\ Unselected(p, s) \in Nat /\ Unselected(p, r) \in Nat /\ Unselected(p, r) <= Unselected(p, s)
  BY <1>1, <1>4, FewerLeft DEF Declaring
<1>6. r \in StatesBelow(p, k)
  BY <1>1, <1>4, <1>5 DEF StatesBelow
<1>7. DependencyVisit(g, s, d) = r
  BY DEF DependencyVisit, r, x
<1> QED
  BY <1>2, <1>3, <1>6, <1>7 DEF x

\* The visit of a parent starts with fewer than k tests to select, and so ends.
LEMMA ParentStepType ==
    ASSUME NEW p, Declaring(p), NEW k, NEW g, Selects(p, k, g), k \in Nat,
           NEW s \in StatesBelow(p, k), NEW t \in Declared(p), NEW q \in Declared(p)
    PROVE  /\ Link(t, s, q) \in StatesBelow(p, k)
           /\ [test |-> q, s |-> Link(t, s, q)] \in ArgsBelow(p, k)
           /\ ParentVisit(g, t, s, q) \in StatesBelow(p, k)
           /\ Later(p, Link(t, s, q), ParentVisit(g, t, s, q))
           /\ q \in ToSet(ParentVisit(g, t, s, q).tests)
<1> DEFINE l == Link(t, s, q)
<1>1. s \in SelStates(p) /\ Unselected(p, s) < k
  BY DEF StatesBelow
<1>2. l \in SelStates(p) /\ l.tests = s.tests
  BY <1>1, LinkFacts DEF IsLinked
<1> HIDE DEF l
<1>3. l \in StatesBelow(p, k)
  BY <1>1, <1>2 DEF StatesBelow, Unselected
<1>4. /\ [test |-> q, s |-> l] \in ArgsBelow(p, k)
      /\ DependencyVisit(g, l, q) \in StatesBelow(p, k)
      /\ Later(p, l, DependencyVisit(g, l, q))
      /\ q \in ToSet(DependencyVisit(g, l, q).tests)
  BY <1>3, DependencyStep
<1>5. DependencyVisit(g, l, q) = ParentVisit(g, t, s, q)
  BY DEF DependencyVisit, ParentVisit, l
<1> QED
  BY <1>3, <1>4, <1>5 DEF l

\* The folds' steps as functions.
DependencySteps(p, k, g) ==
    [x \in StatesBelow(p, k) \X Declared(p) |-> DependencyVisit(g, x[1], x[2])]
ParentSteps(p, k, g, t) ==
    [x \in StatesBelow(p, k) \X Declared(p) |-> ParentVisit(g, t, x[1], x[2])]

\* The dependencies of a test are visited one after the other.
LEMMA DependenciesFold ==
    ASSUME NEW p, Declaring(p), NEW k \in Nat, NEW g, Selects(p, k, g),
           NEW base \in StatesBelow(p, k), NEW seq \in Seq(Declared(p))
    PROVE  Folded(DependencySteps(p, k, g), base, seq, StatesBelow(p, k), DependenciesVisited(g, base, seq))
<1> DEFINE F == DependencySteps(p, k, g)
           W == StatesBelow(p, k)
           T == Declared(p)
           Is(h) == h = [s \in SUBSET DOMAIN seq |->
                           IF s = {} THEN base ELSE DependencyVisit(g, h[s \ {Max(s)}], seq[Max(s)])]
           h0 == CHOOSE h : Is(h)
<1>1. /\ F \in [W \X T -> W]
      /\ \A w \in W, q \in T : F[<<w, q>>] = DependencyVisit(g, w, q)
  BY DependencyStep DEF DependencySteps
<1> HIDE DEF F, W, T
<1>2. base \in W /\ seq \in Seq(T)
  BY DEF W, T
<1>3. PICK h \in [SUBSET DOMAIN seq -> W] : Folds(F, base, seq, W, T, h)
  BY <1>1, <1>2, FoldExists
<1>4. Is(h)
  <2>1. \A s \in SUBSET DOMAIN seq :
            h[s] = IF s = {} THEN base ELSE DependencyVisit(g, h[s \ {Max(s)}], seq[Max(s)])
    BY <1>1, <1>3 DEF Folds
  <2> QED
    BY <1>3, <2>1
<1>5. Is(h0)
  <2> HIDE DEF Is
  <2> QED
    BY <1>4
<1>6. DependenciesVisited(g, base, seq) = h0[DOMAIN seq]
  BY DEF DependenciesVisited, FoldLeft, MapThenFoldSet
<1> HIDE DEF h0
<1>7. h0[{}] = base
  BY <1>5
<1>8. ASSUME NEW s \in SUBSET DOMAIN seq, s # {}, h0[s \ {Max(s)}] \in W
      PROVE  h0[s] = F[<<h0[s \ {Max(s)}], seq[Max(s)]>>]
  <2>1. h0[s] = DependencyVisit(g, h0[s \ {Max(s)}], seq[Max(s)])
    BY <1>5, <1>8
  <2>2. seq[Max(s)] \in T
    BY <1>3, <1>8 DEF Folds
  <2> QED
    BY <1>1, <1>8, <2>1, <2>2
<1>9. Follows(F, base, seq, W, h0)
  BY <1>7, <1>8 DEF Follows
<1>10. Folded(F, base, seq, W, h0[DOMAIN seq])
  BY <1>1, <1>2, <1>9, FoldSteps
<1> QED
  BY <1>6, <1>10 DEF F, W

\* The parents of a test are visited one after the other.
LEMMA ParentVisitsFold ==
    ASSUME NEW p, Declaring(p), NEW k \in Nat, NEW g, Selects(p, k, g), NEW t \in Declared(p),
           NEW base \in StatesBelow(p, k), NEW seq \in Seq(Declared(p))
    PROVE  Folded(ParentSteps(p, k, g, t), base, seq, StatesBelow(p, k), ParentsVisited(g, t, base, seq))
<1> DEFINE F == ParentSteps(p, k, g, t)
           W == StatesBelow(p, k)
           T == Declared(p)
           Is(h) == h = [s \in SUBSET DOMAIN seq |->
                           IF s = {} THEN base ELSE ParentVisit(g, t, h[s \ {Max(s)}], seq[Max(s)])]
           h0 == CHOOSE h : Is(h)
<1>1. /\ F \in [W \X T -> W]
      /\ \A w \in W, q \in T : F[<<w, q>>] = ParentVisit(g, t, w, q)
  BY ParentStepType DEF ParentSteps
<1> HIDE DEF F, W, T
<1>2. base \in W /\ seq \in Seq(T)
  BY DEF W, T
<1>3. PICK h \in [SUBSET DOMAIN seq -> W] : Folds(F, base, seq, W, T, h)
  BY <1>1, <1>2, FoldExists
<1>4. Is(h)
  <2>1. \A s \in SUBSET DOMAIN seq :
            h[s] = IF s = {} THEN base ELSE ParentVisit(g, t, h[s \ {Max(s)}], seq[Max(s)])
    BY <1>1, <1>3 DEF Folds
  <2> QED
    BY <1>3, <2>1
<1>5. Is(h0)
  <2> HIDE DEF Is
  <2> QED
    BY <1>4
<1>6. ParentsVisited(g, t, base, seq) = h0[DOMAIN seq]
  BY DEF ParentsVisited, FoldLeft, MapThenFoldSet
<1> HIDE DEF h0
<1>7. h0[{}] = base
  BY <1>5
<1>8. ASSUME NEW s \in SUBSET DOMAIN seq, s # {}, h0[s \ {Max(s)}] \in W
      PROVE  h0[s] = F[<<h0[s \ {Max(s)}], seq[Max(s)]>>]
  <2>1. h0[s] = ParentVisit(g, t, h0[s \ {Max(s)}], seq[Max(s)])
    BY <1>5, <1>8
  <2>2. seq[Max(s)] \in T
    BY <1>3, <1>8 DEF Folds
  <2> QED
    BY <1>1, <1>8, <2>1, <2>2
<1>9. Follows(F, base, seq, W, h0)
  BY <1>7, <1>8 DEF Follows
<1>10. Folded(F, base, seq, W, h0[DOMAIN seq])
  BY <1>1, <1>2, <1>9, FoldSteps
<1> QED
  BY <1>6, <1>10 DEF F, W

\* After the dependencies have been visited.
LEMMA DependenciesLater ==
    ASSUME NEW p, Declaring(p), NEW k \in Nat, NEW g, Selects(p, k, g),
           NEW base \in StatesBelow(p, k), NEW seq \in Seq(Declared(p))
    PROVE  /\ DependenciesVisited(g, base, seq) \in StatesBelow(p, k)
           /\ Later(p, base, DependenciesVisited(g, base, seq))
           /\ ToSet(seq) \subseteq ToSet(DependenciesVisited(g, base, seq).tests)
<1> DEFINE n == Len(seq)
           W == StatesBelow(p, k)
           v == DependenciesVisited(g, base, seq)
<1>0. n \in Nat /\ \A i \in 1 .. n : seq[i] \in Declared(p)
  OBVIOUS
<1>1. PICK r \in [0 .. n -> W] : Trace(DependencySteps(p, k, g), base, seq, r) /\ v = r[n]
  BY DependenciesFold DEF Folded
<1> DEFINE P == {i \in 0 .. n : /\ Later(p, base, r[i])
                                /\ \A l \in 1 .. i : seq[l] \in ToSet(r[i].tests)}
<1>2. 0 \in P
  <2>1. r[0] = base /\ base \in SelStates(p)
    BY <1>1 DEF Trace, StatesBelow
  <2>2. Later(p, base, r[0])
    BY <2>1, LaterReflexive
  <2> QED
    BY <1>0, <2>2
<1>3. ASSUME NEW i \in 0 .. n - 1, i \in P
      PROVE  i + 1 \in P
  <2>1. i + 1 \in 1 .. n /\ i + 1 - 1 = i /\ i + 1 \in 0 .. n /\ i \in 0 .. n
    BY <1>0
  <2>2. r[i] \in W /\ seq[i + 1] \in Declared(p)
    BY <1>0, <1>1, <2>1
  <2>3. r[i + 1] = DependencySteps(p, k, g)[<<r[i], seq[i + 1]>>]
    BY <1>1, <2>1 DEF Trace
  <2>4. r[i + 1] = DependencyVisit(g, r[i], seq[i + 1])
    BY <2>2, <2>3 DEF DependencySteps
  <2>5. Later(p, r[i], r[i + 1]) /\ seq[i + 1] \in ToSet(r[i + 1].tests)
    BY <2>2, <2>4, DependencyStep
  <2>6. Later(p, base, r[i + 1])
    <3>1. base \in SelStates(p)
      BY DEF StatesBelow
    <3> QED
      BY <1>3, <2>5, <3>1, LaterTransitive
  <2>7. \A l \in 1 .. i + 1 : l = i + 1 \/ l \in 1 .. i
    BY <2>1
  <2>8. \A l \in 1 .. i + 1 : seq[l] \in ToSet(r[i + 1].tests)
    BY <1>3, <2>5, <2>7 DEF Later
  <2> QED
    BY <2>1, <2>6, <2>8
<1>4. n \in P
  <2> HIDE DEF P
  <2>1. 0 .. n \subseteq P
    BY <1>0, <1>2, <1>3, UpTo
  <2> QED
    BY <1>0, <2>1
<1> HIDE DEF v
<1>5. Later(p, base, v) /\ \A l \in 1 .. n : seq[l] \in ToSet(v.tests)
  BY <1>1, <1>4
<1>6. v \in W
  BY <1>0, <1>1
<1>7. ToSet(seq) \subseteq ToSet(v.tests)
  BY <1>0, <1>5 DEF ToSet
<1> QED
  BY <1>5, <1>6, <1>7 DEF v

\* After the parents have been visited.
LEMMA ParentsLater ==
    ASSUME NEW p, Declaring(p), NEW k \in Nat, NEW g, Selects(p, k, g),
           NEW base \in StatesBelow(p, k), NEW t \in ToSet(base.tests),
           NEW seq \in Seq(Declared(p)), ToSet(seq) \subseteq ParentSet(p, t)
    PROVE  /\ ParentsVisited(g, t, base, seq) \in StatesBelow(p, k)
           /\ Later(p, base, ParentsVisited(g, t, base, seq))
           /\ \A q \in ToSet(seq) : /\ q \in ToSet(ParentsVisited(g, t, base, seq).tests)
                                    /\ t \in ToSet(ParentsVisited(g, t, base, seq).children[q])
<1> DEFINE n == Len(seq)
           W == StatesBelow(p, k)
           v == ParentsVisited(g, t, base, seq)
<1>0. n \in Nat /\ \A i \in 1 .. n : seq[i] \in Declared(p)
  OBVIOUS
<1>a. base \in SelStates(p) /\ t \in Declared(p)
  BY SelFacts DEF StatesBelow
<1>1. PICK r \in [0 .. n -> W] : Trace(ParentSteps(p, k, g, t), base, seq, r) /\ v = r[n]
  BY <1>a, ParentVisitsFold DEF Folded
<1> DEFINE P == {i \in 0 .. n : /\ Later(p, base, r[i])
                                /\ \A l \in 1 .. i : /\ seq[l] \in ToSet(r[i].tests)
                                                     /\ t \in ToSet(r[i].children[seq[l]])}
<1>2. 0 \in P
  <2>1. r[0] = base
    BY <1>1 DEF Trace
  <2>2. Later(p, base, r[0])
    BY <1>a, <2>1, LaterReflexive
  <2> QED
    BY <1>0, <2>2
<1>3. ASSUME NEW i \in 0 .. n - 1, i \in P
      PROVE  i + 1 \in P
  <2>1. i + 1 \in 1 .. n /\ i + 1 - 1 = i /\ i + 1 \in 0 .. n /\ i \in 0 .. n
    BY <1>0
  <2>2. r[i] \in W /\ seq[i + 1] \in Declared(p)
    BY <1>0, <1>1, <2>1
  <2>3. r[i + 1] = ParentSteps(p, k, g, t)[<<r[i], seq[i + 1]>>]
    BY <1>1, <2>1 DEF Trace
  <2>4. r[i + 1] = ParentVisit(g, t, r[i], seq[i + 1])
    BY <2>2, <2>3 DEF ParentSteps
  <2> DEFINE s == r[i]
             q == seq[i + 1]
             l == Link(t, s, q)
             s_ == r[i + 1]
  <2>5. s \in SelStates(p) /\ Later(p, base, s)
    BY <1>3, <2>2 DEF StatesBelow
  <2>6. q \in ParentSet(p, t)
    BY <2>1, <1>0, ElementsOfSeq
  <2>7. t \in ToSet(s.tests)
    BY <2>5 DEF Later
  <2>8. Later(p, l, s_) /\ q \in ToSet(s_.tests)
    <3>1. r[i] \in StatesBelow(p, k)
      BY <2>2
    <3>2. /\ Later(p, Link(t, r[i], seq[i + 1]), ParentVisit(g, t, r[i], seq[i + 1]))
          /\ seq[i + 1] \in ToSet(ParentVisit(g, t, r[i], seq[i + 1]).tests)
      BY <1>a, <2>2, <3>1, ParentStepType
    <3> QED
      BY <2>4, <3>2
  <2> HIDE DEF s, q, s_
  <2>9. Later(p, s, l) /\ IsLinked(p, t, s, q, l)
    BY <1>a, <2>2, <2>5, <2>6, <2>7, LinkLater, LinkFacts DEF q
  <2> HIDE DEF l
  <2>10. Later(p, s, s_)
    BY <2>5, <2>8, <2>9, LaterTransitive
  <2>11. Later(p, base, s_)
    BY <1>a, <2>5, <2>10, LaterTransitive
  <2>12. t \in ToSet(s_.children[q])
    BY <2>2, <2>8, <2>9 DEF Later, IsLinked, q
  <2>13. \A j \in 1 .. i + 1 : j = i + 1 \/ j \in 1 .. i
    BY <2>1
  <2>14. \A j \in 1 .. i : seq[j] \in ToSet(s.tests) /\ t \in ToSet(s.children[seq[j]]) /\ seq[j] \in Declared(p)
    BY <1>0, <1>3 DEF s
  <2>15. \A j \in 1 .. i + 1 : seq[j] \in ToSet(s_.tests) /\ t \in ToSet(s_.children[seq[j]])
    BY <2>8, <2>10, <2>12, <2>13, <2>14 DEF Later, q
  <2> QED
    BY <2>1, <2>11, <2>15 DEF s_
<1>4. n \in P
  <2> HIDE DEF P
  <2>1. 0 .. n \subseteq P
    BY <1>0, <1>2, <1>3, UpTo
  <2> QED
    BY <1>0, <2>1
<1> HIDE DEF v
<1>5. Later(p, base, v) /\ \A l \in 1 .. n : seq[l] \in ToSet(v.tests) /\ t \in ToSet(v.children[seq[l]])
  BY <1>1, <1>4
<1>6. v \in W
  BY <1>0, <1>1
<1>7. \A q \in ToSet(seq) : \E l \in 1 .. n : q = seq[l]
  BY <1>0 DEF ToSet
<1> QED
  BY <1>5, <1>6, <1>7 DEF v

\* The folds depend on what g does below k only.
LEMMA VisitsLocal ==
    ASSUME NEW p, Declaring(p), NEW k \in Nat, NEW g, Selects(p, k, g), NEW h, SetupAgree(p, k, g, h),
           NEW t \in Declared(p), NEW base \in StatesBelow(p, k), NEW seq \in Seq(Declared(p))
    PROVE  /\ ParentsVisited(h, t, base, seq) = ParentsVisited(g, t, base, seq)
           /\ DependenciesVisited(h, base, seq) = DependenciesVisited(g, base, seq)
<1>1. Selects(p, k, h)
  BY DEF Selects, SetupAgree
<1>2. DependencySteps(p, k, h) = DependencySteps(p, k, g)
  <2>1. ASSUME NEW s \in StatesBelow(p, k), NEW d \in Declared(p)
        PROVE  DependencyVisit(h, s, d) = DependencyVisit(g, s, d)
    <3>1. [test |-> d, s |-> s] \in ArgsBelow(p, k)
      BY DependencyStep
    <3> QED
      BY <3>1 DEF DependencyVisit, SetupAgree
  <2> QED
    BY <2>1 DEF DependencySteps
<1>3. ParentSteps(p, k, h, t) = ParentSteps(p, k, g, t)
  <2>1. ASSUME NEW s \in StatesBelow(p, k), NEW q \in Declared(p)
        PROVE  ParentVisit(h, t, s, q) = ParentVisit(g, t, s, q)
    <3>1. [test |-> q, s |-> Link(t, s, q)] \in ArgsBelow(p, k)
      BY ParentStepType
    <3> QED
      BY <3>1 DEF ParentVisit, SetupAgree
  <2> QED
    BY <2>1 DEF ParentSteps
<1>4. Folded(DependencySteps(p, k, g), base, seq, StatesBelow(p, k), DependenciesVisited(g, base, seq))
  BY DependenciesFold
<1>5. Folded(DependencySteps(p, k, h), base, seq, StatesBelow(p, k), DependenciesVisited(h, base, seq))
  BY <1>1, DependenciesFold
<1>6. Folded(ParentSteps(p, k, g, t), base, seq, StatesBelow(p, k), ParentsVisited(g, t, base, seq))
  BY ParentVisitsFold
<1>7. Folded(ParentSteps(p, k, h, t), base, seq, StatesBelow(p, k), ParentsVisited(h, t, base, seq))
  BY <1>1, ParentVisitsFold
<1> QED
  BY <1>2, <1>3, <1>4, <1>5, <1>6, <1>7, FoldUnique

\* What the body does with one more test left than g is asked for.
LEMMA BodySelects ==
    ASSUME NEW p, Declaring(p), NEW k \in Nat, NEW g, Selects(p, k, g), NEW x \in ArgsBelow(p, k + 1)
    PROVE  /\ Later(p, x.s, SetupBody(p, g, x)) /\ x.test \in ToSet(SetupBody(p, g, x).tests)
           /\ \A h : SetupAgree(p, k, g, h) => SetupBody(p, h, x) = SetupBody(p, g, x)
<1> DEFINE t == x.test
           s == x.s
           e == Enlisted(s, t)
           b == ParentsVisited(g, t, e, p.parents[t])
           c == DependenciesVisited(g, b, p.depends[t])
<1>0. t \in Declared(p) /\ s \in SelStates(p) /\ Unselected(p, s) < k + 1
  BY DEF ArgsBelow, SelArgs
<1>1. CASE t \in ToSet(s.tests)
  <2>1. \A h : SetupBody(p, h, x) = s
    BY <1>1 DEF SetupBody
  <2> QED
    BY <1>0, <1>1, <2>1, LaterReflexive
<1>2. CASE t \notin ToSet(s.tests)
  <2>1. /\ e \in SelStates(p) /\ ToSet(e.tests) = ToSet(s.tests) \cup {t}
        /\ e.children = s.children /\ Unselected(p, e) = Unselected(p, s) - 1
    <3> HIDE DEF t, s
    <3> QED
      BY <1>0, <1>2, EnlistedFacts
  <2>2. p.parents[t] \in Seq(Declared(p)) /\ p.depends[t] \in Seq(Declared(p))
    BY <1>0 DEF Declaring
  <2>3. \A h : SetupBody(p, h, x)
                 = DependenciesVisited(h, ParentsVisited(h, t, e, p.parents[t]), p.depends[t])
    BY <1>2 DEF SetupBody
  <2> HIDE DEF t, s, e
  <2>4. e \in StatesBelow(p, k)
    <3>1. Unselected(p, s) \in Nat
      BY <1>0, FewerLeft DEF Declaring
    <3>2. Unselected(p, e) < k
      BY <1>0, <2>1, <3>1
    <3> QED
      BY <2>1, <3>2 DEF StatesBelow
  <2>5. t \in ToSet(e.tests)
    BY <2>1
  <2>6. /\ b \in StatesBelow(p, k) /\ Later(p, e, b)
        /\ \A q \in ParentSet(p, t) : q \in ToSet(b.tests) /\ t \in ToSet(b.children[q])
    BY <2>2, <2>4, <2>5, ParentsLater DEF ParentSet
  <2> HIDE DEF b
  <2>7. c \in StatesBelow(p, k) /\ Later(p, b, c) /\ ToSet(p.depends[t]) \subseteq ToSet(c.tests)
    BY <2>2, <2>6, DependenciesLater
  <2> HIDE DEF c
  <2>8. Later(p, e, c)
    BY <2>1, <2>6, <2>7, LaterTransitive
  <2>9. Complete(p, c, t)
    <3>1. ParentSet(p, t) \subseteq Declared(p)
      BY <2>2, ElementsOfSeq DEF ParentSet
    <3> QED
      BY <2>6, <2>7, <3>1 DEF Complete, Later
  <2>10. Proper(p, s) => Proper(p, e)
    BY <2>1 DEF Proper
  <2>11. Later(p, s, c)
    <3>1. \A u \in ToSet(c.tests) \ ToSet(s.tests) : u = t \/ u \in ToSet(c.tests) \ ToSet(e.tests)
      BY <2>1
    <3> QED
      BY <2>1, <2>8, <2>9, <2>10, <3>1 DEF Later
  <2>12. SetupBody(p, g, x) = c
    BY <2>3 DEF b, c
  <2>13. ASSUME NEW h, SetupAgree(p, k, g, h)
         PROVE  SetupBody(p, h, x) = c
    <3>1. ParentsVisited(h, t, e, p.parents[t]) = b
      BY <1>0, <2>2, <2>4, <2>13, VisitsLocal DEF b
    <3>2. DependenciesVisited(h, b, p.depends[t]) = c
      BY <1>0, <2>2, <2>6, <2>13, VisitsLocal DEF c
    <3> QED
      BY <2>3, <3>1, <3>2
  <2>14. x.s = s /\ x.test = t /\ t \in ToSet(c.tests)
    BY <2>5, <2>8 DEF s, t, Later
  <2> QED
    BY <2>11, <2>12, <2>13, <2>14
<1> QED
  BY <1>1, <1>2

\* There is no state with fewer than no tests to select.
LEMMA NoneBelow ==
    ASSUME NEW p, Declaring(p)
    PROVE  ArgsBelow(p, 0) = {}
<1>1. \A x \in SelArgs(p) : x.s \in SelStates(p)
  BY DEF SelArgs
<1>2. \A x \in SelArgs(p) : Unselected(p, x.s) \in Nat
  BY <1>1, FewerLeft DEF Declaring
<1> QED
  BY <1>2 DEF ArgsBelow

\* No state has more tests left than there are.
LEMMA AllBelow ==
    ASSUME NEW p, Declaring(p)
    PROVE  /\ Cardinality(Declared(p)) + 1 \in Nat
           /\ ArgsBelow(p, Cardinality(Declared(p)) + 1) = SelArgs(p)
           /\ StatesBelow(p, Cardinality(Declared(p)) + 1) = SelStates(p)
<1>1. Cardinality(Declared(p)) \in Nat
  BY FS_CardinalityType DEF Declaring
<1>2. ASSUME NEW s \in SelStates(p)
      PROVE  Unselected(p, s) < Cardinality(Declared(p)) + 1
  <2>1. /\ Cardinality(Declared(p) \ ToSet(s.tests)) <= Cardinality(Declared(p))
        /\ Cardinality(Declared(p) \ ToSet(s.tests)) \in Nat
    BY FS_Difference, FS_Subset, FS_CardinalityType DEF Declaring
  <2> QED
    BY <1>1, <2>1 DEF Unselected
<1>3. \A x \in SelArgs(p) : x.s \in SelStates(p)
  BY DEF SelArgs
<1> QED
  BY <1>1, <1>2, <1>3 DEF ArgsBelow, StatesBelow

\* The recursion of setup_test_parents has a solution, which selects what it is
\* asked to.
LEMMA SetupExists ==
    ASSUME NEW p, Declaring(p), NEW n \in Nat
    PROVE  \E g : SetupSolves(p, n, g) /\ Selects(p, n, g)
<1> DEFINE P == {k \in 0 .. n : \E g : SetupSolves(p, k, g) /\ Selects(p, k, g)}
<1>1. 0 \in P
  BY NoneBelow DEF SetupSolves, Selects
<1>2. ASSUME NEW k \in 0 .. n - 1, k \in P
      PROVE  k + 1 \in P
  <2>0. k \in Nat /\ k + 1 \in 0 .. n
    OBVIOUS
  <2>1. PICK g : SetupSolves(p, k, g) /\ Selects(p, k, g)
    BY <1>2
  <2> DEFINE h == [x \in ArgsBelow(p, k + 1) |-> SetupBody(p, g, x)]
  <2>2. ArgsBelow(p, k) \subseteq ArgsBelow(p, k + 1)
    <3>1. \A x \in SelArgs(p) : x.s \in SelStates(p)
      BY DEF SelArgs
    <3>2. \A x \in SelArgs(p) : Unselected(p, x.s) \in Nat
      BY <3>1, FewerLeft DEF Declaring
    <3> QED
      BY <2>0, <3>2 DEF ArgsBelow
  <2>3. SetupAgree(p, k, g, h)
    BY <2>1, <2>2 DEF SetupAgree, SetupSolves
  <2>4. \A x \in ArgsBelow(p, k + 1) : h[x] = SetupBody(p, g, x)
    OBVIOUS
  <2> HIDE DEF h
  <2>5. ASSUME NEW x \in ArgsBelow(p, k + 1)
        PROVE  /\ h[x] = SetupBody(p, h, x)
               /\ Later(p, x.s, h[x]) /\ x.test \in ToSet(h[x].tests)
    BY <2>0, <2>1, <2>3, <2>4, BodySelects
  <2>6. SetupSolves(p, k + 1, h) /\ Selects(p, k + 1, h)
    BY <2>5 DEF SetupSolves, Selects
  <2> QED
    BY <2>0, <2>6
<1>3. n \in P
  <2> HIDE DEF P
  <2>1. 0 .. n \subseteq P
    BY <1>1, <1>2, UpTo
  <2> QED
    BY <2>1
<1> QED
  BY <1>3

\* setup_test_parents is such a solution.
LEMMA SetupSelects ==
    ASSUME NEW p, Declaring(p)
    PROVE  Selects(p, Cardinality(Declared(p)) + 1, setup_test_parents(p))
<1> DEFINE n == Cardinality(Declared(p)) + 1
           Is(g) == g = [x \in SelArgs(p) |-> SetupBody(p, g, x)]
           setup == CHOOSE g : Is(g)
<1>0. n \in Nat /\ ArgsBelow(p, n) = SelArgs(p)
  BY AllBelow
<1>1. setup_test_parents(p) = setup
  BY DEF setup_test_parents, SelArgs, SelStates, SetupBody, ParentsVisited, DependenciesVisited,
         ParentVisit, DependencyVisit, Link, Enlisted, FoldLeft, MapThenFoldSet
<1> HIDE DEF n
<1>2. \E g : Is(g)
  <2>1. PICK g : SetupSolves(p, n, g) /\ Selects(p, n, g)
    BY <1>0, SetupExists
  <2> DEFINE h == [x \in SelArgs(p) |-> SetupBody(p, g, x)]
  <2>2. SetupAgree(p, n, g, h)
    BY <1>0, <2>1 DEF SetupAgree, SetupSolves
  <2>3. \A x \in SelArgs(p) : x \in ArgsBelow(p, n + 1)
    <3>1. \A x \in ArgsBelow(p, n) : Unselected(p, x.s) < n
      BY DEF ArgsBelow
    <3>2. \A x \in SelArgs(p) : x.s \in SelStates(p)
      BY DEF SelArgs
    <3>3. \A x \in SelArgs(p) : Unselected(p, x.s) \in Nat
      BY <3>2, FewerLeft DEF Declaring
    <3> QED
      BY <1>0, <3>1, <3>3 DEF ArgsBelow
  <2>4. \A x \in SelArgs(p) : h[x] = SetupBody(p, g, x)
    OBVIOUS
  <2>5. h = [x \in SelArgs(p) |-> h[x]]
    OBVIOUS
  <2> HIDE DEF h
  <2>6. \A x \in SelArgs(p) : h[x] = SetupBody(p, h, x)
    BY <1>0, <2>1, <2>2, <2>3, <2>4, BodySelects
  <2>7. Is(h)
    <3> DEFINE b == [x \in SelArgs(p) |-> SetupBody(p, h, x)]
    <3>1. b = [x \in SelArgs(p) |-> h[x]]
      BY <2>6
    <3> QED
      BY <2>5, <3>1
  <2> HIDE DEF Is
  <2> QED
    BY <2>7
<1>3. Is(setup)
  <2> HIDE DEF Is
  <2> QED
    BY <1>2
<1> HIDE DEF setup
<1>4. \A x \in SelArgs(p) : setup[x] = SetupBody(p, setup, x)
  BY <1>3
<1> DEFINE P == {k \in 0 .. n : Selects(p, k, setup)}
<1>5. 0 \in P
  BY <1>0, NoneBelow DEF Selects
<1>6. ASSUME NEW k \in 0 .. n - 1, k \in P
      PROVE  k + 1 \in P
  <2>1. k \in Nat /\ k + 1 \in 0 .. n
    BY <1>0
  <2>2. ASSUME NEW x \in ArgsBelow(p, k + 1)
        PROVE  Later(p, x.s, setup[x]) /\ x.test \in ToSet(setup[x].tests)
    <3>1. x \in SelArgs(p)
      BY DEF ArgsBelow
    <3> QED
      BY <1>4, <1>6, <2>1, <3>1, BodySelects
  <2> QED
    BY <2>1, <2>2 DEF Selects
<1>7. n \in P
  <2> HIDE DEF P
  <2>1. 0 .. n \subseteq P
    BY <1>0, <1>5, <1>6, UpTo
  <2> QED
    BY <1>0, <2>1
<1> QED
  BY <1>1, <1>7 DEF n

\* The lists of children are those of the parents, turned round.
ChildrenKnown(p) ==
    \A t \in Selected(p) :
        /\ p.children[t] \in Seq(Selected(p))
        /\ \A u \in Selected(p) : u \in ToSet(p.children[t]) <=> t \in ParentSet(p, u)

\* p is the program d with its tests selected.
Selection(d, p) ==
    /\ p.parents = d.parents /\ p.depends = d.depends
    /\ p.policy = d.policy /\ p.mentions = d.mentions
    /\ p.tests \in Seq(Selected(p)) /\ IsFiniteSet(Selected(p))
    /\ Selected(p) \subseteq Declared(d) /\ ToSet(d.declared) \subseteq Selected(p)
    /\ \A t \in Selected(p) : /\ p.parents[t] \in Seq(Selected(p))
                              /\ ToSet(p.depends[t]) \subseteq Selected(p)
    /\ ChildrenKnown(p)

\* setup_tests_parents selects the tests it is asked for with all their parents
\* and dependencies, and makes each test, once selected, a child of its parents.
THEOREM SelectionIsRight ==
    ASSUME NEW d, IsProgram(d)
    PROVE  Selection(d, setup_tests_parents(d))
<1> DEFINE p == setup_tests_parents(d)
           base == [tests |-> <<>>, children |-> [t \in Declared(d) |-> <<>>]]
           setup == setup_test_parents(d)
           s == DependenciesVisited(setup, base, d.declared)
           n == Cardinality(Declared(d)) + 1
<1>1. Declaring(d)
  BY DEF IsProgram, Declaring
<1>2. n \in Nat /\ ArgsBelow(d, n) = SelArgs(d) /\ StatesBelow(d, n) = SelStates(d)
  BY <1>1, AllBelow
<1>3. Selects(d, n, setup)
  BY <1>1, SetupSelects
<1>4. base \in SelStates(d) /\ ToSet(base.tests) = {} /\ Proper(d, base)
  <2>1. base.tests = <<>> /\ base.children = [t \in Declared(d) |-> <<>>]
    OBVIOUS
  <2>2. ToSet(<<>>) = {}
    BY DEF ToSet
  <2>3. base \in SelStates(d)
    BY DEF SelStates
  <2>4. \A t \in Declared(d) : base.children[t] = <<>>
    BY <2>1
  <2>5. Proper(d, base)
    BY <2>2, <2>4 DEF Proper
  <2> QED
    BY <2>1, <2>2, <2>3, <2>5
<1>5. p = [f \in DOMAIN d \cup {"tests", "children"} |->
             IF f = "tests" THEN s.tests ELSE IF f = "children" THEN s.children ELSE d[f]]
  BY DEF setup_tests_parents, DependenciesVisited, DependencyVisit, FoldLeft, MapThenFoldSet
<1> HIDE DEF base, setup, n
<1>6. s \in SelStates(d) /\ Later(d, base, s) /\ ToSet(d.declared) \subseteq ToSet(s.tests)
  <2>1. base \in StatesBelow(d, n)
    BY <1>2, <1>4
  <2>2. d.declared \in Seq(Declared(d))
    BY DEF IsProgram
  <2> QED
    BY <1>1, <1>2, <1>3, <2>1, <2>2, DependenciesLater
<1> HIDE DEF s, p
<1>7. /\ p.tests = s.tests /\ p.children = s.children
      /\ p.parents = d.parents /\ p.depends = d.depends
      /\ p.policy = d.policy /\ p.mentions = d.mentions
  BY <1>5 DEF IsProgram
<1>8. /\ s.tests \in Seq(Declared(d)) /\ ToSet(s.tests) \subseteq Declared(d)
      /\ \A t \in Declared(d) : s.children[t] \in Seq(Declared(d))
  BY <1>6, SelFacts
<1>9. Selected(p) = ToSet(s.tests)
  BY <1>7 DEF Selected
<1>10. p.tests \in Seq(Selected(p))
  <2> DEFINE q == s.tests
  <2> HIDE DEF q
  <2>1. q \in Seq(Declared(d)) /\ Selected(p) = ToSet(q) /\ p.tests = q
    BY <1>7, <1>8, <1>9 DEF q
  <2> QED
    BY <2>1, ElementsOfSeq
<1>11. IsFiniteSet(Selected(p)) /\ Selected(p) \subseteq Declared(d)
  <2>1. IsFiniteSet(Declared(d))
    BY DEF IsProgram
  <2> QED
    BY <1>8, <1>9, <2>1, FS_Subset
<1>12. \A u \in Selected(p) : Complete(d, s, u)
  BY <1>4, <1>6, <1>9 DEF Later
<1>13. Proper(d, s)
  BY <1>4, <1>6 DEF Later
<1>14. \A t \in Declared(d) : /\ ParentSet(p, t) = ParentSet(d, t)
                              /\ d.parents[t] \in Seq(Declared(d))
                              /\ ToSet(d.parents[t]) = ParentSet(d, t)
  BY <1>7 DEF ParentSet, IsProgram
<1>15. ASSUME NEW t \in Selected(p)
       PROVE  /\ p.parents[t] \in Seq(Selected(p)) /\ ToSet(p.depends[t]) \subseteq Selected(p)
              /\ p.children[t] \in Seq(Selected(p))
              /\ \A u \in Selected(p) : u \in ToSet(p.children[t]) <=> t \in ParentSet(p, u)
  <2>1. t \in Declared(d) /\ Complete(d, s, t)
    BY <1>11, <1>12
  <2>2. ParentSet(d, t) \subseteq Selected(p)
    BY <1>9, <2>1 DEF Complete
  <2>3. d.parents[t] \in Seq(Selected(p))
    <3> DEFINE q == d.parents[t]
    <3>1. q \in Seq(Declared(d)) /\ ToSet(q) \subseteq Selected(p)
      BY <1>14, <2>1, <2>2
    <3> HIDE DEF q
    <3>2. q \in Seq(Selected(p))
      BY <3>1, ElementsOfSeq
    <3> QED
      BY <3>2 DEF q
  <2>4. ToSet(s.children[t]) \subseteq Selected(p)
    BY <1>9, <1>13, <2>1 DEF Proper
  <2>5. s.children[t] \in Seq(Selected(p))
    <3> DEFINE q == s.children[t]
    <3>1. q \in Seq(Declared(d)) /\ ToSet(q) \subseteq Selected(p)
      BY <1>8, <2>1, <2>4
    <3> HIDE DEF q
    <3>2. q \in Seq(Selected(p))
      BY <3>1, ElementsOfSeq
    <3> QED
      BY <3>2 DEF q
  <2>6. ASSUME NEW u \in Selected(p)
        PROVE  u \in ToSet(s.children[t]) <=> t \in ParentSet(d, u)
    <3>1. Complete(d, s, u)
      BY <1>12
    <3>2. t \in ParentSet(d, u) => u \in ToSet(s.children[t])
      BY <3>1 DEF Complete
    <3>3. u \in ToSet(s.children[t]) => t \in ParentSet(d, u)
      BY <1>13, <2>1 DEF Proper
    <3> QED
      BY <3>2, <3>3
  <2>7. ToSet(d.depends[t]) \subseteq Selected(p)
    BY <1>9, <2>1 DEF Complete
  <2> QED
    BY <1>7, <1>11, <1>14, <2>3, <2>5, <2>6, <2>7
<1>16. ChildrenKnown(p)
  BY <1>15 DEF ChildrenKnown
<1> QED
  BY <1>6, <1>7, <1>9, <1>10, <1>11, <1>15, <1>16 DEF Selection, p


----------------------------------------------------------------------------
(* The program the walks go through                                        *)

\* Every set of tests has one that no test of the set is a child of.
LEMMA LowestTest ==
    ASSUME NEW p, Ordered(p), NEW S \in SUBSET Selected(p), S # {}
    PROVE  \E t \in S : \A u \in S : t \notin ParentSet(p, u)
<1> DEFINE n == Cardinality(Selected(p))
           above == [t \in Selected(p) |-> Cardinality(Ancestors(p, t))]
           T == {n - above[t] : t \in S}
<1>1. n \in Nat /\ IsFiniteSet(Selected(p))
  BY FS_CardinalityType DEF Ordered
<1>2. \A t \in Selected(p) : above[t] \in Nat /\ above[t] <= n
  <2> TAKE t \in Selected(p)
  <2>1. Ancestors(p, t) \subseteq Selected(p)
    BY AncestorFacts
  <2> QED
    BY <1>1, <2>1, FS_Subset, FS_CardinalityType
<1>3. ASSUME NEW t \in S, NEW u \in S, t \in ParentSet(p, u)
      PROVE  above[t] < above[u]
  <2>1. /\ t \in Ancestors(p, u) /\ u \in Ancestors(p, u) /\ Ancestors(p, u) \subseteq Selected(p)
        /\ Ancestors(p, t) \subseteq Ancestors(p, u) /\ u \notin Ancestors(p, t)
    BY <1>3, AncestorFacts, AncestorsStep, NoOwnAncestor
  <2>2. IsFiniteSet(Ancestors(p, u))
    BY <1>1, <2>1, FS_Subset
  <2>3. Cardinality(Ancestors(p, u) \ {u}) = Cardinality(Ancestors(p, u)) - 1
    BY <2>1, <2>2, FS_RemoveElement
  <2>4. Ancestors(p, t) \subseteq Ancestors(p, u) \ {u} /\ IsFiniteSet(Ancestors(p, u) \ {u})
    BY <2>1, <2>2, FS_RemoveElement
  <2>5. Cardinality(Ancestors(p, t)) <= Cardinality(Ancestors(p, u) \ {u})
    BY <2>4, FS_Subset
  <2>6. above[t] \in Nat /\ above[u] \in Nat /\ above[t] <= above[u] - 1
    BY <1>2, <2>3, <2>5
  <2> HIDE DEF above
  <2> QED
    BY <2>6
<1> HIDE DEF n, above
<1>4. T \subseteq Nat
  BY <1>1, <1>2
<1>5. T # {}
  OBVIOUS
<1>6. PICK x \in T : \A y \in T : x <= y
  <2> HIDE DEF T
  <2> QED
    BY <1>4, <1>5, SmallestNumber
<1>7. PICK t \in S : x = n - above[t]
  OBVIOUS
<1>8. ASSUME NEW u \in S, t \in ParentSet(p, u)
      PROVE  FALSE
  <2>1. above[t] < above[u] /\ above[t] \in Nat /\ above[u] \in Nat
    BY <1>2, <1>3, <1>8
  <2>2. n - above[u] \in T
    OBVIOUS
  <2>3. n - above[t] <= n - above[u]
    BY <1>6, <1>7, <2>2
  <2> QED
    BY <1>1, <2>1, <2>3
<1> QED
  BY <1>8

\* What holds of a test whenever it holds of its children holds of all tests.
LEMMA FromChildren ==
    ASSUME NEW p, Ordered(p), ChildrenKnown(p), NEW A \in SUBSET Selected(p),
           \A t \in Selected(p) : ToSet(p.children[t]) \subseteq A => t \in A
    PROVE  A = Selected(p)
<1> DEFINE B == Selected(p) \ A
<1> SUFFICES ASSUME B # {} PROVE FALSE
  OBVIOUS
<1>1. PICK t \in B : \A u \in B : t \notin ParentSet(p, u)
  BY LowestTest
<1>2. ToSet(p.children[t]) \subseteq Selected(p)
  BY ElementsOfSeq DEF ChildrenKnown
<1>3. \A u \in ToSet(p.children[t]) : t \in ParentSet(p, u)
  BY <1>2 DEF ChildrenKnown
<1> QED
  BY <1>1, <1>2, <1>3

\* A test above f that is not f has a child above f or f itself.
LEMMA ChildTowards ==
    ASSUME NEW p, Ordered(p), ChildrenKnown(p), NEW f \in Selected(p),
           NEW t \in Ancestors(p, f), t # f
    PROVE  \E u \in ToSet(p.children[t]) : u \in Ancestors(p, f)
<1> DEFINE S == {f} \cup {v \in Selected(p) : \E u \in Ancestors(p, f) : v \in ParentSet(p, u)}
<1>1. Ancestors(p, f) \subseteq Selected(p) /\ f \in Ancestors(p, f) /\ Upward(p, Ancestors(p, f))
  BY AncestorFacts
<1>2. S \subseteq Ancestors(p, f)
  BY <1>1 DEF Upward
<1>3. Upward(p, S)
  <2> SUFFICES ASSUME NEW u \in S, NEW v \in ParentSet(p, u)
               PROVE  v \in S
    BY DEF Upward
  <2>1. u \in Ancestors(p, f) /\ v \in Ancestors(p, f)
    BY <1>1, <1>2 DEF Upward
  <2> QED
    BY <1>1, <2>1
<1>4. Ancestors(p, f) \subseteq S
  BY <1>1, <1>2, <1>3, AncestorsIn
<1>5. PICK u \in Ancestors(p, f) : t \in ParentSet(p, u)
  BY <1>4
<1>6. u \in ToSet(p.children[t])
  BY <1>1, <1>5 DEF ChildrenKnown
<1> QED
  BY <1>5, <1>6

\* The elements of two sequences, one behind the other.
LEMMA ElementsOfConcat ==
    ASSUME NEW S, NEW s \in Seq(S), NEW q \in Seq(S)
    PROVE  ToSet(s \o q) = ToSet(s) \cup ToSet(q)
<1> DEFINE n == Len(s)
           m == Len(q)
           a == s \o q
<1>1. n \in Nat /\ m \in Nat /\ DOMAIN s = 1 .. n /\ DOMAIN q = 1 .. m /\ DOMAIN a = 1 .. n + m
  OBVIOUS
<1>2. \A i \in 1 .. n : a[i] = s[i]
  OBVIOUS
<1>3. \A i \in n + 1 .. n + m : a[i] = q[i - n]
  OBVIOUS
<1> HIDE DEF a, n, m
<1>4. \A i \in 1 .. n + m : i \in 1 .. n \/ (i \in n + 1 .. n + m /\ i - n \in 1 .. m)
  BY <1>1
<1>5. \A i \in 1 .. n : i \in 1 .. n + m
  BY <1>1
<1>6. ASSUME NEW i \in 1 .. m
      PROVE  \E j \in 1 .. n + m : a[j] = q[i]
  <2>1. PICK k \in n + 1 .. n + m : k - n = i
    BY <1>1
  <2>2. k \in 1 .. n + m
    BY <1>1
  <2> QED
    BY <1>3, <2>1, <2>2
<1>7. /\ ToSet(a) = {a[i] : i \in 1 .. n + m} /\ ToSet(s) = {s[i] : i \in 1 .. n}
      /\ ToSet(q) = {q[i] : i \in 1 .. m}
  BY <1>1 DEF ToSet
<1>8. ASSUME NEW x \in ToSet(a)
      PROVE  x \in ToSet(s) \/ x \in ToSet(q)
  <2>1. PICK i \in 1 .. n + m : x = a[i]
    BY <1>7
  <2> QED
    BY <1>2, <1>3, <1>4, <1>7, <2>1
<1>9. ToSet(s) \subseteq ToSet(a)
  BY <1>2, <1>5, <1>7
<1>10. ToSet(q) \subseteq ToSet(a)
  BY <1>6, <1>7
<1>11. ToSet(a) = ToSet(s) \cup ToSet(q)
  BY <1>8, <1>9, <1>10
<1> QED
  BY <1>11 DEF a

\* Three sequences one behind the other, put together in either order.
Associates(a, b, d) == (a \o b) \o d = a \o (b \o d)

\* Either order gives the same sequence.
LEMMA ConcatTwice ==
    ASSUME NEW S, NEW a \in Seq(S), NEW b \in Seq(S), NEW d \in Seq(S)
    PROVE  Associates(a, b, d)
BY ConcatAssociative DEF Associates

\* A set of sequences that can be extended in front by each of D can be extended
\* by any sequence of them.
LEMMA PrependAll ==
    ASSUME NEW S, NEW A \in SUBSET Seq(S), NEW D \in SUBSET S,
           \A t \in D, q \in A : <<t>> \o q \in A
    PROVE  \A c \in Seq(D), q \in A : c \o q \in A
<1> TAKE c \in Seq(D), q \in A
<1> DEFINE n == Len(c)
           P == {i \in 0 .. n : \A m \in 1 .. n + 1 : m = n - i + 1 => SubSeq(c, m, n) \o q \in A}
<1>0. n \in Nat /\ c \in Seq(S) /\ q \in Seq(S) /\ \A i \in 1 .. n : c[i] \in D
  OBVIOUS
<1>1. 0 \in P
  <2>1. SubSeq(c, n + 1, n) = <<>>
    BY <1>0
  <2>2. <<>> \o q = q
    BY <1>0
  <2>3. \A m \in 1 .. n + 1 : m = n - 0 + 1 => m = n + 1
    BY <1>0
  <2>4. \A m \in 1 .. n + 1 : m = n - 0 + 1 => SubSeq(c, m, n) \o q \in A
    BY <2>1, <2>2, <2>3, Zenon
  <2> QED
    BY <1>0, <2>4
<1>2. ASSUME NEW i \in 0 .. n - 1, i \in P
      PROVE  i + 1 \in P
  <2> SUFFICES ASSUME NEW m \in 1 .. n + 1, m = n - (i + 1) + 1
               PROVE  SubSeq(c, m, n) \o q \in A
    BY <1>0
  <2>1. m \in 1 .. n /\ n \in m .. n /\ m + 1 \in 1 .. n + 1 /\ m + 1 = n - i + 1
    BY <1>0
  <2>2. SubSeq(c, m, n) = <<c[m]>> \o SubSeq(c, m + 1, n)
    BY <1>0, <2>1, SubSeqRecursiveFirst
  <2>3. SubSeq(c, m + 1, n) \in Seq(S)
    BY <1>0, <2>1
  <2>4. c[m] \in D /\ c[m] \in S /\ <<c[m]>> \in Seq(S)
    BY <1>0, <2>1
  <2>5. (<<c[m]>> \o SubSeq(c, m + 1, n)) \o q = <<c[m]>> \o (SubSeq(c, m + 1, n) \o q)
    <3> DEFINE head == <<c[m]>>
               tail == SubSeq(c, m + 1, n)
    <3>1. head \in Seq(S) /\ tail \in Seq(S) /\ q \in Seq(S)
      BY <1>0, <2>3, <2>4
    <3> HIDE DEF head, tail
    <3>2. Associates(head, tail, q)
      BY <3>1, ConcatTwice
    <3> QED
      BY <3>2 DEF Associates, head, tail
  <2>6. SubSeq(c, m + 1, n) \o q \in A
    BY <1>2, <2>1
  <2> QED
    BY <2>2, <2>4, <2>5, <2>6
<1>3. n \in P
  <2> HIDE DEF P
  <2>1. 0 .. n \subseteq P
    BY <1>0, <1>1, <1>2, UpTo
  <2> QED
    BY <1>0, <2>1
<1>4. SubSeq(c, 1, n) = c /\ 1 \in 1 .. n + 1 /\ 1 = n - n + 1
  BY <1>0
<1> QED
  BY <1>3, <1>4

----------------------------------------------------------------------------
(* get_topmost_uncached_tests                                              *)

\* The tests without parents, from which the search goes down.
RootAdded(p, roots, t) == IF p.parents[t] = <<>> THEN Append(roots, t) ELSE roots

Roots(p) == FoldLeft(LAMBDA roots, t : RootAdded(p, roots, t), <<>>, p.tests)

RootStep(p) == [x \in Seq(Selected(p)) \X Selected(p) |-> RootAdded(p, x[1], x[2])]

\* The tests without parents are collected one after the other.
LEMMA RootsFold ==
    ASSUME NEW p, p.tests \in Seq(Selected(p))
    PROVE  Folded(RootStep(p), <<>>, p.tests, Seq(Selected(p)), Roots(p))
<1> DEFINE F == RootStep(p)
           W == Seq(Selected(p))
           T == Selected(p)
           seq == p.tests
           Is(h) == h = [s \in SUBSET DOMAIN seq |->
                           IF s = {} THEN <<>> ELSE RootAdded(p, h[s \ {Max(s)}], seq[Max(s)])]
           k == CHOOSE h : Is(h)
<1>1. /\ F \in [W \X T -> W]
      /\ \A w \in W, q \in T : F[<<w, q>>] = RootAdded(p, w, q)
  BY DEF RootStep, RootAdded
<1>2. <<>> \in W /\ seq \in Seq(T)
  OBVIOUS
<1> HIDE DEF F, W, T
<1>3. PICK h \in [SUBSET DOMAIN seq -> W] : Folds(F, <<>>, seq, W, T, h)
  BY <1>1, <1>2, FoldExists
<1>4. Is(h)
  <2>1. \A s \in SUBSET DOMAIN seq :
            h[s] = IF s = {} THEN <<>> ELSE RootAdded(p, h[s \ {Max(s)}], seq[Max(s)])
    BY <1>1, <1>3 DEF Folds
  <2> QED
    BY <1>3, <2>1
<1>5. Is(k)
  <2> HIDE DEF Is
  <2> QED
    BY <1>4
<1>6. Roots(p) = k[DOMAIN seq]
  BY DEF Roots, FoldLeft, MapThenFoldSet
<1> HIDE DEF k
<1>7. k[{}] = <<>>
  BY <1>5
<1>8. ASSUME NEW s \in SUBSET DOMAIN seq, s # {}, k[s \ {Max(s)}] \in W
      PROVE  k[s] = F[<<k[s \ {Max(s)}], seq[Max(s)]>>]
  <2>1. k[s] = RootAdded(p, k[s \ {Max(s)}], seq[Max(s)])
    BY <1>5, <1>8
  <2>2. seq[Max(s)] \in T
    BY <1>3, <1>8 DEF Folds
  <2> QED
    BY <1>1, <1>8, <2>1, <2>2
<1>9. Follows(F, <<>>, seq, W, k)
  BY <1>7, <1>8 DEF Follows
<1>10. Folded(F, <<>>, seq, W, k[DOMAIN seq])
  BY <1>1, <1>2, <1>9, FoldSteps
<1> QED
  BY <1>6, <1>10 DEF F, W

\* The walk starts from the tests without parents.
LEMMA AllRoots ==
    ASSUME NEW p, p.tests \in Seq(Selected(p))
    PROVE  /\ Roots(p) \in Seq(Selected(p))
           /\ \A t \in Selected(p) : p.parents[t] = <<>> => t \in ToSet(Roots(p))
<1> DEFINE n == Len(p.tests)
           W == Seq(Selected(p))
<1>0. n \in Nat /\ \A i \in 1 .. n : p.tests[i] \in Selected(p)
  OBVIOUS
<1>1. PICK r \in [0 .. n -> W] : Trace(RootStep(p), <<>>, p.tests, r) /\ Roots(p) = r[n]
  BY RootsFold DEF Folded
<1> DEFINE P == {i \in 0 .. n : \A l \in 1 .. i :
                    p.parents[p.tests[l]] = <<>> => p.tests[l] \in ToSet(r[i])}
<1>2. 0 \in P
  BY <1>0
<1>3. ASSUME NEW i \in 0 .. n - 1, i \in P
      PROVE  i + 1 \in P
  <2>1. i + 1 \in 1 .. n /\ i + 1 - 1 = i /\ i + 1 \in 0 .. n /\ i \in 0 .. n
    BY <1>0
  <2>2. r[i] \in W /\ p.tests[i + 1] \in Selected(p)
    BY <1>0, <1>1, <2>1
  <2>3. r[i + 1] = RootStep(p)[<<r[i], p.tests[i + 1]>>]
    BY <1>1, <2>1 DEF Trace
  <2>4. r[i + 1] = RootAdded(p, r[i], p.tests[i + 1])
    BY <2>2, <2>3 DEF RootStep
  <2> DEFINE t == p.tests[i + 1]
             a == r[i]
  <2>5. t \in Selected(p) /\ a \in Seq(Selected(p))
    BY <2>2
  <2> HIDE DEF t, a
  <2>6. /\ ToSet(a) \subseteq ToSet(RootAdded(p, a, t))
        /\ p.parents[t] = <<>> => t \in ToSet(RootAdded(p, a, t))
    <3>1. ToSet(Append(a, t)) = ToSet(a) \cup {t}
      BY <2>5, ElementsOfAppend
    <3> QED
      BY <3>1 DEF RootAdded
  <2>7. /\ ToSet(r[i]) \subseteq ToSet(r[i + 1])
        /\ p.parents[p.tests[i + 1]] = <<>> => p.tests[i + 1] \in ToSet(r[i + 1])
    BY <2>4, <2>6 DEF t, a
  <2>8. \A l \in 1 .. i + 1 : l = i + 1 \/ l \in 1 .. i
    BY <2>1
  <2>9. \A l \in 1 .. i : p.parents[p.tests[l]] = <<>> => p.tests[l] \in ToSet(r[i])
    BY <1>3
  <2>10. \A l \in 1 .. i + 1 : p.parents[p.tests[l]] = <<>> => p.tests[l] \in ToSet(r[i + 1])
    BY <2>7, <2>8, <2>9
  <2> QED
    BY <2>1, <2>10
<1>4. n \in P
  <2> HIDE DEF P
  <2>1. 0 .. n \subseteq P
    BY <1>0, <1>2, <1>3, UpTo
  <2> QED
    BY <1>0, <2>1
<1>5. \A t \in Selected(p) : \E l \in 1 .. n : t = p.tests[l]
  BY ElementsOfSeq DEF ToSet, Selected
<1> QED
  BY <1>0, <1>1, <1>4, <1>5

TopStates(p) == [todo : Seq(Selected(p)), result : Seq(Selected(p))]
TopFinal(p) == {s \in TopStates(p) : s.todo = <<>>}

\* One step of the walk.
TopStep(p, ok, s) ==
    LET t == Head(s.todo)
        rest == Tail(s.todo)
    IN  IF ~(ParentSet(p, t) \subseteq ok) THEN [s EXCEPT !.todo = rest]
        ELSE IF t \in ok THEN [s EXCEPT !.todo = get_children(p, t) \o rest]
        ELSE [todo |-> rest, result |-> Append(s.result, t)]

InFront(t, q) == <<t>> \o q
TopState(q, result) == [todo |-> q, result |-> result]

ParentsIn(p, t, ok) == ParentSet(p, t) \subseteq ok

\* A step with t in front of rest.
LEMMA TopSteps ==
    ASSUME NEW p, ChildrenKnown(p), NEW ok, NEW t \in Selected(p), NEW rest \in Seq(Selected(p)),
           NEW result \in Seq(Selected(p))
    PROVE  /\ TopState(InFront(t, rest), result) \in TopStates(p) \ TopFinal(p)
           /\ ParentsIn(p, t, ok) \/
                  TopStep(p, ok, TopState(InFront(t, rest), result)) = TopState(rest, result)
           /\ ParentsIn(p, t, ok) /\ t \in ok =>
                  TopStep(p, ok, TopState(InFront(t, rest), result)) = TopState(p.children[t] \o rest, result)
           /\ ParentsIn(p, t, ok) /\ t \notin ok =>
                  TopStep(p, ok, TopState(InFront(t, rest), result)) = TopState(rest, Append(result, t))
           /\ TopStep(p, ok, TopState(InFront(t, rest), result)) \in TopStates(p)
           /\ TopStep(p, ok, TopState(InFront(t, rest), result)) \in {TopState(rest, result),
                                     TopState(p.children[t] \o rest, result),
                                     TopState(rest, Append(result, t))}
<1> DEFINE s == TopState(InFront(t, rest), result)
<1>1. /\ <<t>> \o rest \in Seq(Selected(p)) /\ <<t>> \o rest # <<>>
      /\ Head(<<t>> \o rest) = t /\ Tail(<<t>> \o rest) = rest
  OBVIOUS
<1>2. s.todo = <<t>> \o rest /\ s.result = result /\ s \in TopStates(p) \ TopFinal(p)
  BY <1>1 DEF TopStates, TopFinal, TopState, InFront
<1>3. TopStep(p, ok, s) =
                IF ~(ParentSet(p, t) \subseteq ok) THEN TopState(rest, result)
                ELSE IF t \in ok THEN TopState(p.children[t] \o rest, result)
                ELSE TopState(rest, Append(result, t))
  <2> DEFINE a == <<t>> \o rest
  <2>1. s = TopState(a, result) /\ Head(s.todo) = t /\ Tail(s.todo) = rest
    BY <1>1, <1>2 DEF InFront
  <2> HIDE DEF a, s
  <2>2. \A q : [s EXCEPT !.todo = q] = TopState(q, result)
    BY <2>1 DEF TopState
  <2>3. s.result = result
    BY <2>1 DEF TopState
  <2>4. \A q, r : [todo |-> q, result |-> r] = TopState(q, r)
    BY DEF TopState
  <2> QED
    BY <2>1, <2>2, <2>3, <2>4, Zenon DEF TopStep, get_children
<1>4. p.children[t] \in Seq(Selected(p))
  BY DEF ChildrenKnown
<1>5. p.children[t] \o rest \in Seq(Selected(p)) /\ Append(result, t) \in Seq(Selected(p))
  BY <1>4
<1>6. \A q, r \in Seq(Selected(p)) : TopState(q, r) \in TopStates(p)
  BY DEF TopStates, TopState
<1> DEFINE c == p.children[t] \o rest
           f == Append(result, t)
<1>7. c \in Seq(Selected(p)) /\ f \in Seq(Selected(p))
  BY <1>5
<1> HIDE DEF c, f
<1>8. \/ TopStep(p, ok, s) = TopState(rest, result)
      \/ TopStep(p, ok, s) = TopState(c, result)
      \/ TopStep(p, ok, s) = TopState(rest, f)
  BY <1>3, Zenon DEF c, f
<1>9. TopStep(p, ok, s) \in TopStates(p)
  BY <1>6, <1>7, <1>8
<1>10. TopStep(p, ok, s) \in {TopState(rest, result),
                                     TopState(p.children[t] \o rest, result),
                                     TopState(rest, Append(result, t))}
  BY <1>8, Zenon DEF c, f
<1>11. TopStep(p, ok, s) =
                IF ~ParentsIn(p, t, ok) THEN TopState(rest, result)
                ELSE IF t \in ok THEN TopState(p.children[t] \o rest, result)
                ELSE TopState(rest, Append(result, t))
  BY <1>3 DEF ParentsIn
<1> QED
  BY <1>2, <1>9, <1>10, <1>11

\* A state that is not final has a test in front.
LEMMA TopFront ==
    ASSUME NEW p, NEW s \in TopStates(p) \ TopFinal(p)
    PROVE  \E t \in Selected(p), rest \in Seq(Selected(p)) :
               /\ s = TopState(InFront(t, rest), s.result)
               /\ s.todo = InFront(t, rest)
               /\ s.result \in Seq(Selected(p))
<1>1. s.todo \in Seq(Selected(p)) /\ s.todo # <<>> /\ s.result \in Seq(Selected(p))
  BY DEF TopStates, TopFinal
<1> DEFINE q == s.todo
<1> HIDE DEF q
<1>2. q \in Seq(Selected(p)) /\ q # <<>>
  BY <1>1 DEF q
<1>3. Head(q) \in Selected(p) /\ Tail(q) \in Seq(Selected(p)) /\ q = InFront(Head(q), Tail(q))
  BY <1>2 DEF InFront
<1>4. s = TopState(s.todo, s.result)
  BY DEF TopStates, TopState
<1> QED
  BY <1>1, <1>3, <1>4 DEF q

\* The walk down from the tests without parents ends.
LEMMA TopEnds ==
    ASSUME NEW p, Ordered(p), ChildrenKnown(p), NEW ok
    PROVE  Terminates(TopStates(p), TopFinal(p),
                      [s \in TopStates(p) \ TopFinal(p) |-> TopStep(p, ok, s)])
<1> DEFINE S == Selected(p)
           next == [s \in TopStates(p) \ TopFinal(p) |-> TopStep(p, ok, s)]
<1> SUFFICES ASSUME NEW C \in SUBSET TopStates(p), TopFinal(p) \subseteq C,
                    \A s \in TopStates(p) \ TopFinal(p) : next[s] \in C => s \in C
             PROVE  TopStates(p) \subseteq C
  BY DEF Terminates
<1>0. \A s \in TopStates(p) \ TopFinal(p) : TopStep(p, ok, s) \in C => s \in C
  OBVIOUS
<1> HIDE DEF next
\* The lists that can be worked off, whatever has been found before.
<1> DEFINE A == {q \in Seq(S) : \A result \in Seq(S) : TopState(q, result) \in C}
           B == {t \in S : \A q \in A : InFront(t, q) \in A}
<1>1. <<>> \in A
  <2>1. \A result \in Seq(S) : TopState(<<>>, result) \in TopFinal(p)
    BY DEF TopStates, TopFinal, TopState
  <2> QED
    BY <2>1
<1>2. ASSUME NEW D \in SUBSET S, \A t \in D : \A q \in A : InFront(t, q) \in A
      PROVE  \A c \in Seq(D), q \in A : c \o q \in A
  <2>1. A \in SUBSET Seq(S)
    OBVIOUS
  <2> HIDE DEF A, S
  <2> QED
    BY <1>2, <2>1, PrependAll DEF InFront
<1>3. ASSUME NEW t \in S, ToSet(p.children[t]) \subseteq B
      PROVE  t \in B
  <2> SUFFICES ASSUME NEW q \in A
               PROVE  InFront(t, q) \in A
    OBVIOUS
  <2>1. q \in Seq(S) /\ \A result \in Seq(S) : TopState(q, result) \in C
    OBVIOUS
  <2>2. p.children[t] \in Seq(ToSet(p.children[t])) /\ ToSet(p.children[t]) \in SUBSET S
    BY ElementsOfSeq DEF ChildrenKnown
  <2>3. \A u \in ToSet(p.children[t]) : \A r \in A : InFront(u, r) \in A
    BY <1>3
  <2>4. p.children[t] \o q \in A
    <3> HIDE DEF A, S, B
    <3> QED
      BY <1>2, <2>2, <2>3
  <2>5. \A result \in Seq(S) : TopState(p.children[t] \o q, result) \in C
    BY <2>4
  <2>6. ASSUME NEW result \in Seq(S)
        PROVE  TopState(InFront(t, q), result) \in C
    <3> DEFINE s == TopState(InFront(t, q), result)
    <3> DEFINE Steps == {TopState(q, result),
                         TopState(p.children[t] \o q, result),
                         TopState(q, Append(result, t))}
    <3>1. s \in TopStates(p) \ TopFinal(p) /\ TopStep(p, ok, s) \in Steps
      <4>1. /\ t \in Selected(p) /\ q \in Seq(Selected(p)) /\ result \in Seq(Selected(p))
            /\ s = TopState(InFront(t, q), result)
        BY <2>1
      <4> HIDE DEF s, A, B, S
      <4> QED
        BY <4>1, TopSteps
    <3>2. Append(result, t) \in Seq(S)
      OBVIOUS
    <3>3. Steps \subseteq C
      <4>1. TopState(q, result) \in C
        BY <2>1
      <4>2. TopState(p.children[t] \o q, result) \in C
        BY <2>5
      <4>3. TopState(q, Append(result, t)) \in C
        BY <2>1, <3>2
      <4> QED
        BY <4>1, <4>2, <4>3, Zenon
    <3>4. TopStep(p, ok, s) \in C
      BY <3>1, <3>3, Zenon
    <3> QED
      BY <1>0, <3>1, <3>4
  <2>7. InFront(t, q) \in Seq(S)
    BY <2>1 DEF InFront
  <2> QED
    BY <2>6, <2>7
<1>4. B = S
  <2>1. B \in SUBSET Selected(p)
    OBVIOUS
  <2>2. \A t \in Selected(p) : ToSet(p.children[t]) \subseteq B => t \in B
    BY <1>3
  <2> HIDE DEF B
  <2> QED
    BY <2>1, <2>2, FromChildren
<1>5. \A c \in Seq(S) : c \in A
  <2>1. \A t \in S : \A q \in A : InFront(t, q) \in A
    BY <1>4
  <2>2. \A c \in Seq(S) : c \o <<>> \in A
    <3> HIDE DEF A, B
    <3> QED
      BY <1>1, <1>2, <2>1
  <2>3. \A c \in Seq(S) : c \o <<>> = c
    OBVIOUS
  <2> HIDE DEF A, B
  <2> QED
    BY <2>2, <2>3
<1>6. ASSUME NEW s \in TopStates(p)
      PROVE  s \in C
  <2>1. s.todo \in Seq(S) /\ s.result \in Seq(S) /\ s = TopState(s.todo, s.result)
    BY DEF TopStates, TopState
  <2>2. s.todo \in A
    BY <1>5, <2>1
  <2> QED
    BY <2>1, <2>2
<1> QED
  BY <1>6

\* The walk computes what its loop does.
LEMMA TopLoop ==
    ASSUME NEW p, Ordered(p), ChildrenKnown(p), NEW ok
    PROVE  \E g : /\ \A s \in TopFinal(p) : g[s] = s.result
                  /\ \A s \in TopStates(p) \ TopFinal(p) : g[s] = g[TopStep(p, ok, s)]
                  /\ get_topmost_uncached_tests(p, ok) = g[TopState(Roots(p), <<>>)]
<1> DEFINE X == TopStates(p)
           Final == TopFinal(p)
           next == [s \in X \ Final |-> TopStep(p, ok, s)]
           out == [s \in Final |-> s.result]
           Is(g) == g = [s \in X |-> IF s.todo = <<>> THEN s.result ELSE g[TopStep(p, ok, s)]]
           g == CHOOSE g : Is(g)
<1>1. get_topmost_uncached_tests(p, ok) = g[TopState(Roots(p), <<>>)]
  BY DEF get_topmost_uncached_tests, TopStep, TopStates, TopState, Roots, RootAdded, FoldLeft, MapThenFoldSet
<1>2. next \in [X \ Final -> X]
  <2> SUFFICES ASSUME NEW s \in X \ Final
               PROVE  TopStep(p, ok, s) \in X
    OBVIOUS
  <2>1. PICK t \in Selected(p), rest \in Seq(Selected(p)) :
            /\ s = TopState(InFront(t, rest), s.result)
            /\ s.result \in Seq(Selected(p))
    BY TopFront
  <2> DEFINE found == s.result
  <2>2. s = TopState(InFront(t, rest), found) /\ found \in Seq(Selected(p))
    BY <2>1
  <2> HIDE DEF found
  <2> QED
    BY <2>2, TopSteps
<1>3. out \in [Final -> Seq(Selected(p))] /\ Final \in SUBSET X
  BY DEF TopFinal, TopStates
<1>4. Terminates(X, Final, next)
  BY TopEnds
<1>5. \E h \in [X -> Seq(Selected(p))] : Loops(h, X, Final, next, out)
  <2> DEFINE V == Seq(Selected(p))
  <2> HIDE DEF X, Final, next, out, V
  <2>1. out \in [Final -> V]
    BY <1>3 DEF V
  <2>2. \E h \in [X -> V] : Loops(h, X, Final, next, out)
    BY <1>2, <1>3, <1>4, <2>1, LoopExists
  <2> QED
    BY <2>2 DEF V
<1>6. PICK h \in [X -> Seq(Selected(p))] : Loops(h, X, Final, next, out)
  BY <1>5
<1>7. \A s \in X : s \in Final <=> s.todo = <<>>
  BY DEF TopFinal
<1>8. Is(h)
  <2>1. \A s \in X : h[s] = IF s.todo = <<>> THEN s.result ELSE h[TopStep(p, ok, s)]
    BY <1>6, <1>7 DEF Loops
  <2> HIDE DEF X
  <2> QED
    BY <1>6, <2>1
<1>9. Is(g)
  <2> HIDE DEF Is
  <2> QED
    BY <1>8
<1> HIDE DEF g
<1>10. /\ \A s \in Final : g[s] = s.result
       /\ \A s \in X \ Final : g[s] = g[TopStep(p, ok, s)]
  BY <1>3, <1>7, <1>9
<1> QED
  BY <1>1, <1>10

\* The uncached tests below up-to-date ones only.
Topmost(p, ok) == {f \in Selected(p) \ ok : ParentSet(p, f) \subseteq ok}

\* What the walk returns from state s.
TopGood(p, ok, s, r) ==
    /\ s.result \in Seq(Topmost(p, ok)) => r \in Seq(Topmost(p, ok))
    /\ ToSet(s.result) \subseteq ToSet(r)
    /\ \A f \in Topmost(p, ok) : (\E t \in ToSet(s.todo) : t \in Ancestors(p, f)) => f \in ToSet(r)

\* The walk finds the tests that are not up to date though their parents are.
LEMMA TopResult ==
    ASSUME NEW p, Ordered(p), ChildrenKnown(p), p.tests \in Seq(Selected(p)),
           NEW ok \in SUBSET Selected(p), Upward(p, ok)
    PROVE  /\ get_topmost_uncached_tests(p, ok) \in Seq(Topmost(p, ok))
           /\ Topmost(p, ok) \subseteq ToSet(get_topmost_uncached_tests(p, ok))
<1> DEFINE X == TopStates(p)
           Final == TopFinal(p)
           next == [s \in X \ Final |-> TopStep(p, ok, s)]
<1>1. PICK g : /\ \A s \in TopFinal(p) : g[s] = s.result
               /\ \A s \in TopStates(p) \ TopFinal(p) : g[s] = g[TopStep(p, ok, s)]
               /\ get_topmost_uncached_tests(p, ok) = g[TopState(Roots(p), <<>>)]
  BY TopLoop
<1> DEFINE C == {s \in X : TopGood(p, ok, s, g[s])}
<1>2. Final \subseteq C
  <2> SUFFICES ASSUME NEW s \in Final
               PROVE  s \in X /\ TopGood(p, ok, s, g[s])
    OBVIOUS
  <2>1. s \in X /\ s.todo = <<>> /\ g[s] = s.result
    BY <1>1 DEF TopFinal
  <2>2. ToSet(s.todo) = {}
    BY <2>1 DEF ToSet
  <2> QED
    BY <2>1, <2>2 DEF TopGood
<1>3. ASSUME NEW s \in X \ Final, TopStep(p, ok, s) \in C
      PROVE  s \in C
  <2>1. PICK t \in Selected(p), rest \in Seq(Selected(p)) :
            /\ s = TopState(InFront(t, rest), s.result)
            /\ s.todo = InFront(t, rest)
            /\ s.result \in Seq(Selected(p))
    BY TopFront
  <2> DEFINE found == s.result
             x == TopStep(p, ok, s)
             r == g[s]
  <2>2. found \in Seq(Selected(p)) /\ s = TopState(InFront(t, rest), found)
    BY <2>1
  <2>3. TopGood(p, ok, x, r)
    BY <1>1, <1>3
  <2> HIDE DEF found, r
  <2>4. ToSet(s.todo) = {t} \cup ToSet(rest)
    <3> DEFINE a == <<t>>
    <3>1. a \in Seq(Selected(p)) /\ ToSet(a) = {t}
      BY DEF ToSet
    <3>2. s.todo = a \o rest
      BY <2>1 DEF InFront
    <3> HIDE DEF a
    <3> QED
      BY <3>1, <3>2, ElementsOfConcat
  <2>5. s.result = found
    BY DEF found
  <2> SUFFICES TopGood(p, ok, s, r)
    BY DEF r
  <2>6. CASE ~(ParentSet(p, t) \subseteq ok)
    <3>1. x = TopState(rest, found)
      <4>1. ~ParentsIn(p, t, ok)
        BY <2>6 DEF ParentsIn
      <4> QED
        BY <2>2, <4>1, TopSteps
    <3>2. \A f \in Topmost(p, ok) : t \notin Ancestors(p, f)
      <4> SUFFICES ASSUME NEW f \in Topmost(p, ok), t \in Ancestors(p, f)
                   PROVE  FALSE
        OBVIOUS
      <4>1. t # f
        BY <2>6 DEF Topmost
      <4>2. PICK q \in ParentSet(p, f) : t \in Ancestors(p, q)
        BY <4>1, AncestorsStep DEF Topmost
      <4>3. q \in ok /\ Ancestors(p, q) \subseteq ok
        BY <4>2, AncestorsIn DEF Topmost
      <4> QED
        BY <2>6, <4>2, <4>3 DEF Upward
    <3>3. x.todo = rest /\ x.result = found
      BY <3>1 DEF TopState
    <3> HIDE DEF x
    <3> QED
      BY <2>3, <2>4, <2>5, <3>2, <3>3 DEF TopGood
  <2>7. CASE ParentSet(p, t) \subseteq ok /\ t \in ok
    <3>1. x = TopState(p.children[t] \o rest, found)
      BY <2>2, <2>7, TopSteps DEF ParentsIn
    <3>2. ToSet(p.children[t] \o rest) = ToSet(p.children[t]) \cup ToSet(rest)
      BY ElementsOfConcat DEF ChildrenKnown
    <3>3. \A f \in Topmost(p, ok) : t \in Ancestors(p, f) =>
              \E u \in ToSet(p.children[t]) : u \in Ancestors(p, f)
      BY <2>7, ChildTowards DEF Topmost
    <3>4. ToSet(x.todo) = ToSet(p.children[t]) \cup ToSet(rest) /\ x.result = found
      BY <3>1, <3>2 DEF TopState
    <3> HIDE DEF x
    <3> QED
      BY <2>3, <2>4, <2>5, <3>3, <3>4 DEF TopGood
  <2>8. CASE ParentSet(p, t) \subseteq ok /\ t \notin ok
    <3>1. x = TopState(rest, Append(found, t))
      BY <2>2, <2>8, TopSteps DEF ParentsIn
    <3>2. ToSet(Append(found, t)) = ToSet(found) \cup {t}
      BY <2>2, ElementsOfAppend
    <3>3. x.todo = rest /\ x.result = Append(found, t)
      BY <3>1 DEF TopState
    <3>4. found \in Seq(Topmost(p, ok)) => Append(found, t) \in Seq(Topmost(p, ok))
      <4>1. t \in Topmost(p, ok)
        BY <2>8 DEF Topmost
      <4> QED
        BY <4>1
    <3>5. t \in ToSet(r) /\ ToSet(found) \subseteq ToSet(r)
      <4> HIDE DEF x
      <4> QED
        BY <2>3, <3>2, <3>3 DEF TopGood
    <3>6. \A f \in Topmost(p, ok) : t \in Ancestors(p, f) => f = t
      <4> SUFFICES ASSUME NEW f \in Topmost(p, ok), t \in Ancestors(p, f), t # f
                   PROVE  FALSE
        OBVIOUS
      <4>1. PICK q \in ParentSet(p, f) : t \in Ancestors(p, q)
        BY AncestorsStep DEF Topmost
      <4>2. q \in ok /\ Ancestors(p, q) \subseteq ok
        BY <4>1, AncestorsIn DEF Topmost
      <4> QED
        BY <2>8, <4>1, <4>2
    <3> HIDE DEF x
    <3> QED
      BY <2>3, <2>4, <2>5, <3>3, <3>4, <3>5, <3>6 DEF TopGood
  <2> QED
    BY <2>6, <2>7, <2>8
<1>4. X \subseteq C
  <2>1. \A s \in X \ Final : next[s] \in C => s \in C
    BY <1>3
  <2>2. C \in SUBSET X
    OBVIOUS
  <2>3. Terminates(X, Final, next)
    BY TopEnds
  <2> HIDE DEF X, Final, next, C
  <2> QED
    BY <1>2, <2>1, <2>2, <2>3 DEF Terminates
<1> DEFINE start == TopState(Roots(p), <<>>)
<1>5. start \in X
  BY AllRoots DEF TopStates, TopState
<1>6. TopGood(p, ok, start, get_topmost_uncached_tests(p, ok))
  BY <1>1, <1>4, <1>5
<1>7. start.todo = Roots(p) /\ start.result = <<>>
  BY DEF TopState
<1>8. \A f \in Topmost(p, ok) : \E t \in ToSet(Roots(p)) : t \in Ancestors(p, f)
  <2> TAKE f \in Topmost(p, ok)
  <2>1. f \in Selected(p)
    BY DEF Topmost
  <2>2. /\ f \in Ancestors(p, f) /\ Ancestors(p, f) \subseteq Selected(p)
        /\ Upward(p, Ancestors(p, f))
    BY <2>1, AncestorFacts
  <2>3. PICK t \in Ancestors(p, f) : ParentSet(p, t) \cap Ancestors(p, f) = {}
    BY <2>2 DEF Ordered, Hierarchy
  <2>4. ParentSet(p, t) = {} /\ t \in Selected(p)
    BY <2>2, <2>3 DEF Upward
  <2>5. p.parents[t] \in Seq(Selected(p))
    BY <2>4 DEF Ordered
  <2>6. p.parents[t] = <<>>
    <3> DEFINE c == p.parents[t]
    <3>1. c \in Seq(Selected(p)) /\ ToSet(c) = {}
      BY <2>4, <2>5 DEF ParentSet
    <3> HIDE DEF c
    <3>2. \A i \in 1 .. Len(c) : FALSE
      BY <3>1, ElementsOfSeq
    <3>3. c = <<>>
      BY <3>1, <3>2
    <3> QED
      BY <3>3 DEF c
  <2> QED
    BY <2>4, <2>6, AllRoots
<1> HIDE DEF start
<1> QED
  BY <1>6, <1>7, <1>8 DEF TopGood

\* None of them is up to date.
LEMMA TopUncached ==
    ASSUME NEW p, Ordered(p), ChildrenKnown(p), p.tests \in Seq(Selected(p)),
           NEW ok \in SUBSET Selected(p), Upward(p, ok)
    PROVE  /\ get_topmost_uncached_tests(p, ok) \in Seq(Selected(p) \ ok)
           /\ Topmost(p, ok) \subseteq ToSet(get_topmost_uncached_tests(p, ok))
<1> DEFINE top == get_topmost_uncached_tests(p, ok)
<1>1. top \in Seq(Topmost(p, ok)) /\ Topmost(p, ok) \subseteq ToSet(top)
  BY TopResult
<1>2. Topmost(p, ok) \subseteq Selected(p) \ ok
  BY DEF Topmost
<1> HIDE DEF top
<1>3. ToSet(top) \subseteq Selected(p) \ ok
  BY <1>1, <1>2, ElementsOfSeq
<1>4. top \in Seq(Selected(p) \ ok)
  BY <1>1, <1>3, ElementsOfSeq
<1> QED
  BY <1>1, <1>4 DEF top

----------------------------------------------------------------------------
(* get_leaf_tests_in_dfs_order                                             *)

\* The entries of the stack and the states of the walk.
Entry(test, todo) == [test |-> test, todo |-> todo]
DfsState(stack, visited, leaves) == [stack |-> stack, visited |-> visited, leaves |-> leaves]

EntrySet(D) == [test : Seq(D), todo : Seq(D)]
DfsStates(p) == [stack : Seq(EntrySet(Selected(p))), visited : SUBSET Selected(p),
                 leaves : Seq(Selected(p))]

\* The position of the first test of todo that is ready, 0 if there is none.
NextChild(p, todo, visited) ==
    SelectInSeq(todo, LAMBDA t : get_external_dependencies(p, t) \subseteq visited)

\* The leaves when an entry is done with.
LeavesWith(p, leaves, test) ==
    IF test # <<>> /\ get_children(p, test[1]) = <<>> /\ test[1] \notin ToSet(leaves)
    THEN leaves \o test ELSE leaves

\* The walk stops when the stack is empty or the top entry has no test that is ready.
IsStuck(p, s) == Last(s.stack).todo # <<>> /\ NextChild(p, Last(s.stack).todo, s.visited) = 0
DfsFinal(p) == {s \in DfsStates(p) : s.stack = <<>> \/ IsStuck(p, s)}
DfsResult(s) == IF s.stack = <<>> THEN [stuck |-> FALSE, leaves |-> s.leaves]
                                  ELSE [stuck |-> TRUE, leaves |-> <<>>]

\* One step of the walk.
DfsStep(p, s) ==
    LET top == Last(s.stack)
        next == NextChild(p, top.todo, s.visited)
    IN  IF top.todo = <<>>
        THEN DfsState(Front(s.stack), s.visited, LeavesWith(p, s.leaves, top.test))
        ELSE DfsState(Front(s.stack) \o << Entry(top.test, RemoveAt(top.todo, next)),
                                           leaf_entry(p, top.todo[next]) >>,
                      s.visited \cup {top.todo[next]}, s.leaves)

\* Min is the smallest of the numbers it is taken of.
LEMMA MinOfNumbers ==
    ASSUME NEW n \in Nat, NEW S \in SUBSET (1 .. n), S # {}
    PROVE  Min(S) \in S /\ \A y \in S : Min(S) <= y
<1>1. S \subseteq Nat
  OBVIOUS
<1>2. PICK x \in S : \A y \in S : x <= y
  BY <1>1, SmallestNumber
<1> QED
  BY <1>2 DEF Min

\* The next child is a position in the list of children, or 0.
LEMMA NextChildType ==
    ASSUME NEW p, NEW todo \in Seq(Selected(p)), NEW visited
    PROVE  NextChild(p, todo, visited) = 0 \/ NextChild(p, todo, visited) \in 1 .. Len(todo)
<1> DEFINE I == {i \in 1 .. Len(todo) : get_external_dependencies(p, todo[i]) \subseteq visited}
<1>1. NextChild(p, todo, visited) = IF I # {} THEN Min(I) ELSE 0
  BY DEF NextChild, SelectInSeq
<1>2. Len(todo) \in Nat /\ I \in SUBSET (1 .. Len(todo))
  OBVIOUS
<1> HIDE DEF I
<1>3. I # {} => Min(I) \in I
  BY <1>2, MinOfNumbers
<1> QED
  BY <1>1, <1>2, <1>3

\* A sequence with one element taken out, and that element.
LEMMA Removed ==
    ASSUME NEW S, NEW s \in Seq(S), NEW n \in 1 .. Len(s)
    PROVE  /\ RemoveAt(s, n) \in Seq(S) /\ Len(RemoveAt(s, n)) = Len(s) - 1
           /\ s[n] \in S /\ s[n] \in ToSet(s)
           /\ ToSet(s) = {s[n]} \cup ToSet(RemoveAt(s, n))
<1> DEFINE a == SubSeq(s, 1, n - 1)
           b == SubSeq(s, n + 1, Len(s))
           m == Len(s)
<1>0. m \in Nat /\ n \in Nat /\ 1 <= n /\ n <= m /\ \A i \in 1 .. m : s[i] \in S
  OBVIOUS
<1>1. /\ a \in Seq(S) /\ Len(a) = n - 1
      /\ \A i \in 1 .. n - 1 : a[i] = s[i]
  BY <1>0
<1>2. /\ b \in Seq(S) /\ Len(b) = m - n
      /\ \A i \in 1 .. m - n : b[i] = s[n + i]
  BY <1>0
<1>3. RemoveAt(s, n) = a \o b
  BY DEF RemoveAt
<1> HIDE DEF a, b
<1>4. a \o b \in Seq(S) /\ Len(a \o b) = m - 1
  <2>1. a \o b \in Seq(S) /\ Len(a \o b) = Len(a) + Len(b)
    BY <1>1, <1>2, ConcatProperties
  <2>2. (n - 1) + (m - n) = m - 1
    BY <1>0
  <2> HIDE DEF m
  <2> QED
    BY <1>1, <1>2, <2>1, <2>2
<1>5. ToSet(a \o b) = ToSet(a) \cup ToSet(b)
  BY <1>1, <1>2, ElementsOfConcat
<1>6. /\ ToSet(a) = {a[i] : i \in 1 .. n - 1} /\ ToSet(b) = {b[i] : i \in 1 .. m - n}
      /\ ToSet(s) = {s[i] : i \in 1 .. m}
  <2>1. DOMAIN a = 1 .. Len(a) /\ DOMAIN b = 1 .. Len(b) /\ DOMAIN s = 1 .. m
    BY <1>1, <1>2
  <2> QED
    BY <1>1, <1>2, <2>1 DEF ToSet
<1>7. ToSet(a) \subseteq ToSet(s)
  <2>1. \A i \in 1 .. n - 1 : i \in 1 .. m
    BY <1>0
  <2> QED
    BY <1>1, <1>6, <2>1
<1>8. ToSet(b) \subseteq ToSet(s)
  <2>1. \A i \in 1 .. m - n : n + i \in 1 .. m
    BY <1>0
  <2> QED
    BY <1>2, <1>6, <2>1
<1>9. ASSUME NEW x \in ToSet(s)
      PROVE  x = s[n] \/ x \in ToSet(a) \/ x \in ToSet(b)
  <2>1. PICK i \in 1 .. m : x = s[i]
    BY <1>6
  <2>2. CASE i < n
    <3>1. i \in 1 .. n - 1
      BY <1>0, <2>2
    <3> QED
      BY <1>1, <1>6, <2>1, <3>1
  <2>3. CASE i = n
    BY <2>1, <2>3
  <2>4. CASE i > n
    <3>1. PICK j \in 1 .. m - n : n + j = i
      <4>1. i - n \in 1 .. m - n /\ n + (i - n) = i
        BY <1>0, <2>4
      <4> QED
        BY <4>1
    <3>2. b[j] = s[i]
      BY <1>2, <3>1
    <3> QED
      BY <1>6, <2>1, <3>2
  <2> QED
    BY <1>0, <2>2, <2>3, <2>4
<1>10. s[n] \in ToSet(s) /\ s[n] \in S
  BY <1>0, <1>6
<1>11. ToSet(s) = {s[n]} \cup ToSet(a \o b)
  BY <1>5, <1>7, <1>8, <1>9, <1>10
<1> QED
  BY <1>3, <1>4, <1>10, <1>11

\* A stack is a sequence, its top at the end.
LEMMA TopOfStack ==
    ASSUME NEW S, NEW s \in Seq(S), NEW e \in S
    PROVE  /\ Append(s, e) \in Seq(S) /\ Append(s, e) # <<>>
           /\ Front(Append(s, e)) = s /\ Last(Append(s, e)) = e
           /\ \A a, b \in S : s \o <<a, b>> = Append(Append(s, a), b)
<1> DEFINE n == Len(s)
           q == Append(s, e)
<1>1. n \in Nat /\ q \in Seq(S) /\ Len(q) = n + 1 /\ q[n + 1] = e /\ \A i \in 1 .. n : q[i] = s[i]
  OBVIOUS
<1> HIDE DEF q
<1>2. Last(q) = e
  BY <1>1 DEF Last
<1>3. Front(q) \in Seq(S) /\ Len(Front(q)) = n /\ \A i \in 1 .. n : Front(q)[i] = q[i]
  BY <1>1 DEF Front
<1>4. Front(q) = s
  BY <1>1, <1>3, SeqEqual
<1>5. q # <<>>
  BY <1>1
<1>6. \A a, b \in S : s \o <<a, b>> = Append(Append(s, a), b)
  OBVIOUS
<1> QED
  BY <1>1, <1>2, <1>4, <1>5, <1>6 DEF q

\* The fields of a state of the walk.
LEMMA StateFields ==
    ASSUME NEW stack, NEW visited, NEW leaves
    PROVE  /\ DfsState(stack, visited, leaves).stack = stack
           /\ DfsState(stack, visited, leaves).visited = visited
           /\ DfsState(stack, visited, leaves).leaves = leaves
BY DEF DfsState

\* Such a record is a state of the walk.
LEMMA StateType ==
    ASSUME NEW p, NEW stack \in Seq(EntrySet(Selected(p))), NEW visited \in SUBSET Selected(p),
           NEW leaves \in Seq(Selected(p))
    PROVE  DfsState(stack, visited, leaves) \in DfsStates(p)
BY DEF DfsState, DfsStates

\* The fields of an entry of the stack.
LEMMA EntryFields ==
    ASSUME NEW test, NEW todo
    PROVE  Entry(test, todo).test = test /\ Entry(test, todo).todo = todo
BY DEF Entry

\* Such a record is an entry of the stack.
LEMMA EntryType ==
    ASSUME NEW D, NEW test \in Seq(D), NEW todo \in Seq(D)
    PROVE  Entry(test, todo) \in EntrySet(D)
BY DEF Entry, EntrySet

\* The list of leaves stays one of tests.
LEMMA LeavesWithType ==
    ASSUME NEW p, NEW D, NEW leaves \in Seq(D), NEW test \in Seq(D)
    PROVE  LeavesWith(p, leaves, test) \in Seq(D)
BY DEF LeavesWith

\* The test that is visited next is taken out of the list it comes from.
Rest(p, todo, visited) == RemoveAt(todo, NextChild(p, todo, visited))
Chosen(p, todo, visited) == todo[NextChild(p, todo, visited)]

\* The states of the walk with the entry of a test on top of the stack, and after
\* its next child has been pushed.
Facing(stack, test, todo, visited, leaves) ==
    DfsState(Append(stack, Entry(test, todo)), visited, leaves)

Descended(p, stack, test, todo, visited, leaves) ==
    Facing(Append(stack, Entry(test, Rest(p, todo, visited))),
           <<Chosen(p, todo, visited)>>, p.children[Chosen(p, todo, visited)],
           visited \cup {Chosen(p, todo, visited)}, leaves)

HasNext(p, todo, visited) ==
    /\ todo # <<>> /\ NextChild(p, todo, visited) # 0

\* A state of the walk whose stack is not empty, by its top entry.
LEMMA FacingFacts ==
    ASSUME NEW p, NEW stack \in Seq(EntrySet(Selected(p))),
           NEW test \in Seq(Selected(p)), NEW todo \in Seq(Selected(p)),
           NEW visited \in SUBSET Selected(p), NEW leaves \in Seq(Selected(p))
    PROVE  /\ Facing(stack, test, todo, visited, leaves) \in DfsStates(p)
           /\ Facing(stack, test, todo, visited, leaves).stack # <<>>
           /\ Front(Facing(stack, test, todo, visited, leaves).stack) = stack
           /\ Last(Facing(stack, test, todo, visited, leaves).stack) = Entry(test, todo)
           /\ Facing(stack, test, todo, visited, leaves).visited = visited
           /\ Facing(stack, test, todo, visited, leaves).leaves = leaves
<1> DEFINE e == Entry(test, todo)
           q == Append(stack, e)
<1>1. e \in EntrySet(Selected(p))
  BY EntryType
<1> HIDE DEF e
<1>2. q \in Seq(EntrySet(Selected(p))) /\ q # <<>> /\ Front(q) = stack /\ Last(q) = e
  BY <1>1, TopOfStack
<1> HIDE DEF q
<1>3. Facing(stack, test, todo, visited, leaves) = DfsState(q, visited, leaves)
  BY DEF q, e, Facing
<1>4. DfsState(q, visited, leaves).stack = q /\ DfsState(q, visited, leaves).visited = visited
      /\ DfsState(q, visited, leaves).leaves = leaves /\ DfsState(q, visited, leaves) \in DfsStates(p)
  BY <1>2, StateFields, StateType
<1> QED
  BY <1>2, <1>3, <1>4 DEF e

\* The walk is stuck where children are left and none is ready.
LEMMA FacingFinal ==
    ASSUME NEW p, NEW stack \in Seq(EntrySet(Selected(p))),
           NEW test \in Seq(Selected(p)), NEW todo \in Seq(Selected(p)),
           NEW visited \in SUBSET Selected(p), NEW leaves \in Seq(Selected(p))
    PROVE  Facing(stack, test, todo, visited, leaves) \in DfsFinal(p) <=>
               todo # <<>> /\ ~HasNext(p, todo, visited)
<1> DEFINE s == Facing(stack, test, todo, visited, leaves)
<1>1. /\ s \in DfsStates(p) /\ s.stack # <<>> /\ Last(s.stack) = Entry(test, todo) /\ s.visited = visited
  BY FacingFacts
<1>2. Entry(test, todo).todo = todo
  BY EntryFields
<1> HIDE DEF s
<1>3. s \in DfsFinal(p) <=> todo # <<>> /\ ~HasNext(p, todo, visited)
  BY <1>1, <1>2 DEF DfsFinal, IsStuck, HasNext
<1> QED
  BY <1>3 DEF s

\* The top entry has no test left to visit: it is popped.
LEMMA Popped ==
    ASSUME NEW p, NEW stack \in Seq(EntrySet(Selected(p))),
           NEW test \in Seq(Selected(p)),
           NEW visited \in SUBSET Selected(p), NEW leaves \in Seq(Selected(p))
    PROVE  DfsStep(p, Facing(stack, test, <<>>, visited, leaves))
             = DfsState(stack, visited, LeavesWith(p, leaves, test))
<1> DEFINE z == <<>>
           s == Facing(stack, test, z, visited, leaves)
           l == LeavesWith(p, leaves, test)
           q == Append(stack, Entry(test, z))
<1>0. z \in Seq(Selected(p))
  OBVIOUS
<1>5. z = <<>>
  OBVIOUS
<1> HIDE DEF z
<1>1. Front(s.stack) = stack /\ Last(s.stack) = Entry(test, z) /\ s.leaves = leaves
  BY <1>0, FacingFacts
<1>2. Entry(test, z).todo = z /\ Entry(test, z).test = test
  BY EntryFields
<1>6. s.visited = visited
  BY <1>0, FacingFacts
<1> HIDE DEF s, l, q
<1>3. DfsStep(p, s) = DfsState(stack, visited, l)
  BY <1>1, <1>2, <1>5, <1>6 DEF DfsStep, l
<1> QED
  BY <1>3, <1>5 DEF s, l

\* The child chosen is one of those to visit; the others stay.
LEMMA ChosenFacts ==
    ASSUME NEW p, ChildrenKnown(p), NEW todo \in Seq(Selected(p)),
           NEW visited, HasNext(p, todo, visited)
    PROVE  /\ Chosen(p, todo, visited) \in Selected(p)
           /\ <<Chosen(p, todo, visited)>> \in Seq(Selected(p))
           /\ p.children[Chosen(p, todo, visited)] \in Seq(Selected(p))
           /\ Rest(p, todo, visited) \in Seq(Selected(p))
           /\ Len(Rest(p, todo, visited)) = Len(todo) - 1
           /\ ToSet(todo) = {Chosen(p, todo, visited)} \cup ToSet(Rest(p, todo, visited))
<1> DEFINE n == NextChild(p, todo, visited)
<1>1. n \in 1 .. Len(todo)
  BY NextChildType DEF HasNext
<1>2. Chosen(p, todo, visited) = todo[n] /\ Rest(p, todo, visited) = RemoveAt(todo, n)
  BY DEF Chosen, Rest
<1> HIDE DEF n
<1>3. /\ RemoveAt(todo, n) \in Seq(Selected(p)) /\ Len(RemoveAt(todo, n)) = Len(todo) - 1
      /\ todo[n] \in Selected(p)
      /\ ToSet(todo) = {todo[n]} \cup ToSet(RemoveAt(todo, n))
  BY <1>1, Removed
<1>4. p.children[todo[n]] \in Seq(Selected(p))
  BY <1>3 DEF ChildrenKnown
<1> QED
  BY <1>2, <1>3, <1>4

\* The next child is pushed.
LEMMA Pushed ==
    ASSUME NEW p, ChildrenKnown(p), NEW stack \in Seq(EntrySet(Selected(p))),
           NEW test \in Seq(Selected(p)), NEW todo \in Seq(Selected(p)),
           NEW visited \in SUBSET Selected(p), NEW leaves \in Seq(Selected(p)),
           HasNext(p, todo, visited)
    PROVE  DfsStep(p, Facing(stack, test, todo, visited, leaves))
             = Descended(p, stack, test, todo, visited, leaves)
<1> DEFINE s == Facing(stack, test, todo, visited, leaves)
           n == NextChild(p, todo, visited)
           t == Chosen(p, todo, visited)
           r == Rest(p, todo, visited)
           a == Entry(test, r)
           b == Entry(<<t>>, p.children[t])
<1>1. Front(s.stack) = stack /\ Last(s.stack) = Entry(test, todo) /\ s.visited = visited
  BY FacingFacts
<1>2. Entry(test, todo).todo = todo
  BY EntryFields
<1>3. t = todo[n] /\ r = RemoveAt(todo, n)
  BY DEF Chosen, Rest
<1>4. Entry(test, todo).test = test
  BY EntryFields
<1>5. leaf_entry(p, t) = b
  BY DEF leaf_entry, get_children, Entry
<1>6. a \in EntrySet(Selected(p)) /\ b \in EntrySet(Selected(p))
  BY ChosenFacts, EntryType
<1>8. DfsState(Append(Append(stack, a), b), visited \cup {t}, leaves)
        = Descended(p, stack, test, todo, visited, leaves)
  BY DEF Descended, Facing
<1>9. todo # <<>>
  BY DEF HasNext
<1>7. s.leaves = leaves
  BY FacingFacts
<1>13. Entry(test, RemoveAt(todo, n)) = a
  BY DEF Rest
<1> HIDE DEF s, t, r, a, b, n
<1>10. stack \o <<a, b>> = Append(Append(stack, a), b)
  BY <1>6, TopOfStack
<1>11. DfsStep(p, s) = DfsState(stack \o <<a, b>>, visited \cup {t}, leaves)
  BY <1>1, <1>2, <1>3, <1>4, <1>5, <1>7, <1>9, <1>13 DEF DfsStep, n
<1> QED
  BY <1>8, <1>10, <1>11 DEF s

\* A state with something on the stack.
LEMMA DfsTop ==
    ASSUME NEW p, NEW s \in DfsStates(p), s.stack # <<>>
    PROVE  \E stack \in Seq(EntrySet(Selected(p))), test \in Seq(Selected(p)), todo \in Seq(Selected(p)) :
               s = Facing(stack, test, todo, s.visited, s.leaves)
<1> DEFINE E == EntrySet(Selected(p))
<1> HIDE DEF E
<1>1. s.stack \in Seq(E)
  BY DEF DfsStates, E
<1>2. PICK stack \in Seq(E), e \in E : s.stack = Append(stack, e)
  BY <1>1, SequenceEmptyOrAppend
<1>3. e = Entry(e.test, e.todo) /\ e.test \in Seq(Selected(p)) /\ e.todo \in Seq(Selected(p))
  BY <1>2 DEF E, EntrySet, Entry
<1>4. s = DfsState(s.stack, s.visited, s.leaves)
  BY DEF DfsStates, DfsState
<1>5. s = Facing(stack, e.test, e.todo, s.visited, s.leaves)
  <2>1. s = DfsState(Append(stack, e), s.visited, s.leaves)
    BY <1>2, <1>4
  <2>2. Append(stack, e) = Append(stack, Entry(e.test, e.todo))
    BY <1>3
  <2> DEFINE x == Append(stack, Entry(e.test, e.todo))
  <2> HIDE DEF x
  <2>3. s = DfsState(x, s.visited, s.leaves)
    BY <2>1, <2>2 DEF x
  <2> QED
    BY <2>3 DEF Facing, x
<1> QED
  BY <1>3, <1>5 DEF E

\* After the step down to a child the walk is in a state of its own.
LEMMA DescendedType ==
    ASSUME NEW p, ChildrenKnown(p), NEW stack \in Seq(EntrySet(Selected(p))),
           NEW test \in Seq(Selected(p)), NEW todo \in Seq(Selected(p)),
           NEW visited \in SUBSET Selected(p), NEW leaves \in Seq(Selected(p)),
           HasNext(p, todo, visited)
    PROVE  /\ Append(stack, Entry(test, Rest(p, todo, visited))) \in Seq(EntrySet(Selected(p)))
           /\ visited \cup {Chosen(p, todo, visited)} \in SUBSET Selected(p)
           /\ Descended(p, stack, test, todo, visited, leaves) \in DfsStates(p)
<1> DEFINE t == Chosen(p, todo, visited)
           r == Rest(p, todo, visited)
           a == Entry(test, r)
           w == visited \cup {t}
           q == Append(stack, a)
<1>1. t \in Selected(p) /\ <<t>> \in Seq(Selected(p)) /\ p.children[t] \in Seq(Selected(p))
      /\ r \in Seq(Selected(p))
  BY ChosenFacts
<1>2. a \in EntrySet(Selected(p))
  BY <1>1, EntryType
<1>3. w \in SUBSET Selected(p)
  BY <1>1
<1> HIDE DEF a
<1>4. q \in Seq(EntrySet(Selected(p)))
  BY <1>2, TopOfStack
<1> HIDE DEF q, w, t
<1>5. Facing(q, <<t>>, p.children[t], w, leaves) \in DfsStates(p)
  BY <1>1, <1>3, <1>4, FacingFacts
<1> QED
  BY <1>3, <1>4, <1>5 DEF Descended, q, w, t, a

\* A step of the walk leads to a state of the walk.
LEMMA DfsStepType ==
    ASSUME NEW p, ChildrenKnown(p), NEW s \in DfsStates(p) \ DfsFinal(p)
    PROVE  DfsStep(p, s) \in DfsStates(p)
<1>1. s.stack # <<>> /\ s.visited \in SUBSET Selected(p) /\ s.leaves \in Seq(Selected(p))
  BY DEF DfsFinal, DfsStates
<1> DEFINE v == s.visited
           l == s.leaves
<1>2. PICK stack \in Seq(EntrySet(Selected(p))), test \in Seq(Selected(p)), todo \in Seq(Selected(p)) :
          s = Facing(stack, test, todo, v, l)
  BY <1>1, DfsTop
<1> HIDE DEF v, l
<1>3. v \in SUBSET Selected(p) /\ l \in Seq(Selected(p))
  BY <1>1 DEF v, l
<1>4. CASE todo = <<>>
  <2>1. DfsStep(p, s) = DfsState(stack, v, LeavesWith(p, l, test))
    BY <1>2, <1>3, <1>4, Popped
  <2>2. LeavesWith(p, l, test) \in Seq(Selected(p))
    BY <1>3, LeavesWithType
  <2> QED
    BY <1>3, <2>1, <2>2, StateType
<1>5. CASE todo # <<>>
  <2>1. HasNext(p, todo, v)
    BY <1>2, <1>3, <1>5, FacingFinal
  <2>2. DfsStep(p, s) = Descended(p, stack, test, todo, v, l)
    BY <1>2, <1>3, <2>1, Pushed
  <2> QED
    BY <1>3, <2>1, <2>2, DescendedType
<1> QED
  BY <1>4, <1>5

\* Stack and p.children[t], with the test t itself.
WithChildren(p, stack, t) == Append(stack, Entry(<<t>>, p.children[t]))

\* The stacks that lead into C, whatever has been visited and found before.
Leading(p, C) ==
    {stack \in Seq(EntrySet(Selected(p))) :
        \A visited \in SUBSET Selected(p), leaves \in Seq(Selected(p)) :
            DfsState(stack, visited, leaves) \in C}

\* The tests whose entry can be put on any such stack.
Harmless(p, C) ==
    {t \in Selected(p) : \A stack \in Leading(p, C) : WithChildren(p, stack, t) \in Leading(p, C)}

\* Whatever holds at the end, and before a step where it holds after it.
ClosedUnder(p, C) ==
    /\ DfsFinal(p) \subseteq C
    /\ \A s \in DfsStates(p) \ DfsFinal(p) : DfsStep(p, s) \in C => s \in C

\* An entry whose tests are all harmless can be put on any such stack.
LEMMA EntryLeads ==
    ASSUME NEW p, ChildrenKnown(p), NEW C, ClosedUnder(p, C),
           NEW stack \in Leading(p, C), NEW test \in Seq(Selected(p)),
           NEW todo \in Seq(Harmless(p, C))
    PROVE  Append(stack, Entry(test, todo)) \in Leading(p, C)
<1> DEFINE H == Harmless(p, C)
           n == Len(todo)
           P == {i \in 0 .. n : \A q \in Seq(H) : Len(q) = i => Append(stack, Entry(test, q)) \in Leading(p, C)}
<1>0. n \in Nat /\ H \subseteq Selected(p) /\ stack \in Seq(EntrySet(Selected(p)))
  BY DEF Harmless, Leading
<1>1. ASSUME NEW q \in Seq(H)
      PROVE  /\ q \in Seq(Selected(p)) /\ Append(stack, Entry(test, q)) \in Seq(EntrySet(Selected(p)))
             /\ \A D : ToSet(q) \subseteq D => q \in Seq(D)
             /\ ToSet(q) \subseteq H /\ Len(q) \in Nat
  <2>1. q \in Seq(Selected(p))
    BY <1>0
  <2>2. Entry(test, q) \in EntrySet(Selected(p))
    BY <2>1, EntryType
  <2> HIDE DEF H
  <2>3. Append(stack, Entry(test, q)) \in Seq(EntrySet(Selected(p)))
    BY <1>0, <2>2, TopOfStack
  <2> QED
    BY <2>1, <2>3, ElementsOfSeq
<1> HIDE DEF H, n
<1>2. 0 \in P
  <2> SUFFICES ASSUME NEW q \in Seq(H), Len(q) = 0,
                      NEW visited \in SUBSET Selected(p), NEW leaves \in Seq(Selected(p))
               PROVE  DfsState(Append(stack, Entry(test, q)), visited, leaves) \in C
    BY <1>0, <1>1 DEF Leading
  <2>1. q = <<>>
    OBVIOUS
  <2> DEFINE s == Facing(stack, test, q, visited, leaves)
             l == LeavesWith(p, leaves, test)
  <2>2. s \in DfsStates(p) /\ s \notin DfsFinal(p)
    BY <1>0, <1>1, <2>1, FacingFacts, FacingFinal
  <2>3. DfsStep(p, s) = DfsState(stack, visited, l)
    BY <1>0, <2>1, Popped
  <2>4. l \in Seq(Selected(p))
    BY LeavesWithType
  <2> HIDE DEF l
  <2>5. DfsState(stack, visited, l) \in C
    BY <2>4 DEF Leading
  <2>6. s \in C
    BY <2>2, <2>3, <2>5 DEF ClosedUnder
  <2> QED
    BY <2>6 DEF Facing
<1>3. ASSUME NEW i \in 0 .. n - 1, i \in P
      PROVE  i + 1 \in P
  <2> SUFFICES ASSUME NEW q \in Seq(H), Len(q) = i + 1,
                      NEW visited \in SUBSET Selected(p), NEW leaves \in Seq(Selected(p))
               PROVE  DfsState(Append(stack, Entry(test, q)), visited, leaves) \in C
    <3>1. i + 1 \in 0 .. n
      BY <1>0
    <3> QED
      BY <1>0, <1>1, <3>1 DEF Leading
  <2> DEFINE s == Facing(stack, test, q, visited, leaves)
  <2>0. q \in Seq(Selected(p)) /\ q # <<>>
    BY <1>0, <1>1
  <2>1. s \in DfsStates(p)
    BY <1>0, <2>0, FacingFacts
  <2>2. CASE ~HasNext(p, q, visited)
    <3>1. s \in DfsFinal(p)
      BY <1>0, <2>0, <2>2, FacingFinal
    <3>2. s \in C
      BY <3>1 DEF ClosedUnder
    <3> QED
      BY <3>2 DEF Facing
  <2>3. CASE HasNext(p, q, visited)
    <3> DEFINE t == Chosen(p, q, visited)
               r == Rest(p, q, visited)
               stack_ == Append(stack, Entry(test, r))
               visited_ == visited \cup {t}
    <3>1. /\ r \in Seq(Selected(p)) /\ Len(r) = Len(q) - 1 /\ ToSet(q) = {t} \cup ToSet(r)
      BY <2>0, <2>3, ChosenFacts
    <3>2. r \in Seq(H) /\ t \in H
      BY <1>1, <3>1, ElementsOfSeq
    <3>3. visited_ \in SUBSET Selected(p) /\ Descended(p, stack, test, q, visited, leaves) \in DfsStates(p)
      BY <1>0, <2>0, <2>3, DescendedType
    <3> HIDE DEF r, t
    <3>4. stack_ \in Leading(p, C)
      BY <1>0, <1>3, <3>1, <3>2
    <3> HIDE DEF stack_, visited_
    <3>5. WithChildren(p, stack_, t) \in Leading(p, C)
      BY <3>2, <3>4 DEF Harmless, H
    <3>6. DfsState(WithChildren(p, stack_, t), visited_, leaves) \in C
      BY <3>3, <3>5 DEF Leading, visited_
    <3>7. Descended(p, stack, test, q, visited, leaves) = DfsState(WithChildren(p, stack_, t), visited_, leaves)
      BY DEF Descended, Facing, WithChildren, stack_, visited_, t, r
    <3>8. s \notin DfsFinal(p) /\ DfsStep(p, s) = Descended(p, stack, test, q, visited, leaves)
      BY <1>0, <2>0, <2>3, FacingFinal, Pushed
    <3>9. s \in C
      BY <2>1, <3>6, <3>7, <3>8 DEF ClosedUnder
    <3> QED
      BY <3>9 DEF Facing
  <2> QED
    BY <2>2, <2>3
<1>4. n \in P
  <2> HIDE DEF P
  <2>1. 0 .. n \subseteq P
    BY <1>0, <1>2, <1>3, UpTo
  <2> QED
    BY <1>0, <2>1
<1> QED
  BY <1>4 DEF H, n

\* The walk in depth-first order ends.
LEMMA DfsEnds ==
    ASSUME NEW p, Ordered(p), ChildrenKnown(p)
    PROVE  Terminates(DfsStates(p), DfsFinal(p),
                      [s \in DfsStates(p) \ DfsFinal(p) |-> DfsStep(p, s)])
<1> DEFINE next == [s \in DfsStates(p) \ DfsFinal(p) |-> DfsStep(p, s)]
<1> SUFFICES ASSUME NEW C \in SUBSET DfsStates(p), DfsFinal(p) \subseteq C,
                    \A s \in DfsStates(p) \ DfsFinal(p) : next[s] \in C => s \in C
             PROVE  DfsStates(p) \subseteq C
  BY DEF Terminates
<1>1. ClosedUnder(p, C)
  BY DEF ClosedUnder
<1> HIDE DEF next
<1>2. Harmless(p, C) = Selected(p)
  <2>1. Harmless(p, C) \in SUBSET Selected(p)
    BY DEF Harmless
  <2>2. ASSUME NEW t \in Selected(p), ToSet(p.children[t]) \subseteq Harmless(p, C)
        PROVE  t \in Harmless(p, C)
    <3>1. p.children[t] \in Seq(Harmless(p, C)) /\ <<t>> \in Seq(Selected(p))
      BY <2>2, ElementsOfSeq DEF ChildrenKnown
    <3>2. \A stack \in Leading(p, C) : WithChildren(p, stack, t) \in Leading(p, C)
      BY <1>1, <3>1, EntryLeads DEF WithChildren
    <3> QED
      BY <3>2 DEF Harmless
  <2> QED
    BY <2>1, <2>2, FromChildren
<1> DEFINE E == EntrySet(Selected(p))
<1>3. <<>> \in Leading(p, C)
  <2> SUFFICES ASSUME NEW visited \in SUBSET Selected(p), NEW leaves \in Seq(Selected(p))
               PROVE  DfsState(<<>>, visited, leaves) \in C
    BY DEF Leading
  <2>1. DfsState(<<>>, visited, leaves) \in DfsFinal(p)
    BY DEF DfsFinal, DfsStates, DfsState
  <2> QED
    BY <2>1
<1>4. ASSUME NEW stack \in Leading(p, C), NEW e \in E
      PROVE  Append(stack, e) \in Leading(p, C)
  <2>1. e = Entry(e.test, e.todo) /\ e.test \in Seq(Selected(p)) /\ e.todo \in Seq(Selected(p))
    BY DEF EntrySet, Entry
  <2> DEFINE x == e.test
             y == e.todo
  <2>2. e = Entry(x, y) /\ x \in Seq(Selected(p)) /\ y \in Seq(Harmless(p, C))
    BY <1>2, <2>1
  <2> HIDE DEF x, y
  <2>3. Append(stack, Entry(x, y)) \in Leading(p, C)
    BY <1>1, <2>2, EntryLeads
  <2> QED
    BY <2>2, <2>3
<1> HIDE DEF E
<1>5. ASSUME NEW stack \in Seq(E)
      PROVE  stack \in Leading(p, C)
  <2> DEFINE n == Len(stack)
             P == {i \in 0 .. n : \A q \in Seq(E) : Len(q) = i => q \in Leading(p, C)}
  <2>0. n \in Nat
    OBVIOUS
  <2>1. 0 \in P
    <3>1. \A q \in Seq(E) : Len(q) = 0 => q = <<>>
      OBVIOUS
    <3> QED
      BY <1>3, <2>0, <3>1
  <2>2. ASSUME NEW i \in 0 .. n - 1, i \in P
        PROVE  i + 1 \in P
    <3> SUFFICES ASSUME NEW q \in Seq(E), Len(q) = i + 1
                 PROVE  q \in Leading(p, C)
      BY <2>0
    <3>1. q # <<>>
      BY <2>0
    <3>2. PICK b \in Seq(E), e \in E : q = Append(b, e)
      BY <3>1, SequenceEmptyOrAppend
    <3>3. Len(b) = i
      <4>1. Len(Append(b, e)) = Len(b) + 1 /\ Len(b) \in Nat
        OBVIOUS
      <4> QED
        BY <2>0, <3>2, <4>1
    <3> QED
      BY <1>4, <2>2, <3>2, <3>3
  <2>3. n \in P
    <3> HIDE DEF P
    <3>1. 0 .. n \subseteq P
      BY <2>0, <2>1, <2>2, UpTo
    <3> QED
      BY <2>0, <3>1
  <2> QED
    BY <2>3
<1>6. ASSUME NEW s \in DfsStates(p)
      PROVE  s \in C
  <2>1. /\ s.stack \in Seq(E) /\ s.visited \in SUBSET Selected(p) /\ s.leaves \in Seq(Selected(p))
        /\ s = DfsState(s.stack, s.visited, s.leaves)
    BY DEF DfsStates, DfsState, E
  <2>2. s.stack \in Leading(p, C)
    BY <1>5, <2>1
  <2>3. DfsState(s.stack, s.visited, s.leaves) \in C
    BY <2>1, <2>2 DEF Leading
  <2> QED
    BY <2>1, <2>3
<1> QED
  BY <1>6

\* What the walk makes of state s, g being the walk.
DfsBody(p, g, s) ==
    IF s.stack = <<>> THEN [stuck |-> FALSE, leaves |-> s.leaves]
    ELSE LET top == Last(s.stack)
             next == SelectInSeq(top.todo, LAMBDA t : get_external_dependencies(p, t) \subseteq s.visited)
         IN  IF top.todo = <<>>
             THEN g[[s EXCEPT !.stack = Front(@),
                              !.leaves = IF /\ top.test # <<>>
                                            /\ get_children(p, top.test[1]) = <<>>
                                            /\ top.test[1] \notin ToSet(@)
                                         THEN @ \o top.test ELSE @]]
             ELSE IF next = 0 THEN [stuck |-> TRUE, leaves |-> <<>>]
             ELSE g[[s EXCEPT !.stack = Front(@) \o << [top EXCEPT !.todo = RemoveAt(@, next)],
                                                       leaf_entry(p, top.todo[next]) >>,
                              !.visited = @ \cup {top.todo[next]}]]

\* The body of the walk, as written in TestPlan, ends at the final states and takes
\* a step at the others.
LEMMA DfsBodyStep ==
    ASSUME NEW p, NEW g, NEW s \in DfsStates(p)
    PROVE  DfsBody(p, g, s) = IF s \in DfsFinal(p) THEN DfsResult(s) ELSE g[DfsStep(p, s)]
<1> DEFINE top == Last(s.stack)
           n == NextChild(p, top.todo, s.visited)
<1>1. CASE s.stack = <<>>
  BY <1>1 DEF DfsBody, DfsFinal, DfsResult
<1>2. CASE s.stack # <<>>
  <2>1. s = [stack |-> s.stack, visited |-> s.visited, leaves |-> s.leaves]
    BY DEF DfsStates
  <2>2. s.stack \in Seq(EntrySet(Selected(p)))
    BY DEF DfsStates
  <2>3. top \in EntrySet(Selected(p))
    <3> DEFINE q == s.stack
               E == EntrySet(Selected(p))
    <3>1. q \in Seq(E) /\ q # <<>>
      BY <1>2, <2>2
    <3> HIDE DEF q, E
    <3>2. Last(q) \in E
      BY <3>1 DEF Last
    <3> QED
      BY <3>2 DEF q, E
  <2>4. top = [test |-> top.test, todo |-> top.todo]
    BY <2>3 DEF EntrySet
  <2> HIDE DEF top, n
  <2>5. CASE top.todo = <<>>
    <3> DEFINE l == LeavesWith(p, s.leaves, top.test)
               f == Front(s.stack)
    <3>1. DfsBody(p, g, s) = g[[s EXCEPT !.stack = f, !.leaves = l]]
      BY <1>2, <2>5, Zenon DEF DfsBody, top, LeavesWith
    <3> HIDE DEF l, f
    <3>2. [s EXCEPT !.stack = f] = [stack |-> f, visited |-> s.visited, leaves |-> s.leaves]
      BY <2>1
    <3>3. [[s EXCEPT !.stack = f] EXCEPT !.leaves = l] = [stack |-> f, visited |-> s.visited, leaves |-> l]
      <4> DEFINE q == [stack |-> f, visited |-> s.visited, leaves |-> s.leaves]
      <4>1. [q EXCEPT !.leaves = l] = [stack |-> f, visited |-> s.visited, leaves |-> l]
        OBVIOUS
      <4> HIDE DEF q
      <4> QED
        BY <3>2, <4>1 DEF q
    <3>4. [s EXCEPT !.stack = f, !.leaves = l] = [[s EXCEPT !.stack = f] EXCEPT !.leaves = l]
      BY <2>1
    <3>5. DfsStep(p, s) = [stack |-> f, visited |-> s.visited, leaves |-> l]
      BY <2>5 DEF DfsStep, top, DfsState, f, l
    <3>6. s \notin DfsFinal(p)
      BY <1>2, <2>5 DEF DfsFinal, IsStuck, top
    <3> QED
      BY <3>1, <3>3, <3>4, <3>5, <3>6
  <2>6. CASE top.todo # <<>> /\ n = 0
    <3>1. DfsBody(p, g, s) = [stuck |-> TRUE, leaves |-> <<>>]
      BY <1>2, <2>6 DEF DfsBody, top, NextChild, n
    <3>2. s \in DfsFinal(p)
      BY <1>2, <2>6 DEF DfsFinal, IsStuck, top, n
    <3> QED
      BY <1>2, <3>1, <3>2 DEF DfsResult
  <2>7. CASE top.todo # <<>> /\ n # 0
    <3> DEFINE e == Entry(top.test, RemoveAt(top.todo, n))
               f == Front(s.stack) \o <<e, leaf_entry(p, top.todo[n])>>
               v == s.visited \cup {top.todo[n]}
    <3>0. n = SelectInSeq(top.todo, LAMBDA t : get_external_dependencies(p, t) \subseteq s.visited)
      BY DEF n, NextChild
    <3>1. DfsBody(p, g, s) = g[[s EXCEPT !.stack = Front(s.stack) \o << [top EXCEPT !.todo = RemoveAt(@, n)],
                                                       leaf_entry(p, top.todo[n]) >>,
                              !.visited = v]]
      BY <1>2, <2>7, <3>0, Zenon DEF DfsBody, top
    <3>2. [top EXCEPT !.todo = RemoveAt(@, n)] = e
      BY <2>4 DEF Entry
    <3>3. DfsBody(p, g, s) = g[[s EXCEPT !.stack = f, !.visited = v]]
      BY <3>1, <3>2
    <3>4. DfsStep(p, s) = [stack |-> f, visited |-> v, leaves |-> s.leaves]
      BY <2>7 DEF DfsStep, top, n, DfsState
    <3> HIDE DEF e, f, v
    <3>5. [s EXCEPT !.stack = f] = [stack |-> f, visited |-> s.visited, leaves |-> s.leaves]
      BY <2>1
    <3>6. [[s EXCEPT !.stack = f] EXCEPT !.visited = v] = [stack |-> f, visited |-> v, leaves |-> s.leaves]
      <4> DEFINE q == [stack |-> f, visited |-> s.visited, leaves |-> s.leaves]
      <4>1. [q EXCEPT !.visited = v] = [stack |-> f, visited |-> v, leaves |-> s.leaves]
        OBVIOUS
      <4> HIDE DEF q
      <4> QED
        BY <3>5, <4>1 DEF q
    <3>7. [s EXCEPT !.stack = f, !.visited = v] = [[s EXCEPT !.stack = f] EXCEPT !.visited = v]
      BY <2>1
    <3>8. s \notin DfsFinal(p)
      BY <1>2, <2>7 DEF DfsFinal, IsStuck, top, n
    <3> QED
      BY <3>3, <3>4, <3>6, <3>7, <3>8
  <2> QED
    BY <2>5, <2>6, <2>7
<1> QED
  BY <1>1, <1>2

\* What the walk returns.
Walked(p) == [stuck : BOOLEAN, leaves : Seq(Selected(p))]

\* The walk computes what its loop does.
LEMMA DfsLoop ==
    ASSUME NEW p, Ordered(p), ChildrenKnown(p), NEW ok
    PROVE  \E g \in [DfsStates(p) -> Walked(p)] :
               /\ \A s \in DfsFinal(p) : g[s] = DfsResult(s)
               /\ \A s \in DfsStates(p) \ DfsFinal(p) : g[s] = g[DfsStep(p, s)]
               /\ get_leaf_tests_in_dfs_order(p, ok)
                    = g[DfsState(<<Entry(<<>>, get_topmost_uncached_tests(p, ok))>>, ok, <<>>)]
<1> DEFINE X == DfsStates(p)
           Final == DfsFinal(p)
           next == [s \in X \ Final |-> DfsStep(p, s)]
           out == [s \in Final |-> DfsResult(s)]
           start == DfsState(<<Entry(<<>>, get_topmost_uncached_tests(p, ok))>>, ok, <<>>)
           Is(g) == g = [s \in X |-> DfsBody(p, g, s)]
           g == CHOOSE g : Is(g)
<1>1. get_leaf_tests_in_dfs_order(p, ok) = g[start]
  BY DEF get_leaf_tests_in_dfs_order, DfsBody, DfsStates, EntrySet, DfsState, Entry
<1>2. next \in [X \ Final -> X]
  BY DfsStepType
<1>3. out \in [Final -> Walked(p)] /\ Final \in SUBSET X
  <2>1. Final \in SUBSET X
    BY DEF DfsFinal
  <2>2. ASSUME NEW s \in Final
        PROVE  DfsResult(s) \in Walked(p)
    BY <2>1, <2>2 DEF DfsResult, Walked, DfsStates
  <2> QED
    BY <2>1, <2>2
<1>4. Terminates(X, Final, next)
  BY DfsEnds
<1>5. PICK h \in [X -> Walked(p)] : Loops(h, X, Final, next, out)
  <2> HIDE DEF X, Final, next, out
  <2> QED
    BY <1>2, <1>3, <1>4, LoopExists
<1>6. \A s \in X : \A k : DfsBody(p, k, s) = IF s \in Final THEN out[s] ELSE k[next[s]]
  BY DfsBodyStep
<1> HIDE DEF X, Final, next, out
<1>7. Is(h)
  <2>1. \A s \in X : h[s] = DfsBody(p, h, s)
    BY <1>5, <1>6 DEF Loops
  <2> QED
    BY <1>5, <2>1
<1>8. Is(g)
  <2> HIDE DEF Is
  <2> QED
    BY <1>7
<1> HIDE DEF g
<1>9. g \in [X -> Walked(p)] /\ Loops(g, X, Final, next, out)
  <2>1. \A s \in X : g[s] = IF s \in Final THEN out[s] ELSE g[next[s]]
    BY <1>6, <1>8
  <2>2. Loops(g, X, Final, next, out)
    BY <2>1 DEF Loops
  <2>3. X \subseteq {s \in X : g[s] \in Walked(p)}
    <3> DEFINE C == {s \in X : g[s] \in Walked(p)}
    <3>1. Final \subseteq C
      BY <1>3, <2>1
    <3>2. \A s \in X \ Final : next[s] \in C => s \in C
      BY <2>1
    <3>3. C \in SUBSET X
      OBVIOUS
    <3> HIDE DEF C
    <3>4. X \subseteq C
      BY <1>4, <3>1, <3>2, <3>3 DEF Terminates
    <3> QED
      BY <3>4 DEF C
  <2>4. g = [s \in X |-> g[s]]
    <3>1. \A k : k = [s \in X |-> DfsBody(p, g, s)] => k = [s \in X |-> k[s]]
      OBVIOUS
    <3> QED
      BY <1>8, <3>1
  <2> QED
    BY <2>2, <2>3, <2>4
<1>10. \A s \in Final : g[s] = DfsResult(s)
  BY <1>3, <1>9 DEF Loops, out
<1>11. \A s \in X \ Final : g[s] = g[DfsStep(p, s)]
  BY <1>9 DEF Loops, next
<1> QED
  BY <1>1, <1>9, <1>10, <1>11 DEF X, Final

Childless(p) == {l \in Selected(p) : p.children[l] = <<>>}

\* An entry from which the walk will come to l.
Reaches(p, e, l) == e.test = <<l>> \/ \E t \in ToSet(e.todo) : t \in Ancestors(p, l)

\* A stack with such an entry.
Covered(p, stack, l) == \E i \in 1 .. Len(stack) : Reaches(p, stack[i], l)

\* Nothing up to date is waiting or found.
Uncached(p, ok, s) ==
    /\ s.stack \in Seq(EntrySet(Selected(p) \ ok))
    /\ s.leaves \in Seq(Selected(p) \ ok)

\* What the walk returns from state s.
DfsGood(p, ok, s, r) ==
    /\ r.stuck => r.leaves = <<>>
    /\ Uncached(p, ok, s) => r.leaves \in Seq(Selected(p) \ ok)
    /\ ~r.stuck =>
        /\ ToSet(s.leaves) \subseteq ToSet(r.leaves)
        /\ \A l \in Childless(p) : Covered(p, s.stack, l) => l \in ToSet(r.leaves)

\* A leaf is covered by a stack or by the entry pushed on it.
LEMMA CoveredAppend ==
    ASSUME NEW p, NEW E, NEW stack \in Seq(E), NEW e \in E, NEW l
    PROVE  Covered(p, Append(stack, e), l) <=> Covered(p, stack, l) \/ Reaches(p, e, l)
<1> DEFINE n == Len(stack)
           q == Append(stack, e)
<1>1. n \in Nat /\ Len(q) = n + 1 /\ q[n + 1] = e /\ \A i \in 1 .. n : q[i] = stack[i]
  OBVIOUS
<1> HIDE DEF q
<1>2. \A i \in 1 .. n + 1 : i = n + 1 \/ i \in 1 .. n
  BY <1>1
<1>3. n + 1 \in 1 .. n + 1 /\ \A i \in 1 .. n : i \in 1 .. n + 1
  BY <1>1
<1>4. Covered(p, q, l) <=> Covered(p, stack, l) \/ Reaches(p, e, l)
  BY <1>1, <1>2, <1>3 DEF Covered
<1> QED
  BY <1>4 DEF q

\* A stack consists of certain entries if it does below its top and the top is one.
LEMMA AppendBelongs ==
    ASSUME NEW E, NEW D, NEW stack \in Seq(E), NEW e \in E
    PROVE  Append(stack, e) \in Seq(D) <=> stack \in Seq(D) /\ e \in D
<1> DEFINE n == Len(stack)
           q == Append(stack, e)
<1>1. /\ n \in Nat /\ Len(q) = n + 1 /\ q[n + 1] = e /\ \A i \in 1 .. n : q[i] = stack[i]
      /\ q \in Seq(E)
  OBVIOUS
<1>2. stack \in Seq(D) /\ e \in D => q \in Seq(D)
  OBVIOUS
<1> HIDE DEF q
<1>3. ASSUME q \in Seq(D)
      PROVE  stack \in Seq(D) /\ e \in D
  <2>1. \A i \in 1 .. n + 1 : q[i] \in D
    BY <1>1, <1>3
  <2>2. e \in D /\ \A i \in 1 .. n : stack[i] \in D
    BY <1>1, <2>1
  <2>3. stack = [i \in 1 .. n |-> stack[i]]
    OBVIOUS
  <2> QED
    BY <1>1, <2>2, <2>3
<1>4. q \in Seq(D) <=> stack \in Seq(D) /\ e \in D
  BY <1>2, <1>3
<1> QED
  BY <1>4 DEF q

\* An entry over certain tests has its test and its children among them.
LEMMA EntryBelongs ==
    ASSUME NEW D, NEW test, NEW todo
    PROVE  Entry(test, todo) \in EntrySet(D) <=> test \in Seq(D) /\ todo \in Seq(D)
BY DEF Entry, EntrySet

\* A leaf is among the leaves once its entry is done with.
LEMMA LeavesWithLeaf ==
    ASSUME NEW p, NEW leaves \in Seq(Selected(p)), NEW test \in Seq(Selected(p))
    PROVE  /\ ToSet(leaves) \subseteq ToSet(LeavesWith(p, leaves, test))
           /\ \A l \in Childless(p) : test = <<l>> => l \in ToSet(LeavesWith(p, leaves, test))
<1>1. ToSet(leaves \o test) = ToSet(leaves) \cup ToSet(test)
  BY ElementsOfConcat
<1>2. \A l \in Childless(p) : test = <<l>> => test # <<>> /\ test[1] = l /\ l \in ToSet(test)
  <2> SUFFICES ASSUME NEW l \in Childless(p), test = <<l>>
               PROVE  test # <<>> /\ test[1] = l /\ l \in ToSet(test)
    OBVIOUS
  <2>1. test # <<>> /\ Len(test) = 1 /\ test[1] = l /\ 1 \in 1 .. 1
    OBVIOUS
  <2> QED
    BY <2>1, ElementsOfSeq
<1>3. \A l \in Childless(p) : get_children(p, l) = <<>>
  BY DEF Childless, get_children
<1> QED
  BY <1>1, <1>2, <1>3 DEF LeavesWith

\* Whatever is reached from t is reached from the entry of t.
LEMMA EntryReaches ==
    ASSUME NEW p, Ordered(p), ChildrenKnown(p), NEW l \in Selected(p), NEW t \in Ancestors(p, l)
    PROVE  Reaches(p, Entry(<<t>>, p.children[t]), l)
<1>1. CASE t = l
  BY <1>1 DEF Reaches, Entry
<1>2. CASE t # l
  <2>1. \E u \in ToSet(p.children[t]) : u \in Ancestors(p, l)
    BY <1>2, ChildTowards
  <2> QED
    BY <2>1 DEF Reaches, Entry
<1> QED
  BY <1>1, <1>2

\* What the walk returns from any state.
LEMMA DfsGoodResult ==
    ASSUME NEW p, Ordered(p), ChildrenKnown(p), NEW ok, Upward(p, ok),
           NEW g \in [DfsStates(p) -> Walked(p)],
           \A s \in DfsFinal(p) : g[s] = DfsResult(s),
           \A s \in DfsStates(p) \ DfsFinal(p) : g[s] = g[DfsStep(p, s)],
           NEW s0 \in DfsStates(p)
    PROVE  DfsGood(p, ok, s0, g[s0])
<1> DEFINE X == DfsStates(p)
           Final == DfsFinal(p)
           next == [s \in X \ Final |-> DfsStep(p, s)]
           C == {s \in X : DfsGood(p, ok, s, g[s])}
<1>1. Final \subseteq C
  <2> SUFFICES ASSUME NEW s \in Final
               PROVE  DfsGood(p, ok, s, g[s])
    BY DEF DfsFinal
  <2>1. g[s] = DfsResult(s) /\ s \in X
    BY DEF DfsFinal
  <2>2. CASE s.stack = <<>>
    <3>1. \A l : ~Covered(p, s.stack, l)
      BY <2>2 DEF Covered
    <3>2. g[s].leaves = s.leaves /\ g[s].stuck = FALSE
      BY <2>1, <2>2 DEF DfsResult
    <3> QED
      BY <3>1, <3>2 DEF DfsGood, Uncached
  <2>3. CASE s.stack # <<>>
    <3>1. g[s].leaves = <<>> /\ g[s].stuck = TRUE
      BY <2>1, <2>3 DEF DfsResult
    <3> QED
      BY <3>1 DEF DfsGood
  <2> QED
    BY <2>2, <2>3
<1>2. ASSUME NEW s \in X \ Final, DfsStep(p, s) \in C
      PROVE  s \in C
  <2> DEFINE v == s.visited
             leaves == s.leaves
             r == g[s]
             x == DfsStep(p, s)
             E == EntrySet(Selected(p))
  <2>1. s.stack # <<>> /\ v \in SUBSET Selected(p) /\ leaves \in Seq(Selected(p))
    BY DEF DfsFinal, DfsStates
  <2>2. PICK stack \in Seq(E), test \in Seq(Selected(p)), todo \in Seq(Selected(p)) :
            s = Facing(stack, test, todo, v, leaves)
    BY <2>1, DfsTop
  <2>3. DfsGood(p, ok, x, r)
    BY <1>2
  <2>4. s.stack = Append(stack, Entry(test, todo)) /\ Entry(test, todo) \in E
    <3> HIDE DEF v, leaves
    <3>1. Facing(stack, test, todo, v, leaves).stack = Append(stack, Entry(test, todo))
      BY DEF Facing, DfsState
    <3> QED
      BY <2>2, <3>1, EntryType DEF E
  <2> HIDE DEF v, r, E
  <2> SUFFICES DfsGood(p, ok, s, r)
    BY DEF r
  <2>5. Uncached(p, ok, s) <=> /\ stack \in Seq(EntrySet(Selected(p) \ ok)) /\ leaves \in Seq(Selected(p) \ ok)
                               /\ test \in Seq(Selected(p) \ ok) /\ todo \in Seq(Selected(p) \ ok)
    BY <2>4, AppendBelongs, EntryBelongs DEF Uncached
  <2>6. \A l : Covered(p, s.stack, l) <=>
            Covered(p, stack, l) \/ test = <<l>> \/ \E t \in ToSet(todo) : t \in Ancestors(p, l)
    <3> DEFINE e == Entry(test, todo)
    <3>1. e.test = test /\ e.todo = todo
      BY EntryFields
    <3> HIDE DEF e
    <3>2. \A l : Covered(p, s.stack, l) <=> Covered(p, stack, l) \/ Reaches(p, e, l)
      BY <2>4, CoveredAppend DEF e
    <3> QED
      BY <3>1, <3>2 DEF Reaches
  <2>7. s.leaves = leaves
    OBVIOUS
  <2> HIDE DEF leaves
  <2>8. CASE todo = <<>>
    <3> DEFINE m == LeavesWith(p, leaves, test)
    <3>1. x = DfsState(stack, v, m)
      BY <2>1, <2>2, <2>8, Popped DEF E
    <3>2. x.stack = stack /\ x.leaves = m
      BY <3>1, StateFields
    <3>3. ToSet(leaves) \subseteq ToSet(m) /\ \A l \in Childless(p) : test = <<l>> => l \in ToSet(m)
      BY <2>1, LeavesWithLeaf
    <3>4. ToSet(todo) = {}
      BY <2>8 DEF ToSet
    <3>5. \A D : leaves \in Seq(D) /\ test \in Seq(D) => m \in Seq(D)
      BY LeavesWithType
    <3> HIDE DEF x, m
    <3>6. Uncached(p, ok, s) => Uncached(p, ok, x)
      BY <2>5, <3>2, <3>5 DEF Uncached
    <3> QED
      BY <2>3, <2>6, <2>7, <3>2, <3>3, <3>4, <3>6 DEF DfsGood
  <2>9. CASE todo # <<>>
    <3> DEFINE t == Chosen(p, todo, v)
               rest == Rest(p, todo, v)
               c == p.children[t]
               a == Entry(test, rest)
               b == Entry(<<t>>, c)
               q == Append(stack, a)
    <3>1. HasNext(p, todo, v)
      BY <2>1, <2>2, <2>9, FacingFinal DEF E
    <3>2. x = Descended(p, stack, test, todo, v, leaves)
      BY <2>1, <2>2, <3>1, Pushed DEF E
    <3>3. /\ t \in Selected(p) /\ <<t>> \in Seq(Selected(p)) /\ c \in Seq(Selected(p))
          /\ rest \in Seq(Selected(p)) /\ ToSet(todo) = {t} \cup ToSet(rest)
      BY <3>1, ChosenFacts
    <3>4. x = DfsState(Append(q, b), v \cup {t}, leaves)
      BY <3>2 DEF Descended, Facing
    <3> HIDE DEF t, rest
    <3>5. x.stack = Append(q, b) /\ x.leaves = leaves
      <4> DEFINE y == Append(q, b)
                 w == v \cup {t}
      <4> HIDE DEF y, w
      <4>1. x = DfsState(y, w, leaves)
        BY <3>4 DEF y, w
      <4> HIDE DEF x
      <4> QED
        BY <4>1 DEF y, DfsState
    <3>6. a \in E /\ b \in E
      BY <3>3, EntryType DEF E
    <3>7. q \in Seq(E)
      BY <3>6
    <3> HIDE DEF x
    <3>8. \A l : Covered(p, x.stack, l) <=> Covered(p, stack, l) \/ Reaches(p, a, l) \/ Reaches(p, b, l)
      <4> HIDE DEF a, b
      <4>1. \A l : Covered(p, q, l) <=> Covered(p, stack, l) \/ Reaches(p, a, l)
        BY <3>6, CoveredAppend
      <4> HIDE DEF q
      <4>2. \A l : Covered(p, Append(q, b), l) <=> Covered(p, q, l) \/ Reaches(p, b, l)
        BY <3>6, <3>7, CoveredAppend
      <4> QED
        BY <3>5, <4>1, <4>2
    <3>9. \A l : Reaches(p, a, l) <=> test = <<l>> \/ \E u \in ToSet(rest) : u \in Ancestors(p, l)
      BY EntryFields DEF Reaches
    <3>10. \A l \in Childless(p) : t \in Ancestors(p, l) => Reaches(p, b, l)
      BY EntryReaches DEF Childless
    <3>11. \A l \in Childless(p) : Covered(p, s.stack, l) => Covered(p, x.stack, l)
      <4> HIDE DEF a, b, q
      <4> QED
        BY <2>6, <3>3, <3>8, <3>9, <3>10
    <3>12. ASSUME Uncached(p, ok, s)
           PROVE  Uncached(p, ok, x)
      <4> DEFINE D == Selected(p) \ ok
      <4>1. stack \in Seq(EntrySet(D)) /\ leaves \in Seq(D) /\ test \in Seq(D) /\ todo \in Seq(D)
        BY <2>5, <3>12
      <4>2. t \in D /\ rest \in Seq(D)
        BY <3>3, <4>1, ElementsOfSeq
      <4>3. \A u \in ToSet(c) : u \in Selected(p) /\ t \in ParentSet(p, u)
        BY <3>3, ElementsOfSeq DEF ChildrenKnown
      <4>4. ToSet(c) \subseteq D
        BY <4>2, <4>3 DEF Upward
      <4>5. c \in Seq(D) /\ <<t>> \in Seq(D)
        BY <3>3, <4>2, <4>4, ElementsOfSeq
      <4> HIDE DEF D
      <4>6. a \in EntrySet(D) /\ b \in EntrySet(D)
        BY <4>1, <4>2, <4>5, EntryType
      <4> HIDE DEF a, b
      <4>7. Append(q, b) \in Seq(EntrySet(D))
        BY <4>1, <4>6
      <4> QED
        BY <3>5, <4>1, <4>7 DEF Uncached, D
    <3> HIDE DEF a, b, q, c
    <3> QED
      BY <2>3, <2>7, <3>5, <3>11, <3>12 DEF DfsGood
  <2> QED
    BY <2>8, <2>9
<1>3. X \subseteq C
  <2>1. \A s \in X \ Final : next[s] \in C => s \in C
    BY <1>2
  <2>2. C \in SUBSET X
    OBVIOUS
  <2>3. Terminates(X, Final, next)
    BY DfsEnds
  <2> HIDE DEF X, Final, next, C
  <2> QED
    BY <1>1, <2>1, <2>2, <2>3 DEF Terminates
<1> QED
  BY <1>3

\* Every test that is not up to date is above a leaf of the walk, unless the walk
\* is stuck; the leaves are not up to date themselves.
WalkIsRight(p, ok, walk) ==
    /\ walk \in Walked(p)
    /\ walk.leaves \in Seq(Selected(p) \ ok)
    /\ walk.stuck => walk.leaves = <<>>
    /\ ~walk.stuck => \A u \in Selected(p) \ ok : \E l \in ToSet(walk.leaves) : u \in Ancestors(p, l)

\* get_leaf_tests_in_dfs_order comes to an end and returns leaves that are not up
\* to date; unless it gets stuck, each test that is not up to date is one of the
\* leaves or above one of them.
THEOREM LeavesReached ==
    ASSUME NEW p, Ordered(p), ChildrenKnown(p), p.tests \in Seq(Selected(p)),
           NEW ok \in SUBSET Selected(p), Upward(p, ok)
    PROVE  WalkIsRight(p, ok, get_leaf_tests_in_dfs_order(p, ok))
<1> DEFINE top == get_topmost_uncached_tests(p, ok)
           walk == get_leaf_tests_in_dfs_order(p, ok)
           e == Entry(<<>>, top)
           stack == Append(<<>>, e)
           s == DfsState(stack, ok, <<>>)
<1>1. top \in Seq(Selected(p) \ ok) /\ Topmost(p, ok) \subseteq ToSet(top)
  BY TopUncached
<1>2. PICK g \in [DfsStates(p) -> Walked(p)] :
          /\ \A x \in DfsFinal(p) : g[x] = DfsResult(x)
          /\ \A x \in DfsStates(p) \ DfsFinal(p) : g[x] = g[DfsStep(p, x)]
          /\ walk = g[DfsState(<<e>>, ok, <<>>)]
  BY DfsLoop
<1>3. stack = <<e>>
  OBVIOUS
<1> HIDE DEF top
<1>4. /\ e \in EntrySet(Selected(p)) /\ e \in EntrySet(Selected(p) \ ok)
      /\ e.test = <<>> /\ e.todo = top
  <2>1. top \in Seq(Selected(p)) /\ <<>> \in Seq(Selected(p)) /\ <<>> \in Seq(Selected(p) \ ok)
    BY <1>1
  <2> QED
    BY <1>1, <2>1, EntryType, EntryFields
<1> HIDE DEF e
<1>5. stack \in Seq(EntrySet(Selected(p))) /\ stack \in Seq(EntrySet(Selected(p) \ ok))
  BY <1>4
<1>6. s \in DfsStates(p)
  <2>1. <<>> \in Seq(Selected(p))
    OBVIOUS
  <2> HIDE DEF stack
  <2> QED
    BY <1>5, <2>1, StateType
<1>7. s.stack = stack /\ s.leaves = <<>>
  BY StateFields
<1>8. walk = g[s]
  BY <1>2, <1>3
<1> HIDE DEF walk, s
<1>9. DfsGood(p, ok, s, walk) /\ walk \in Walked(p)
  BY <1>2, <1>6, <1>8, DfsGoodResult
<1>10. Uncached(p, ok, s)
  BY <1>5, <1>7 DEF Uncached
<1>11. \A l : (\E t \in ToSet(top) : t \in Ancestors(p, l)) => Covered(p, s.stack, l)
  <2>1. stack[1] = e /\ Len(stack) = 1
    OBVIOUS
  <2> HIDE DEF stack
  <2> QED
    BY <1>4, <1>7, <2>1 DEF Covered, Reaches
<1> HIDE DEF stack
<1>12. ASSUME NEW u \in Selected(p) \ ok
       PROVE  \E l \in Childless(p) : u \in Ancestors(p, l) /\ Covered(p, s.stack, l)
  <2> DEFINE S == {x \in Selected(p) : u \in Ancestors(p, x)}
             T == Ancestors(p, u) \ ok
  <2>0. u \in Ancestors(p, u) /\ Ancestors(p, u) \subseteq Selected(p) /\ Upward(p, Ancestors(p, u))
    BY AncestorFacts
  <2>1. PICK f \in T : ParentSet(p, f) \cap T = {}
    <3>1. T \in SUBSET Selected(p) /\ T # {}
      BY <2>0
    <3> HIDE DEF T
    <3> QED
      BY <3>1 DEF Ordered, Hierarchy
  <2>2. f \in Topmost(p, ok)
    BY <2>0, <2>1 DEF Topmost, Upward
  <2>3. PICK l \in S : \A x \in S : l \notin ParentSet(p, x)
    BY <2>0, LowestTest
  <2>4. p.children[l] = <<>>
    <3> DEFINE c == p.children[l]
    <3>1. c \in Seq(Selected(p))
      BY DEF ChildrenKnown
    <3>2. ASSUME NEW x \in ToSet(c)
          PROVE  FALSE
      <4>1. x \in Selected(p) /\ l \in ParentSet(p, x)
        BY <3>1, ElementsOfSeq DEF ChildrenKnown
      <4>2. l \in Ancestors(p, x)
        BY <4>1, AncestorFacts
      <4>3. u \in Ancestors(p, x)
        BY <4>1, <4>2, AncestorsStep
      <4> QED
        BY <2>3, <4>1, <4>3
    <3> HIDE DEF c
    <3>3. \A i \in 1 .. Len(c) : FALSE
      BY <3>1, <3>2, ElementsOfSeq
    <3>4. c = <<>>
      BY <3>1, <3>3
    <3> QED
      BY <3>4 DEF c
  <2>5. f \in Ancestors(p, l)
    BY <2>1, <2>3, AncestorsStep
  <2> QED
    BY <1>1, <1>11, <2>2, <2>3, <2>4, <2>5 DEF Childless
<1> QED
  BY <1>9, <1>10, <1>12 DEF DfsGood, WalkIsRight, walk

----------------------------------------------------------------------------
(* The tests below a test                                                  *)

\* A test and all tests it is an ancestor of.
Under(p, t) == {x \in Selected(p) : t \in Ancestors(p, x)}

\* The tests below a test are the test and those below its children.
LEMMA UnderStep ==
    ASSUME NEW p, Ordered(p), ChildrenKnown(p), NEW t \in Selected(p)
    PROVE  /\ t \in Under(p, t) /\ Under(p, t) \subseteq Selected(p)
           /\ Under(p, t) = {t} \cup UNION {Under(p, u) : u \in ToSet(p.children[t])}
           /\ \A x \in Under(p, t) : Under(p, x) \subseteq Under(p, t)
<1>1. ToSet(p.children[t]) \subseteq Selected(p)
  BY ElementsOfSeq DEF ChildrenKnown
<1>2. t \in Under(p, t) /\ Under(p, t) \subseteq Selected(p)
  BY AncestorFacts DEF Under
<1>3. \A x \in Under(p, t) : Under(p, x) \subseteq Under(p, t)
  BY AncestorsStep DEF Under
<1>4. \A u \in ToSet(p.children[t]) : u \in Under(p, t)
  <2> TAKE u \in ToSet(p.children[t])
  <2>1. u \in Selected(p) /\ t \in ParentSet(p, u)
    BY <1>1 DEF ChildrenKnown
  <2> QED
    BY <2>1, AncestorFacts DEF Under
<1>5. \A u \in ToSet(p.children[t]) : Under(p, u) \subseteq Under(p, t)
  BY <1>3, <1>4
<1>6. ASSUME NEW x \in Under(p, t), x # t
      PROVE  \E u \in ToSet(p.children[t]) : x \in Under(p, u)
  BY <1>6, ChildTowards DEF Under
<1> QED
  BY <1>2, <1>3, <1>5, <1>6

\* Subtrees satisfies its equation, whose only solution are the tests below.
LEMMA SubtreesAre ==
    ASSUME NEW p, Ordered(p), ChildrenKnown(p), NEW t \in Selected(p)
    PROVE  Subtrees(p)[t] = Under(p, t)
<1> DEFINE Is(f) == f = [x \in Selected(p) |-> {x} \cup UNION {f[u] : u \in ToSet(get_children(p, x))}]
           g == [x \in Selected(p) |-> Under(p, x)]
           f == Subtrees(p)
           A == {x \in Selected(p) : f[x] = Under(p, x)}
<1>1. f = CHOOSE h : Is(h)
  BY DEF Subtrees
<1>2. \A x \in Selected(p) : ToSet(p.children[x]) \subseteq Selected(p)
  BY ElementsOfSeq DEF ChildrenKnown
<1>3. Is(g)
  <2>1. ASSUME NEW x \in Selected(p)
        PROVE  g[x] = {x} \cup UNION {g[u] : u \in ToSet(get_children(p, x))}
    <3>1. \A u \in ToSet(p.children[x]) : g[u] = Under(p, u)
      BY <1>2
    <3>2. {g[u] : u \in ToSet(p.children[x])} = {Under(p, u) : u \in ToSet(p.children[x])}
      BY <3>1
    <3> QED
      BY <3>2, UnderStep DEF get_children
  <2> DEFINE b == [x \in Selected(p) |-> {x} \cup UNION {g[u] : u \in ToSet(get_children(p, x))}]
  <2>2. \A x \in Selected(p) : g[x] = b[x]
    BY <2>1
  <2> QED
    BY <2>2
<1>4. Is(f)
  <2> HIDE DEF Is, g, f
  <2> QED
    BY <1>1, <1>3
<1> HIDE DEF f
<1>5. \A x \in Selected(p) : f[x] = {x} \cup UNION {f[u] : u \in ToSet(p.children[x])}
  BY <1>4 DEF get_children
<1>6. ASSUME NEW x \in Selected(p), ToSet(p.children[x]) \subseteq A
      PROVE  x \in A
  <2>1. {f[u] : u \in ToSet(p.children[x])} = {Under(p, u) : u \in ToSet(p.children[x])}
    BY <1>6
  <2> QED
    BY <1>5, <2>1, UnderStep
<1>7. A = Selected(p)
  <2> HIDE DEF A
  <2>1. A \in SUBSET Selected(p)
    BY DEF A
  <2> QED
    BY <1>6, <2>1, FromChildren
<1> QED
  BY <1>7 DEF f

\* No test has two parents.
Single(p) == \A t \in Selected(p) : Len(p.parents[t]) <= 1

\* Then two tests above the same test are above one another.
LEMMA OneLine ==
    ASSUME NEW p, Ordered(p), Single(p), NEW x \in Selected(p),
           NEW t \in Ancestors(p, x), NEW u \in Ancestors(p, x)
    PROVE  t \in Ancestors(p, u) \/ u \in Ancestors(p, t)
<1> DEFINE D == {v \in Selected(p) : v \in Ancestors(p, t) \/ t \in Ancestors(p, v)}
<1>1. t \in Selected(p) /\ u \in Selected(p)
  BY AncestorFacts
<1>2. Upward(p, D)
  <2> SUFFICES ASSUME NEW v \in D, NEW q \in ParentSet(p, v)
               PROVE  q \in D
    BY DEF Upward
  <2>1. q \in Selected(p)
    BY AncestorFacts
  <2>2. CASE v \in Ancestors(p, t)
    BY <1>1, <2>1, <2>2, AncestorFacts DEF Upward
  <2>3. CASE v \notin Ancestors(p, t)
    <3>1. t \in Ancestors(p, v) \ {v}
      BY <1>1, <2>3, AncestorFacts
    <3>2. PICK r \in ParentSet(p, v) : t \in Ancestors(p, r)
      BY <3>1, AncestorsStep
    <3>3. r = q
      <4>1. p.parents[v] \in Seq(Selected(p)) /\ Len(p.parents[v]) <= 1
        BY DEF Ordered, Single
      <4>2. \A i, j \in 1 .. Len(p.parents[v]) : i = j
        BY <4>1
      <4> QED
        BY <4>1, <4>2 DEF ParentSet, ToSet
    <3> QED
      BY <2>1, <3>2, <3>3
  <2> QED
    BY <2>2, <2>3
<1>3. x \in D /\ D \in SUBSET Selected(p)
  OBVIOUS
<1> HIDE DEF D
<1>4. u \in D
  BY <1>2, <1>3, AncestorsIn
<1> QED
  BY <1>4 DEF D

\* Every test has a test without children below it.
LEMMA ChildlessUnder ==
    ASSUME NEW p, Ordered(p), ChildrenKnown(p), NEW t \in Selected(p)
    PROVE  \E l \in Childless(p) : l \in Under(p, t)
<1> DEFINE A == {x \in Selected(p) : \E l \in Childless(p) : l \in Under(p, x)}
<1>1. ASSUME NEW x \in Selected(p), ToSet(p.children[x]) \subseteq A
      PROVE  x \in A
  <2>1. CASE p.children[x] = <<>>
    BY <2>1, UnderStep DEF Childless
  <2>2. CASE p.children[x] # <<>>
    <3>1. p.children[x] \in Seq(Selected(p))
      BY DEF ChildrenKnown
    <3>2. PICK u : u \in ToSet(p.children[x])
      <4>1. 1 \in 1 .. Len(p.children[x])
        BY <2>2, <3>1
      <4> QED
        BY <3>1, <4>1, ElementsOfSeq
    <3>3. PICK l \in Childless(p) : l \in Under(p, u)
      BY <1>1, <3>2
    <3>4. l \in Under(p, x)
      BY <3>2, <3>3, UnderStep
    <3> QED
      BY <3>4
  <2> QED
    BY <2>1, <2>2
<1>2. A = Selected(p)
  <2> HIDE DEF A
  <2>1. A \in SUBSET Selected(p)
    BY DEF A
  <2> QED
    BY <1>1, <2>1, FromChildren
<1> QED
  BY <1>2

----------------------------------------------------------------------------
(* The stack of the walk                                                   *)

\* The children that are ready can be told from the child that is chosen.
LEMMA ChosenIsReady ==
    ASSUME NEW p, NEW todo \in Seq(Selected(p)), NEW visited
    PROVE  /\ HasNext(p, todo, visited) =>
                  get_external_dependencies(p, Chosen(p, todo, visited)) \subseteq visited
           /\ todo # <<>> /\ ~HasNext(p, todo, visited) =>
                  \A t \in ToSet(todo) : ~(get_external_dependencies(p, t) \subseteq visited)
<1> DEFINE I == {i \in 1 .. Len(todo) : get_external_dependencies(p, todo[i]) \subseteq visited}
           n == NextChild(p, todo, visited)
<1>1. n = IF I # {} THEN Min(I) ELSE 0
  BY DEF NextChild, SelectInSeq
<1>2. Len(todo) \in Nat /\ I \in SUBSET (1 .. Len(todo))
  OBVIOUS
<1>3. I # {} => Min(I) \in I
  <2> HIDE DEF I
  <2> QED
    BY <1>2, MinOfNumbers
<1>4. n # 0 => n \in I
  BY <1>1, <1>3
<1>5. n = 0 => I = {}
  <2>1. \A i \in I : i # 0
    BY <1>2
  <2> QED
    BY <1>1, <1>3, <2>1
<1>6. HasNext(p, todo, visited) => get_external_dependencies(p, todo[n]) \subseteq visited
  BY <1>4 DEF HasNext
<1>7. ASSUME todo # <<>>, ~HasNext(p, todo, visited), NEW t \in ToSet(todo)
      PROVE  ~(get_external_dependencies(p, t) \subseteq visited)
  <2>1. PICK i \in 1 .. Len(todo) : t = todo[i]
    BY ElementsOfSeq DEF ToSet
  <2>2. I = {}
    BY <1>5, <1>7 DEF HasNext
  <2> QED
    BY <2>1, <2>2
<1> QED
  BY <1>6, <1>7 DEF Chosen

\* The tests whose entries are among the first n of the stack.
OnStack(p, stack, n) == {t \in Selected(p) : \E i \in 1 .. n : stack[i].test = <<t>>}

\* What is known of an entry above those of the tests of above.  At the bottom are
\* the topmost uncached tests; any other entry is that of an uncached test whose
\* external dependencies have been visited, the tests of above being ancestors of
\* it and, where no test has two parents, all of them that are not up to date.
EntryStands(p, S, visited, above, e) ==
    \/ /\ e.test = <<>> /\ above = {}
       /\ ToSet(e.todo) \subseteq Topmost(p, S)
       /\ Topmost(p, S) \subseteq visited \cup ToSet(e.todo)
    \/ \E t \in visited \ S :
          /\ e.test = <<t>>
          /\ ToSet(e.todo) \subseteq ToSet(p.children[t])
          /\ ToSet(p.children[t]) \subseteq visited \cup ToSet(e.todo)
          /\ get_external_dependencies(p, t) \subseteq visited
          /\ above \subseteq Ancestors(p, t) \ {t}
          /\ Single(p) => Ancestors(p, t) \ S \subseteq above \cup {t}

StackStands(p, S, visited, stack) ==
    \A i \in 1 .. Len(stack) : EntryStands(p, S, visited, OnStack(p, stack, i - 1), stack[i])

\* The tests of above and that of an entry.
Joined(p, above, test) == above \cup {t \in Selected(p) : test = <<t>>}

\* The tests of a stack with another entry.
LEMMA OnStackAppend ==
    ASSUME NEW p, NEW E, NEW stack \in Seq(E), NEW e \in E
    PROVE  /\ OnStack(p, Append(stack, e), Len(Append(stack, e)))
                = Joined(p, OnStack(p, stack, Len(stack)), e.test)
           /\ \A i \in 0 .. Len(stack) : OnStack(p, Append(stack, e), i) = OnStack(p, stack, i)
<1> DEFINE n == Len(stack)
           q == Append(stack, e)
<1>1. n \in Nat /\ Len(q) = n + 1 /\ q[n + 1] = e /\ \A i \in 1 .. n : q[i] = stack[i]
  OBVIOUS
<1> HIDE DEF q, n
<1>2. \A i \in 1 .. n + 1 : i = n + 1 \/ i \in 1 .. n
  BY <1>1
<1>3. n + 1 \in 1 .. n + 1 /\ \A i \in 1 .. n : i \in 1 .. n + 1
  BY <1>1
<1>4. \A i \in 0 .. n : OnStack(p, q, i) = OnStack(p, stack, i)
  <2> TAKE i \in 0 .. n
  <2>1. \A k \in 1 .. i : q[k] = stack[k]
    BY <1>1
  <2> QED
    BY <2>1 DEF OnStack
<1>5. OnStack(p, q, n + 1) = Joined(p, OnStack(p, stack, n), e.test)
  BY <1>1, <1>2, <1>3 DEF OnStack, Joined
<1> QED
  BY <1>1, <1>4, <1>5 DEF q, n

\* The tests of a stack are those below its top and that of the top.
LEMMA OnStackTop ==
    ASSUME NEW p, NEW E, NEW stack \in Seq(E), NEW e \in E
    PROVE  OnStack(p, Append(stack, e), Len(Append(stack, e)))
               = Joined(p, OnStack(p, stack, Len(stack)), e.test)
  BY OnStackAppend

\* A stack stands if it does below its top and the top does.
LEMMA StackAppend ==
    ASSUME NEW p, NEW S, NEW visited, NEW E, NEW stack \in Seq(E), NEW e \in E
    PROVE  /\ OnStack(p, Append(stack, e), Len(Append(stack, e)))
                = OnStack(p, stack, Len(stack)) \cup {t \in Selected(p) : e.test = <<t>>}
           /\ StackStands(p, S, visited, Append(stack, e)) <=>
                /\ StackStands(p, S, visited, stack)
                /\ EntryStands(p, S, visited, OnStack(p, stack, Len(stack)), e)
<1> DEFINE n == Len(stack)
           q == Append(stack, e)
<1>1. n \in Nat /\ Len(q) = n + 1 /\ q[n + 1] = e /\ \A i \in 1 .. n : q[i] = stack[i]
  OBVIOUS
<1>4. /\ OnStack(p, q, Len(q)) = OnStack(p, stack, n) \cup {t \in Selected(p) : e.test = <<t>>}
      /\ \A i \in 0 .. n : OnStack(p, q, i) = OnStack(p, stack, i)
  <2>1. /\ OnStack(p, q, Len(q)) = Joined(p, OnStack(p, stack, n), e.test)
        /\ \A i \in 0 .. n : OnStack(p, q, i) = OnStack(p, stack, i)
    BY OnStackAppend
  <2> QED
    BY <2>1 DEF Joined
<1> HIDE DEF q, n
<1>2. \A i \in 1 .. n + 1 : i = n + 1 \/ i \in 1 .. n
  BY <1>1
<1>3. n + 1 \in 1 .. n + 1 /\ (\A i \in 1 .. n : i \in 1 .. n + 1) /\ n + 1 - 1 = n
  BY <1>1
<1>6. \A i \in 1 .. n : i - 1 \in 0 .. n /\ n \in 0 .. n
  BY <1>1
<1>7. \A i \in 1 .. n : OnStack(p, q, i - 1) = OnStack(p, stack, i - 1)
  BY <1>4, <1>6
<1>8. n \in 0 .. n
  BY <1>1
<1>9. OnStack(p, q, n + 1 - 1) = OnStack(p, stack, n)
  BY <1>3, <1>4, <1>8
<1>10. StackStands(p, S, visited, q) <=> /\ StackStands(p, S, visited, stack)
                                         /\ EntryStands(p, S, visited, OnStack(p, stack, n), e)
  BY <1>1, <1>2, <1>3, <1>7, <1>9 DEF StackStands, n
<1> QED
  BY <1>4, <1>10 DEF q, n

\* A stack stands when more tests have been visited, and all its tests have been.
LEMMA StackVisited ==
    ASSUME NEW p, NEW S, NEW visited, NEW E, NEW stack \in Seq(E), StackStands(p, S, visited, stack)
    PROVE  /\ \A w : visited \subseteq w => StackStands(p, S, w, stack)
           /\ OnStack(p, stack, Len(stack)) \subseteq visited \ S
<1>1. ASSUME NEW w, visited \subseteq w, NEW i \in 1 .. Len(stack)
      PROVE  EntryStands(p, S, w, OnStack(p, stack, i - 1), stack[i])
  <2> DEFINE above == OnStack(p, stack, i - 1)
             e == stack[i]
  <2>1. EntryStands(p, S, visited, above, e)
    BY <1>1 DEF StackStands
  <2> HIDE DEF above, e
  <2>2. EntryStands(p, S, w, above, e)
    BY <1>1, <2>1 DEF EntryStands
  <2> QED
    BY <2>2 DEF above, e
<1>2. ASSUME NEW t \in OnStack(p, stack, Len(stack))
      PROVE  t \in visited \ S
  <2>1. PICK i \in 1 .. Len(stack) : stack[i].test = <<t>>
    BY <1>2 DEF OnStack
  <2>2. EntryStands(p, S, visited, OnStack(p, stack, i - 1), stack[i])
    BY <2>1 DEF StackStands
  <2>3. PICK u \in visited \ S : <<t>> = <<u>>
    BY <2>1, <2>2 DEF EntryStands
  <2> QED
    BY <2>3
<1> QED
  BY <1>1, <1>2 DEF StackStands

\* What has been visited and left again has been walked through to its leaves.
Finished(p, S, visited, on, leaves) ==
    \A d \in visited \ (S \cup on) :
        /\ Under(p, d) \subseteq visited
        /\ Under(p, d) \cap Childless(p) \subseteq ToSet(leaves)

\* The bottom of the stack stays until all topmost uncached tests are visited.
HasBottom(stack) == \E i \in 1 .. Len(stack) : stack[i].test = <<>>

\* The walk may find itself with this stack, these visited tests and leaves.
Standing(p, S, stack, visited, leaves) ==
    /\ S \subseteq visited
    /\ StackStands(p, S, visited, stack)
    /\ Finished(p, S, visited, OnStack(p, stack, Len(stack)), leaves)
    /\ HasBottom(stack) \/ Topmost(p, S) \subseteq visited

\* The bottom of a stack, entry by entry.
LEMMA BottomAppend ==
    ASSUME NEW E, NEW stack \in Seq(E), NEW e \in E
    PROVE  HasBottom(Append(stack, e)) <=> HasBottom(stack) \/ e.test = <<>>
<1> DEFINE n == Len(stack)
           q == Append(stack, e)
<1>1. n \in Nat /\ Len(q) = n + 1 /\ q[n + 1] = e /\ \A i \in 1 .. n : q[i] = stack[i]
  OBVIOUS
<1> HIDE DEF q
<1>2. \A i \in 1 .. n + 1 : i = n + 1 \/ i \in 1 .. n
  BY <1>1
<1>3. n + 1 \in 1 .. n + 1 /\ \A i \in 1 .. n : i \in 1 .. n + 1
  BY <1>1
<1>4. HasBottom(q) <=> HasBottom(stack) \/ e.test = <<>>
  BY <1>1, <1>2, <1>3 DEF HasBottom
<1> QED
  BY <1>4 DEF q

\* A child of an uncached test is one itself, and another one than those above.
LEMMA ChildIsNew ==
    ASSUME NEW p, Ordered(p), ChildrenKnown(p), NEW S \in SUBSET Selected(p), Upward(p, S),
           NEW t \in Selected(p) \ S, NEW u \in ToSet(p.children[t])
    PROVE  /\ u \in Selected(p) \ S /\ t \in ParentSet(p, u) /\ u \notin Ancestors(p, t)
           /\ u # t /\ Ancestors(p, t) \subseteq Ancestors(p, u)
<1>1. u \in Selected(p) /\ t \in ParentSet(p, u)
  <2>1. ToSet(p.children[t]) \subseteq Selected(p)
    BY ElementsOfSeq DEF ChildrenKnown
  <2> QED
    BY <2>1 DEF ChildrenKnown
<1>2. u \notin S
  BY <1>1 DEF Upward
<1>3. u \notin Ancestors(p, t)
  BY <1>1, NoOwnAncestor
<1>4. u # t
  BY <1>3, AncestorFacts
<1>5. t \in Ancestors(p, u)
  BY <1>1, AncestorFacts
<1> QED
  BY <1>1, <1>2, <1>3, <1>4, <1>5, AncestorsStep

\* An entry that is done with is popped.
LEMMA PopStands ==
    ASSUME NEW p, Ordered(p), ChildrenKnown(p), NEW S \in SUBSET Selected(p), Upward(p, S),
           NEW stack \in Seq(EntrySet(Selected(p))), NEW test \in Seq(Selected(p)),
           NEW v \in SUBSET Selected(p), NEW leaves \in Seq(Selected(p)),
           NEW todo \in Seq(Selected(p)), todo = <<>>,
           Standing(p, S, Append(stack, Entry(test, todo)), v, leaves)
    PROVE  Standing(p, S, stack, v, LeavesWith(p, leaves, test))
<1> DEFINE E == EntrySet(Selected(p))
           e == Entry(test, todo)
           q == Append(stack, e)
           m == LeavesWith(p, leaves, test)
           above == OnStack(p, stack, Len(stack))
           on == OnStack(p, q, Len(q))
<1>1. e.test = test /\ e.todo = todo /\ ToSet(todo) = {}
  BY EntryFields DEF ToSet
<1>2. e \in E
  BY EntryType
<1>3. /\ S \subseteq v /\ StackStands(p, S, v, q) /\ Finished(p, S, v, on, leaves)
      /\ HasBottom(q) \/ Topmost(p, S) \subseteq v
  BY DEF Standing
<1>4. ToSet(leaves) \subseteq ToSet(m) /\ \A l \in Childless(p) : test = <<l>> => l \in ToSet(m)
  BY LeavesWithLeaf
<1> HIDE DEF e, E, m
<1>5. /\ on = above \cup {t \in Selected(p) : test = <<t>>}
      /\ StackStands(p, S, v, stack) /\ EntryStands(p, S, v, above, e)
      /\ HasBottom(q) <=> HasBottom(stack) \/ test = <<>>
  <2>1. stack \in Seq(E)
    BY DEF E
  <2>2. /\ on = above \cup {t \in Selected(p) : e.test = <<t>>}
        /\ StackStands(p, S, v, q) <=> StackStands(p, S, v, stack) /\ EntryStands(p, S, v, above, e)
    BY <1>2, <2>1, StackAppend
  <2>3. HasBottom(q) <=> HasBottom(stack) \/ e.test = <<>>
    BY <1>2, <2>1, BottomAppend
  <2> QED
    BY <1>1, <1>3, <2>2, <2>3
<1> HIDE DEF q, on, above
<1>6. ASSUME NEW d \in v \ (S \cup above)
      PROVE  Under(p, d) \subseteq v /\ Under(p, d) \cap Childless(p) \subseteq ToSet(m)
  <2>1. CASE test # <<d>>
    <3>1. d \in v \ (S \cup on)
      BY <1>5, <2>1
    <3> QED
      BY <1>3, <1>4, <3>1 DEF Finished
  <2>2. CASE test = <<d>>
    <3>1. ToSet(p.children[d]) \subseteq v /\ above \subseteq Ancestors(p, d) \ {d}
      <4>1. test # <<>>
        BY <2>2
      <4>2. PICK t \in v \ S : /\ test = <<t>> /\ ToSet(p.children[t]) \subseteq v
                               /\ above \subseteq Ancestors(p, t) \ {t}
        BY <1>1, <1>5, <4>1 DEF EntryStands
      <4>3. t = d
        BY <2>2, <4>2
      <4> QED
        BY <4>2, <4>3
    <3>2. ASSUME NEW u \in ToSet(p.children[d])
          PROVE  Under(p, u) \subseteq v /\ Under(p, u) \cap Childless(p) \subseteq ToSet(m)
      <4>1. u \in Selected(p) \ S /\ u \notin Ancestors(p, d) /\ u # d
        BY <1>6, ChildIsNew
      <4>2. u \in v \ (S \cup on)
        <5>1. test # <<u>>
          BY <2>2, <4>1
        <5> QED
          BY <1>5, <3>1, <4>1, <5>1
      <4> QED
        BY <1>3, <1>4, <4>2 DEF Finished
    <3>3. Under(p, d) = {d} \cup UNION {Under(p, u) : u \in ToSet(p.children[d])}
      BY <1>6, UnderStep
    <3>4. d \in Childless(p) => d \in ToSet(m)
      BY <1>4, <2>2
    <3> QED
      BY <1>6, <3>2, <3>3, <3>4
  <2> QED
    BY <2>1, <2>2
<1>7. HasBottom(stack) \/ Topmost(p, S) \subseteq v
  <2>1. CASE test = <<>>
    <3>1. \A t : test # <<t>>
      BY <2>1
    <3>2. Topmost(p, S) \subseteq v
      BY <1>1, <1>5, <3>1 DEF EntryStands
    <3> QED
      BY <3>2
  <2> QED
    BY <1>3, <1>5, <2>1
<1> QED
  BY <1>3, <1>5, <1>6, <1>7 DEF Standing, Finished, above, m

\* The child that is chosen is uncached, its external dependencies have been
\* visited, and its ancestors are on the stack.
LEMMA ChosenStands ==
    ASSUME NEW p, Ordered(p), ChildrenKnown(p), NEW S \in SUBSET Selected(p), Upward(p, S),
           NEW test \in Seq(Selected(p)), NEW todo \in Seq(Selected(p)),
           NEW v \in SUBSET Selected(p), NEW above,
           EntryStands(p, S, v, above, Entry(test, todo)), HasNext(p, todo, v)
    PROVE  /\ Chosen(p, todo, v) \in Selected(p) \ S
           /\ get_external_dependencies(p, Chosen(p, todo, v)) \subseteq v
           /\ Joined(p, above, test) \subseteq Ancestors(p, Chosen(p, todo, v)) \ {Chosen(p, todo, v)}
           /\ Single(p) => Ancestors(p, Chosen(p, todo, v)) \ S
                              \subseteq Joined(p, above, test) \cup {Chosen(p, todo, v)}
<1> DEFINE e == Entry(test, todo)
           u == Chosen(p, todo, v)
           on == Joined(p, above, test)
<1>1. e.test = test /\ e.todo = todo
  BY EntryFields
<1>2. u \in ToSet(todo) /\ get_external_dependencies(p, u) \subseteq v
  BY ChosenFacts, ChosenIsReady
<1> HIDE DEF e, u, on
<1>3. CASE test = <<>>
  <2>1. \A t : test # <<t>>
    BY <1>3
  <2>2. on = {} /\ u \in Topmost(p, S)
    BY <1>1, <1>2, <2>1 DEF EntryStands, e, on, Joined
  <2>3. u \in Selected(p) \ S /\ ParentSet(p, u) \subseteq S
    BY <2>2 DEF Topmost
  <2>4. \A x \in Ancestors(p, u) \ {u} : x \in S
    <3> TAKE x \in Ancestors(p, u) \ {u}
    <3>1. PICK r \in ParentSet(p, u) : x \in Ancestors(p, r)
      BY <2>3, AncestorsStep
    <3>2. r \in S /\ r \in Selected(p)
      BY <2>3, <3>1
    <3>3. Ancestors(p, r) \subseteq S
      BY <3>2, AncestorsIn
    <3> QED
      BY <3>1, <3>3
  <2> QED
    BY <1>2, <2>2, <2>3, <2>4 DEF u, on
<1>4. CASE test # <<>>
  <2>1. PICK t \in v \ S : /\ test = <<t>> /\ ToSet(todo) \subseteq ToSet(p.children[t])
                           /\ above \subseteq Ancestors(p, t) \ {t}
                           /\ Single(p) => Ancestors(p, t) \ S \subseteq above \cup {t}
    BY <1>1, <1>4 DEF EntryStands, e
  <2>2. on = above \cup {t}
    <3>1. \A x \in Selected(p) : test = <<x>> <=> x = t
      BY <2>1
    <3> QED
      BY <2>1, <3>1 DEF on, Joined
  <2>3. /\ u \in Selected(p) \ S /\ t \in ParentSet(p, u) /\ u \notin Ancestors(p, t)
        /\ Ancestors(p, t) \subseteq Ancestors(p, u)
    BY <1>2, <2>1, ChildIsNew
  <2>4. t \in Ancestors(p, t)
    BY <2>1, AncestorFacts
  <2>5. on \subseteq Ancestors(p, u) \ {u}
    BY <2>1, <2>2, <2>3, <2>4
  <2>6. ASSUME Single(p), NEW x \in Ancestors(p, u) \ S, x # u
        PROVE  x \in on
    <3>1. PICK r \in ParentSet(p, u) : x \in Ancestors(p, r)
      BY <2>3, <2>6, AncestorsStep
    <3>2. r = t
      <4>1. p.parents[u] \in Seq(Selected(p)) /\ Len(p.parents[u]) <= 1
        BY <2>3, <2>6 DEF Ordered, Single
      <4>2. \A i, j \in 1 .. Len(p.parents[u]) : i = j
        BY <4>1
      <4> QED
        BY <2>3, <4>1, <4>2 DEF ParentSet, ToSet
    <3> QED
      BY <2>1, <2>2, <2>6, <3>1, <3>2
  <2> QED
    BY <1>2, <2>3, <2>5, <2>6 DEF u, on
<1> QED
  BY <1>3, <1>4 DEF u, on

\* The walk goes on from the stack old to the test u, new being the stack below u.
Further(p, S, v, leaves, old, new, u) ==
    /\ Standing(p, S, Append(new, Entry(<<u>>, p.children[u])), v \cup {u}, leaves)
    /\ OnStack(p, new, Len(new)) = OnStack(p, old, Len(old))
    /\ u \in Selected(p) \ S
    /\ get_external_dependencies(p, u) \subseteq v
    /\ OnStack(p, new, Len(new)) \subseteq Ancestors(p, u) \ {u}

\* The entry of the child that is chosen is pushed.
LEMMA PushStands ==
    ASSUME NEW p, Ordered(p), ChildrenKnown(p), NEW S \in SUBSET Selected(p), Upward(p, S),
           NEW stack \in Seq(EntrySet(Selected(p))), NEW test \in Seq(Selected(p)),
           NEW todo \in Seq(Selected(p)), NEW v \in SUBSET Selected(p),
           NEW leaves \in Seq(Selected(p)),
           Standing(p, S, Append(stack, Entry(test, todo)), v, leaves), HasNext(p, todo, v)
    PROVE  Further(p, S, v, leaves, Append(stack, Entry(test, todo)),
                   Append(stack, Entry(test, Rest(p, todo, v))), Chosen(p, todo, v))
<1> DEFINE E == EntrySet(Selected(p))
           u == Chosen(p, todo, v)
           rest == Rest(p, todo, v)
           e == Entry(test, todo)
           a == Entry(test, rest)
           q == Append(stack, a)
           b == Entry(<<u>>, p.children[u])
           old == Append(stack, e)
           new == Append(q, b)
           w == v \cup {u}
           above == OnStack(p, stack, Len(stack))
           on == OnStack(p, q, Len(q))
<1>1. /\ e.test = test /\ e.todo = todo /\ a.test = test /\ a.todo = rest
      /\ b.test = <<u>> /\ b.todo = p.children[u]
  BY EntryFields
<1>2. /\ u \in Selected(p) /\ <<u>> \in Seq(Selected(p)) /\ p.children[u] \in Seq(Selected(p))
      /\ rest \in Seq(Selected(p)) /\ ToSet(todo) = {u} \cup ToSet(rest)
  BY ChosenFacts
<1> HIDE DEF rest, u
<1>3. e \in E /\ a \in E /\ b \in E /\ stack \in Seq(E)
  BY <1>2, EntryType DEF rest
<1> HIDE DEF e, a, b
<1>4. q \in Seq(E)
  <2> HIDE DEF E
  <2> QED
    BY <1>3
<1>5. /\ S \subseteq v /\ StackStands(p, S, v, old)
      /\ Finished(p, S, v, OnStack(p, old, Len(old)), leaves)
      /\ HasBottom(old) \/ Topmost(p, S) \subseteq v
  BY DEF Standing, e
<1> HIDE DEF E
<1>7. /\ OnStack(p, old, Len(old)) = above \cup {t \in Selected(p) : e.test = <<t>>}
      /\ StackStands(p, S, v, stack) /\ EntryStands(p, S, v, above, e)
  <2>1. /\ OnStack(p, old, Len(old)) = above \cup {t \in Selected(p) : e.test = <<t>>}
        /\ StackStands(p, S, v, old) <=> StackStands(p, S, v, stack) /\ EntryStands(p, S, v, above, e)
    BY <1>3, StackAppend
  <2> QED
    BY <1>5, <2>1
<1>8. /\ on = above \cup {t \in Selected(p) : a.test = <<t>>}
      /\ StackStands(p, S, w, q) <=>
           StackStands(p, S, w, stack) /\ EntryStands(p, S, w, above, a)
  BY <1>3, StackAppend
<1>9. /\ OnStack(p, new, Len(new)) = on \cup {t \in Selected(p) : b.test = <<t>>}
      /\ StackStands(p, S, w, new) <=> StackStands(p, S, w, q) /\ EntryStands(p, S, w, on, b)
  BY <1>3, <1>4, StackAppend
<1>10. /\ HasBottom(old) <=> HasBottom(stack) \/ e.test = <<>>
       /\ HasBottom(q) <=> HasBottom(stack) \/ a.test = <<>>
       /\ HasBottom(new) <=> HasBottom(q) \/ b.test = <<>>
  BY <1>3, <1>4, BottomAppend
<1> HIDE DEF old, new, above, on, q
<1>11. on = OnStack(p, old, Len(old)) /\ on = above \cup {t \in Selected(p) : test = <<t>>}
  <2>1. {t \in Selected(p) : e.test = <<t>>} = {t \in Selected(p) : a.test = <<t>>}
        /\ {t \in Selected(p) : a.test = <<t>>} = {t \in Selected(p) : test = <<t>>}
    BY <1>1
  <2> QED
    BY <1>7, <1>8, <2>1
<1>12. /\ u \in Selected(p) \ S /\ get_external_dependencies(p, u) \subseteq v
       /\ on \subseteq Ancestors(p, u) \ {u}
       /\ Single(p) => Ancestors(p, u) \ S \subseteq on \cup {u}
  <2>1. EntryStands(p, S, v, above, Entry(test, todo))
    BY <1>7 DEF e
  <2>2. on = Joined(p, above, test)
    BY <1>11 DEF Joined
  <2> QED
    BY <2>1, <2>2, ChosenStands DEF u
<1>13. StackStands(p, S, w, stack)
  BY <1>3, <1>7, StackVisited
<1>14. EntryStands(p, S, w, above, a)
  BY <1>1, <1>2, <1>7 DEF EntryStands
<1>15. EntryStands(p, S, w, on, b)
  <2>1. u \in w \ S
    BY <1>12
  <2>2. get_external_dependencies(p, u) \subseteq w
    BY <1>12
  <2> QED
    BY <1>1, <1>12, <2>1, <2>2 DEF EntryStands
<1>16. OnStack(p, new, Len(new)) = on \cup {u}
  <2>1. \A t \in Selected(p) : b.test = <<t>> <=> t = u
    BY <1>1
  <2> QED
    BY <1>2, <1>9, <2>1
<1>17. Finished(p, S, w, OnStack(p, new, Len(new)), leaves)
  BY <1>5, <1>11, <1>16 DEF Finished
<1>18. HasBottom(new) \/ Topmost(p, S) \subseteq w
  BY <1>1, <1>5, <1>10
<1>19. Standing(p, S, new, w, leaves)
  BY <1>5, <1>8, <1>9, <1>13, <1>14, <1>15, <1>17, <1>18 DEF Standing
<1> QED
  BY <1>11, <1>12, <1>19 DEF Further, new, old, on, q, a, b, e, u, w, rest

\* An uncached test is below a topmost one.
LEMMA LeftUnder ==
    ASSUME NEW p, Ordered(p), ChildrenKnown(p), NEW S \in SUBSET Selected(p), Upward(p, S),
           NEW u \in Selected(p) \ S
    PROVE  \E f \in Topmost(p, S) : u \in Under(p, f)
<1> DEFINE T == Ancestors(p, u) \ S
<1>1. u \in Ancestors(p, u) /\ Ancestors(p, u) \subseteq Selected(p) /\ Upward(p, Ancestors(p, u))
  BY AncestorFacts
<1>2. PICK f \in T : ParentSet(p, f) \cap T = {}
  <2>1. T \in SUBSET Selected(p) /\ T # {}
    BY <1>1
  <2> HIDE DEF T
  <2> QED
    BY <2>1 DEF Ordered, Hierarchy
<1>3. f \in Topmost(p, S)
  BY <1>1, <1>2 DEF Topmost, Upward
<1> QED
  BY <1>2, <1>3 DEF Under

----------------------------------------------------------------------------
(* The order of the leaves                                                 *)

\* The leaves below t follow each other.
InOnePiece(p, leaves, t) ==
    \A k \in 1 .. Len(leaves) : \A j \in 1 .. k : \A i \in 1 .. j :
        leaves[i] \in Under(p, t) /\ leaves[k] \in Under(p, t) => leaves[j] \in Under(p, t)

\* From the first leaf below t on all leaves are below t.
AtTheEnd(p, leaves, t) ==
    \A j \in 1 .. Len(leaves) : \A i \in 1 .. j :
        leaves[i] \in Under(p, t) => leaves[j] \in Under(p, t)

\* The first leaf below d comes before the first one below t.
Precedes(p, leaves, d, t) ==
    \E i \in 1 .. Len(leaves) :
        leaves[i] \in Under(p, d) /\ \A j \in 1 .. i : leaves[j] \notin Under(p, t)

\* All leaves below t have been found.
Exhausted(p, leaves, t) == Under(p, t) \cap Childless(p) \subseteq ToSet(leaves)

\* Where no test has two parents: all ancestors of a leaf have been visited, the
\* leaves below a test follow each other, those below a test on the stack are the
\* last ones or there will be no more, and the leaves below a dependency come
\* before those below a test that needs it.
InLine(p, S, on, visited, leaves) ==
    /\ \A l \in ToSet(leaves) : Ancestors(p, l) \ S \subseteq visited
    /\ \A t \in Selected(p) \ S : InOnePiece(p, leaves, t)
    /\ \A t \in on : AtTheEnd(p, leaves, t) \/ Exhausted(p, leaves, t)
    /\ \A t \in visited \ S : \A d \in ToSet(p.depends[t]) \ S :
           t \in Under(p, d) \/ Precedes(p, leaves, d, t)

\* The dependencies of a test are selected, and none of them is below it.
Waiting(p) ==
    \A t \in Selected(p) : /\ ToSet(p.depends[t]) \subseteq Selected(p)
                           /\ ToSet(p.depends[t]) \cap Under(p, t) = {}

\* What a test and those below it wait for.
LEMMA ExternalAre ==
    ASSUME NEW p, Ordered(p), ChildrenKnown(p), NEW t \in Selected(p)
    PROVE  \A d : d \in get_external_dependencies(p, t) <=>
               d \notin Under(p, t) /\ \E u \in Under(p, t) : d \in ToSet(p.depends[u])
<1>1. Subtrees(p)[t] = Under(p, t)
  BY SubtreesAre
<1> QED
  BY <1>1 DEF get_external_dependencies

\* The order stays when a leaf is added whose ancestors are on the stack.
LEMMA LeafInLine ==
    ASSUME NEW p, Ordered(p), NEW S \in SUBSET Selected(p), NEW x \in Childless(p),
           NEW leaves \in Seq(Selected(p)), x \notin ToSet(leaves), NEW v \in SUBSET Selected(p),
           NEW on \in SUBSET v, InLine(p, S, on, v, leaves), Ancestors(p, x) \ S \subseteq on,
           NEW above \in SUBSET on, above \subseteq Ancestors(p, x)
    PROVE  InLine(p, S, above, v, Append(leaves, x))
<1> DEFINE n == Len(leaves)
           m == Append(leaves, x)
<1>0. x \in Selected(p)
  BY DEF Childless
<1>1. /\ n \in Nat /\ Len(m) = n + 1 /\ m[n + 1] = x /\ \A i \in 1 .. n : m[i] = leaves[i]
  BY <1>0
<1>2. ToSet(m) = ToSet(leaves) \cup {x}
  BY <1>0, ElementsOfAppend
<1> HIDE DEF m
<1>3. \A t : x \in Under(p, t) <=> t \in Ancestors(p, x)
  <2>1. Ancestors(p, x) \subseteq Selected(p)
    BY <1>0, AncestorFacts
  <2> QED
    BY <1>0, <2>1 DEF Under
<1>4. \A l \in ToSet(m) : Ancestors(p, l) \ S \subseteq v
  BY <1>2 DEF InLine
<1>5. ASSUME NEW t \in Selected(p) \ S
      PROVE  InOnePiece(p, m, t)
  <2> SUFFICES ASSUME NEW k \in 1 .. n + 1, NEW j \in 1 .. k, NEW i \in 1 .. j,
                      m[i] \in Under(p, t), m[k] \in Under(p, t)
               PROVE  m[j] \in Under(p, t)
    BY <1>1 DEF InOnePiece
  <2>1. InOnePiece(p, leaves, t)
    BY <1>5 DEF InLine
  <2>2. CASE k \in 1 .. n
    <3>1. j \in 1 .. n /\ i \in 1 .. n
      BY <1>1, <2>2
    <3> QED
      BY <1>1, <2>1, <2>2, <3>1 DEF InOnePiece
  <2>3. CASE k = n + 1 /\ j \in 1 .. n
    <3>1. x \in Under(p, t) /\ i \in 1 .. n
      BY <1>1, <2>3
    <3>2. t \in on
      BY <1>3, <1>5, <3>1
    <3>3. ~Exhausted(p, leaves, t)
      BY <3>1 DEF Exhausted
    <3>4. AtTheEnd(p, leaves, t)
      BY <3>2, <3>3 DEF InLine
    <3>5. leaves[i] \in Under(p, t)
      BY <1>1, <3>1
    <3>6. leaves[j] \in Under(p, t)
      BY <1>1, <2>3, <3>4, <3>5 DEF AtTheEnd
    <3> QED
      BY <1>1, <2>3, <3>6
  <2>4. CASE k = n + 1 /\ j = n + 1
    BY <2>4
  <2> QED
    BY <1>1, <2>2, <2>3, <2>4
<1>6. ASSUME NEW t \in above
      PROVE  AtTheEnd(p, m, t) \/ Exhausted(p, m, t)
  <2>1. x \in Under(p, t)
    BY <1>3, <1>6
  <2>2. CASE Exhausted(p, leaves, t)
    BY <1>2, <2>2 DEF Exhausted
  <2>3. CASE AtTheEnd(p, leaves, t)
    <3> SUFFICES ASSUME NEW j \in 1 .. n + 1, NEW i \in 1 .. j, m[i] \in Under(p, t)
                 PROVE  m[j] \in Under(p, t)
      BY <1>1 DEF AtTheEnd
    <3>1. CASE j = n + 1
      BY <1>1, <2>1, <3>1
    <3>2. CASE j \in 1 .. n
      <4>1. i \in 1 .. n
        BY <1>1, <3>2
      <4> QED
        BY <1>1, <2>3, <3>2, <4>1 DEF AtTheEnd
    <3> QED
      BY <1>1, <3>1, <3>2
  <2>4. AtTheEnd(p, leaves, t) \/ Exhausted(p, leaves, t)
    BY <1>6 DEF InLine
  <2> QED
    BY <2>2, <2>3, <2>4
<1>7. ASSUME NEW d, NEW t, Precedes(p, leaves, d, t)
      PROVE  Precedes(p, m, d, t)
  <2>1. PICK i \in 1 .. n : leaves[i] \in Under(p, d) /\ \A j \in 1 .. i : leaves[j] \notin Under(p, t)
    BY <1>7 DEF Precedes
  <2>2. i \in 1 .. n + 1 /\ \A j \in 1 .. i : j \in 1 .. n
    BY <1>1
  <2> QED
    BY <1>1, <2>1, <2>2 DEF Precedes
<1>8. \A t \in v \ S : \A d \in ToSet(p.depends[t]) \ S : t \in Under(p, d) \/ Precedes(p, m, d, t)
  BY <1>7 DEF InLine
<1>9. InLine(p, S, above, v, m)
  BY <1>4, <1>5, <1>6, <1>8 DEF InLine
<1> QED
  BY <1>9 DEF m

\* The order stays when a test is visited whose external dependencies have been.
LEMMA VisitInLine ==
    ASSUME NEW p, Ordered(p), ChildrenKnown(p), Waiting(p),
           NEW S \in SUBSET Selected(p), Upward(p, S),
           NEW leaves \in Seq(Selected(p)), NEW v \in SUBSET Selected(p), NEW on \in SUBSET v,
           InLine(p, S, on, v, leaves), Finished(p, S, v, on, leaves),
           NEW u \in Selected(p) \ S, get_external_dependencies(p, u) \subseteq v,
           on \subseteq Ancestors(p, u) \ {u}
    PROVE  InLine(p, S, on \cup {u}, v \cup {u}, leaves)
<1>1. \A l \in ToSet(leaves) : Ancestors(p, l) \ S \subseteq v \cup {u}
  BY DEF InLine
<1>2. u \notin v => \A i \in 1 .. Len(leaves) : leaves[i] \notin Under(p, u)
  <2> SUFFICES ASSUME u \notin v, NEW i \in 1 .. Len(leaves), leaves[i] \in Under(p, u)
               PROVE  FALSE
    OBVIOUS
  <2>1. leaves[i] \in ToSet(leaves)
    BY ElementsOfSeq
  <2>2. u \in Ancestors(p, leaves[i]) \ S
    BY DEF Under
  <2> QED
    BY <2>1, <2>2 DEF InLine
<1>3. AtTheEnd(p, leaves, u) \/ Exhausted(p, leaves, u)
  <2>1. CASE u \in v
    <3>1. u \in v \ (S \cup on)
      BY <2>1
    <3> QED
      BY <3>1 DEF Finished, Exhausted
  <2>2. CASE u \notin v
    <3>1. \A j \in 1 .. Len(leaves) : \A i \in 1 .. j : i \in 1 .. Len(leaves)
      <4>1. Len(leaves) \in Nat
        OBVIOUS
      <4> QED
        BY <4>1
    <3> QED
      BY <1>2, <2>2, <3>1 DEF AtTheEnd
  <2> QED
    BY <2>1, <2>2
<1>4. \A t \in on \cup {u} : AtTheEnd(p, leaves, t) \/ Exhausted(p, leaves, t)
  BY <1>3 DEF InLine
<1>5. ASSUME NEW d \in ToSet(p.depends[u]) \ S, u \notin v
      PROVE  u \in Under(p, d) \/ Precedes(p, leaves, d, u)
  <2>1. d \in Selected(p) /\ d \notin Under(p, u)
    BY <1>5 DEF Waiting
  <2>2. d \in v
    <3>1. u \in Under(p, u)
      BY UnderStep
    <3>2. d \in get_external_dependencies(p, u)
      BY <1>5, <2>1, <3>1, ExternalAre
    <3> QED
      BY <3>2
  <2>3. CASE d \in on
    BY <2>3 DEF Under
  <2>4. CASE d \notin on
    <3>1. PICK l \in Childless(p) : l \in Under(p, d)
      BY <2>1, ChildlessUnder
    <3>2. l \in ToSet(leaves)
      BY <1>5, <2>2, <2>4, <3>1 DEF Finished
    <3>3. PICK i \in 1 .. Len(leaves) : l = leaves[i]
      BY <3>2, ElementsOfSeq DEF ToSet
    <3>4. \A j \in 1 .. i : j \in 1 .. Len(leaves)
      <4>1. Len(leaves) \in Nat
        OBVIOUS
      <4> QED
        BY <4>1
    <3> QED
      BY <1>2, <1>5, <3>1, <3>3, <3>4 DEF Precedes
  <2> QED
    BY <2>3, <2>4
<1>6. \A t \in (v \cup {u}) \ S : \A d \in ToSet(p.depends[t]) \ S :
          t \in Under(p, d) \/ Precedes(p, leaves, d, t)
  BY <1>5 DEF InLine
<1> QED
  BY <1>1, <1>4, <1>6 DEF InLine

\* The order stays when an entry is popped.
LEMMA PopInLine ==
    ASSUME NEW p, Ordered(p), Single(p), NEW S \in SUBSET Selected(p),
           NEW stack \in Seq(EntrySet(Selected(p))), NEW test \in Seq(Selected(p)),
           NEW v \in SUBSET Selected(p), NEW leaves \in Seq(Selected(p)),
           NEW todo \in Seq(Selected(p)),
           StackStands(p, S, v, Append(stack, Entry(test, todo))),
           InLine(p, S, OnStack(p, Append(stack, Entry(test, todo)), Len(Append(stack, Entry(test, todo)))),
                  v, leaves)
    PROVE  InLine(p, S, OnStack(p, stack, Len(stack)), v, LeavesWith(p, leaves, test))
<1> DEFINE E == EntrySet(Selected(p))
           e == Entry(test, todo)
           q == Append(stack, e)
           m == LeavesWith(p, leaves, test)
           above == OnStack(p, stack, Len(stack))
           on == OnStack(p, q, Len(q))
<1>1. e.test = test /\ e \in E /\ stack \in Seq(E)
  BY EntryFields, EntryType
<1>7. StackStands(p, S, v, q) /\ InLine(p, S, on, v, leaves)
  OBVIOUS
<1> HIDE DEF e, E
<1>2. /\ on = above \cup {t \in Selected(p) : e.test = <<t>>}
      /\ StackStands(p, S, v, q) <=> StackStands(p, S, v, stack) /\ EntryStands(p, S, v, above, e)
  BY <1>1, StackAppend
<1>3. q \in Seq(E)
  BY <1>1
<1> HIDE DEF q
<1>4. on \subseteq v \ S
  BY <1>3, <1>7, StackVisited
<1> HIDE DEF above, on
<1>5. CASE m = leaves
  BY <1>2, <1>5, <1>7 DEF InLine, above, m
<1>6. CASE m # leaves
  <2>1. /\ test # <<>> /\ get_children(p, test[1]) = <<>> /\ test[1] \notin ToSet(leaves)
        /\ m = leaves \o test
    BY <1>6 DEF LeavesWith
  <2>2. PICK x \in v \ S : /\ test = <<x>> /\ above \subseteq Ancestors(p, x) \ {x}
                           /\ Ancestors(p, x) \ S \subseteq above \cup {x}
    BY <1>1, <1>2, <1>7, <2>1 DEF EntryStands
  <2>3. test[1] = x /\ m = Append(leaves, x)
    BY <2>1, <2>2
  <2>4. x \in Childless(p) /\ x \notin ToSet(leaves)
    BY <2>1, <2>3 DEF Childless, get_children
  <2>5. x \in on
    BY <1>1, <1>2, <2>2
  <2>6. above \subseteq on /\ Ancestors(p, x) \ S \subseteq on /\ above \subseteq Ancestors(p, x)
    BY <1>2, <2>2, <2>5
  <2> HIDE DEF m
  <2>7. InLine(p, S, above, v, Append(leaves, x))
    BY <1>4, <1>7, <2>4, <2>6, LeafInLine
  <2> QED
    BY <2>3, <2>7 DEF m, above
<1> QED
  BY <1>5, <1>6

----------------------------------------------------------------------------
(* Schedules                                                               *)

\* An order of the uncached tests: every subtree in one piece, its root first, and
\* every test after those it depends on.
Schedule(p, S, rank) ==
    \A t \in Selected(p) \ S :
        /\ \A x \in Under(p, t) :
              /\ rank[t] <= rank[x]
              /\ \A y \in (Selected(p) \ S) \ Under(p, t) : rank[y] < rank[t] \/ rank[x] < rank[y]
        /\ \A d \in ToSet(p.depends[t]) \ S : rank[d] < rank[t]

\* The tests below an uncached test are not up to date.
LEMMA UncachedUnder ==
    ASSUME NEW p, Ordered(p), NEW S \in SUBSET Selected(p), Upward(p, S),
           NEW t \in Selected(p) \ S
    PROVE  Under(p, t) \subseteq Selected(p) \ S
<1> SUFFICES ASSUME NEW x \in Under(p, t), x \in S
             PROVE  FALSE
  BY DEF Under
<1>1. Ancestors(p, x) \subseteq S
  BY AncestorsIn
<1> QED
  BY <1>1 DEF Under

\* Where none of the children left is ready there is no schedule: the first one of
\* them in a schedule would need a test below one that comes later.
LEMMA StuckForGood ==
    ASSUME NEW p, Ordered(p), ChildrenKnown(p), Waiting(p),
           NEW S \in SUBSET Selected(p), Upward(p, S),
           NEW stack \in Seq(EntrySet(Selected(p))), NEW test \in Seq(Selected(p)),
           NEW todo \in Seq(Selected(p)), NEW v \in SUBSET Selected(p),
           NEW leaves \in Seq(Selected(p)),
           Standing(p, S, Append(stack, Entry(test, todo)), v, leaves),
           todo # <<>>, ~HasNext(p, todo, v),
           NEW rank \in [Selected(p) \ S -> Nat], Schedule(p, S, rank)
    PROVE  FALSE
<1> DEFINE E == EntrySet(Selected(p))
           e == Entry(test, todo)
           q == Append(stack, e)
           above == OnStack(p, stack, Len(stack))
           on == OnStack(p, q, Len(q))
<1>1. e.test = test /\ e.todo = todo
  BY EntryFields
<1>2. e \in E
  BY EntryType
<1>3. S \subseteq v /\ StackStands(p, S, v, q) /\ Finished(p, S, v, on, leaves)
  BY DEF Standing
<1> HIDE DEF e, E
<1>4. /\ on = above \cup {t \in Selected(p) : e.test = <<t>>}
      /\ StackStands(p, S, v, q) <=> StackStands(p, S, v, stack) /\ EntryStands(p, S, v, above, e)
  <2>1. stack \in Seq(E)
    BY DEF E
  <2> QED
    BY <1>2, <2>1, StackAppend
<1> HIDE DEF q, on, above
<1>5. EntryStands(p, S, v, above, e)
  BY <1>3, <1>4
<1>6. ToSet(todo) \subseteq Selected(p) \ S
  <2>1. CASE test = <<>>
    <3>1. \A t : test # <<t>>
      BY <2>1
    <3> QED
      BY <1>1, <1>5, <3>1 DEF EntryStands, Topmost
  <2>2. CASE test # <<>>
    BY <1>1, <1>5, <2>2, ChildIsNew DEF EntryStands
  <2> QED
    BY <2>1, <2>2
<1>7. PICK c \in ToSet(todo) : \A w \in ToSet(todo) : rank[c] <= rank[w]
  <2> DEFINE T == {rank[w] : w \in ToSet(todo)}
  <2>1. T \subseteq Nat
    BY <1>6
  <2>2. T # {}
    <3>1. 1 \in 1 .. Len(todo)
      OBVIOUS
    <3>2. todo[1] \in ToSet(todo)
      BY <3>1, ElementsOfSeq
    <3> QED
      BY <3>2
  <2>3. PICK x \in T : \A y \in T : x <= y
    <3> HIDE DEF T
    <3> QED
      BY <2>1, <2>2, SmallestNumber
  <2> QED
    BY <2>3
<1>8. PICK d \in get_external_dependencies(p, c) : d \notin v
  BY ChosenIsReady
<1>9. c \in Selected(p) \ S
  BY <1>6
<1>10. PICK u \in Under(p, c) : d \in ToSet(p.depends[u]) /\ d \notin Under(p, c)
  BY <1>8, <1>9, ExternalAre
<1>11. u \in Selected(p) \ S
  BY <1>9, <1>10, UncachedUnder
<1>12. d \in Selected(p) \ S
  BY <1>3, <1>8, <1>10, <1>11 DEF Waiting
<1>13. rank[d] < rank[c]
  <2>1. rank[d] < rank[u]
    BY <1>10, <1>11, <1>12 DEF Schedule
  <2>2. rank[d] < rank[c] \/ rank[u] < rank[d]
    BY <1>9, <1>10, <1>12 DEF Schedule
  <2>3. rank[d] \in Nat /\ rank[u] \in Nat /\ rank[c] \in Nat
    BY <1>9, <1>11, <1>12
  <2> QED
    BY <2>1, <2>2, <2>3
<1>14. \E w \in ToSet(todo) : d \in Under(p, w)
  <2>1. CASE test = <<>>
    <3>1. \A t : test # <<t>>
      BY <2>1
    <3>2. above = {} /\ Topmost(p, S) \subseteq v \cup ToSet(todo)
      BY <1>1, <1>5, <3>1 DEF EntryStands
    <3>3. on = {}
      BY <1>1, <1>4, <3>1, <3>2
    <3>4. PICK f \in Topmost(p, S) : d \in Under(p, f)
      BY <1>12, LeftUnder
    <3>5. f \notin v
      <4>1. f \notin S
        BY DEF Topmost
      <4> QED
        BY <1>3, <1>8, <3>3, <3>4, <4>1 DEF Finished
    <3> QED
      BY <3>2, <3>4, <3>5
  <2>2. CASE test # <<>>
    <3>1. PICK t \in v \ S : /\ test = <<t>> /\ ToSet(todo) \subseteq ToSet(p.children[t])
                             /\ ToSet(p.children[t]) \subseteq v \cup ToSet(todo)
                             /\ get_external_dependencies(p, t) \subseteq v
                             /\ above \subseteq Ancestors(p, t) \ {t}
      BY <1>1, <1>5, <2>2 DEF EntryStands
    <3>2. \A x \in Selected(p) : test = <<x>> <=> x = t
      BY <3>1
    <3>3. on \subseteq Ancestors(p, t)
      <4>1. t \in Ancestors(p, t)
        BY <3>1, AncestorFacts
      <4> QED
        BY <1>1, <1>4, <3>1, <3>2, <4>1
    <3>4. Under(p, t) = {t} \cup UNION {Under(p, w) : w \in ToSet(p.children[t])}
      BY <3>1, UnderStep
    <3>5. d \in Under(p, t)
      <4>1. u \in Under(p, t)
        BY <1>10, <3>1, <3>4
      <4>2. d \notin get_external_dependencies(p, t)
        BY <1>8, <3>1
      <4> QED
        BY <1>10, <3>1, <4>1, <4>2, ExternalAre
    <3>6. PICK w \in ToSet(p.children[t]) : d \in Under(p, w)
      BY <1>8, <3>1, <3>4, <3>5
    <3>7. w \notin v
      <4>1. w \notin Ancestors(p, t) /\ w \notin S
        BY <3>1, ChildIsNew
      <4> QED
        BY <1>3, <1>8, <3>3, <3>6, <4>1 DEF Finished
    <3> QED
      BY <3>1, <3>6, <3>7
  <2> QED
    BY <2>1, <2>2
<1>15. PICK w \in ToSet(todo) : d \in Under(p, w)
  BY <1>14
<1>16. rank[w] <= rank[d] /\ rank[c] <= rank[w]
  BY <1>6, <1>7, <1>15 DEF Schedule
<1>17. rank[w] \in Nat /\ rank[d] \in Nat /\ rank[c] \in Nat
  BY <1>6, <1>9, <1>12
<1> QED
  BY <1>13, <1>16, <1>17

----------------------------------------------------------------------------
(* The walk finds an order if there is one                                 *)

\* What is known of a state of the walk.
Fits(p, S, s) ==
    /\ Standing(p, S, s.stack, s.visited, s.leaves)
    /\ Single(p) => InLine(p, S, OnStack(p, s.stack, Len(s.stack)), s.visited, s.leaves)

\* The order of the leaves.
LeavesInLine(p, S, leaves) ==
    \A t \in Selected(p) \ S :
        /\ InOnePiece(p, leaves, t)
        /\ \A d \in ToSet(p.depends[t]) \ S : t \in Under(p, d) \/ Precedes(p, leaves, d, t)

\* What the walk comes to.
Outcome(p, S, walk) ==
    /\ walk.stuck => \A rank \in [Selected(p) \ S -> Nat] : ~Schedule(p, S, rank)
    /\ ~walk.stuck /\ Single(p) => LeavesInLine(p, S, walk.leaves)

\* Each step of the walk keeps what is known of it.
LEMMA StepFits ==
    ASSUME NEW p, Ordered(p), ChildrenKnown(p), Waiting(p),
           NEW S \in SUBSET Selected(p), Upward(p, S),
           NEW s \in DfsStates(p) \ DfsFinal(p), Fits(p, S, s)
    PROVE  Fits(p, S, DfsStep(p, s))
<1> DEFINE v == s.visited
           leaves == s.leaves
           E == EntrySet(Selected(p))
           x == DfsStep(p, s)
<1>1. s.stack # <<>> /\ v \in SUBSET Selected(p) /\ leaves \in Seq(Selected(p))
  BY DEF DfsFinal, DfsStates
<1>2. PICK stack \in Seq(E), test \in Seq(Selected(p)), todo \in Seq(Selected(p)) :
          s = Facing(stack, test, todo, v, leaves)
  BY <1>1, DfsTop
<1>3. s.visited = v /\ s.leaves = leaves
  OBVIOUS
<1> HIDE DEF v, leaves
<1> DEFINE e == Entry(test, todo)
           q == Append(stack, e)
           on == OnStack(p, q, Len(q))
<1>4. s.stack = q
  <2>1. Facing(stack, test, todo, v, leaves).stack = q
    BY DEF Facing, DfsState
  <2> QED
    BY <1>2, <2>1
<1>5. Standing(p, S, q, v, leaves) /\ (Single(p) => InLine(p, S, on, v, leaves))
  <2> HIDE DEF q
  <2> QED
    BY <1>3, <1>4 DEF Fits
<1>6. e \in E /\ q \in Seq(E)
  <2>1. e \in E
    BY EntryType
  <2> HIDE DEF e, E
  <2> QED
    BY <2>1
<1>7. on \subseteq v
  <2>1. StackStands(p, S, v, q)
    BY <1>5 DEF Standing
  <2> HIDE DEF q, E
  <2> QED
    BY <1>6, <2>1, StackVisited
<1>8. CASE todo = <<>>
  <2> DEFINE m == LeavesWith(p, leaves, test)
  <2>1. x = DfsState(stack, v, m)
    BY <1>1, <1>2, <1>8, Popped DEF E
  <2>2. x.stack = stack /\ x.visited = v /\ x.leaves = m
    BY <2>1, StateFields
  <2>3. Standing(p, S, stack, v, m)
    BY <1>1, <1>5, <1>8, PopStands DEF E
  <2>4. Single(p) => InLine(p, S, OnStack(p, stack, Len(stack)), v, m)
    <3>1. StackStands(p, S, v, q)
      BY <1>5 DEF Standing
    <3> QED
      BY <1>1, <1>5, <3>1, PopInLine DEF E
  <2> HIDE DEF x, m
  <2> QED
    BY <2>2, <2>3, <2>4 DEF Fits, x
<1>9. CASE todo # <<>>
  <2> DEFINE u == Chosen(p, todo, v)
             b == Append(stack, Entry(test, Rest(p, todo, v)))
             y == Append(b, Entry(<<u>>, p.children[u]))
             w == v \cup {u}
             above == OnStack(p, b, Len(b))
  <2>1. HasNext(p, todo, v)
    BY <1>1, <1>2, <1>9, FacingFinal DEF E
  <2>2. x = DfsState(y, w, leaves)
    <3>1. x = Descended(p, stack, test, todo, v, leaves)
      BY <1>1, <1>2, <2>1, Pushed DEF E
    <3> QED
      BY <3>1 DEF Descended, Facing
  <2>3. x.stack = y /\ x.visited = w /\ x.leaves = leaves
    <3> HIDE DEF x, y, w
    <3> QED
      BY <2>2, StateFields
  <2>4. /\ Standing(p, S, y, w, leaves) /\ above = on
        /\ u \in Selected(p) \ S /\ get_external_dependencies(p, u) \subseteq v
        /\ above \subseteq Ancestors(p, u) \ {u}
    <3>1. Further(p, S, v, leaves, q, b, u)
      BY <1>1, <1>5, <2>1, PushStands DEF E
    <3> HIDE DEF q, b, u
    <3> QED
      BY <3>1 DEF Further
  <2>6. b \in Seq(E) /\ Entry(<<u>>, p.children[u]) \in E
    BY <2>1, ChosenFacts, DescendedType, EntryType, <1>1 DEF E
  <2>7. OnStack(p, y, Len(y)) = above \cup {u}
    <3> DEFINE a == Entry(<<u>>, p.children[u])
    <3>1. a.test = <<u>> /\ a \in E
      BY <2>6, EntryFields
    <3> HIDE DEF a, b, E, u
    <3>2. OnStack(p, Append(b, a), Len(Append(b, a)))
            = Joined(p, above, a.test)
      BY <2>6, <3>1, OnStackTop
    <3>3. \A t \in Selected(p) : a.test = <<t>> <=> t = u
      BY <3>1
    <3> QED
      BY <2>4, <3>2, <3>3 DEF a, Joined
  <2> HIDE DEF x, y, b, u, q, on, above
  <2>8. Single(p) => InLine(p, S, on \cup {u}, w, leaves)
    <3>1. Finished(p, S, v, on, leaves)
      BY <1>5 DEF Standing, on
    <3>2. on \subseteq Ancestors(p, u) \ {u} /\ u \in Selected(p) \ S
          /\ get_external_dependencies(p, u) \subseteq v
      BY <2>4
    <3> QED
      BY <1>1, <1>5, <1>7, <3>1, <3>2, VisitInLine
  <2> HIDE DEF w
  <2> QED
    BY <2>3, <2>4, <2>7, <2>8 DEF Fits, x
<1> QED
  BY <1>8, <1>9

\* Where the walk stops it has come to what it should.
LEMMA EndFits ==
    ASSUME NEW p, Ordered(p), ChildrenKnown(p), Waiting(p),
           NEW S \in SUBSET Selected(p), Upward(p, S), NEW s \in DfsFinal(p), Fits(p, S, s)
    PROVE  Outcome(p, S, DfsResult(s))
<1> DEFINE v == s.visited
           leaves == s.leaves
<1>1. s \in DfsStates(p) /\ v \in SUBSET Selected(p) /\ leaves \in Seq(Selected(p))
  BY DEF DfsFinal, DfsStates
<1>2. CASE s.stack = <<>>
  <2>1. DfsResult(s).stuck = FALSE /\ DfsResult(s).leaves = leaves
    BY <1>2 DEF DfsResult
  <2>2. OnStack(p, s.stack, Len(s.stack)) = {} /\ ~HasBottom(s.stack)
    BY <1>2 DEF OnStack, HasBottom
  <2>3. Topmost(p, S) \subseteq v /\ Finished(p, S, v, {}, leaves)
    BY <2>2 DEF Fits, Standing
  <2>4. Selected(p) \ S \subseteq v
    <3> SUFFICES ASSUME NEW u \in Selected(p) \ S
                 PROVE  u \in v
      OBVIOUS
    <3>1. PICK f \in Topmost(p, S) : u \in Under(p, f)
      BY LeftUnder
    <3>2. f \in v \ S
      BY <2>3 DEF Topmost
    <3> QED
      BY <2>3, <3>1, <3>2 DEF Finished
  <2>5. Single(p) => LeavesInLine(p, S, leaves)
    BY <2>4 DEF Fits, InLine, LeavesInLine
  <2> QED
    BY <2>1, <2>5 DEF Outcome
<1>3. CASE s.stack # <<>>
  <2>1. DfsResult(s).stuck = TRUE
    BY <1>3 DEF DfsResult
  <2> DEFINE E == EntrySet(Selected(p))
  <2>2. PICK stack \in Seq(E), test \in Seq(Selected(p)), todo \in Seq(Selected(p)) :
            s = Facing(stack, test, todo, v, leaves)
    BY <1>1, <1>3, DfsTop
  <2>3. s.visited = v /\ s.leaves = leaves
    OBVIOUS
  <2> HIDE DEF v, leaves
  <2>4. todo # <<>> /\ ~HasNext(p, todo, v)
    BY <1>1, <2>2, FacingFinal
  <2> DEFINE q == Append(stack, Entry(test, todo))
  <2>5. s.stack = q
    <3>1. Facing(stack, test, todo, v, leaves).stack = q
      BY DEF Facing, DfsState
    <3> QED
      BY <2>2, <3>1
  <2>6. Standing(p, S, q, v, leaves)
    <3> HIDE DEF q
    <3> QED
      BY <2>3, <2>5 DEF Fits
  <2>7. \A rank \in [Selected(p) \ S -> Nat] : ~Schedule(p, S, rank)
    BY <1>1, <2>4, <2>6, StuckForGood
  <2> QED
    BY <2>1, <2>7 DEF Outcome
<1> QED
  BY <1>2, <1>3

\* get_leaf_tests_in_dfs_order: it is stuck only where no order of the uncached
\* tests respects the dependencies and keeps the subtrees together; otherwise the
\* leaves below a test follow each other and those below a dependency come first,
\* provided that no test has two parents.
THEOREM WalkInOrder ==
    ASSUME NEW p, Ordered(p), ChildrenKnown(p), Waiting(p), p.tests \in Seq(Selected(p)),
           NEW S \in SUBSET Selected(p), Upward(p, S)
    PROVE  Outcome(p, S, get_leaf_tests_in_dfs_order(p, S))
<1> DEFINE top == get_topmost_uncached_tests(p, S)
           walk == get_leaf_tests_in_dfs_order(p, S)
           nil == <<>>
           e == Entry(<<>>, top)
           stack == Append(nil, e)
           s0 == DfsState(stack, S, <<>>)
           E == EntrySet(Selected(p))
<1>1. top \in Seq(Topmost(p, S)) /\ Topmost(p, S) \subseteq ToSet(top)
  BY TopResult
<1>2. PICK g \in [DfsStates(p) -> Walked(p)] :
          /\ \A x \in DfsFinal(p) : g[x] = DfsResult(x)
          /\ \A x \in DfsStates(p) \ DfsFinal(p) : g[x] = g[DfsStep(p, x)]
          /\ walk = g[DfsState(<<e>>, S, <<>>)]
  BY DfsLoop
<1>3. stack = <<e>>
  OBVIOUS
<1> HIDE DEF top
<1>4. ToSet(top) = Topmost(p, S) /\ top \in Seq(Selected(p)) /\ <<>> \in Seq(Selected(p))
  <2>1. ToSet(top) \subseteq Topmost(p, S)
    BY <1>1, ElementsOfSeq
  <2>2. Topmost(p, S) \subseteq Selected(p)
    BY DEF Topmost
  <2>3. top \in Seq(Selected(p))
    BY <1>1, <2>1, <2>2, ElementsOfSeq
  <2> QED
    BY <1>1, <2>1, <2>3
<1>5. e \in E /\ e.test = <<>> /\ e.todo = top
  BY <1>4, EntryType, EntryFields
<1> HIDE DEF e, E
<1>6. nil \in Seq(E) /\ Len(nil) = 0 /\ stack \in Seq(E)
  BY <1>5
<1> HIDE DEF nil
<1>7. s0.stack = stack /\ s0.visited = S /\ s0.leaves = <<>>
  <2> HIDE DEF stack
  <2> QED
    BY StateFields
<1>8. s0 \in DfsStates(p)
  <2> HIDE DEF stack
  <2> QED
    BY <1>4, <1>6, StateType DEF E
<1>9. OnStack(p, nil, Len(nil)) = {} /\ OnStack(p, stack, Len(stack)) = {}
  <2>1. OnStack(p, nil, Len(nil)) = {}
    BY <1>6 DEF OnStack
  <2>2. OnStack(p, stack, Len(stack))
          = Joined(p, OnStack(p, nil, Len(nil)), e.test)
    BY <1>5, <1>6, OnStackTop
  <2>3. \A t : e.test # <<t>>
    BY <1>5
  <2> HIDE DEF stack
  <2> QED
    BY <2>1, <2>2, <2>3 DEF Joined
<1>10. StackStands(p, S, S, stack)
  <2>1. StackStands(p, S, S, nil)
    BY <1>6 DEF StackStands
  <2>2. EntryStands(p, S, S, OnStack(p, nil, Len(nil)), e)
    BY <1>4, <1>5, <1>9 DEF EntryStands
  <2>3. StackStands(p, S, S, stack) <=>
            StackStands(p, S, S, nil) /\ EntryStands(p, S, S, OnStack(p, nil, Len(nil)), e)
    BY <1>5, <1>6, StackAppend
  <2> QED
    BY <2>1, <2>2, <2>3
<1>11. HasBottom(stack)
  BY <1>5, <1>6, BottomAppend
<1> HIDE DEF stack
<1>12. Fits(p, S, s0)
  <2>1. Standing(p, S, stack, S, <<>>)
    BY <1>10, <1>11 DEF Standing, Finished
  <2>2. InLine(p, S, {}, S, <<>>)
    <3>1. ToSet(<<>>) = {} /\ Len(<<>>) = 0
      BY DEF ToSet
    <3>2. \A t : InOnePiece(p, <<>>, t)
      BY DEF InOnePiece
    <3> QED
      BY <3>1, <3>2 DEF InLine
  <2> HIDE DEF s0
  <2> QED
    BY <1>7, <1>9, <2>1, <2>2 DEF Fits
<1> DEFINE X == DfsStates(p)
           Final == DfsFinal(p)
           next == [s \in X \ Final |-> DfsStep(p, s)]
           C == {s \in X : Fits(p, S, s) => Outcome(p, S, g[s])}
<1>13. Final \subseteq C
  BY <1>2, EndFits DEF DfsFinal
<1>14. \A s \in X \ Final : next[s] \in C => s \in C
  BY <1>2, StepFits
<1>15. X \subseteq C
  <2>1. Terminates(X, Final, next) /\ C \in SUBSET X
    BY DfsEnds
  <2> HIDE DEF X, Final, next, C
  <2> QED
    BY <1>13, <1>14, <2>1 DEF Terminates
<1>16. walk = g[s0]
  BY <1>2, <1>3
<1> HIDE DEF walk, s0
<1> QED
  BY <1>8, <1>12, <1>15, <1>16 DEF walk

----------------------------------------------------------------------------
(* The programs that can be planned for                                    *)

\* What the planner needs of a program, all of it.
Plannable(p) ==
    /\ Ordered(p) /\ Apart(p) /\ ChildrenKnown(p) /\ Waiting(p)
    /\ p.tests \in Seq(Selected(p))
    /\ \A t \in Selected(p) : p.policy[t] \in Policies

\* A program that the parser and the semantic check let through can be planned for.
LEMMA ProgramsArePlannable ==
    ASSUME NEW d, IsProgram(d), Valid(setup_tests_parents(d))
    PROVE  Plannable(setup_tests_parents(d))
<1> DEFINE p == setup_tests_parents(d)
<1>1. IsProgram(d) /\ Valid(p)
  OBVIOUS
<1>2. Selection(d, p)
  BY <1>1, SelectionIsRight
<1> HIDE DEF p
<1>3. /\ p.policy = d.policy /\ p.tests \in Seq(Selected(p)) /\ IsFiniteSet(Selected(p))
      /\ Selected(p) \subseteq Declared(d) /\ ChildrenKnown(p)
      /\ \A t \in Selected(p) : p.parents[t] \in Seq(Selected(p))
  BY <1>2 DEF Selection
<1>4. Ordered(p)
  BY <1>1, <1>3 DEF Ordered, Valid
<1>5. Apart(p)
  <2> SUFFICES ASSUME NEW t \in Selected(p)
               PROVE  /\ \A i, j \in 1 .. Len(p.parents[t]) :
                             p.parents[t][i] = p.parents[t][j] => i = j
                      /\ \A q, r \in ParentSet(p, t) : q # r => ~Share(p, q, r)
    BY DEF Apart
  <2>1. DOMAIN p.parents[t] = 1 .. Len(p.parents[t])
    BY <1>3, ElementsOfSeq
  <2>2. IsInjective(p.parents[t])
    BY <1>1 DEF Valid
  <2>3. \A q, r \in ParentSet(p, t) :
            q # r => get_all_controllers(p)[q] \cap get_all_controllers(p)[r] = {}
    BY <1>1 DEF Valid
  <2>4. \A i, j \in 1 .. Len(p.parents[t]) : p.parents[t][i] = p.parents[t][j] => i = j
    BY <2>1, <2>2 DEF IsInjective
  <2>5. \A q, r \in ParentSet(p, t) : q # r => ~Share(p, q, r)
    BY <2>3 DEF Share
  <2> QED
    BY <2>4, <2>5
<1>6. \A t \in Selected(p) : p.policy[t] \in Policies
  <2>1. d.policy \in [Declared(d) -> Policies]
    BY <1>1 DEF IsProgram
  <2> QED
    BY <1>3, <2>1
<1>7. Waiting(p)
  <2> SUFFICES ASSUME NEW t \in Selected(p)
               PROVE  /\ ToSet(p.depends[t]) \subseteq Selected(p)
                      /\ ToSet(p.depends[t]) \cap Under(p, t) = {}
    BY DEF Waiting
  <2>1. ToSet(p.depends[t]) \subseteq Selected(p) /\ ToSet(p.depends[t]) \cap Subtrees(p)[t] = {}
    BY <1>1 DEF Valid
  <2>2. Subtrees(p)[t] = Under(p, t)
    BY <1>3, <1>4, SubtreesAre
  <2> QED
    BY <2>1, <2>2
<1> QED
  BY <1>3, <1>4, <1>5, <1>6, <1>7 DEF Plannable, p

----------------------------------------------------------------------------
(* The plan                                                                *)

\* A fold over no leaves is where it started.
LEMMA NoLeaves ==
    ASSUME NEW p, NEW S, NEW H, NEW base
    PROVE  LeavesAdded(p, S, H, base, <<>>) = base
<1> DEFINE Is(h) == h = [s \in SUBSET DOMAIN << >> |->
                           IF s = {} THEN base
                           ELSE LeafAdded(p, S, H, h[s \ {Max(s)}], << >>[Max(s)])]
           k == CHOOSE h : Is(h)
           f == [s \in SUBSET DOMAIN << >> |-> base]
<1>1. \A s \in SUBSET DOMAIN << >> : s = {}
  OBVIOUS
<1>2. Is(f)
  BY <1>1
<1>3. Is(k)
  <2> HIDE DEF Is, f
  <2> QED
    BY <1>2
<1>4. LeavesAdded(p, S, H, base, <<>>) = k[DOMAIN << >>]
  BY DEF LeavesAdded, FoldLeft, MapThenFoldSet
<1>5. k[DOMAIN << >>] = base
  <2> HIDE DEF k
  <2> QED
    BY <1>1, <1>3
<1> QED
  BY <1>4, <1>5

\* The plan with no runs promises nothing and breaks nothing.
LEMMA EmptyPlan ==
    ASSUME NEW p, NEW S, NEW H
    PROVE  NoRuns(p) \in GoodPlans(p, S, H)
<1> DEFINE b == NoRuns(p)
<1>1. /\ b \in PlanSet(p) /\ b.runs = <<>> /\ Len(b.runs) = 0
      /\ \A t \in Selected(p) : b.refs[t] = {}
  BY DEF NoRuns, PlanSet
<1> HIDE DEF b
<1>2. WellPlanned(p, S, H, b) /\ Used(S, b, {})
  BY <1>1 DEF WellPlanned, LinksBack, NotInVain, HasParents, Used
<1> QED
  BY <1>1, <1>2 DEF GoodPlans, b

\* The plan that is reported when no order of the leaves is found.
StuckPlan(p, x) == [stuck |-> x, runs |-> <<>>, refs |-> [t \in Selected(p) |-> {}]]

\* It differs from the plan with no runs in that field.
LEMMA StuckPlanFacts ==
    ASSUME NEW p, NEW x
    PROVE  /\ [NoRuns(p) EXCEPT !.stuck = x] = StuckPlan(p, x)
           /\ StuckPlan(p, FALSE) = NoRuns(p)
<1> DEFINE r == <<>>
           f == [t \in Selected(p) |-> {}]
           b(y) == [stuck |-> y, runs |-> r, refs |-> f]
<1>1. NoRuns(p) = b(FALSE) /\ \A y : StuckPlan(p, y) = b(y)
  BY DEF NoRuns, StuckPlan
<1> HIDE DEF r, f
<1>2. [b(FALSE) EXCEPT !.stuck = x] = b(x)
  OBVIOUS
<1> QED
  BY <1>1, <1>2

\* A plan as build_test_plan makes it: it is empty if no order of the leaves was
\* found, and otherwise a good one in which the uncached tests have runs.
Built(p, S, H, b) ==
    \/ b = StuckPlan(p, TRUE)
    \/ b \in GoodPlans(p, S, H) /\ \A t \in Selected(p) \ S : HasRun(b, t)

\* With a test, the plan has runs of all its ancestors that are not up to date.
LEMMA AncestorsHaveRuns ==
    ASSUME NEW p, Ordered(p), NEW S \in SUBSET Selected(p), Upward(p, S), NEW H,
           NEW b \in GoodPlans(p, S, H), NEW l \in Selected(p), HasRun(b, l)
    PROVE  \A t \in Ancestors(p, l) \ S : HasRun(b, t)
<1> DEFINE D == {x \in Selected(p) : x \in S \/ HasRun(b, x)}
<1>1. b \in PlanSet(p) /\ LinksBack(p, b) /\ HasParents(p, S, H, b)
  BY DEF GoodPlans, WellPlanned
<1>2. Upward(p, D)
  <2> SUFFICES ASSUME NEW t \in D, NEW q \in ParentSet(p, t)
               PROVE  q \in D
    BY DEF Upward
  <2>1. q \in Selected(p)
    BY AncestorFacts
  <2>2. CASE t \in S
    BY <2>1, <2>2 DEF Upward
  <2>3. CASE HasRun(b, t)
    <3>1. PICK j \in 1 .. Len(b.runs) : b.runs[j].test = t
      BY <2>3 DEF HasRun
    <3>2. HasParent(p, S, H, b, q, j)
      BY <1>1, <3>1 DEF HasParents
    <3>3. Len(b.runs) \in Nat
      BY <1>1, PlanFacts
    <3>4. ASSUME q \notin S
          PROVE  HasRun(b, q)
      <4>1. PICK i \in b.runs[j].parents : LastRun(p, b, q, i, j - 1)
        BY <3>2, <3>4 DEF HasParent
      <4>2. i \in 1 .. j - 1 /\ b.runs[i].test = q
        BY <4>1 DEF LastRun
      <4>3. i \in 1 .. Len(b.runs)
        BY <3>1, <3>3, <4>2
      <4> QED
        BY <4>2, <4>3 DEF HasRun
    <3> QED
      BY <2>1, <3>4
  <2> QED
    BY <2>2, <2>3
<1>3. l \in D /\ D \in SUBSET Selected(p)
  OBVIOUS
<1> HIDE DEF D
<1>4. Ancestors(p, l) \subseteq D
  BY <1>2, <1>3, AncestorsIn
<1> QED
  BY <1>4 DEF D

\* build_test_plan: no plan when the walk over the leaves is stuck, and otherwise
\* one that can be carried out and leaves no test uncached.
THEOREM PlanIsBuilt ==
    ASSUME NEW p, Plannable(p), NEW S \in SUBSET Selected(p), Upward(p, S), NEW H
    PROVE  Built(p, S, H, build_test_plan(p, S, H))
<1> DEFINE walk == get_leaf_tests_in_dfs_order(p, S)
           base == [NoRuns(p) EXCEPT !.stuck = walk.stuck]
           b == LeavesAdded(p, S, H, base, walk.leaves)
<1>1. build_test_plan(p, S, H) = b
  BY DEF build_test_plan, LeavesAdded, LeafAdded
<1>2. /\ Ordered(p) /\ Apart(p) /\ ChildrenKnown(p) /\ p.tests \in Seq(Selected(p))
      /\ S \in SUBSET Selected(p) /\ Upward(p, S)
  BY DEF Plannable
<1>3. WalkIsRight(p, S, walk)
  BY <1>2, LeavesReached
<1> HIDE DEF walk
<1>4. /\ walk.stuck \in BOOLEAN /\ walk.leaves \in Seq(Selected(p) \ S)
      /\ walk.stuck => walk.leaves = <<>>
      /\ ~walk.stuck => \A u \in Selected(p) \ S :
                            \E l \in ToSet(walk.leaves) : u \in Ancestors(p, l)
  BY <1>3 DEF WalkIsRight, Walked
<1>5. CASE walk.stuck
  <2>1. base = StuckPlan(p, TRUE)
    <3>1. walk.stuck = TRUE
      BY <1>4, <1>5
    <3> QED
      BY <3>1, StuckPlanFacts
  <2>2. b = base
    <3> HIDE DEF base
    <3> QED
      BY <1>4, <1>5, NoLeaves
  <2> QED
    BY <1>1, <2>1, <2>2 DEF Built
<1>6. CASE ~walk.stuck
  <2>1. base = NoRuns(p)
    <3>1. walk.stuck = FALSE
      BY <1>4, <1>6
    <3> QED
      BY <3>1, StuckPlanFacts
  <2>2. base \in GoodPlans(p, S, H)
    BY <2>1, EmptyPlan
  <2> HIDE DEF base
  <2>3. b \in GoodPlans(p, S, H) /\ \A l \in ToSet(walk.leaves) : HasRun(b, l)
    BY <1>2, <1>4, <2>2, LeavesHaveRuns
  <2> HIDE DEF b
  <2>4. ASSUME NEW t \in Selected(p) \ S
        PROVE  HasRun(b, t)
    <3>1. PICK l \in ToSet(walk.leaves) : t \in Ancestors(p, l)
      BY <1>4, <1>6
    <3>2. l \in Selected(p)
      <4>1. ToSet(walk.leaves) \subseteq Selected(p) \ S
        BY <1>4, ElementsOfSeq
      <4> QED
        BY <4>1
    <3> QED
      BY <1>2, <2>3, <3>1, <3>2, AncestorsHaveRuns
  <2> QED
    BY <1>1, <2>3, <2>4 DEF Built
<1> QED
  BY <1>4, <1>5, <1>6

----------------------------------------------------------------------------
(* The order of the runs                                                   *)

\* The plan has a run of t before any of u.
Sooner(b, t, u) ==
    \E k \in 1 .. Len(b.runs) :
        b.runs[k].test = t /\ \A j \in 1 .. k : b.runs[j].test # u

\* A leaf is added behind the runs planned before, with runs of its ancestors only.
LEMMA LeafBehind ==
    ASSUME NEW p, Ordered(p), Apart(p), NEW S, NEW H,
           NEW a \in GoodPlans(p, S, H), NEW t \in Selected(p) \ S
    PROVE  /\ Len(a.runs) \in Nat /\ Len(LeafAdded(p, S, H, a, t).runs) \in Nat
           /\ Len(a.runs) <= Len(LeafAdded(p, S, H, a, t).runs)
           /\ \A k \in 1 .. Len(a.runs) : LeafAdded(p, S, H, a, t).runs[k] = a.runs[k]
           /\ \A k \in Len(a.runs) + 1 .. Len(LeafAdded(p, S, H, a, t).runs) :
                  LeafAdded(p, S, H, a, t).runs[k].test \in Ancestors(p, t)
<1> DEFINE r == add_test_to_plan(p, S, H)[[test |-> t, plan |-> a]]
           b == LeafAdded(p, S, H, a, t)
<1>0. b = r.plan
  BY DEF LeafAdded
<1>1. a \in PlanSet(p) /\ WellPlanned(p, S, H, a)
  BY DEF GoodPlans
<1>2. Added(p, S, H, t, a, r)
  BY <1>1, AllAdded
<1> HIDE DEF r, b
<1>3. b \in PlanSet(p) /\ Extends(p, a, b, Ancestors(p, t))
  BY <1>0, <1>2 DEF Added
<1>4. Len(a.runs) \in Nat /\ Len(b.runs) \in Nat
  BY <1>1, <1>3, PlanFacts
<1> QED
  BY <1>3, <1>4 DEF Extends, b

\* Where the leaves of t come before those of u, so do the runs.
LEMMA LeavesInOrder ==
    ASSUME NEW p, Ordered(p), Apart(p), NEW S \in SUBSET Selected(p), Upward(p, S), NEW H,
           NEW base \in GoodPlans(p, S, H), base.runs = <<>>,
           NEW seq \in Seq(Selected(p) \ S), NEW t \in Selected(p) \ S,
           NEW u \in Selected(p), Precedes(p, seq, t, u)
    PROVE  Sooner(LeavesAdded(p, S, H, base, seq), t, u)
<1> DEFINE n == Len(seq)
           W == GoodPlans(p, S, H)
           F == LeafStep(p, S, H)
<1>0. n \in Nat /\ \A j \in 1 .. n : seq[j] \in Selected(p) \ S
  OBVIOUS
<1>1. PICK r \in [0 .. n -> W] : Trace(F, base, seq, r) /\ LeavesAdded(p, S, H, base, seq) = r[n]
  BY LeavesFold DEF Folded
<1>2. PICK i \in 1 .. n : t \in Ancestors(p, seq[i]) /\ \A j \in 1 .. i : u \notin Ancestors(p, seq[j])
  <2>1. PICK i \in 1 .. n : seq[i] \in Under(p, t) /\ \A j \in 1 .. i : seq[j] \notin Under(p, u)
    BY DEF Precedes
  <2>2. \A j \in 1 .. i : j \in 1 .. n
    BY <1>0
  <2> QED
    BY <1>0, <2>1, <2>2 DEF Under
<1> DEFINE Without(a) == \A k \in 1 .. Len(a.runs) : a.runs[k].test # u
           P == {j \in 0 .. n : IF j < i THEN Without(r[j]) ELSE Sooner(r[j], t, u)}
<1>3. 0 \in P
  <2>1. r[0] = base /\ 0 < i /\ 0 \in 0 .. n
    BY <1>0, <1>1 DEF Trace
  <2>2. Without(base)
    OBVIOUS
  <2> QED
    BY <2>1, <2>2
<1>4. ASSUME NEW j \in 0 .. n - 1, j \in P
      PROVE  j + 1 \in P
  <2> DEFINE a == r[j]
             l == seq[j + 1]
             b == LeafAdded(p, S, H, a, l)
  <2>1. j + 1 \in 1 .. n /\ j + 1 - 1 = j /\ j + 1 \in 0 .. n /\ j \in 0 .. n
    BY <1>0
  <2>2. a \in W /\ l \in Selected(p) \ S
    BY <1>0, <1>1, <2>1
  <2>3. r[j + 1] = b
    <3>1. r[j + 1] = F[<<a, l>>]
      BY <1>1, <2>1 DEF Trace
    <3>2. F[<<a, l>>] = b
      BY <2>2 DEF LeafStep
    <3> QED
      BY <3>1, <3>2
  <2>4. b \in W /\ HasRun(b, l)
    BY <2>2, AddLeaf
  <2>5. /\ Len(a.runs) \in Nat /\ Len(b.runs) \in Nat /\ Len(a.runs) <= Len(b.runs)
        /\ \A k \in 1 .. Len(a.runs) : b.runs[k] = a.runs[k]
        /\ \A k \in Len(a.runs) + 1 .. Len(b.runs) : b.runs[k].test \in Ancestors(p, l)
    BY <2>2, LeafBehind
  <2>6. j < i => Without(a)
    BY <1>4
  <2>7. j >= i => Sooner(a, t, u)
    BY <1>4, <2>1
  <2> HIDE DEF a, b
  <2>8. j + 1 <= i => Without(b)
    <3> SUFFICES ASSUME j + 1 <= i, NEW k \in 1 .. Len(b.runs)
                 PROVE  b.runs[k].test # u
      OBVIOUS
    <3>1. j + 1 \in 1 .. i /\ j < i
      BY <2>1
    <3>2. k \in 1 .. Len(a.runs) \/ k \in Len(a.runs) + 1 .. Len(b.runs)
      BY <2>5
    <3>3. u \notin Ancestors(p, l)
      BY <1>2, <3>1
    <3> QED
      BY <2>5, <2>6, <3>1, <3>2, <3>3
  <2>9. j + 1 = i => Sooner(b, t, u)
    <3> SUFFICES ASSUME j + 1 = i
                 PROVE  Sooner(b, t, u)
      OBVIOUS
    <3>1. Without(b)
      BY <2>1, <2>8
    <3>2. HasRun(b, t)
      BY <1>2, <2>2, <2>4, AncestorsHaveRuns
    <3>3. PICK k \in 1 .. Len(b.runs) : b.runs[k].test = t
      BY <3>2 DEF HasRun
    <3>4. \A m \in 1 .. k : m \in 1 .. Len(b.runs)
      BY <2>5
    <3> QED
      BY <3>1, <3>3, <3>4 DEF Sooner
  <2>10. Sooner(a, t, u) => Sooner(b, t, u)
    <3> SUFFICES ASSUME NEW k \in 1 .. Len(a.runs), a.runs[k].test = t,
                        \A m \in 1 .. k : a.runs[m].test # u
                 PROVE  Sooner(b, t, u)
      BY DEF Sooner
    <3>1. k \in 1 .. Len(b.runs) /\ \A m \in 1 .. k : m \in 1 .. Len(a.runs)
      BY <2>5
    <3> QED
      BY <2>5, <3>1 DEF Sooner
  <2>11. j + 1 < i \/ j + 1 = i \/ j >= i
    BY <2>1
  <2> QED
    BY <2>1, <2>3, <2>7, <2>8, <2>9, <2>10, <2>11
<1>5. n \in P
  <2> HIDE DEF P
  <2>1. 0 .. n \subseteq P
    BY <1>0, <1>3, <1>4, UpTo
  <2> QED
    BY <1>0, <2>1
<1> QED
  BY <1>0, <1>1, <1>5

\* With a test, the plan has sooner runs of all its ancestors that are not up to date.
LEMMA AncestorsSooner ==
    ASSUME NEW p, Ordered(p), NEW S \in SUBSET Selected(p), Upward(p, S), NEW H,
           NEW b \in GoodPlans(p, S, H), NEW x \in Selected(p), HasRun(b, x),
           NEW t \in Ancestors(p, x) \ S, t # x
    PROVE  Sooner(b, t, x)
<1>1. b \in PlanSet(p) /\ HasParents(p, S, H, b)
  BY DEF GoodPlans, WellPlanned
<1>2. Len(b.runs) \in Nat
  BY <1>1, PlanFacts
<1>3. PICK f \in 1 .. Len(b.runs) :
          b.runs[f].test = x /\ \A k \in 1 .. f - 1 : b.runs[k].test # x
  <2> DEFINE K == {k \in 1 .. Len(b.runs) : b.runs[k].test = x}
  <2>1. K # {} /\ K \subseteq Nat
    BY <1>2 DEF HasRun
  <2>2. PICK f \in K : \A k \in K : f <= k
    <3> HIDE DEF K
    <3> QED
      BY <2>1, SmallestNumber
  <2>3. \A k \in 1 .. f - 1 : k \in 1 .. Len(b.runs) /\ ~(f <= k)
    BY <1>2, <2>2
  <2> QED
    BY <2>2, <2>3
<1> DEFINE D == {y \in Selected(p) : y = x \/ y \in S \/ \E k \in 1 .. f - 1 : b.runs[k].test = y}
<1>4. Upward(p, D)
  <2> SUFFICES ASSUME NEW y \in D, NEW q \in ParentSet(p, y), q \notin S
               PROVE  q \in D
    BY AncestorFacts DEF Upward
  <2>1. q \in Selected(p) /\ y \notin S
    BY AncestorFacts DEF Upward
  <2>2. PICK k \in 1 .. f : b.runs[k].test = y
    BY <1>2, <1>3, <2>1
  <2>3. k \in 1 .. Len(b.runs)
    BY <1>2, <1>3, <2>2
  <2>4. HasParent(p, S, H, b, q, k)
    BY <1>1, <2>2, <2>3 DEF HasParents
  <2>5. PICK i \in b.runs[k].parents : LastRun(p, b, q, i, k - 1)
    BY <2>4 DEF HasParent
  <2>6. i \in 1 .. f - 1 /\ b.runs[i].test = q
    BY <1>2, <1>3, <2>2, <2>5 DEF LastRun
  <2> QED
    BY <2>1, <2>6
<1>5. x \in D /\ D \in SUBSET Selected(p)
  OBVIOUS
<1>6. t \in D
  <2> HIDE DEF D
  <2> QED
    BY <1>4, <1>5, AncestorsIn
<1>7. PICK k \in 1 .. f - 1 : b.runs[k].test = t
  BY <1>6
<1>8. k \in 1 .. Len(b.runs) /\ \A j \in 1 .. k : j \in 1 .. f - 1
  BY <1>2, <1>7
<1> QED
  BY <1>3, <1>7, <1>8 DEF Sooner

\* The runs are in the order of a schedule: every subtree in one piece, its root
\* first, and every test after those it depends on.
RunsInLine(p, S, b) ==
    \A t \in Selected(p) \ S :
        /\ \A x \in Under(p, t) \ {t} : Sooner(b, t, x)
        /\ \A x \in Under(p, t) : \A y \in (Selected(p) \ S) \ Under(p, t) :
               Sooner(b, y, t) \/ Sooner(b, x, y)
        /\ \A d \in ToSet(p.depends[t]) \ S : Sooner(b, d, t)

\* The first of the leaves below a test.
LEMMA FirstLeaf ==
    ASSUME NEW p, NEW S, NEW leaves \in Seq(Selected(p) \ S), NEW t \in Selected(p),
           NEW l \in ToSet(leaves), t \in Ancestors(p, l)
    PROVE  \E i \in 1 .. Len(leaves) :
               leaves[i] \in Under(p, t) /\ \A j \in 1 .. i - 1 : leaves[j] \notin Under(p, t)
<1> DEFINE K == {k \in 1 .. Len(leaves) : leaves[k] \in Under(p, t)}
<1>1. Len(leaves) \in Nat /\ \A k \in 1 .. Len(leaves) : leaves[k] \in Selected(p)
  OBVIOUS
<1>2. PICK k \in 1 .. Len(leaves) : l = leaves[k]
  BY ElementsOfSeq DEF ToSet
<1>3. K # {} /\ K \subseteq Nat
  BY <1>1, <1>2 DEF Under
<1>4. PICK f \in K : \A m \in K : f <= m
  <2> HIDE DEF K
  <2> QED
    BY <1>3, SmallestNumber
<1>5. \A m \in 1 .. f - 1 : m \in 1 .. Len(leaves) /\ ~(f <= m)
  BY <1>1, <1>4
<1> QED
  BY <1>4, <1>5

\* Where no test has two parents, the order of the leaves makes that of the runs.
LEMMA RunsFollowLeaves ==
    ASSUME NEW p, Ordered(p), ChildrenKnown(p), Single(p), Waiting(p),
           NEW S \in SUBSET Selected(p), Upward(p, S), NEW H,
           NEW leaves \in Seq(Selected(p) \ S), LeavesInLine(p, S, leaves),
           \A t \in Selected(p) \ S : \E l \in ToSet(leaves) : t \in Ancestors(p, l),
           NEW b \in GoodPlans(p, S, H), \A t \in Selected(p) \ S : HasRun(b, t),
           \A t \in Selected(p) \ S : \A u \in Selected(p) :
               Precedes(p, leaves, t, u) => Sooner(b, t, u)
    PROVE  RunsInLine(p, S, b)
<1>0. Len(leaves) \in Nat
  OBVIOUS
<1>1. ASSUME NEW t \in Selected(p) \ S, NEW x \in Under(p, t), x # t
      PROVE  Sooner(b, t, x)
  <2>1. x \in Selected(p) \ S /\ t \in Ancestors(p, x) \ S
    BY UncachedUnder DEF Under
  <2> QED
    BY <1>1, <2>1, AncestorsSooner
<1>2. ASSUME NEW t \in Selected(p) \ S
      PROVE  \E i \in 1 .. Len(leaves) :
                 leaves[i] \in Under(p, t) /\ \A j \in 1 .. i - 1 : leaves[j] \notin Under(p, t)
  BY FirstLeaf
<1>3. ASSUME NEW t \in Selected(p) \ S, NEW x \in Under(p, t),
             NEW y \in (Selected(p) \ S) \ Under(p, t)
      PROVE  Sooner(b, y, t) \/ Sooner(b, x, y)
  <2>1. CASE t \in Under(p, y)
    <3>1. t \in Under(p, t)
      BY UnderStep
    <3> QED
      BY <1>1, <2>1, <3>1
  <2>2. CASE t \notin Under(p, y)
    <3>1. \A l \in Under(p, t) : l \notin Under(p, y)
      BY <2>2, OneLine DEF Under
    <3>2. x \in Selected(p) \ S /\ Under(p, x) \subseteq Under(p, t)
      BY UncachedUnder, UnderStep
    <3>3. PICK it \in 1 .. Len(leaves) :
              leaves[it] \in Under(p, t) /\ \A j \in 1 .. it - 1 : leaves[j] \notin Under(p, t)
      BY <1>2
    <3>4. PICK iy \in 1 .. Len(leaves) :
              leaves[iy] \in Under(p, y) /\ \A j \in 1 .. iy - 1 : leaves[j] \notin Under(p, y)
      BY <1>2
    <3>5. PICK ix \in 1 .. Len(leaves) :
              leaves[ix] \in Under(p, x) /\ \A j \in 1 .. ix - 1 : leaves[j] \notin Under(p, x)
      BY <1>2, <3>2
    <3>6. CASE iy < it
      <4>1. \A j \in 1 .. iy : j \in 1 .. it - 1
        BY <1>0, <3>6
      <4>2. Precedes(p, leaves, y, t)
        BY <3>3, <3>4, <4>1 DEF Precedes
      <4> QED
        BY <4>2
    <3>7. CASE ix < iy
      <4>1. \A j \in 1 .. ix : j \in 1 .. iy - 1
        BY <1>0, <3>7
      <4>2. Precedes(p, leaves, x, y)
        BY <3>4, <3>5, <4>1 DEF Precedes
      <4> QED
        BY <3>2, <4>2
    <3>8. CASE it <= iy /\ iy <= ix
      <4>1. ix \in 1 .. Len(leaves) /\ iy \in 1 .. ix /\ it \in 1 .. iy
        BY <1>0, <3>8
      <4>2. InOnePiece(p, leaves, t)
        BY DEF LeavesInLine
      <4>3. leaves[iy] \in Under(p, t)
        BY <3>2, <3>3, <3>5, <4>1, <4>2 DEF InOnePiece
      <4> QED
        BY <3>1, <3>4, <4>3
    <3>9. iy < it \/ ix < iy \/ (it <= iy /\ iy <= ix)
      BY <1>0
    <3> QED
      BY <3>6, <3>7, <3>8, <3>9
  <2> QED
    BY <2>1, <2>2
<1>4. ASSUME NEW t \in Selected(p) \ S, NEW d \in ToSet(p.depends[t]) \ S
      PROVE  Sooner(b, d, t)
  <2>1. d \in Selected(p) \ S /\ d # t
    <3>1. t \in Under(p, t)
      BY UnderStep
    <3> QED
      BY <3>1 DEF Waiting
  <2>2. t \in Under(p, d) \/ Precedes(p, leaves, d, t)
    BY DEF LeavesInLine
  <2> QED
    BY <1>1, <2>1, <2>2
<1> QED
  BY <1>1, <1>3, <1>4 DEF RunsInLine

\* The first run of t in the plan, and the uncached tests by their first runs.
FirstRun(b, t) == Min({i \in 1 .. Len(b.runs) : b.runs[i].test = t})
FirstRuns(p, S, b) == [t \in Selected(p) \ S |-> FirstRun(b, t)]

\* Of two tests with runs the one that is run sooner has the first run.
LEMMA SoonerIsFirst ==
    ASSUME NEW b, Len(b.runs) \in Nat, NEW t, HasRun(b, t)
    PROVE  FirstRun(b, t) \in Nat
           /\ \A u : HasRun(b, u) /\ Sooner(b, t, u) => FirstRun(b, t) < FirstRun(b, u)
<1> DEFINE K(x) == {i \in 1 .. Len(b.runs) : b.runs[i].test = x}
<1>1. \A x : HasRun(b, x) => K(x) # {}
  BY DEF HasRun
<1>2. \A x : K(x) \in SUBSET (1 .. Len(b.runs))
  OBVIOUS
<1>3. \A x : FirstRun(b, x) = Min(K(x))
  BY DEF FirstRun
<1>4. \A x : \A k \in 1 .. Len(b.runs) : k \in K(x) <=> b.runs[k].test = x
  OBVIOUS
<1> HIDE DEF K
<1>5. ASSUME NEW x, HasRun(b, x)
      PROVE  FirstRun(b, x) \in K(x) /\ \A k \in K(x) : FirstRun(b, x) <= k
  <2>1. K(x) # {} /\ K(x) \in SUBSET (1 .. Len(b.runs))
    BY <1>1, <1>2, <1>5
  <2>2. Min(K(x)) \in K(x) /\ \A k \in K(x) : Min(K(x)) <= k
    BY <2>1, MinOfNumbers
  <2> QED
    BY <1>3, <2>2
<1>6. FirstRun(b, t) \in Nat
  BY <1>2, <1>5
<1>7. ASSUME NEW u, HasRun(b, u), Sooner(b, t, u)
      PROVE  FirstRun(b, t) < FirstRun(b, u)
  <2>1. PICK k \in 1 .. Len(b.runs) : b.runs[k].test = t /\ \A j \in 1 .. k : b.runs[j].test # u
    BY <1>7 DEF Sooner
  <2>2. FirstRun(b, t) <= k
    BY <1>4, <1>5, <2>1
  <2>3. FirstRun(b, u) \in K(u) /\ FirstRun(b, u) \in 1 .. Len(b.runs)
    BY <1>2, <1>5, <1>7
  <2>4. ~(FirstRun(b, u) <= k)
    BY <1>4, <2>1, <2>3
  <2> QED
    BY <1>6, <2>2, <2>3, <2>4
<1> QED
  BY <1>6, <1>7

\* Runs in line are a schedule by the first run of each test.
LEMMA LineIsSchedule ==
    ASSUME NEW p, Ordered(p), ChildrenKnown(p), Waiting(p),
           NEW S \in SUBSET Selected(p), Upward(p, S), NEW b, Len(b.runs) \in Nat,
           \A t \in Selected(p) \ S : HasRun(b, t), RunsInLine(p, S, b)
    PROVE  Schedule(p, S, FirstRuns(p, S, b))
<1> DEFINE rank == FirstRuns(p, S, b)
<1>1. \A t \in Selected(p) \ S : rank[t] = FirstRun(b, t)
  BY DEF FirstRuns
<1> HIDE DEF rank
<1>2. \A t, u \in Selected(p) \ S : rank[t] \in Nat /\ (Sooner(b, t, u) => rank[t] < rank[u])
  BY <1>1, SoonerIsFirst
<1>3. ASSUME NEW t \in Selected(p) \ S, NEW x \in Under(p, t)
      PROVE  /\ rank[t] <= rank[x]
             /\ \A y \in (Selected(p) \ S) \ Under(p, t) : rank[y] < rank[t] \/ rank[x] < rank[y]
  <2>1. x \in Selected(p) \ S
    BY UncachedUnder
  <2> QED
    BY <1>2, <2>1 DEF RunsInLine
<1>4. ASSUME NEW t \in Selected(p) \ S, NEW d \in ToSet(p.depends[t]) \ S
      PROVE  rank[d] < rank[t]
  BY <1>2 DEF RunsInLine, Waiting
<1> QED
  BY <1>3, <1>4 DEF Schedule, rank

\* What a plan has to do with the schedules of its program: there is none when it
\* is stuck, and otherwise its runs are one where no test has two parents.
Scheduled(p, S, b) ==
    /\ b.stuck => \A rank \in [Selected(p) \ S -> Nat] : ~Schedule(p, S, rank)
    /\ ~b.stuck /\ Single(p) => Schedule(p, S, FirstRuns(p, S, b))

\* build_test_plan: "Can't decide which test to execute first" is only reported when
\* the tests have no schedule, and where no test has two parents the tests are
\* first run in the order of one.
THEOREM PlanIsScheduled ==
    ASSUME NEW p, Plannable(p), NEW S \in SUBSET Selected(p), Upward(p, S), NEW H
    PROVE  Scheduled(p, S, build_test_plan(p, S, H))
<1> DEFINE walk == get_leaf_tests_in_dfs_order(p, S)
           base == [NoRuns(p) EXCEPT !.stuck = walk.stuck]
           b == LeavesAdded(p, S, H, base, walk.leaves)
<1>1. build_test_plan(p, S, H) = b
  BY DEF build_test_plan, LeavesAdded, LeafAdded
<1>2. /\ Ordered(p) /\ Apart(p) /\ ChildrenKnown(p) /\ Waiting(p) /\ p.tests \in Seq(Selected(p))
      /\ S \in SUBSET Selected(p) /\ Upward(p, S)
  BY DEF Plannable
<1>3. WalkIsRight(p, S, walk) /\ Outcome(p, S, walk)
  BY <1>2, LeavesReached, WalkInOrder
<1> HIDE DEF walk
<1>4. /\ walk.stuck \in BOOLEAN /\ walk.leaves \in Seq(Selected(p) \ S)
      /\ walk.stuck => walk.leaves = <<>>
      /\ ~walk.stuck => \A u \in Selected(p) \ S :
                            \E l \in ToSet(walk.leaves) : u \in Ancestors(p, l)
  BY <1>3 DEF WalkIsRight, Walked
<1>5. base = StuckPlan(p, walk.stuck)
  BY StuckPlanFacts
<1>6. CASE walk.stuck
  <2>1. b = base
    <3> HIDE DEF base
    <3> QED
      BY <1>4, <1>6, NoLeaves
  <2>2. b.stuck = TRUE
    <3>1. walk.stuck = TRUE
      BY <1>4, <1>6
    <3> QED
      BY <1>5, <2>1, <3>1 DEF StuckPlan
  <2> HIDE DEF b
  <2> QED
    BY <1>1, <1>3, <1>6, <2>2 DEF Outcome, Scheduled
<1>7. CASE ~walk.stuck
  <2>1. base \in GoodPlans(p, S, H) /\ base.runs = <<>>
    <3>1. walk.stuck = FALSE
      BY <1>4, <1>7
    <3>2. base = NoRuns(p)
      BY <1>5, <3>1, StuckPlanFacts
    <3> HIDE DEF base
    <3> QED
      BY <3>2, EmptyPlan DEF NoRuns
  <2> HIDE DEF base
  <2>2. b \in GoodPlans(p, S, H)
    BY <1>2, <1>4, <2>1, LeavesHaveRuns
  <2>3. \A t \in Selected(p) \ S : \A u \in Selected(p) :
            Precedes(p, walk.leaves, t, u) => Sooner(b, t, u)
    BY <1>2, <1>4, <2>1, LeavesInOrder
  <2>4. Built(p, S, H, b)
    BY <1>1, PlanIsBuilt
  <2> HIDE DEF b
  <2>5. b.stuck = FALSE /\ Len(b.runs) \in Nat
    BY <2>2, PlanFacts DEF GoodPlans, PlanSet
  <2>6. \A t \in Selected(p) \ S : HasRun(b, t)
    BY <2>4, <2>5 DEF Built, StuckPlan
  <2>7. ASSUME Single(p)
        PROVE  Schedule(p, S, FirstRuns(p, S, b))
    <3>1. LeavesInLine(p, S, walk.leaves)
      BY <1>3, <1>7, <2>7 DEF Outcome
    <3>2. RunsInLine(p, S, b)
      BY <1>2, <1>4, <1>7, <2>2, <2>3, <2>6, <2>7, <3>1, RunsFollowLeaves
    <3> QED
      BY <1>2, <2>5, <2>6, <3>2, LineIsSchedule
  <2> QED
    BY <1>1, <2>5, <2>7 DEF Scheduled
<1> QED
  BY <1>6, <1>7

=============================================================================
