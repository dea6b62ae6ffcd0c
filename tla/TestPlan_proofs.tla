--------------------------- MODULE TestPlan_proofs -------------------------
(***************************************************************************)
(* Proofs about add_test_to_plan, for any program whose chains of parents  *)
(* end: the recursion has a solution, its value for a test is a plan that  *)
(* can be carried out if the plan before it was, and a sequence of leaves  *)
(* leaves no leaf without a run.  A recursive definition is a CHOOSE of a  *)
(* function that satisfies its equation; that there is one is proved here  *)
(* by growing its domain a test at a time, the parents first.              *)
(***************************************************************************)
EXTENDS TestPlan, WellFoundedInduction, SequenceTheorems, FiniteSetTheorems, TLAPS

----------------------------------------------------------------------------
(* Numbers and folds                                                       *)

\* A set of natural numbers has a smallest one.
LEMMA SmallestNumber ==
    ASSUME NEW T, T \subseteq Nat, T # {}
    PROVE  \E x \in T : \A y \in T : x <= y
<1>1. PICK x \in T : \A y \in T : ~(<<y, x>> \in OpToRel(<, Nat))
  BY NatLessThanWellFounded, WFMin
<1>2. \A y \in T : y < x => <<y, x>> \in OpToRel(<, Nat)
  BY DEF OpToRel
<1>3. \A y \in T : ~(y < x)
  BY <1>1, <1>2, Zenon
<1> QED
  BY <1>3

\* What holds of 0 and passes from each number to the next holds up to n.
LEMMA UpTo ==
    ASSUME NEW n \in Nat, NEW P, 0 \in P, \A i \in 0 .. n - 1 : i \in P => i + 1 \in P
    PROVE  0 .. n \subseteq P
<1> DEFINE T == {i \in 0 .. n : i \notin P}
<1> SUFFICES ASSUME T # {} PROVE FALSE
  OBVIOUS
<1>1. T \subseteq Nat
  OBVIOUS
<1> HIDE DEF T
<1>2. PICK x \in T : \A y \in T : x <= y
  BY <1>1, SmallestNumber
<1>3. x \in 0 .. n /\ x # 0 /\ x \notin P
  BY DEF T
<1>4. x - 1 \in 0 .. n - 1 /\ x - 1 \notin T /\ x - 1 + 1 = x
  BY <1>2, <1>3
<1>5. x - 1 \in P
  BY <1>3, <1>4 DEF T
<1> QED
  BY <1>3, <1>4, <1>5

\* Max is the largest of some numbers up to n.
LEMMA MaxOfNumbers ==
    ASSUME NEW n \in Nat, NEW S \in SUBSET (1 .. n), S # {}
    PROVE  Max(S) \in S /\ \A i \in S : i <= Max(S)
<1> DEFINE T == {n - i : i \in S}
<1>1. \A i \in S : i \in Nat /\ i <= n /\ n - i \in Nat
  OBVIOUS
<1>2. T \subseteq Nat /\ T # {}
  BY <1>1
<1>3. PICK x \in T : \A y \in T : x <= y
  <2> HIDE DEF T
  <2> QED
    BY <1>2, SmallestNumber
<1>4. PICK m \in S : x = n - m
  OBVIOUS
<1>5. ASSUME NEW i \in S
      PROVE  m >= i
  <2>1. n - i \in T
    OBVIOUS
  <2> HIDE DEF T
  <2>2. n - m <= n - i
    BY <1>3, <1>4, <2>1
  <2> QED
    BY <1>1, <2>2
<1>6. Max(S) \in S /\ \A i \in S : Max(S) >= i
  BY <1>5 DEF Max
<1> QED
  BY <1>1, <1>6

\* Of numbers up to n, n is the largest.
LEMMA MaxIsLast ==
    ASSUME NEW n \in Nat, NEW S \in SUBSET (1 .. n), n \in S
    PROVE  Max(S) = n
<1> DEFINE m == Max(S)
<1>1. m \in S /\ \A i \in S : i <= m
  BY MaxOfNumbers
<1> HIDE DEF m
<1>2. m \in 1 .. n /\ n <= m
  BY <1>1
<1>3. m = n
  BY <1>2
<1> QED
  BY <1>3 DEF m

\* A fold of F over the first k elements of a sequence, as the libraries compute
\* it: by sets of positions.
FoldsUpTo(k, h, W, F, base, seq) ==
    /\ h \in [SUBSET (1 .. k) -> W]
    /\ \A s \in SUBSET (1 .. k) :
          h[s] = IF s = {} THEN base ELSE F[<<h[s \ {Max(s)}], seq[Max(s)]>>]

\* A fold in the order of a sequence, as the libraries define it, is a function
\* on the sets of its positions: there is one.
LEMMA IterationExists ==
    ASSUME NEW W, NEW T, NEW F \in [W \X T -> W], NEW base \in W, NEW seq \in Seq(T)
    PROVE  \E h : FoldsUpTo(Len(seq), h, W, F, base, seq)
<1> DEFINE n == Len(seq)
           Is(k, h) == FoldsUpTo(k, h, W, F, base, seq)
           P == {k \in 0 .. n : \E h : FoldsUpTo(k, h, W, F, base, seq)}
<1>0. n \in Nat /\ DOMAIN seq = 1 .. n /\ \A i \in 1 .. n : seq[i] \in T
  OBVIOUS
<1>1. 0 \in P
  <2>1. SUBSET (1 .. 0) = {{}}
    OBVIOUS
  <2>2. Is(0, [s \in {{}} |-> base])
    BY <2>1 DEF FoldsUpTo
  <2> QED
    BY <1>0, <2>2
<1>2. ASSUME NEW k \in 0 .. n - 1, k \in P
      PROVE  k + 1 \in P
  <2>1. PICK h : Is(k, h)
    BY <1>2
  <2> DEFINE H == [s \in SUBSET (1 .. k + 1) |->
                     IF k + 1 \in s THEN F[<<h[s \ {k + 1}], seq[k + 1]>>] ELSE h[s]]
  <2>2. \A s \in SUBSET (1 .. k + 1) : s \ {k + 1} \in SUBSET (1 .. k)
    OBVIOUS
  <2>3. \A s \in SUBSET (1 .. k + 1) : k + 1 \notin s => s \in SUBSET (1 .. k)
    OBVIOUS
  <2>4. H \in [SUBSET (1 .. k + 1) -> W]
    <3>1. k + 1 \in 1 .. n
      OBVIOUS
    <3> QED
      BY <1>0, <2>1, <2>2, <2>3, <3>1 DEF FoldsUpTo
  <2>5. ASSUME NEW s \in SUBSET (1 .. k + 1)
        PROVE  H[s] = IF s = {} THEN base ELSE F[<<H[s \ {Max(s)}], seq[Max(s)]>>]
    <3>1. CASE k + 1 \in s
      <4>1. Max(s) = k + 1
        BY <3>1, MaxIsLast
      <4>2. H[s \ {k + 1}] = h[s \ {k + 1}]
        BY <2>2
      <4> QED
        BY <3>1, <4>1, <4>2
    <3>2. CASE k + 1 \notin s
      <4>1. H[s] = h[s] /\ s \in SUBSET (1 .. k)
        BY <2>3, <3>2
      <4>2. H[s \ {Max(s)}] = h[s \ {Max(s)}]
        BY <4>1, <3>2
      <4> QED
        BY <2>1, <4>1, <4>2 DEF FoldsUpTo
    <3> QED
      BY <3>1, <3>2
  <2>6. Is(k + 1, H)
    BY <2>4, <2>5 DEF FoldsUpTo
  <2> QED
    BY <1>0, <2>6
<1>3. n \in P
  <2> HIDE DEF P
  <2>1. 0 .. n \subseteq P
    BY <1>0, <1>1, <1>2, UpTo
  <2> QED
    BY <1>0, <2>1
<1> QED
  BY <1>3

\* The results of a fold of F over a sequence, one element after the other.
Trace(F, base, seq, r) ==
    /\ r[0] = base
    /\ \A i \in 1 .. Len(seq) : r[i] = F[<<r[i - 1], seq[i]>>]

\* v is the result of the fold.
Folded(F, base, seq, W, v) ==
    \E r \in [0 .. Len(seq) -> W] : Trace(F, base, seq, r) /\ v = r[Len(seq)]

\* A function of sets of positions that follows F where its values are in W.
Follows(F, base, seq, W, k) ==
    /\ k[{}] = base
    /\ \A s \in SUBSET DOMAIN seq : s # {} /\ k[s \ {Max(s)}] \in W =>
           k[s] = F[<<k[s \ {Max(s)}], seq[Max(s)]>>]

\* Such a function computes the fold step by step.
LEMMA FoldSteps ==
    ASSUME NEW W, NEW T, NEW F \in [W \X T -> W], NEW base \in W, NEW seq \in Seq(T), NEW k,
           Follows(F, base, seq, W, k)
    PROVE  Folded(F, base, seq, W, k[DOMAIN seq])
<1> DEFINE n == Len(seq)
           r == [i \in 0 .. n |-> k[1 .. i]]
           P == {i \in 0 .. n : r[i] \in W}
<1>0. n \in Nat /\ DOMAIN seq = 1 .. n /\ \A i \in 1 .. n : seq[i] \in T
  OBVIOUS
<1>1. r[0] = base
  <2>1. 1 .. 0 = {}
    OBVIOUS
  <2> QED
    BY <1>0, <2>1 DEF Follows
<1>2. ASSUME NEW i \in 0 .. n - 1, r[i] \in W
      PROVE  r[i + 1] = F[<<r[i], seq[i + 1]>>]
  <2>1. i \in 0 .. n /\ i + 1 \in 0 .. n
    BY <1>0
  <2>2. 1 .. i + 1 \in SUBSET DOMAIN seq /\ 1 .. i + 1 # {} /\ i + 1 \in 1 .. i + 1
    <3>1. i + 1 \in 1 .. i + 1 /\ \A j \in 1 .. i + 1 : j \in 1 .. n
      BY <1>0
    <3> QED
      BY <1>0, <3>1, Zenon
  <2>3. Max(1 .. i + 1) = i + 1
    BY <2>2, <1>0, MaxIsLast
  <2>4. (1 .. i + 1) \ {i + 1} = 1 .. i
    BY <1>0
  <2>5. k[1 .. i] \in W
    BY <1>2, <2>1
  <2>6. k[1 .. i + 1] = F[<<k[1 .. i], seq[i + 1]>>]
    BY <2>2, <2>3, <2>4, <2>5 DEF Follows
  <2> QED
    BY <2>1, <2>6
<1> HIDE DEF r
<1>3. 0 \in P
  BY <1>0, <1>1
<1>4. ASSUME NEW i \in 0 .. n - 1, i \in P
      PROVE  i + 1 \in P
  <2>1. i + 1 \in 0 .. n /\ seq[i + 1] \in T
    BY <1>0
  <2> QED
    BY <1>2, <1>4, <2>1
<1>5. 0 .. n \subseteq P
  <2> HIDE DEF P
  <2> QED
    BY <1>0, <1>3, <1>4, UpTo
<1>6. r \in [0 .. n -> W]
  BY <1>5 DEF r
<1>7. ASSUME NEW i \in 1 .. n
      PROVE  r[i] = F[<<r[i - 1], seq[i]>>]
  <2>1. i - 1 \in 0 .. n - 1 /\ i - 1 + 1 = i /\ i - 1 \in 0 .. n
    BY <1>0
  <2>2. r[i - 1] \in W
    BY <1>5, <2>1
  <2> HIDE DEF n
  <2>3. r[i - 1 + 1] = F[<<r[i - 1], seq[i - 1 + 1]>>]
    BY <1>2, <2>1, <2>2
  <2> QED
    BY <2>1, <2>3
<1>8. k[DOMAIN seq] = r[n]
  BY <1>0 DEF r
<1> QED
  BY <1>1, <1>6, <1>7, <1>8 DEF Trace, Folded

\* There is one result.
LEMMA FoldUnique ==
    ASSUME NEW W, NEW T, NEW F, NEW base, NEW seq \in Seq(T), NEW v, NEW w,
           Folded(F, base, seq, W, v), Folded(F, base, seq, W, w)
    PROVE  v = w
<1> PICK r \in [0 .. Len(seq) -> W] : Trace(F, base, seq, r) /\ v = r[Len(seq)]
  BY DEF Folded
<1> PICK u \in [0 .. Len(seq) -> W] : Trace(F, base, seq, u) /\ w = u[Len(seq)]
  BY DEF Folded
<1> DEFINE n == Len(seq)
           P == {i \in 0 .. n : u[i] = r[i]}
<1>0. n \in Nat
  OBVIOUS
<1>1. 0 \in P
  BY <1>0 DEF Trace
<1>2. ASSUME NEW i \in 0 .. n - 1, i \in P
      PROVE  i + 1 \in P
  <2>1. i + 1 \in 1 .. n /\ i + 1 - 1 = i /\ i + 1 \in 0 .. n
    BY <1>0
  <2>2. r[i + 1] = F[<<r[i], seq[i + 1]>>] /\ u[i + 1] = F[<<u[i], seq[i + 1]>>]
    BY <2>1 DEF Trace
  <2> QED
    BY <1>2, <2>1, <2>2
<1>3. 0 .. n \subseteq P
  <2> HIDE DEF P
  <2> QED
    BY <1>0, <1>1, <1>2, UpTo
<1> QED
  BY <1>0, <1>3

\* The function of sets of positions whose value at all positions is the fold: the
\* shape in which FoldLeft defines it.
Folds(F, base, seq, W, T, h) ==
    \A s \in SUBSET DOMAIN seq :
        IF s = {} THEN h[s] = base
        ELSE /\ <<h[s \ {Max(s)}], seq[Max(s)]>> \in W \X T
             /\ h[s] = F[<<h[s \ {Max(s)}], seq[Max(s)]>>]

\* A fold in the order of a sequence, which is computed by sets of positions, exists.
LEMMA FoldExists ==
    ASSUME NEW W, NEW T, NEW F \in [W \X T -> W], NEW base \in W, NEW seq \in Seq(T)
    PROVE  \E h \in [SUBSET DOMAIN seq -> W] : Folds(F, base, seq, W, T, h)
<1> DEFINE n == Len(seq)
<1>0. n \in Nat /\ DOMAIN seq = 1 .. n /\ \A i \in 1 .. n : seq[i] \in T
  OBVIOUS
<1>1. PICK h : FoldsUpTo(n, h, W, F, base, seq)
  BY IterationExists
<1>2. ASSUME NEW s \in SUBSET DOMAIN seq, s # {}
      PROVE  <<h[s \ {Max(s)}], seq[Max(s)]>> \in W \X T
  <2>1. Max(s) \in s
    BY <1>0, <1>2, MaxOfNumbers
  <2> QED
    BY <1>0, <1>1, <2>1 DEF FoldsUpTo
<1> QED
  BY <1>0, <1>1, <1>2 DEF FoldsUpTo, Folds

----------------------------------------------------------------------------
(* add_test_to_plan: the recursion has a solution                          *)

\* The runs, the plans, the work done for a test and the arguments of the recursion.
RunSet(p) == [test : Selected(p), parents : SUBSET Nat]
PlanSet(p) == [stuck : {FALSE}, runs : Seq(RunSet(p)), refs : [Selected(p) -> SUBSET Nat]]
WorkSet(p) == [plan : PlanSet(p), parents : SUBSET Nat, kept : SUBSET Selected(p)]
Args(D, p) == [test : D, plan : PlanSet(p)]

\* One parent q is added by g to the work w done for a test.
AddParent(g, w, q) == LET added == g[[test |-> q, plan |-> w.plan]]
                      IN  WithParent(w, q, added.run, added.plan)

ParentsAdded(g, base, seq) == FoldLeft(LAMBDA w, q : AddParent(g, w, q), base, seq)

\* The body of the recursion, which calls g.
AddBody(p, ok, held, g, x) ==
    LET t == x.test
        followed == FollowedRuns(p, x.plan.runs, t)
    IN  IF t \in ok /\ t \in held THEN [run |-> 0, plan |-> x.plan]
        ELSE IF followed # {} THEN [run |-> Max(followed), plan |-> x.plan]
        ELSE LET plan_ == PushRun(p, t, ParentsAdded(g, NoParent(x.plan), p.parents[t]))
             IN  [run |-> Len(plan_.runs), plan |-> plan_]

Typed(D, p, g) == \A x \in Args(D, p) : g[x] \in [run : Nat, plan : PlanSet(p)]
Agree(D, p, g, h) == \A x \in Args(D, p) : h[x] = g[x]
Solves(D, p, ok, held, g) == \A x \in Args(D, p) : g[x] = AddBody(p, ok, held, g, x)

\* What the planner needs of a program.
Ordered(p) ==
    /\ IsFiniteSet(Selected(p))
    /\ Hierarchy(p)
    /\ \A t \in Selected(p) : p.parents[t] \in Seq(Selected(p))

\* The same as a function.
ParentStep(D, p, g) == [x \in WorkSet(p) \X D |-> AddParent(g, x[1], x[2])]

\* One parent's work is again work for the test.
LEMMA AddParentType ==
    ASSUME NEW p, NEW D, D \subseteq Selected(p), NEW g, Typed(D, p, g),
           NEW w \in WorkSet(p), NEW q \in D
    PROVE  AddParent(g, w, q) \in WorkSet(p)
<1> DEFINE x == [test |-> q, plan |-> w.plan]
<1>1. x \in Args(D, p)
  BY DEF Args, WorkSet
<1>2. g[x] \in [run : Nat, plan : PlanSet(p)]
  BY <1>1 DEF Typed
<1> QED
  BY <1>2 DEF AddParent, WithParent, WorkSet

\* The parents of a test are added one after the other.
LEMMA ParentsFold ==
    ASSUME NEW p, NEW D, D \subseteq Selected(p), NEW g, Typed(D, p, g),
           NEW base \in WorkSet(p), NEW seq \in Seq(D)
    PROVE  Folded(ParentStep(D, p, g), base, seq, WorkSet(p), ParentsAdded(g, base, seq))
<1> DEFINE F == ParentStep(D, p, g)
           W == WorkSet(p)
           Is(h) == h = [s \in SUBSET DOMAIN seq |->
                           IF s = {} THEN base ELSE AddParent(g, h[s \ {Max(s)}], seq[Max(s)])]
           k == CHOOSE h : Is(h)
<1>1. /\ F \in [W \X D -> W]
      /\ \A w \in W, q \in D : F[<<w, q>>] = AddParent(g, w, q)
  BY AddParentType DEF ParentStep
<1> HIDE DEF F
<1>2. PICK h \in [SUBSET DOMAIN seq -> W] : Folds(F, base, seq, W, D, h)
  <2> HIDE DEF W
  <2>1. base \in W
    BY DEF W
  <2> QED
    BY <1>1, <2>1, FoldExists
<1>3. Is(h)
  <2>1. \A s \in SUBSET DOMAIN seq :
            h[s] = IF s = {} THEN base ELSE AddParent(g, h[s \ {Max(s)}], seq[Max(s)])
    BY <1>1, <1>2 DEF Folds
  <2> QED
    BY <1>2, <2>1
<1>4. Is(k)
  <2> HIDE DEF Is
  <2> QED
    BY <1>3
<1>5. ParentsAdded(g, base, seq) = k[DOMAIN seq]
  BY DEF ParentsAdded, FoldLeft, MapThenFoldSet
<1> HIDE DEF k
<1>6. k[{}] = base
  BY <1>4
<1>7. ASSUME NEW s \in SUBSET DOMAIN seq, s # {}, k[s \ {Max(s)}] \in W
      PROVE  k[s] = F[<<k[s \ {Max(s)}], seq[Max(s)]>>]
  <2>1. k[s] = AddParent(g, k[s \ {Max(s)}], seq[Max(s)])
    BY <1>4, <1>7
  <2>2. seq[Max(s)] \in D
    BY <1>2, <1>7 DEF Folds
  <2> QED
    BY <1>1, <1>7, <2>1, <2>2
<1>8. Follows(F, base, seq, W, k)
  BY <1>6, <1>7 DEF Follows
<1> HIDE DEF W
<1>9. base \in W
  BY DEF W
<1>10. Folded(F, base, seq, W, k[DOMAIN seq])
  BY <1>1, <1>8, <1>9, FoldSteps
<1> QED
  BY <1>5, <1>10 DEF F, W

\* The result of the fold depends on what g does for these parents only.
LEMMA ParentsFoldLocal ==
    ASSUME NEW p, NEW D, D \subseteq Selected(p), NEW g, Typed(D, p, g), NEW h,
           Agree(D, p, g, h),
           NEW base \in WorkSet(p), NEW seq \in Seq(D)
    PROVE  ParentsAdded(h, base, seq) = ParentsAdded(g, base, seq)
<1>1. Typed(D, p, h)
  BY DEF Typed, Agree
<1>2. ParentStep(D, p, h) = ParentStep(D, p, g)
  <2>1. ASSUME NEW w \in WorkSet(p), NEW q \in D
        PROVE  AddParent(h, w, q) = AddParent(g, w, q)
    <3>1. [test |-> q, plan |-> w.plan] \in Args(D, p)
      BY DEF Args, WorkSet
    <3> QED
      BY <3>1 DEF AddParent, Agree
  <2> QED
    BY <2>1 DEF ParentStep
<1>3. Folded(ParentStep(D, p, g), base, seq, WorkSet(p), ParentsAdded(g, base, seq))
  BY ParentsFold
<1>4. Folded(ParentStep(D, p, h), base, seq, WorkSet(p), ParentsAdded(h, base, seq))
  BY <1>1, ParentsFold
<1> QED
  BY <1>2, <1>3, <1>4, FoldUnique

\* A plan by its fields: the runs are a sequence.
LEMMA PlanFacts ==
    ASSUME NEW p, NEW plan \in PlanSet(p)
    PROVE  /\ plan = [stuck |-> FALSE, runs |-> plan.runs, refs |-> plan.refs]
           /\ plan.runs \in Seq(RunSet(p)) /\ plan.refs \in [Selected(p) -> SUBSET Nat]
           /\ Len(plan.runs) \in Nat /\ DOMAIN plan.runs = 1 .. Len(plan.runs)
           /\ \A i \in DOMAIN plan.runs : plan.runs[i] \in RunSet(p)
<1>1. plan = [stuck |-> FALSE, runs |-> plan.runs, refs |-> plan.refs]
  BY DEF PlanSet
<1>2. plan.runs \in Seq(RunSet(p)) /\ plan.refs \in [Selected(p) -> SUBSET Nat]
  BY DEF PlanSet
<1> DEFINE runs == plan.runs
<1> HIDE DEF runs
<1>3. runs \in Seq(RunSet(p))
  BY <1>2 DEF runs
<1>4. /\ Len(runs) \in Nat /\ DOMAIN runs = 1 .. Len(runs)
      /\ \A i \in DOMAIN runs : runs[i] \in RunSet(p)
  BY <1>3
<1> QED
  BY <1>1, <1>2, <1>4 DEF runs

\* The run that add_test_to_plan reuses is one of those it may follow, the last.
LEMMA FollowedRunsFacts ==
    ASSUME NEW p, NEW plan \in PlanSet(p), NEW t, FollowedRuns(p, plan.runs, t) # {}
    PROVE  /\ Max(FollowedRuns(p, plan.runs, t)) \in FollowedRuns(p, plan.runs, t)
           /\ Max(FollowedRuns(p, plan.runs, t)) \in 1 .. Len(plan.runs)
           /\ \A i \in FollowedRuns(p, plan.runs, t) : i <= Max(FollowedRuns(p, plan.runs, t))
<1>1. Len(plan.runs) \in Nat /\ DOMAIN plan.runs = 1 .. Len(plan.runs)
  BY PlanFacts
<1>2. FollowedRuns(p, plan.runs, t) \in SUBSET (1 .. Len(plan.runs))
  BY <1>1 DEF FollowedRuns
<1> QED
  BY <1>1, <1>2, MaxOfNumbers

\* PushRun appends one run to the plan and notes it where a snapshot is kept for it.
LEMMA PushRunType ==
    ASSUME NEW p, NEW t \in Selected(p), NEW w \in WorkSet(p)
    PROVE  /\ PushRun(p, t, w) \in PlanSet(p)
           /\ Len(PushRun(p, t, w).runs) = Len(w.plan.runs) + 1
           /\ PushRun(p, t, w).runs = Append(w.plan.runs, [test |-> t, parents |-> w.parents])
           /\ PushRun(p, t, w).refs = [q \in Selected(p) |->
                  IF q \in w.kept THEN w.plan.refs[q] \cup {Len(w.plan.runs) + 1}
                                  ELSE w.plan.refs[q]]
<1> DEFINE plan == w.plan
           run == [test |-> t, parents |-> w.parents]
           runs == Append(plan.runs, run)
           refs == [q \in Selected(p) |-> IF q \in w.kept THEN plan.refs[q] \cup {Len(plan.runs) + 1}
                                                          ELSE plan.refs[q]]
<1>1. plan \in PlanSet(p) /\ run \in RunSet(p)
  BY DEF WorkSet, RunSet
<1>2. /\ plan = [stuck |-> FALSE, runs |-> plan.runs, refs |-> plan.refs]
      /\ plan.runs \in Seq(RunSet(p)) /\ plan.refs \in [Selected(p) -> SUBSET Nat]
      /\ Len(plan.runs) \in Nat
  BY <1>1, PlanFacts
<1>3. PushRun(p, t, w) = [plan EXCEPT !.runs = runs, !.refs = refs]
  BY <1>2 DEF PushRun
<1> HIDE DEF plan, run
<1>4. runs \in Seq(RunSet(p)) /\ Len(runs) = Len(plan.runs) + 1
  BY <1>1, <1>2
<1>5. refs \in [Selected(p) -> SUBSET Nat]
  BY <1>2
<1> HIDE DEF runs, refs
<1>6. PushRun(p, t, w) = [stuck |-> FALSE, runs |-> runs, refs |-> refs]
  BY <1>1, <1>3 DEF PlanSet
<1>7. PushRun(p, t, w) \in PlanSet(p)
  BY <1>4, <1>5, <1>6 DEF PlanSet
<1> QED
  BY <1>4, <1>6, <1>7 DEF runs, refs, plan, run

\* The body of add_test_to_plan returns a run and a plan if its calls for the
\* parents do.
LEMMA AddBodyType ==
    ASSUME NEW p, NEW ok, NEW held, NEW D, D \subseteq Selected(p), NEW g, Typed(D, p, g),
           NEW x \in Args(Selected(p), p), p.parents[x.test] \in Seq(D)
    PROVE  AddBody(p, ok, held, g, x) \in [run : Nat, plan : PlanSet(p)]
<1> DEFINE t == x.test
           followed == FollowedRuns(p, x.plan.runs, t)
<1>1. t \in Selected(p) /\ x.plan \in PlanSet(p)
  BY DEF Args
<1>2. CASE t \in ok /\ t \in held
  BY <1>1, <1>2 DEF AddBody
<1>3. CASE ~(t \in ok /\ t \in held) /\ followed # {}
  <2>1. Max(followed) \in 1 .. Len(x.plan.runs) /\ Len(x.plan.runs) \in Nat
    BY <1>1, <1>3, FollowedRunsFacts, PlanFacts
  <2>2. Max(followed) \in Nat
    <3> DEFINE m == Max(followed)
    <3> HIDE DEF m
    <3>1. m \in 1 .. Len(x.plan.runs) /\ Len(x.plan.runs) \in Nat
      BY <2>1 DEF m
    <3>2. m \in Nat
      BY <3>1
    <3> QED
      BY <3>2 DEF m
  <2> QED
    BY <1>1, <1>3, <2>2 DEF AddBody
<1>4. CASE ~(t \in ok /\ t \in held) /\ followed = {}
  <2> DEFINE base == NoParent(x.plan)
             w == ParentsAdded(g, base, p.parents[t])
  <2>1. base \in WorkSet(p)
    BY <1>1 DEF NoParent, WorkSet
  <2>2. PICK r \in [0 .. Len(p.parents[t]) -> WorkSet(p)] : w = r[Len(p.parents[t])]
    BY <2>1, ParentsFold DEF Folded
  <2>3. Len(p.parents[t]) \in 0 .. Len(p.parents[t])
    OBVIOUS
  <2>4. w \in WorkSet(p)
    BY <2>2, <2>3
  <2> HIDE DEF w
  <2>5. PushRun(p, t, w) \in PlanSet(p) /\ Len(PushRun(p, t, w).runs) \in Nat
    BY <1>1, <2>4, PushRunType, PlanFacts
  <2>6. AddBody(p, ok, held, g, x) = [run |-> Len(PushRun(p, t, w).runs), plan |-> PushRun(p, t, w)]
    BY <1>4 DEF AddBody, w
  <2> QED
    BY <2>5, <2>6
<1> QED
  BY <1>2, <1>3, <1>4

\* The body of add_test_to_plan calls itself for the parents only.
LEMMA AddBodyLocal ==
    ASSUME NEW p, NEW ok, NEW held, NEW D, D \subseteq Selected(p), NEW g, Typed(D, p, g),
           NEW h, Agree(D, p, g, h),
           NEW x \in Args(Selected(p), p), p.parents[x.test] \in Seq(D)
    PROVE  AddBody(p, ok, held, h, x) = AddBody(p, ok, held, g, x)
<1> DEFINE base == NoParent(x.plan)
           seq == p.parents[x.test]
<1>1. base \in WorkSet(p) /\ seq \in Seq(D)
  BY DEF NoParent, WorkSet, Args
<1> HIDE DEF base, seq
<1>2. ParentsAdded(h, base, seq) = ParentsAdded(g, base, seq)
  BY <1>1, ParentsFoldLocal
<1> USE DEF base, seq
<1> QED
  BY <1>2 DEF AddBody

\* A family of subsets of a finite set that has the empty set and, with each
\* subset, a larger one has the whole set.
LEMMA GrowsToAll ==
    ASSUME NEW S, IsFiniteSet(S), NEW C, C \subseteq SUBSET S, {} \in C,
           \A D \in C : D # S => \E t \in S \ D : D \cup {t} \in C
    PROVE  S \in C
<1> DEFINE size == [D \in SUBSET S |-> Cardinality(S \ D)]
           T == {size[D] : D \in C}
<1>0. \A D \in C : IsFiniteSet(S \ D)
  BY FS_Difference
<1>1. \A D \in C : size[D] \in Nat
  BY <1>0, FS_CardinalityType
<1>2. ASSUME NEW D \in C, D # S
      PROVE  \E E \in C : size[E] < size[D]
  <2>1. PICK t \in S \ D : D \cup {t} \in C
    BY <1>2
  <2>2. S \ (D \cup {t}) = (S \ D) \ {t}
    OBVIOUS
  <2>3. Cardinality((S \ D) \ {t}) = Cardinality(S \ D) - 1
    BY <1>0, <2>1, FS_RemoveElement
  <2>4. size[D \cup {t}] = size[D] - 1
    BY <2>2, <2>3
  <2>5. size[D \cup {t}] < size[D]
    <3>1. size[D] \in Nat
      BY <1>1
    <3> HIDE DEF size
    <3> QED
      BY <2>4, <3>1
  <2> QED
    BY <2>1, <2>5, Zenon
<1> HIDE DEF size
<1>3. T \subseteq Nat
  BY <1>1
<1>4. T # {}
  <2>1. size[{}] \in T
    BY Zenon
  <2> QED
    BY <2>1, Zenon
<1>5. PICK x \in T : \A y \in T : x <= y
  <2> HIDE DEF T
  <2> QED
    BY <1>3, <1>4, SmallestNumber
<1>6. PICK D \in C : x = size[D]
  BY Zenon
<1>7. ASSUME NEW E \in C, size[E] < size[D]
      PROVE  FALSE
  <2>1. size[E] \in T
    BY Zenon
  <2>2. size[D] <= size[E]
    BY <1>5, <1>6, <2>1, Zenon
  <2>3. size[D] \in Nat /\ size[E] \in Nat
    BY <1>1
  <2> QED
    BY <1>7, <2>2, <2>3
<1> QED
  BY <1>2, <1>7

\* The elements of a sequence, by their positions.
LEMMA ElementsOfSeq ==
    ASSUME NEW S, NEW s \in Seq(S)
    PROVE  /\ Len(s) \in Nat /\ DOMAIN s = 1 .. Len(s)
           /\ ToSet(s) \subseteq S
           /\ \A i \in 1 .. Len(s) : s[i] \in ToSet(s)
           /\ \A D : ToSet(s) \subseteq D => s \in Seq(D)
<1>1. Len(s) \in Nat /\ DOMAIN s = 1 .. Len(s) /\ s \in [1 .. Len(s) -> S]
  OBVIOUS
<1>2. ToSet(s) \subseteq S /\ \A i \in 1 .. Len(s) : s[i] \in ToSet(s)
  BY <1>1 DEF ToSet
<1>3. ASSUME NEW D, ToSet(s) \subseteq D
      PROVE  s \in Seq(D)
  <2>1. \A i \in 1 .. Len(s) : s[i] \in D
    BY <1>2, <1>3
  <2>2. s = [i \in 1 .. Len(s) |-> s[i]]
    BY <1>1
  <2> QED
    BY <1>1, <2>1, <2>2, IsASeq
<1> QED
  BY <1>1, <1>2, <1>3

\* The planner can be asked for the tests of D, and needs only these for it.
CanAdd(D, p, ok, held) ==
    /\ \A t \in D : ParentSet(p, t) \subseteq D
    /\ \E g : Solves(D, p, ok, held, g) /\ Typed(D, p, g)

\* A function that satisfies the recursion of add_test_to_plan exists.
LEMMA AddExists ==
    ASSUME NEW p, Ordered(p), NEW ok, NEW held
    PROVE  CanAdd(Selected(p), p, ok, held)
<1> DEFINE C == {D \in SUBSET Selected(p) : CanAdd(D, p, ok, held)}
<1>1. {} \in C
  BY DEF CanAdd, Solves, Typed, Args
<1>2. ASSUME NEW D \in C, D # Selected(p)
      PROVE  \E t \in Selected(p) \ D : D \cup {t} \in C
  <2>1. PICK t \in Selected(p) \ D : ParentSet(p, t) \cap (Selected(p) \ D) = {}
    BY <1>2 DEF Ordered, Hierarchy
  <2>2. PICK g : Solves(D, p, ok, held, g) /\ Typed(D, p, g)
    BY DEF CanAdd
  <2> DEFINE E == D \cup {t}
             h == [x \in Args(E, p) |-> IF x.test = t THEN AddBody(p, ok, held, g, x) ELSE g[x]]
  <2>3. E \in SUBSET Selected(p) /\ D \subseteq Selected(p)
    OBVIOUS
  <2>4. \A u \in E : p.parents[u] \in Seq(D) /\ ParentSet(p, u) \subseteq D
    <3> TAKE u \in E
    <3>1. p.parents[u] \in Seq(Selected(p))
      BY DEF Ordered
    <3>2. ParentSet(p, u) \subseteq Selected(p)
      BY <3>1, ElementsOfSeq DEF ParentSet
    <3>3. ParentSet(p, u) \subseteq D
      BY <2>1, <3>2 DEF CanAdd
    <3> QED
      BY <3>1, <3>3, ElementsOfSeq DEF ParentSet
  <2>5. Args(D, p) \subseteq Args(E, p) /\ Args(E, p) \subseteq Args(Selected(p), p)
    BY DEF Args
  <2>6. \A x \in Args(E, p) : x.test \in E /\ (x.test # t => x \in Args(D, p))
    BY DEF Args
  <2>7. Agree(D, p, g, h)
    <3>1. \A x \in Args(D, p) : x.test \in D
      BY DEF Args
    <3> QED
      BY <2>5, <3>1 DEF Agree
  <2>8. ASSUME NEW x \in Args(E, p)
        PROVE  h[x] = AddBody(p, ok, held, h, x) /\ h[x] \in [run : Nat, plan : PlanSet(p)]
    <3>1. x \in Args(Selected(p), p) /\ p.parents[x.test] \in Seq(D)
      BY <2>4, <2>5, <2>6
    <3>2. AddBody(p, ok, held, h, x) = AddBody(p, ok, held, g, x)
      <4> HIDE DEF h
      <4> QED
        BY <2>2, <2>3, <2>7, <3>1, AddBodyLocal
    <3>3. AddBody(p, ok, held, g, x) \in [run : Nat, plan : PlanSet(p)]
      BY <2>2, <2>3, <3>1, AddBodyType
    <3>4. h[x] = AddBody(p, ok, held, g, x)
      BY <2>2, <2>6 DEF Solves
    <3> QED
      BY <3>2, <3>3, <3>4
  <2>9. Solves(E, p, ok, held, h) /\ Typed(E, p, h)
    BY <2>8 DEF Solves, Typed
  <2>10. CanAdd(E, p, ok, held)
    BY <2>4, <2>9 DEF CanAdd
  <2> QED
    BY <2>3, <2>10
<1>3. Selected(p) \in C
  <2>1. C \subseteq SUBSET Selected(p) /\ IsFiniteSet(Selected(p))
    BY DEF Ordered
  <2> HIDE DEF C
  <2> QED
    BY <1>1, <1>2, <2>1, GrowsToAll
<1> QED
  BY <1>3

\* add_test_to_plan satisfies its equation.
LEMMA AddSolves ==
    ASSUME NEW p, Ordered(p), NEW ok, NEW held
    PROVE  /\ Solves(Selected(p), p, ok, held, add_test_to_plan(p, ok, held))
           /\ Typed(Selected(p), p, add_test_to_plan(p, ok, held))
<1> DEFINE Is(g) == g = [x \in Args(Selected(p), p) |-> AddBody(p, ok, held, g, x)]
           add == CHOOSE g : Is(g)
<1>1. add_test_to_plan(p, ok, held) = add
  BY DEF add_test_to_plan, Args, PlanSet, RunSet, AddBody, ParentsAdded, AddParent,
         FoldLeft, MapThenFoldSet
<1>2. \A t \in Selected(p) : p.parents[t] \in Seq(Selected(p))
  BY DEF Ordered
<1>3. \E g : Is(g)
  <2>1. PICK g : Solves(Selected(p), p, ok, held, g) /\ Typed(Selected(p), p, g)
    BY AddExists DEF CanAdd
  <2> DEFINE h == [x \in Args(Selected(p), p) |-> g[x]]
  <2>2. Agree(Selected(p), p, g, h)
    BY DEF Agree
  <2>3. ASSUME NEW x \in Args(Selected(p), p)
        PROVE  h[x] = AddBody(p, ok, held, h, x)
    <3>1. x.test \in Selected(p)
      BY DEF Args
    <3>2. h[x] = AddBody(p, ok, held, g, x)
      BY <2>1 DEF Solves
    <3> HIDE DEF h
    <3>3. p.parents[x.test] \in Seq(Selected(p))
      BY <1>2, <3>1
    <3> QED
      BY <2>1, <2>2, <3>2, <3>3, AddBodyLocal
  <2>4. Is(h)
    <3> DEFINE b == [x \in Args(Selected(p), p) |-> AddBody(p, ok, held, h, x)]
    <3>1. \A x \in Args(Selected(p), p) : h[x] = b[x]
      BY <2>3
    <3> QED
      BY <3>1
  <2> HIDE DEF h, Is
  <2> QED
    BY <2>4
<1>4. Is(add)
  <2> HIDE DEF Is
  <2> QED
    BY <1>3
<1> HIDE DEF add
<1>5. Solves(Selected(p), p, ok, held, add)
  BY <1>4 DEF Solves
<1>6. Typed(Selected(p), p, add)
  <2> DEFINE B == {t \in Selected(p) : ~Typed({t}, p, add)}
  <2>1. SUFFICES ASSUME B # {} PROVE FALSE
    BY DEF Typed, Args
  <2>2. PICK t \in B : ParentSet(p, t) \cap B = {}
    BY <2>1 DEF Ordered, Hierarchy
  <2> DEFINE D == ParentSet(p, t)
  <2>3. p.parents[t] \in Seq(Selected(p))
    BY <1>2
  <2>4. D \subseteq Selected(p) /\ p.parents[t] \in Seq(D)
    BY <2>3, ElementsOfSeq DEF ParentSet
  <2>5. Typed(D, p, add)
    <3>1. \A u \in D : Typed({u}, p, add)
      BY <2>2, <2>4
    <3> QED
      BY <3>1 DEF Typed, Args
  <2>6. ASSUME NEW x \in Args({t}, p)
        PROVE  add[x] \in [run : Nat, plan : PlanSet(p)]
    <3>1. x \in Args(Selected(p), p) /\ x.test = t
      BY DEF Args
    <3> HIDE DEF D
    <3> QED
      BY <1>5, <2>4, <2>5, <3>1, AddBodyType DEF Solves
  <2> QED
    BY <2>6 DEF Typed
<1> QED
  BY <1>1, <1>5, <1>6

----------------------------------------------------------------------------
(* Ancestors and their controllers                                         *)

\* The parents of the tests of S are in S.
Upward(p, S) == \A t \in S : ParentSet(p, t) \subseteq S

\* A test and its ancestors.
Ancestors(p, t) ==
    {u \in Selected(p) : \A S \in SUBSET Selected(p) : t \in S /\ Upward(p, S) => u \in S}

\* A test's ancestors are selected and closed under parents.
LEMMA AncestorFacts ==
    ASSUME NEW p, Ordered(p), NEW t \in Selected(p)
    PROVE  /\ t \in Ancestors(p, t)
           /\ Ancestors(p, t) \subseteq Selected(p)
           /\ Upward(p, Ancestors(p, t))
           /\ ParentSet(p, t) \subseteq Ancestors(p, t)
           /\ ParentSet(p, t) \subseteq Selected(p)
<1>1. \A u \in Selected(p) : ParentSet(p, u) \subseteq Selected(p)
  <2> TAKE u \in Selected(p)
  <2>1. p.parents[u] \in Seq(Selected(p))
    BY DEF Ordered
  <2> QED
    BY <2>1, ElementsOfSeq DEF ParentSet
<1>2. t \in Ancestors(p, t)
  BY DEF Ancestors
<1>3. Upward(p, Ancestors(p, t))
  BY <1>1 DEF Upward, Ancestors
<1> QED
  BY <1>1, <1>2, <1>3 DEF Upward, Ancestors

\* What holds of a test and goes from tests to their parents holds of the ancestors.
LEMMA AncestorsIn ==
    ASSUME NEW p, NEW t \in Selected(p), NEW S \in SUBSET Selected(p), t \in S, Upward(p, S)
    PROVE  Ancestors(p, t) \subseteq S
BY DEF Ancestors

\* The ancestors of a test are the test and the ancestors of its parents.
LEMMA AncestorsStep ==
    ASSUME NEW p, Ordered(p), NEW t \in Selected(p)
    PROVE  /\ \A u \in Ancestors(p, t) : Ancestors(p, u) \subseteq Ancestors(p, t)
           /\ \A u \in Ancestors(p, t) \ {t} : \E q \in ParentSet(p, t) : u \in Ancestors(p, q)
<1>1. ASSUME NEW u \in Ancestors(p, t)
      PROVE  Ancestors(p, u) \subseteq Ancestors(p, t)
  BY <1>1, AncestorFacts, AncestorsIn
<1> DEFINE S == {t} \cup UNION {Ancestors(p, q) : q \in ParentSet(p, t)}
<1>2. ParentSet(p, t) \subseteq Selected(p)
  BY AncestorFacts
<1>3. \A q \in ParentSet(p, t) : /\ q \in Ancestors(p, q) /\ Upward(p, Ancestors(p, q))
                                 /\ Ancestors(p, q) \subseteq Selected(p)
  BY <1>2, AncestorFacts
<1>4. S \in SUBSET Selected(p) /\ t \in S
  BY <1>2, <1>3
<1>5. Upward(p, S)
  <2> SUFFICES ASSUME NEW u \in S, NEW v \in ParentSet(p, u)
               PROVE  v \in S
    BY DEF Upward
  <2>1. CASE u = t
    BY <1>3, <2>1
  <2>2. CASE u # t
    <3>1. PICK q \in ParentSet(p, t) : u \in Ancestors(p, q)
      BY <2>2
    <3>2. v \in Ancestors(p, q)
      BY <1>3, <3>1 DEF Upward
    <3> QED
      BY <3>2
  <2> QED
    BY <2>1, <2>2
<1>6. Ancestors(p, t) \subseteq S
  BY <1>4, <1>5, AncestorsIn
<1> QED
  BY <1>1, <1>6

\* No test is an ancestor of its parents.
LEMMA NoOwnAncestor ==
    ASSUME NEW p, Ordered(p), NEW t \in Selected(p), NEW q \in ParentSet(p, t)
    PROVE  t \notin Ancestors(p, q)
<1> SUFFICES ASSUME t \in Ancestors(p, q)
             PROVE  FALSE
  OBVIOUS
<1> DEFINE S == {x \in Ancestors(p, t) : t \in Ancestors(p, x)}
<1>1. t \in S /\ S \in SUBSET Selected(p)
  BY AncestorFacts
<1>2. PICK x \in S : ParentSet(p, x) \cap S = {}
  BY <1>1 DEF Ordered, Hierarchy
<1>3. x \in Selected(p) /\ ParentSet(p, x) \subseteq Ancestors(p, t)
  BY <1>1, AncestorFacts DEF Upward
<1>4. \E y \in ParentSet(p, x) : t \in Ancestors(p, y)
  <2>1. CASE x = t
    BY <2>1
  <2>2. CASE x # t
    BY <1>3, <2>2, AncestorsStep
  <2> QED
    BY <2>1, <2>2
<1> QED
  BY <1>2, <1>3, <1>4

\* get_all_controllers satisfies its equation: the controllers of a test are
\* those its ancestors mention.
LEMMA ControllersOf ==
    ASSUME NEW p, Ordered(p)
    PROVE  \A t \in Selected(p) : get_all_controllers(p)[t] =
               p.mentions[t] \cup UNION {get_all_controllers(p)[q] : q \in ParentSet(p, t)}
<1> DEFINE Is(c) == c = [t \in Selected(p) |->
                           p.mentions[t] \cup UNION {c[q] : q \in ParentSet(p, t)}]
           g == [t \in Selected(p) |-> UNION {p.mentions[u] : u \in Ancestors(p, t)}]
<1>1. get_all_controllers(p) = CHOOSE c : Is(c)
  BY DEF get_all_controllers
<1>2. ASSUME NEW t \in Selected(p)
      PROVE  g[t] = p.mentions[t] \cup UNION {g[q] : q \in ParentSet(p, t)}
  <2>1. ParentSet(p, t) \subseteq Selected(p) /\ t \in Ancestors(p, t)
        /\ ParentSet(p, t) \subseteq Ancestors(p, t)
    BY AncestorFacts
  <2>2. \A q \in ParentSet(p, t) : Ancestors(p, q) \subseteq Ancestors(p, t)
    BY <2>1, AncestorsStep
  <2>3. \A q \in ParentSet(p, t) : g[q] = UNION {p.mentions[u] : u \in Ancestors(p, q)}
    BY <2>1
  <2>4. ASSUME NEW c \in g[t]
        PROVE  c \in p.mentions[t] \cup UNION {g[q] : q \in ParentSet(p, t)}
    <3>1. PICK u \in Ancestors(p, t) : c \in p.mentions[u]
      BY <2>4
    <3>2. CASE u # t
      <4>1. PICK q \in ParentSet(p, t) : u \in Ancestors(p, q)
        BY <3>1, <3>2, AncestorsStep
      <4> QED
        BY <2>3, <3>1, <4>1
    <3> QED
      BY <3>1, <3>2
  <2>5. ASSUME NEW c \in p.mentions[t] \cup UNION {g[q] : q \in ParentSet(p, t)}
        PROVE  c \in g[t]
    <3>1. CASE c \in p.mentions[t]
      BY <2>1, <3>1
    <3>2. ASSUME NEW q \in ParentSet(p, t), c \in g[q]
          PROVE  c \in g[t]
      BY <2>2, <2>3, <3>2
    <3> QED
      BY <2>5, <3>1, <3>2
  <2> QED
    BY <2>4, <2>5
<1>3. Is(g)
  <2> DEFINE b == [t \in Selected(p) |-> p.mentions[t] \cup UNION {g[q] : q \in ParentSet(p, t)}]
  <2>1. \A t \in Selected(p) : g[t] = b[t]
    BY <1>2
  <2> QED
    BY <2>1
<1>4. Is(get_all_controllers(p))
  <2> HIDE DEF Is, g
  <2> QED
    BY <1>1, <1>3
<1> QED
  BY <1>4

\* A test has all the controllers of its ancestors.
LEMMA AncestorsControllers ==
    ASSUME NEW p, Ordered(p), NEW t \in Selected(p), NEW u \in Ancestors(p, t)
    PROVE  get_all_controllers(p)[u] \subseteq get_all_controllers(p)[t]
<1> DEFINE c == get_all_controllers(p)
           S == {v \in Selected(p) : c[v] \subseteq c[t]}
<1> HIDE DEF c
<1>1. t \in S /\ S \in SUBSET Selected(p)
  OBVIOUS
<1>2. ASSUME NEW v \in S, NEW q \in ParentSet(p, v)
      PROVE  q \in S
  <2>1. q \in Selected(p)
    BY AncestorFacts
  <2>2. c[q] \subseteq c[v]
    BY ControllersOf DEF c
  <2> QED
    BY <2>1, <2>2
<1>3. u \in S
  <2> HIDE DEF S
  <2> QED
    BY <1>1, <1>2, AncestorsIn DEF Upward
<1> QED
  BY <1>3 DEF c

----------------------------------------------------------------------------
(* What a plan promises, while it grows                                    *)

\* The tests t and u have a controller in common.
Share(p, t, u) == get_all_controllers(p)[t] \cap get_all_controllers(p)[u] # {}

\* No run of plan in i .. j shares a controller with t.
Clear(p, plan, t, i, j) == \A k \in i .. j : ~Share(p, plan.runs[k].test, t)

\* Run i is the last one of q up to run j.
LastRun(p, plan, q, i, j) ==
    /\ i \in 1 .. j /\ plan.runs[i].test = q
    /\ \A k \in i + 1 .. j : plan.runs[k].test # q

\* A run's parents come before it, and snapshots are kept for children only.
LinksBack(p, plan) ==
    /\ \A j \in 1 .. Len(plan.runs) :
          /\ plan.runs[j].parents \subseteq 1 .. j - 1
          /\ \A i \in plan.runs[j].parents : \E q \in ParentSet(p, plan.runs[j].test) :
                 LastRun(p, plan, q, i, j - 1)
    /\ \A t \in Selected(p) : \A j \in plan.refs[t] :
           j \in 1 .. Len(plan.runs) /\ t \in ParentSet(p, plan.runs[j].test)

\* A test whose snapshots are there is not run, and no test again but one without
\* snapshots when another run has used its controllers.
NotInVain(p, ok, held, plan) ==
    /\ \A j \in 1 .. Len(plan.runs) : ~(plan.runs[j].test \in ok /\ plan.runs[j].test \in held)
    /\ \A j \in 1 .. Len(plan.runs) : \A i \in 1 .. j - 1 :
           plan.runs[i].test = plan.runs[j].test =>
               /\ p.policy[plan.runs[j].test] = "never"
               /\ ~Clear(p, plan, plan.runs[j].test, i + 1, j - 1)

\* When run j starts it can have the state of its parent q.
HasParent(p, ok, held, plan, q, j) ==
    \/ q \in ok /\ q \in held /\ j \in plan.refs[q]
    \/ \E i \in plan.runs[j].parents :
           /\ LastRun(p, plan, q, i, j - 1)
           /\ \/ Clear(p, plan, q, i + 1, j - 1)
              \/ p.policy[q] # "never" /\ j \in plan.refs[q]

HasParents(p, ok, held, plan) ==
    \A j \in 1 .. Len(plan.runs) : \A q \in ParentSet(p, plan.runs[j].test) :
        HasParent(p, ok, held, plan, q, j)

WellPlanned(p, ok, held, plan) ==
    /\ LinksBack(p, plan)
    /\ NotInVain(p, ok, held, plan)
    /\ HasParents(p, ok, held, plan)

\* Plan b is plan a with more runs, all of tests of A.
Extends(p, a, b, A) ==
    /\ Len(a.runs) <= Len(b.runs)
    /\ \A i \in 1 .. Len(a.runs) : b.runs[i] = a.runs[i]
    /\ \A t \in Selected(p) : \A i \in 1 .. Len(a.runs) : i \in b.refs[t] <=> i \in a.refs[t]
    /\ \A i \in Len(a.runs) + 1 .. Len(b.runs) : b.runs[i].test \in A

\* Every run of an up-to-date test is for another run, or is in X.
Used(ok, plan, X) ==
    \A i \in 1 .. Len(plan.runs) : plan.runs[i].test \in ok =>
        i \in X \/ \E j \in 1 .. Len(plan.runs) : i \in plan.runs[j].parents

\* A child of t can follow run i now: 0 when t's snapshots are there.
RunFor(p, ok, held, plan, t, i) ==
    \/ i = 0 /\ t \in ok /\ t \in held
    \/ /\ LastRun(p, plan, t, i, Len(plan.runs))
       /\ p.policy[t] = "never" => Clear(p, plan, t, i + 1, Len(plan.runs))

\* What add_test_to_plan returns for t and plan.
Added(p, ok, held, t, plan, r) ==
    /\ r \in [run : Nat, plan : PlanSet(p)]
    /\ WellPlanned(p, ok, held, r.plan)
    /\ Extends(p, plan, r.plan, Ancestors(p, t))
    /\ RunFor(p, ok, held, r.plan, t, r.run)
    /\ \A X : Used(ok, plan, X) => Used(ok, r.plan, X \cup {r.run})

\* The parent q has been added to the work for a test.
Found(p, ok, held, w, q) ==
    \/ q \in ok /\ q \in held /\ q \in w.kept
    \/ \E i \in w.parents :
           /\ LastRun(p, w.plan, q, i, Len(w.plan.runs))
           /\ \/ Clear(p, w.plan, q, i + 1, Len(w.plan.runs))
              \/ p.policy[q] # "never" /\ q \in w.kept

\* The work for a test with the parents seq, the first n of which have been added.
Work(p, ok, held, plan, seq, n, w) ==
    /\ w \in WorkSet(p)
    /\ w.parents \subseteq 1 .. Len(w.plan.runs)
    /\ \A i \in w.parents : \E l \in 1 .. n : LastRun(p, w.plan, seq[l], i, Len(w.plan.runs))
    /\ w.kept \subseteq ToSet(seq)
    /\ WellPlanned(p, ok, held, w.plan)
    /\ Extends(p, plan, w.plan, UNION {Ancestors(p, q) : q \in ToSet(seq)})
    /\ \A l \in 1 .. n : Found(p, ok, held, w, seq[l])
    /\ \A X : Used(ok, plan, X) => Used(ok, w.plan, X \cup w.parents)

\* The parents of a test are different and have no controllers in common.
Apart(p) ==
    \A t \in Selected(p) :
        /\ \A i, j \in 1 .. Len(p.parents[t]) : p.parents[t][i] = p.parents[t][j] => i = j
        /\ \A q, r \in ParentSet(p, t) : q # r => ~Share(p, q, r)

\* Extensions of extensions are extensions.
LEMMA ExtendsTransitive ==
    ASSUME NEW p, NEW a \in PlanSet(p), NEW b \in PlanSet(p), NEW c \in PlanSet(p),
           NEW A, NEW B, Extends(p, a, b, A), Extends(p, b, c, B), NEW C,
           A \subseteq C, B \subseteq C
    PROVE  Extends(p, a, c, C)
<1>1. Len(a.runs) \in Nat /\ Len(b.runs) \in Nat /\ Len(c.runs) \in Nat
  BY PlanFacts
<1>2. \A i \in Len(a.runs) + 1 .. Len(c.runs) : c.runs[i].test \in C
  BY <1>1 DEF Extends
<1> QED
  BY <1>1, <1>2 DEF Extends

\* The last run of q stays so when runs are added that have nothing to do with q.
LEMMA LastRunStays ==
    ASSUME NEW p, Ordered(p), NEW ok, NEW held, NEW a \in PlanSet(p), NEW b \in PlanSet(p),
           NEW t \in Selected(p), NEW q \in Selected(p), ~Share(p, q, t),
           Extends(p, a, b, Ancestors(p, t)), NotInVain(p, ok, held, b),
           NEW i, LastRun(p, a, q, i, Len(a.runs))
    PROVE  /\ \A k \in Len(a.runs) + 1 .. Len(b.runs) : ~Share(p, b.runs[k].test, q)
           /\ LastRun(p, b, q, i, Len(b.runs))
<1> DEFINE n == Len(a.runs)
           m == Len(b.runs)
<1>1. n \in Nat /\ m \in Nat /\ n <= m
  BY PlanFacts DEF Extends
<1>2. \A k \in n + 1 .. m : ~Share(p, b.runs[k].test, q)
  <2> TAKE k \in n + 1 .. m
  <2>1. b.runs[k].test \in Ancestors(p, t)
    BY DEF Extends
  <2> QED
    BY <2>1, AncestorsControllers DEF Share
<1>3. i \in 1 .. n /\ i \in 1 .. m /\ b.runs[i].test = q
  BY <1>1 DEF LastRun, Extends
<1>4. \A k \in i + 1 .. n : b.runs[k].test # q
  BY <1>1, <1>3 DEF LastRun, Extends
<1>5. ASSUME NEW k \in n + 1 .. m, b.runs[k].test = q
      PROVE  FALSE
  <2>1. k \in 1 .. m /\ i \in 1 .. k - 1
    BY <1>1, <1>3
  <2>2. ~Clear(p, b, q, i + 1, k - 1)
    BY <1>3, <1>5, <2>1 DEF NotInVain
  <2>3. PICK l \in i + 1 .. k - 1 : Share(p, b.runs[l].test, q)
    BY <2>2 DEF Clear
  <2>4. ~Share(p, q, q)
    BY <1>2, <1>5
  <2> QED
    BY <2>3, <2>4 DEF Share
<1> QED
  BY <1>1, <1>2, <1>3, <1>4, <1>5 DEF LastRun

\* What is clear of the last run of q stays so when runs are added that have
\* nothing to do with q.
LEMMA FoundStays ==
    ASSUME NEW p, Ordered(p), NEW ok, NEW held, NEW v \in WorkSet(p), NEW w \in WorkSet(p),
           NEW t \in Selected(p), NEW q \in Selected(p), ~Share(p, q, t),
           Found(p, ok, held, v, q), v.parents \subseteq 1 .. Len(v.plan.runs),
           v.parents \subseteq w.parents, v.kept \subseteq w.kept,
           Extends(p, v.plan, w.plan, Ancestors(p, t)),
           NotInVain(p, ok, held, w.plan)
    PROVE  Found(p, ok, held, w, q)
<1> DEFINE n == Len(v.plan.runs)
           m == Len(w.plan.runs)
<1>1. n \in Nat /\ m \in Nat /\ n <= m
  BY PlanFacts DEF WorkSet, Extends
<1>2. \A k \in n + 1 .. m : ~Share(p, w.plan.runs[k].test, q)
  <2> TAKE k \in n + 1 .. m
  <2>1. w.plan.runs[k].test \in Ancestors(p, t)
    BY DEF Extends
  <2> QED
    BY <2>1, AncestorsControllers DEF Share
<1>3. ASSUME NEW i \in v.parents, LastRun(p, v.plan, q, i, n)
      PROVE  LastRun(p, w.plan, q, i, m)
  <2>1. v.plan \in PlanSet(p) /\ w.plan \in PlanSet(p)
    BY DEF WorkSet
  <2> QED
    BY <1>3, <2>1, LastRunStays
<1>4. ASSUME NEW i \in v.parents, Clear(p, v.plan, q, i + 1, n)
      PROVE  Clear(p, w.plan, q, i + 1, m)
  <2> SUFFICES ASSUME NEW k \in i + 1 .. m
               PROVE  ~Share(p, w.plan.runs[k].test, q)
    BY DEF Clear
  <2>1. i \in 1 .. n
    OBVIOUS
  <2>2. CASE k <= n
    BY <1>1, <1>4, <2>1, <2>2 DEF Clear, Extends
  <2>3. CASE ~(k <= n)
    BY <1>1, <1>2, <2>1, <2>3
  <2> QED
    BY <2>2, <2>3
<1> QED
  BY <1>3, <1>4 DEF Found

\* One more parent is added.
LEMMA WorkStep ==
    ASSUME NEW p, Ordered(p), Apart(p), NEW ok, NEW held, NEW t \in Selected(p),
           NEW plan \in PlanSet(p), NEW n \in 0 .. Len(p.parents[t]) - 1, NEW v,
           Work(p, ok, held, plan, p.parents[t], n, v), NEW g,
           Added(p, ok, held, p.parents[t][n + 1], v.plan,
                 g[[test |-> p.parents[t][n + 1], plan |-> v.plan]])
    PROVE  Work(p, ok, held, plan, p.parents[t], n + 1, AddParent(g, v, p.parents[t][n + 1]))
<1> DEFINE seq == p.parents[t]
           q == seq[n + 1]
           r == g[[test |-> q, plan |-> v.plan]]
           w == AddParent(g, v, q)
           A == UNION {Ancestors(p, u) : u \in ToSet(seq)}
<1>1. /\ seq \in Seq(Selected(p)) /\ Len(seq) \in Nat /\ n + 1 \in 1 .. Len(seq)
      /\ q \in ToSet(seq) /\ ToSet(seq) \subseteq Selected(p)
  <2>1. seq \in Seq(Selected(p))
    BY DEF Ordered
  <2>2. Len(seq) \in Nat /\ n + 1 \in 1 .. Len(seq)
    BY <2>1
  <2> QED
    BY <2>1, <2>2, ElementsOfSeq
<1>2. /\ v \in WorkSet(p) /\ v.plan \in PlanSet(p) /\ v.parents \subseteq 1 .. Len(v.plan.runs)
      /\ v.kept \subseteq ToSet(seq)
  BY DEF Work, WorkSet
<1> HIDE DEF r
<1>3. /\ w.plan = r.plan
      /\ w.parents = v.parents \cup ({r.run} \ {0})
      /\ w.kept = IF r.run # Len(r.plan.runs) \/ r.run = 0 THEN v.kept \cup {q} ELSE v.kept
  BY DEF AddParent, WithParent, r
<1>4. /\ r \in [run : Nat, plan : PlanSet(p)] /\ WellPlanned(p, ok, held, r.plan)
      /\ Extends(p, v.plan, r.plan, Ancestors(p, q))
      /\ RunFor(p, ok, held, r.plan, q, r.run)
      /\ \A X : Used(ok, v.plan, X) => Used(ok, r.plan, X \cup {r.run})
  BY DEF Added, r
<1>5. Len(v.plan.runs) \in Nat /\ Len(r.plan.runs) \in Nat /\ Len(v.plan.runs) <= Len(r.plan.runs)
  BY <1>2, <1>4, PlanFacts DEF Extends
<1>6. r.run = 0 \/ r.run \in 1 .. Len(r.plan.runs)
  BY <1>4 DEF RunFor, LastRun
<1>7. w \in WorkSet(p) /\ w.parents \subseteq 1 .. Len(w.plan.runs) /\ w.kept \subseteq ToSet(seq)
  <2>1. w = [plan |-> w.plan, parents |-> w.parents, kept |-> w.kept]
    BY DEF AddParent, WithParent
  <2>2. w.parents \subseteq 1 .. Len(w.plan.runs)
    BY <1>2, <1>3, <1>5, <1>6
  <2>3. w.kept \subseteq ToSet(seq)
    BY <1>1, <1>2, <1>3
  <2>4. w.parents \subseteq Nat /\ w.kept \subseteq Selected(p) /\ w.plan \in PlanSet(p)
    BY <1>1, <1>3, <1>4, <2>2, <2>3
  <2> HIDE DEF w
  <2> QED
    BY <2>1, <2>2, <2>3, <2>4 DEF WorkSet
<1> HIDE DEF w
<1>8. Extends(p, plan, w.plan, A)
  <2>1. Extends(p, plan, v.plan, A)
    BY DEF Work
  <2>2. Ancestors(p, q) \subseteq A
    BY <1>1
  <2> HIDE DEF A
  <2> QED
    BY <1>2, <1>3, <1>4, <2>1, <2>2, ExtendsTransitive
<1>9. ASSUME NEW l \in 1 .. n + 1
      PROVE  Found(p, ok, held, w, seq[l])
  <2>1. CASE l = n + 1
    <3>1. CASE r.run = 0
      <4>1. q \in ok /\ q \in held
        BY <1>4, <1>5, <3>1 DEF RunFor, LastRun
      <4> QED
        BY <1>3, <2>1, <3>1, <4>1 DEF Found
    <3>2. CASE r.run # 0
      <4>1. /\ LastRun(p, w.plan, q, r.run, Len(w.plan.runs)) /\ r.run \in w.parents
            /\ p.policy[q] = "never" => Clear(p, w.plan, q, r.run + 1, Len(w.plan.runs))
        BY <1>3, <1>4, <3>2 DEF RunFor
      <4>2. r.run = Len(w.plan.runs) => Clear(p, w.plan, q, r.run + 1, Len(w.plan.runs))
        BY <1>3, <1>5 DEF Clear
      <4>3. r.run # Len(w.plan.runs) => q \in w.kept
        BY <1>3
      <4> QED
        BY <2>1, <4>1, <4>2, <4>3 DEF Found
    <3> QED
      BY <3>1, <3>2
  <2>2. CASE l # n + 1
    <3>1. l \in 1 .. n /\ l \in 1 .. Len(seq)
      BY <1>1, <2>2
    <3>2. Found(p, ok, held, v, seq[l])
      BY <3>1 DEF Work
    <3>3. seq[l] \in ToSet(seq) /\ seq[l] # q
      BY <1>1, <2>2, <3>1, ElementsOfSeq DEF Apart
    <3>4. ~Share(p, seq[l], q) /\ seq[l] \in Selected(p) /\ q \in Selected(p)
      BY <1>1, <3>3 DEF Apart, ParentSet
    <3>5. /\ v.parents \subseteq w.parents /\ v.kept \subseteq w.kept
          /\ NotInVain(p, ok, held, w.plan) /\ Extends(p, v.plan, w.plan, Ancestors(p, q))
      BY <1>3, <1>4 DEF WellPlanned
    <3> HIDE DEF q, seq
    <3> QED
      BY <1>2, <1>7, <3>2, <3>4, <3>5, FoundStays
  <2> QED
    BY <2>1, <2>2
<1>10. ASSUME NEW i \in w.parents
       PROVE  \E l \in 1 .. n + 1 : LastRun(p, w.plan, seq[l], i, Len(w.plan.runs))
  <2>1. CASE i = r.run
    <3>1. r.run # 0 \/ r.run \in v.parents
      BY <1>3, <1>10, <2>1
    <3>2. r.run # 0
      BY <1>2, <3>1
    <3>3. LastRun(p, w.plan, q, i, Len(w.plan.runs))
      BY <1>3, <1>4, <2>1, <3>2 DEF RunFor
    <3>4. n + 1 \in 1 .. n + 1
      BY <1>1
    <3> QED
      BY <3>3, <3>4
  <2>2. CASE i # r.run
    <3>1. PICK l \in 1 .. n : LastRun(p, v.plan, seq[l], i, Len(v.plan.runs))
      BY <1>3, <1>10, <2>2 DEF Work
    <3>2. l \in 1 .. Len(seq) /\ l # n + 1 /\ l \in 1 .. n + 1
      BY <1>1
    <3>3. seq[l] \in ToSet(seq) /\ seq[l] # q
      BY <1>1, <3>2, ElementsOfSeq DEF Apart
    <3>4. ~Share(p, seq[l], q) /\ seq[l] \in Selected(p) /\ q \in Selected(p)
      BY <1>1, <3>3 DEF Apart, ParentSet
    <3>5. NotInVain(p, ok, held, w.plan) /\ Extends(p, v.plan, w.plan, Ancestors(p, q))
          /\ w.plan \in PlanSet(p)
      BY <1>3, <1>4 DEF WellPlanned
    <3>6. LastRun(p, w.plan, seq[l], i, Len(w.plan.runs))
      <4> HIDE DEF q, seq
      <4> QED
        BY <1>2, <3>1, <3>4, <3>5, LastRunStays
    <3> QED
      BY <3>2, <3>6
  <2> QED
    BY <2>1, <2>2
<1>11. ASSUME NEW X, Used(ok, plan, X)
       PROVE  Used(ok, w.plan, X \cup w.parents)
  <2>1. Used(ok, r.plan, (X \cup v.parents) \cup {r.run})
    BY <1>4, <1>11 DEF Work
  <2>2. Len(r.plan.runs) \in Nat
    BY <1>5
  <2> QED
    BY <1>3, <2>1, <2>2 DEF Used
<1> QED
  BY <1>3, <1>4, <1>7, <1>8, <1>9, <1>10, <1>11 DEF Work, w

\* Nothing has been done yet.
LEMMA WorkStart ==
    ASSUME NEW p, Ordered(p), NEW ok, NEW held, NEW t \in Selected(p),
           NEW plan \in PlanSet(p), WellPlanned(p, ok, held, plan)
    PROVE  Work(p, ok, held, plan, p.parents[t], 0, NoParent(plan))
<1> DEFINE w == NoParent(plan)
<1>1. w \in WorkSet(p) /\ w.plan = plan /\ w.parents = {} /\ w.kept = {}
  BY DEF NoParent, WorkSet
<1> HIDE DEF w
<1>2. Len(plan.runs) \in Nat
  BY PlanFacts
<1> DEFINE A == UNION {Ancestors(p, q) : q \in ToSet(p.parents[t])}
<1> HIDE DEF A
<1>3. Extends(p, plan, plan, A)
  BY <1>2 DEF Extends
<1>4. \A X : Used(ok, plan, X) => Used(ok, plan, X \cup {})
  BY DEF Used
<1>5. \A l \in 1 .. 0 : Found(p, ok, held, w, p.parents[t][l])
  OBVIOUS
<1> QED
  BY <1>1, <1>3, <1>4, <1>5 DEF Work, w, A

\* All parents of t have been added, and its run is.
LEMMA WorkDone ==
    ASSUME NEW p, Ordered(p), NEW ok, NEW held, NEW t \in Selected(p),
           NEW plan \in PlanSet(p), ~(t \in ok /\ t \in held),
           FollowedRuns(p, plan.runs, t) = {}, NEW w,
           Work(p, ok, held, plan, p.parents[t], Len(p.parents[t]), w)
    PROVE  Added(p, ok, held, t, plan,
                 [run |-> Len(PushRun(p, t, w).runs), plan |-> PushRun(p, t, w)])
<1> DEFINE seq == p.parents[t]
           b == PushRun(p, t, w)
           n == Len(w.plan.runs)
           A == UNION {Ancestors(p, q) : q \in ToSet(seq)}
<1>1. /\ w \in WorkSet(p) /\ w.plan \in PlanSet(p) /\ w.parents \subseteq 1 .. n
      /\ w.kept \subseteq ToSet(seq) /\ n \in Nat /\ w.plan.runs \in Seq(RunSet(p))
      /\ w.plan.refs \in [Selected(p) -> SUBSET Nat]
  BY PlanFacts DEF Work, WorkSet
<1>2. /\ seq \in Seq(Selected(p)) /\ ToSet(seq) = ParentSet(p, t)
      /\ ParentSet(p, t) \subseteq Selected(p)
  BY AncestorFacts DEF Ordered, ParentSet
<1>3. /\ b \in PlanSet(p) /\ Len(b.runs) = n + 1
      /\ b.runs = Append(w.plan.runs, [test |-> t, parents |-> w.parents])
      /\ b.refs = [q \in Selected(p) |->
             IF q \in w.kept THEN w.plan.refs[q] \cup {n + 1} ELSE w.plan.refs[q]]
  BY <1>1, PushRunType
<1> HIDE DEF b
<1>4. /\ \A i \in 1 .. n : b.runs[i] = w.plan.runs[i]
      /\ b.runs[n + 1].test = t /\ b.runs[n + 1].parents = w.parents
  BY <1>1, <1>3
<1>5. /\ \A q \in Selected(p) : \A i \in 1 .. n : i \in b.refs[q] <=> i \in w.plan.refs[q]
      /\ \A q \in Selected(p) : \A i \in b.refs[q] :
             i \in w.plan.refs[q] \/ (i = n + 1 /\ q \in w.kept)
      /\ \A q \in w.kept : n + 1 \in b.refs[q]
  BY <1>1, <1>2, <1>3
<1>6. /\ LinksBack(p, w.plan) /\ NotInVain(p, ok, held, w.plan) /\ HasParents(p, ok, held, w.plan)
      /\ Extends(p, plan, w.plan, A)
  BY DEF Work, WellPlanned
<1>7. Extends(p, w.plan, b, {t})
  BY <1>1, <1>3, <1>4, <1>5 DEF Extends
<1>8. LinksBack(p, b)
  <2>1. ASSUME NEW j \in 1 .. n + 1
        PROVE  b.runs[j].parents \subseteq 1 .. j - 1
    <3> HIDE DEF n
    <3>1. CASE j = n + 1
      <4>1. j - 1 = n
        BY <1>1, <3>1
      <4> QED
        BY <1>1, <1>4, <3>1, <4>1
    <3>2. CASE j # n + 1
      <4>1. j \in 1 .. n
        BY <1>1, <3>2
      <4>2. b.runs[j] = w.plan.runs[j] /\ w.plan.runs[j].parents \subseteq 1 .. j - 1
        BY <1>4, <1>6, <4>1 DEF LinksBack, n
      <4> QED
        BY <4>2
    <3> QED
      BY <3>1, <3>2
  <2>2. \A q \in Selected(p) : \A j \in b.refs[q] :
            j \in 1 .. n + 1 /\ q \in ParentSet(p, b.runs[j].test)
    BY <1>1, <1>2, <1>4, <1>5, <1>6 DEF LinksBack
  <2>3. ASSUME NEW q, NEW i, NEW j \in 0 .. n, LastRun(p, w.plan, q, i, j)
        PROVE  LastRun(p, b, q, i, j)
    <3>1. i \in 1 .. j /\ i \in 1 .. n /\ \A k \in i + 1 .. j : k \in 1 .. n
      BY <1>1, <2>3 DEF LastRun
    <3> QED
      BY <1>4, <2>3, <3>1 DEF LastRun
  <2>4. ASSUME NEW j \in 1 .. n + 1, NEW i \in b.runs[j].parents
        PROVE  \E q \in ParentSet(p, b.runs[j].test) : LastRun(p, b, q, i, j - 1)
    <3>1. CASE j = n + 1
      <4>1. i \in w.parents /\ b.runs[j].test = t /\ j - 1 = n /\ n \in 0 .. n
        BY <1>1, <1>4, <2>4, <3>1
      <4>2. PICK l \in 1 .. Len(seq) : LastRun(p, w.plan, seq[l], i, n)
        BY <4>1 DEF Work
      <4>3. seq[l] \in ParentSet(p, t)
        BY <1>2, ElementsOfSeq
      <4>4. LastRun(p, b, seq[l], i, n)
        BY <2>3, <4>1, <4>2
      <4> QED
        BY <4>1, <4>3, <4>4
    <3>2. CASE j # n + 1
      <4>1. j \in 1 .. n /\ j - 1 \in 0 .. n
        BY <1>1, <3>2
      <4>2. b.runs[j] = w.plan.runs[j]
        BY <1>4, <4>1
      <4>3. PICK q \in ParentSet(p, b.runs[j].test) : LastRun(p, w.plan, q, i, j - 1)
        BY <1>6, <2>4, <4>1, <4>2 DEF LinksBack, n
      <4> QED
        BY <2>3, <4>1, <4>3
    <3> QED
      BY <3>1, <3>2
  <2>5. \A j \in 1 .. n + 1 : \A i \in b.runs[j].parents :
            \E q \in ParentSet(p, b.runs[j].test) : LastRun(p, b, q, i, j - 1)
    BY <2>4
  <2> QED
    BY <1>3, <2>1, <2>2, <2>5 DEF LinksBack
<1>9. ASSUME NEW u \in Selected(p), NEW i \in 1 .. n + 1, NEW j \in 0 .. n
      PROVE  Clear(p, b, u, i, j) <=> Clear(p, w.plan, u, i, j)
  <2>1. \A k \in i .. j : k \in 1 .. n
    BY <1>1
  <2>2. \A k \in i .. j : b.runs[k] = w.plan.runs[k]
    BY <1>4, <2>1
  <2> QED
    BY <2>2 DEF Clear
<1>10. ASSUME NEW i \in 1 .. n, w.plan.runs[i].test = t
       PROVE  p.policy[t] = "never" /\ ~Clear(p, b, t, i + 1, n)
  <2>1. Len(plan.runs) \in Nat /\ DOMAIN plan.runs = 1 .. Len(plan.runs) /\ Len(plan.runs) <= n
    BY <1>6, PlanFacts DEF Extends
  <2>2. i \in 1 .. Len(plan.runs)
    <3> SUFFICES ASSUME i \in Len(plan.runs) + 1 .. n
                 PROVE  FALSE
      BY <2>1
    <3>1. PICK q \in ParentSet(p, t) : t \in Ancestors(p, q)
      BY <1>2, <1>6, <1>10 DEF Extends
    <3> QED
      BY <3>1, NoOwnAncestor
  <2>3. plan.runs[i].test = t
    BY <1>6, <1>10, <2>2 DEF Extends
  <2>4. /\ p.policy[t] = "never"
        /\ \E j \in i + 1 .. Len(plan.runs) : Share(p, plan.runs[j].test, t)
    BY <2>1, <2>2, <2>3 DEF FollowedRuns, Share
  <2>5. PICK j \in i + 1 .. Len(plan.runs) : Share(p, plan.runs[j].test, t)
    BY <2>4
  <2>6. j \in i + 1 .. n /\ j \in 1 .. Len(plan.runs) /\ b.runs[j] = plan.runs[j]
    BY <1>4, <1>6, <2>1, <2>2 DEF Extends
  <2> QED
    BY <2>4, <2>5, <2>6 DEF Clear
<1>11. NotInVain(p, ok, held, b)
  <2>1. ASSUME NEW j \in 1 .. n + 1
        PROVE  ~(b.runs[j].test \in ok /\ b.runs[j].test \in held)
    <3>1. CASE j = n + 1
      BY <1>4, <3>1
    <3>2. CASE j # n + 1
      <4>1. j \in 1 .. n
        BY <1>1, <3>2
      <4> QED
        BY <1>4, <1>6, <4>1 DEF NotInVain
    <3> QED
      BY <3>1, <3>2
  <2>2. ASSUME NEW j \in 1 .. n + 1, NEW i \in 1 .. j - 1, b.runs[i].test = b.runs[j].test
        PROVE  /\ p.policy[b.runs[j].test] = "never"
               /\ ~Clear(p, b, b.runs[j].test, i + 1, j - 1)
    <3>1. CASE j = n + 1
      <4>1. j - 1 = n /\ i \in 1 .. n
        BY <1>1, <3>1
      <4>2. w.plan.runs[i].test = t /\ b.runs[j].test = t
        BY <1>4, <2>2, <3>1, <4>1
      <4> QED
        BY <1>10, <4>1, <4>2
    <3>2. CASE j # n + 1
      <4>1. j \in 1 .. n /\ i \in 1 .. n /\ i + 1 \in 1 .. n + 1 /\ j - 1 \in 0 .. n
        BY <1>1, <3>2
      <4>2. w.plan.runs[j] \in RunSet(p)
        BY <1>1, <4>1
      <4>3. w.plan.runs[j].test \in Selected(p)
        BY <4>2 DEF RunSet
      <4>4. /\ p.policy[w.plan.runs[j].test] = "never"
            /\ ~Clear(p, w.plan, w.plan.runs[j].test, i + 1, j - 1)
        BY <1>4, <1>6, <2>2, <4>1 DEF NotInVain
      <4> QED
        BY <1>4, <1>9, <4>1, <4>3, <4>4
    <3> QED
      BY <3>1, <3>2
  <2> QED
    BY <1>3, <2>1, <2>2 DEF NotInVain
<1>12. HasParents(p, ok, held, b)
  <2> SUFFICES ASSUME NEW j \in 1 .. n + 1, NEW q \in ParentSet(p, b.runs[j].test)
               PROVE  HasParent(p, ok, held, b, q, j)
    BY <1>3 DEF HasParents
  <2>1. CASE j = n + 1
    <3>1. q \in ParentSet(p, t) /\ q \in Selected(p)
      BY <1>2, <1>4, <2>1
    <3>2. PICK l \in 1 .. Len(seq) : q = seq[l]
      BY <1>2, <3>1, ElementsOfSeq DEF ToSet
    <3>3. Found(p, ok, held, w, q)
      BY <3>2 DEF Work
    <3>7. \A k \in 1 .. n : b.runs[k] = w.plan.runs[k]
      BY <1>1, <1>4
    <3>8. \A i \in 1 .. n : \A k \in i + 1 .. n : k \in 1 .. n
      BY <1>1
    <3>4. \A i \in 1 .. n : LastRun(p, w.plan, q, i, n) => LastRun(p, b, q, i, n)
      BY <3>7, <3>8 DEF LastRun
    <3>5. \A i \in 1 .. n : Clear(p, w.plan, q, i + 1, n) => Clear(p, b, q, i + 1, n)
      BY <3>7, <3>8 DEF Clear
    <3>6. j - 1 = n
      BY <1>1, <2>1
    <3> QED
      BY <1>1, <1>4, <1>5, <2>1, <3>3, <3>4, <3>5, <3>6 DEF Found, HasParent
  <2>2. CASE j # n + 1
    <3>1. j \in 1 .. n /\ b.runs[j] = w.plan.runs[j]
      BY <1>1, <1>4, <2>2
    <3>2. w.plan.runs[j] \in RunSet(p)
      BY <1>1, <3>1
    <3>3. w.plan.runs[j].test \in Selected(p)
      BY <3>2 DEF RunSet
    <3>4. q \in Selected(p)
      BY <3>1, <3>3, AncestorFacts
    <3>5. HasParent(p, ok, held, w.plan, q, j)
      BY <1>6, <3>1 DEF HasParents
    <3>9. \A k \in 1 .. j - 1 : b.runs[k] = w.plan.runs[k]
      BY <1>1, <1>4, <3>1
    <3>10. \A i \in 1 .. j - 1 : \A k \in i + 1 .. j - 1 : k \in 1 .. j - 1
      OBVIOUS
    <3>6. \A i \in 1 .. j - 1 : LastRun(p, w.plan, q, i, j - 1) => LastRun(p, b, q, i, j - 1)
      BY <3>9, <3>10 DEF LastRun
    <3>7. \A i \in 1 .. j - 1 : Clear(p, w.plan, q, i + 1, j - 1) => Clear(p, b, q, i + 1, j - 1)
      BY <3>9, <3>10 DEF Clear
    <3>8. w.plan.runs[j].parents \subseteq 1 .. j - 1
      BY <1>6, <3>1 DEF LinksBack
    <3> QED
      BY <1>5, <3>1, <3>4, <3>5, <3>6, <3>7, <3>8 DEF HasParent
  <2> QED
    BY <2>1, <2>2
<1>13. Extends(p, plan, b, Ancestors(p, t))
  <2>1. \A q \in ParentSet(p, t) : Ancestors(p, q) \subseteq Ancestors(p, t)
    BY AncestorFacts, AncestorsStep
  <2>2. A \subseteq Ancestors(p, t) /\ {t} \subseteq Ancestors(p, t)
    BY <1>2, <2>1, AncestorFacts
  <2> HIDE DEF A
  <2> QED
    BY <1>1, <1>3, <1>6, <1>7, <2>2, ExtendsTransitive
<1>14. RunFor(p, ok, held, b, t, n + 1)
  BY <1>1, <1>3, <1>4 DEF RunFor, LastRun, Clear
<1>15. ASSUME NEW X, Used(ok, plan, X)
       PROVE  Used(ok, b, X \cup {n + 1})
  <2>1. Used(ok, w.plan, X \cup w.parents)
    BY <1>15 DEF Work
  <2> SUFFICES ASSUME NEW i \in 1 .. n + 1, b.runs[i].test \in ok, i \notin X \cup {n + 1}
               PROVE  \E j \in 1 .. n + 1 : i \in b.runs[j].parents
    BY <1>3 DEF Used
  <2>2. i \in 1 .. n /\ w.plan.runs[i].test \in ok
    BY <1>1, <1>4
  <2>3. i \in w.parents \/ \E j \in 1 .. n : i \in w.plan.runs[j].parents
    BY <2>1, <2>2 DEF Used
  <2>4. n + 1 \in 1 .. n + 1 /\ \A j \in 1 .. n : j \in 1 .. n + 1
    BY <1>1
  <2> QED
    BY <1>4, <2>3, <2>4
<1> QED
  BY <1>1, <1>3, <1>8, <1>11, <1>12, <1>13, <1>14, <1>15 DEF Added, WellPlanned, b

\* A run of t is there already, or its snapshots are.
LEMMA NothingAdded ==
    ASSUME NEW p, Ordered(p), NEW ok, NEW held, NEW t \in Selected(p),
           NEW plan \in PlanSet(p), WellPlanned(p, ok, held, plan), NEW i \in Nat,
           RunFor(p, ok, held, plan, t, i)
    PROVE  Added(p, ok, held, t, plan, [run |-> i, plan |-> plan])
<1>1. Len(plan.runs) \in Nat
  BY PlanFacts
<1>2. Extends(p, plan, plan, Ancestors(p, t))
  BY <1>1 DEF Extends
<1>3. \A X : Used(ok, plan, X) => Used(ok, plan, X \cup {i})
  BY DEF Used
<1> QED
  BY <1>2, <1>3 DEF Added

\* If g adds the parents of a test well, so does the body of the recursion the test.
LEMMA BodyAdds ==
    ASSUME NEW p, Ordered(p), Apart(p), NEW ok, NEW held, NEW t \in Selected(p),
           NEW plan \in PlanSet(p), WellPlanned(p, ok, held, plan), NEW g,
           Typed(ParentSet(p, t), p, g),
           \A q \in ParentSet(p, t) : \A a \in PlanSet(p) : WellPlanned(p, ok, held, a) =>
               Added(p, ok, held, q, a, g[[test |-> q, plan |-> a]])
    PROVE  Added(p, ok, held, t, plan, AddBody(p, ok, held, g, [test |-> t, plan |-> plan]))
<1> DEFINE x == [test |-> t, plan |-> plan]
           followed == FollowedRuns(p, plan.runs, t)
           n == Len(plan.runs)
           seq == p.parents[t]
<1>0. n \in Nat /\ DOMAIN plan.runs = 1 .. n
  BY PlanFacts
<1>1. CASE t \in ok /\ t \in held
  <2>1. AddBody(p, ok, held, g, x) = [run |-> 0, plan |-> plan]
    BY <1>1 DEF AddBody
  <2>2. RunFor(p, ok, held, plan, t, 0)
    BY <1>1 DEF RunFor
  <2> QED
    BY <2>1, <2>2, NothingAdded
<1>2. CASE ~(t \in ok /\ t \in held) /\ followed # {}
  <2> DEFINE m == Max(followed)
  <2>1. AddBody(p, ok, held, g, x) = [run |-> m, plan |-> plan]
    BY <1>2 DEF AddBody
  <2>2. m \in followed /\ m \in 1 .. n /\ \A i \in followed : i <= m
    BY <1>2, FollowedRunsFacts
  <2> HIDE DEF m
  <2>3. plan.runs[m].test = t /\ (p.policy[t] = "never" => Clear(p, plan, t, m + 1, n))
    BY <2>2 DEF FollowedRuns, Clear, Share
  <2>4. ASSUME NEW k \in m + 1 .. n, plan.runs[k].test = t
        PROVE  FALSE
    <3>1. k \in 1 .. n /\ ~(k <= m)
      BY <1>0, <2>2
    <3>2. /\ p.policy[t] = "never"
          /\ \E j \in k + 1 .. n : Share(p, plan.runs[j].test, t)
      BY <1>0, <2>2, <2>4, <3>1 DEF FollowedRuns, Share
    <3>3. PICK j \in k + 1 .. n : Share(p, plan.runs[j].test, t)
      BY <3>2
    <3>4. j \in m + 1 .. n
      BY <1>0, <2>2, <3>1
    <3> QED
      BY <2>3, <3>2, <3>3, <3>4 DEF Clear
  <2>5. RunFor(p, ok, held, plan, t, m)
    BY <2>2, <2>3, <2>4 DEF RunFor, LastRun
  <2>6. m \in Nat
    BY <1>0, <2>2
  <2> QED
    BY <2>1, <2>5, <2>6, NothingAdded
<1>3. CASE ~(t \in ok /\ t \in held) /\ followed = {}
  <2> DEFINE base == NoParent(plan)
             w == ParentsAdded(g, base, seq)
             Done(i, v) == Work(p, ok, held, plan, seq, i, v)
  <2>1. /\ seq \in Seq(Selected(p)) /\ seq \in Seq(ParentSet(p, t)) /\ Len(seq) \in Nat
        /\ ParentSet(p, t) \subseteq Selected(p)
        /\ \A i \in 1 .. Len(seq) : seq[i] \in ParentSet(p, t)
    <3>1. seq \in Seq(Selected(p))
      BY DEF Ordered
    <3> HIDE DEF seq
    <3>2. ToSet(seq) = ParentSet(p, t)
      BY DEF seq, ParentSet
    <3> QED
      BY <3>1, <3>2, ElementsOfSeq
  <2>2. Done(0, base)
    BY WorkStart
  <2>3. base \in WorkSet(p)
    BY <2>2 DEF Work
  <2> HIDE DEF base
  <2>4. PICK r \in [0 .. Len(seq) -> WorkSet(p)] :
            Trace(ParentStep(ParentSet(p, t), p, g), base, seq, r) /\ w = r[Len(seq)]
    BY <2>1, <2>3, ParentsFold DEF Folded
  <2> DEFINE P == {i \in 0 .. Len(seq) : Done(i, r[i])}
  <2>5. 0 \in P
    BY <2>1, <2>2, <2>4 DEF Trace
  <2>6. ASSUME NEW i \in 0 .. Len(seq) - 1, i \in P
        PROVE  i + 1 \in P
    <3>1. i + 1 \in 1 .. Len(seq) /\ i + 1 - 1 = i /\ i + 1 \in 0 .. Len(seq)
      BY <2>1
    <3>2. seq[i + 1] \in ParentSet(p, t) /\ Done(i, r[i])
      BY <2>1, <2>6, <3>1
    <3>3. r[i].plan \in PlanSet(p) /\ WellPlanned(p, ok, held, r[i].plan)
      BY <3>2 DEF Work, WorkSet
    <3>4. Added(p, ok, held, seq[i + 1], r[i].plan, g[[test |-> seq[i + 1], plan |-> r[i].plan]])
      BY <3>2, <3>3
    <3>5. Done(i + 1, AddParent(g, r[i], seq[i + 1]))
      BY <3>2, <3>4, WorkStep
    <3>6. r[i + 1] = AddParent(g, r[i], seq[i + 1])
      <4>1. r[i + 1] = ParentStep(ParentSet(p, t), p, g)[<<r[i], seq[i + 1]>>]
        BY <2>4, <3>1 DEF Trace
      <4>2. r[i] \in WorkSet(p)
        BY <2>1
      <4> QED
        BY <3>2, <4>1, <4>2 DEF ParentStep
    <3> QED
      BY <3>1, <3>5, <3>6
  <2>7. Done(Len(seq), w)
    <3> HIDE DEF P
    <3>1. 0 .. Len(seq) \subseteq P
      BY <2>1, <2>5, <2>6, UpTo
    <3> QED
      BY <2>1, <2>4, <3>1 DEF P
  <2> HIDE DEF w
  <2>8. Added(p, ok, held, t, plan, [run |-> Len(PushRun(p, t, w).runs), plan |-> PushRun(p, t, w)])
    BY <1>3, <2>7, WorkDone
  <2>9. AddBody(p, ok, held, g, x) = [run |-> Len(PushRun(p, t, w).runs), plan |-> PushRun(p, t, w)]
    BY <1>3 DEF AddBody, w, base
  <2> QED
    BY <2>8, <2>9
<1> QED
  BY <1>1, <1>2, <1>3

\* add_test_to_plan leaves a good plan good, and returns a run to follow.
THEOREM AllAdded ==
    ASSUME NEW p, Ordered(p), Apart(p), NEW ok, NEW held
    PROVE  \A t \in Selected(p), plan \in PlanSet(p) : WellPlanned(p, ok, held, plan) =>
               Added(p, ok, held, t, plan, add_test_to_plan(p, ok, held)[[test |-> t, plan |-> plan]])
<1> DEFINE add == add_test_to_plan(p, ok, held)
           Good(t) == \A plan \in PlanSet(p) : WellPlanned(p, ok, held, plan) =>
                          Added(p, ok, held, t, plan, add[[test |-> t, plan |-> plan]])
           B == {t \in Selected(p) : ~Good(t)}
<1>1. SUFFICES ASSUME B # {} PROVE FALSE
  BY Zenon
<1>2. PICK t \in B : ParentSet(p, t) \cap B = {}
  BY <1>1 DEF Ordered, Hierarchy
<1>3. Solves(Selected(p), p, ok, held, add) /\ Typed(Selected(p), p, add)
  BY AddSolves
<1> HIDE DEF add
<1>4. ParentSet(p, t) \subseteq Selected(p) /\ t \in Selected(p)
  BY AncestorFacts
<1>5. \A q \in ParentSet(p, t) : Good(q)
  BY <1>2, <1>4, Zenon
<1>6. Typed(ParentSet(p, t), p, add)
  BY <1>3, <1>4 DEF Typed, Args
<1>7. ASSUME NEW plan \in PlanSet(p), WellPlanned(p, ok, held, plan)
      PROVE  Added(p, ok, held, t, plan, add[[test |-> t, plan |-> plan]])
  <2>1. [test |-> t, plan |-> plan] \in Args(Selected(p), p)
    BY <1>4 DEF Args
  <2>2. add[[test |-> t, plan |-> plan]] = AddBody(p, ok, held, add, [test |-> t, plan |-> plan])
    BY <1>3, <2>1 DEF Solves
  <2>3. Added(p, ok, held, t, plan, AddBody(p, ok, held, add, [test |-> t, plan |-> plan]))
    BY <1>4, <1>5, <1>6, <1>7, BodyAdds
  <2> QED
    BY <2>2, <2>3
<1> QED
  BY <1>2, <1>7

----------------------------------------------------------------------------
(* The plan for a sequence of leaves                                       *)

\* build_test_plan adds the leaves to the plan, one by one.
LeafAdded(p, ok, held, plan, t) == add_test_to_plan(p, ok, held)[[test |-> t, plan |-> plan]].plan

LeavesAdded(p, ok, held, base, leaves) ==
    FoldLeft(LAMBDA plan, t : LeafAdded(p, ok, held, plan, t), base, leaves)

\* The plans that the leaves are added to.
GoodPlans(p, ok, held) ==
    {plan \in PlanSet(p) : WellPlanned(p, ok, held, plan) /\ Used(ok, plan, {})}

LeafStep(p, ok, held) ==
    [x \in GoodPlans(p, ok, held) \X (Selected(p) \ ok) |-> LeafAdded(p, ok, held, x[1], x[2])]

\* The plan has a run of t.
HasRun(plan, t) == \E i \in 1 .. Len(plan.runs) : plan.runs[i].test = t

\* A leaf, which is not up to date, has a run afterwards, and no run is lost.
LEMMA AddLeaf ==
    ASSUME NEW p, Ordered(p), Apart(p), NEW ok, NEW held,
           NEW plan \in GoodPlans(p, ok, held), NEW t \in Selected(p) \ ok
    PROVE  /\ LeafAdded(p, ok, held, plan, t) \in GoodPlans(p, ok, held)
           /\ HasRun(LeafAdded(p, ok, held, plan, t), t)
           /\ \A u : HasRun(plan, u) => HasRun(LeafAdded(p, ok, held, plan, t), u)
<1> DEFINE r == add_test_to_plan(p, ok, held)[[test |-> t, plan |-> plan]]
           b == LeafAdded(p, ok, held, plan, t)
<1>0. b = r.plan
  BY DEF LeafAdded
<1>1. plan \in PlanSet(p) /\ WellPlanned(p, ok, held, plan) /\ Used(ok, plan, {})
  BY DEF GoodPlans
<1>2. Added(p, ok, held, t, plan, r)
  BY <1>1, AllAdded
<1> HIDE DEF r, b
<1>3. /\ b \in PlanSet(p) /\ WellPlanned(p, ok, held, b) /\ Extends(p, plan, b, Ancestors(p, t))
      /\ RunFor(p, ok, held, b, t, r.run) /\ Used(ok, b, {} \cup {r.run})
  BY <1>0, <1>1, <1>2 DEF Added
<1>4. r.run \in 1 .. Len(b.runs) /\ b.runs[r.run].test = t
  BY <1>3 DEF RunFor, LastRun
<1>5. Used(ok, b, {})
  BY <1>3, <1>4 DEF Used
<1>6. HasRun(b, t)
  BY <1>4 DEF HasRun
<1>7. \A u : HasRun(plan, u) => HasRun(b, u)
  <2>1. Len(plan.runs) \in Nat /\ Len(b.runs) \in Nat
    BY <1>1, <1>3, PlanFacts
  <2>2. \A i \in 1 .. Len(plan.runs) : i \in 1 .. Len(b.runs) /\ b.runs[i] = plan.runs[i]
    BY <1>3, <2>1 DEF Extends
  <2> QED
    BY <2>2 DEF HasRun
<1> QED
  BY <1>3, <1>5, <1>6, <1>7 DEF GoodPlans, b

\* The leaves are added to the plan one after the other.
LEMMA LeavesFold ==
    ASSUME NEW p, Ordered(p), Apart(p), NEW ok, NEW held,
           NEW base \in GoodPlans(p, ok, held), NEW seq \in Seq(Selected(p) \ ok)
    PROVE  Folded(LeafStep(p, ok, held), base, seq, GoodPlans(p, ok, held),
                  LeavesAdded(p, ok, held, base, seq))
<1> DEFINE F == LeafStep(p, ok, held)
           W == GoodPlans(p, ok, held)
           T == Selected(p) \ ok
           Is(h) == h = [s \in SUBSET DOMAIN seq |->
                           IF s = {} THEN base
                           ELSE LeafAdded(p, ok, held, h[s \ {Max(s)}], seq[Max(s)])]
           k == CHOOSE h : Is(h)
<1>1. /\ F \in [W \X T -> W]
      /\ \A w \in W, q \in T : F[<<w, q>>] = LeafAdded(p, ok, held, w, q)
  BY AddLeaf DEF LeafStep
<1> HIDE DEF F, T
<1>2. PICK h \in [SUBSET DOMAIN seq -> W] : Folds(F, base, seq, W, T, h)
  <2> HIDE DEF W
  <2>1. base \in W /\ seq \in Seq(T)
    BY DEF W, T
  <2> QED
    BY <1>1, <2>1, FoldExists
<1>3. Is(h)
  <2>1. \A s \in SUBSET DOMAIN seq :
            h[s] = IF s = {} THEN base ELSE LeafAdded(p, ok, held, h[s \ {Max(s)}], seq[Max(s)])
    BY <1>1, <1>2 DEF Folds
  <2> QED
    BY <1>2, <2>1
<1>4. Is(k)
  <2> HIDE DEF Is
  <2> QED
    BY <1>3
<1>5. LeavesAdded(p, ok, held, base, seq) = k[DOMAIN seq]
  BY DEF LeavesAdded, FoldLeft, MapThenFoldSet
<1> HIDE DEF k
<1>6. k[{}] = base
  BY <1>4
<1>7. ASSUME NEW s \in SUBSET DOMAIN seq, s # {}, k[s \ {Max(s)}] \in W
      PROVE  k[s] = F[<<k[s \ {Max(s)}], seq[Max(s)]>>]
  <2>1. k[s] = LeafAdded(p, ok, held, k[s \ {Max(s)}], seq[Max(s)])
    BY <1>4, <1>7
  <2>2. seq[Max(s)] \in T
    BY <1>2, <1>7 DEF Folds
  <2> QED
    BY <1>1, <1>7, <2>1, <2>2
<1>8. Follows(F, base, seq, W, k)
  BY <1>6, <1>7 DEF Follows
<1> HIDE DEF W
<1>9. base \in W /\ seq \in Seq(T)
  BY DEF W, T
<1>10. Folded(F, base, seq, W, k[DOMAIN seq])
  BY <1>1, <1>8, <1>9, FoldSteps
<1> QED
  BY <1>5, <1>10 DEF F, W

\* All leaves have a run.
THEOREM LeavesHaveRuns ==
    ASSUME NEW p, Ordered(p), Apart(p), NEW ok, NEW held,
           NEW base \in GoodPlans(p, ok, held), NEW seq \in Seq(Selected(p) \ ok)
    PROVE  /\ LeavesAdded(p, ok, held, base, seq) \in GoodPlans(p, ok, held)
           /\ \A t \in ToSet(seq) : HasRun(LeavesAdded(p, ok, held, base, seq), t)
<1> DEFINE n == Len(seq)
           W == GoodPlans(p, ok, held)
           F == LeafStep(p, ok, held)
<1>0. n \in Nat /\ \A i \in 1 .. n : seq[i] \in Selected(p) \ ok
  OBVIOUS
<1>1. PICK r \in [0 .. n -> W] : Trace(F, base, seq, r) /\ LeavesAdded(p, ok, held, base, seq) = r[n]
  BY LeavesFold DEF Folded
<1> DEFINE P == {i \in 0 .. n : \A l \in 1 .. i : HasRun(r[i], seq[l])}
<1>2. 0 \in P
  BY <1>0
<1>3. ASSUME NEW i \in 0 .. n - 1, i \in P
      PROVE  i + 1 \in P
  <2>1. i + 1 \in 1 .. n /\ i + 1 - 1 = i /\ i + 1 \in 0 .. n /\ i \in 0 .. n
    BY <1>0
  <2>2. r[i] \in W /\ seq[i + 1] \in Selected(p) \ ok
    BY <1>0, <1>1, <2>1
  <2>3. r[i + 1] = LeafAdded(p, ok, held, r[i], seq[i + 1])
    <3>1. r[i + 1] = F[<<r[i], seq[i + 1]>>]
      BY <1>1, <2>1 DEF Trace
    <3>2. F[<<r[i], seq[i + 1]>>] = LeafAdded(p, ok, held, r[i], seq[i + 1])
      BY <2>2 DEF LeafStep
    <3> QED
      BY <3>1, <3>2
  <2>4. HasRun(r[i + 1], seq[i + 1]) /\ \A u : HasRun(r[i], u) => HasRun(r[i + 1], u)
    BY <2>2, <2>3, AddLeaf
  <2>5. \A l \in 1 .. i + 1 : l = i + 1 \/ l \in 1 .. i
    BY <2>1
  <2>6. \A l \in 1 .. i : HasRun(r[i], seq[l])
    BY <1>3
  <2> QED
    BY <2>1, <2>4, <2>5, <2>6
<1>4. n \in P
  <2> HIDE DEF P
  <2>1. 0 .. n \subseteq P
    BY <1>0, <1>2, <1>3, UpTo
  <2> QED
    BY <1>0, <2>1
<1>5. \A t \in ToSet(seq) : \E l \in 1 .. n : t = seq[l]
  BY ElementsOfSeq DEF ToSet
<1> QED
  BY <1>0, <1>1, <1>4, <1>5

=============================================================================
