------------------------ MODULE SnapshotForest_proofs ----------------------
(***************************************************************************)
(* What the forest of snapshots promises to whatever implements it: the    *)
(* ancestors of a snapshot are there, and going from parent to parent      *)
(* comes to a root.                                                        *)
(***************************************************************************)
EXTENDS SnapshotForest, TLAPS

\* Going to the parent leaves every set of snapshots.
Rooted == \A S \in SUBSET Present : S # {} => \E s \in S : forest[s] \notin S

ForestOK ==
    /\ Present \subseteq Names
    /\ forest = [s \in Present |-> forest[s]]
    /\ root \in Present \cup {None}
    /\ ParentsPresent
    /\ Rooted

\* The forest stays one: a new snapshot is nobody's parent yet, and only leaves
\* are taken away.
THEOREM ForestStays == None \notin Names /\ Spec => [](ParentsPresent /\ Rooted)
<1>1. Init => ForestOK
  BY DEF Init, ForestOK, ParentsPresent, Rooted, Present
<1>2. ASSUME None \notin Names, ForestOK, [Next]_<<forest, root>>
      PROVE  ForestOK'
  <2>0. /\ \A s \in Present : forest[s] \in Present \cup {None}
        /\ None \notin Present
    BY <1>2 DEF ForestOK, ParentsPresent
  <2>1. ASSUME NEW s \in Names, NEW p \in Names \cup {None}, Grow(s, p)
        PROVE  ForestOK'
    <3>1. /\ Present' = Present \cup {s} /\ s \notin Present /\ p \in Present \cup {None}
          /\ \A n \in Present' : forest'[n] = IF n = s THEN p ELSE forest[n]
          /\ root' = root /\ s # None
          /\ forest' = [n \in Present' |-> forest'[n]]
      BY <1>2, <2>1 DEF Grow, Present
    <3>2. ParentsPresent'
      BY <2>0, <3>1 DEF ParentsPresent
    <3>3. Rooted'
      <4>1. SUFFICES ASSUME NEW S \in SUBSET Present', S # {}
                     PROVE  \E n \in S : forest'[n] \notin S
        BY DEF Rooted
      <4>2. CASE S = {s}
        BY <3>1, <4>2
      <4>3. CASE S # {s}
        <5>1. S \ {s} \in SUBSET Present /\ S \ {s} # {}
          BY <3>1, <4>1, <4>3
        <5>2. PICK n \in S \ {s} : forest[n] \notin S \ {s}
          BY <1>2, <5>1 DEF ForestOK, Rooted
        <5>3. n \in Present /\ forest[n] # s
          BY <2>0, <3>1, <5>1, <5>2
        <5> QED
          BY <3>1, <5>2, <5>3
      <4> QED
        BY <4>2, <4>3
    <3> QED
      BY <1>2, <3>1, <3>2, <3>3 DEF ForestOK
  <2>2. ASSUME NEW s \in Names, StartDeleting(s)
        PROVE  ForestOK'
    BY <1>2, <2>2 DEF StartDeleting, ForestOK, ParentsPresent, Rooted, Present
  <2>3. ASSUME NEW s \in Names, Prune(s)
        PROVE  ForestOK'
    <3>1. /\ Present' = Present \ {s}
          /\ \A n \in Present' : forest'[n] = forest[n]
          /\ root' = IF s = root THEN None ELSE root
          /\ \A n \in Present : forest[n] # s
          /\ forest' = [n \in Present' |-> forest'[n]]
      BY <2>3 DEF Prune, Leaf, Present
    <3>2. ParentsPresent'
      BY <2>0, <3>1 DEF ParentsPresent
    <3>3. Rooted'
      <4>1. SUFFICES ASSUME NEW S \in SUBSET Present', S # {}
                     PROVE  \E n \in S : forest'[n] \notin S
        BY DEF Rooted
      <4>2. PICK n \in S : forest[n] \notin S
        BY <1>2, <3>1, <4>1 DEF ForestOK, Rooted
      <4> QED
        BY <3>1, <4>1, <4>2
    <3> QED
      BY <1>2, <3>1, <3>2, <3>3 DEF ForestOK
  <2>4. CASE Abandon
    BY <1>2, <2>4 DEF Abandon, ForestOK, ParentsPresent, Rooted, Present
  <2>5. CASE Raze
    BY <2>5 DEF Raze, ForestOK, ParentsPresent, Rooted, Present
  <2>6. CASE UNCHANGED <<forest, root>>
    BY <1>2, <2>6 DEF ForestOK, ParentsPresent, Rooted, Present
  <2> QED
    BY <1>2, <2>1, <2>2, <2>3, <2>4, <2>5, <2>6 DEF Next
<1>3. ForestOK => ParentsPresent /\ Rooted
  BY DEF ForestOK
<1>4. None \notin Names => (None \notin Names)'
  OBVIOUS
<1>5. None \notin Names /\ ForestOK /\ [Next]_<<forest, root>> => ForestOK'
  BY <1>2
<1> QED
  BY <1>1, <1>3, <1>4, <1>5, PTL DEF Spec

=============================================================================
