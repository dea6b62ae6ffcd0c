-------------------------- MODULE SnapshotForest ---------------------------
(***************************************************************************)
(* What the snapshots of one controller promise to the cache, free of      *)
(* files and hypervisor: they form a forest, a snapshot is taken on top of *)
(* one that exists, and deleting a test takes away the snapshots of its    *)
(* descendants, leaves first, and no others (docs/reference/Tests.md: all  *)
(* the children lose their cache automatically).                           *)
(***************************************************************************)
CONSTANTS Names, None

VARIABLES
    forest, \* the snapshots that exist, each with the one it was taken on
    root    \* the root of the subtree being deleted, or None

Present == DOMAIN forest

Leaf(s) == \A n \in Present : forest[n] # s

\* s and its descendants: every set closed under "taken on top of" holds them.
Subtree(s) ==
    {n \in Present : \A S \in SUBSET Present :
        (s \in S /\ \A m \in Present : forest[m] \in S => m \in S) => n \in S}

Init == forest = << >> /\ root = None

\* A snapshot appears on top of one that exists, or of the bare controller.
Grow(s, p) ==
    /\ root = None /\ s \notin Present /\ p \in Present \cup {None}
    /\ forest' = [n \in Present \cup {s} |-> IF n = s THEN p ELSE forest[n]]
    /\ UNCHANGED root

StartDeleting(s) ==
    /\ root = None /\ s \in Present
    /\ root' = s
    /\ UNCHANGED forest

\* Only leaves of the subtree under deletion disappear.
Prune(s) ==
    /\ root # None /\ s \in Subtree(root) /\ Leaf(s)
    /\ forest' = [n \in Present \ {s} |-> forest[n]]
    /\ root' = IF s = root THEN None ELSE root

\* The process dies: what is left of the subtree stays.
Abandon ==
    /\ root # None
    /\ root' = None
    /\ UNCHANGED forest

\* The controller is undefined.
Raze == forest' = << >> /\ root' = None

Next ==
    \/ \E s \in Names, p \in Names \cup {None} : Grow(s, p)
    \/ \E s \in Names : StartDeleting(s) \/ Prune(s)
    \/ Abandon
    \/ Raze

Spec == Init /\ [][Next]_<<forest, root>>

\* A snapshot exists only together with all its ancestors: what a test was run
\* on top of is never taken away from under it.
ParentsPresent == \A s \in Present : forest[s] \in Present \cup {None}

=============================================================================
