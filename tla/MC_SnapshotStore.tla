-------------------------- MODULE MC_SnapshotStore -------------------------
(***************************************************************************)
(* Instances of SnapshotStore for TLC: two or three tests run on one       *)
(* controller.                                                             *)
(***************************************************************************)
EXTENDS SnapshotStore

CONSTANTS a, b, c

\* a is the base test, the others its child and grandchild, or the tests trade
\* places from launch to launch.
FixedPair == [t \in {a, b} |-> IF t = a THEN {Initial} ELSE {a}]
FixedChain == [t \in {a, b, c} |-> CASE t = a -> {Initial} [] t = b -> {a} [] t = c -> {b}]
AnyPair == [t \in {a, b} |-> {Initial, a, b} \ {t}]

Anywhere == Points
\* Every point but the two where a record is in the directory and not in its
\* parent's children array.
OutsideWindows == Points \ {"link", "remove"}
Nowhere == {}
=============================================================================
