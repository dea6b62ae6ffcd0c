CONSTANT Programs <- TwoParents
SPECIFICATION Spec
INVARIANT DependenciesFirst
CHECK_DEADLOCK FALSE
