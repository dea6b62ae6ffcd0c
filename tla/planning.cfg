SPECIFICATION Spec
CONSTANT Programs <- AnyProgram
INVARIANTS
    TypeOK
    RunsWhatItShould
    ParentStatesAvailable
    FindsASchedule
    ExpectedPlans
CHECK_DEADLOCK FALSE
