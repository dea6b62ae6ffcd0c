SPECIFICATION Spec
CONSTANTS
    good = good
    bad = bad
    script = script
    x = x
    NoValue = NoValue
    Files <- AllFiles
    Script = script
    Bad <- BadFiles
    Actions <- SomeActions
    Names <- OneName
    Values <- TwoValues
    Capacity = 2
    MaxActions = 2
INVARIANTS TypeOK AnswerIsOwn CopiesAreWhole VariablesArrive ChannelInv
PROPERTIES ImplementsSession ActionEnds
CHECK_DEADLOCK FALSE
