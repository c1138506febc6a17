SPECIFICATION Spec
CONSTANTS
    NumRegions = 3
    Value = {v1, v2}
    NoValue = NoValue
    MaxFrames <- FramesByRegions
    AnyExit = FALSE
INVARIANTS TypeOK RecordsMatchRegions
PROPERTIES TakenWhereItBelongs NoFinallySkipped
           ImplementsCompletions
