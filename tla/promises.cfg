SPECIFICATION Spec
CONSTANTS
    Setups <- Programs
    Plain = {v}
    Thenable = {thenable}
    Undefined = Undefined
    CycleError = CycleError
    NoAggregate = NoAggregate
INVARIANTS TypeOK PromiseInv AggregationCorrect
PROPERTIES SettledOnce FinallyPasses
