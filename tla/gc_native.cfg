SPECIFICATION Spec
CONSTANTS
    MaxSlots = 3
    NoSlot = NoSlot
    Stress = FALSE
    MinThreshold = 1
    MaxLinks = 1
    MaxHeld = 1
    MaxBorrows = 1
INVARIANTS NothingLeftBehind BytesExact
PROPERTIES ImplementsJsHeap NoBusyCollect CollectReturns
\* a full heap below the threshold: the model may not grow it further
CHECK_DEADLOCK FALSE
