SPECIFICATION Spec
CONSTANTS
    MaxSlots = 3
    NoSlot = NoSlot
    Stress = TRUE
    MinThreshold = 6
    MaxLinks = 2
    MaxHeld = 0
    MaxBorrows = 0
PROPERTIES LiveKeyKeepsEntry
