SPECIFICATION Spec
CONSTANTS
    MaxSlots = 3
    NoSlot = NoSlot
    Stress = TRUE
    MinThreshold = 6
    MaxLinks = 3
    MaxHeld = 0
    MaxBorrows = 0
INVARIANTS TypeOK NoStaleHandle GcInv
PROPERTIES Precise
