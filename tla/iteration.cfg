CONSTANTS
    Tombstone = Tombstone
    Zero = "0"
    NegativeZero = "-0"
    Nobody = Nobody
    MaxSlots = 3
    MaxSize = 3
    Setup <- Worlds
SPECIFICATION Spec
INVARIANTS TypeOK ClosedAsOwed SetAlgebra
PROPERTIES ImplementsOrdered
CHECK_DEADLOCK FALSE
