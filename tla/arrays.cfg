CONSTANTS
    Indices <- IndexSeq
    Names = {"a"}
    MaxDenseElements = 3
    ByteValues = 4
    MaxBufferBytes = 4
    MaxBuffers = 2
    Slots = {"s", "t"}
    Kinds = {"Int8", "Uint16"}
    Args <- ArgInts
    Numbers <- NumberInts
    Absent = Absent
    NaN = NaN
    Setup <- Worlds
    Needle = "u"
    Getter = Getter
    Got = "g"
SPECIFICATION Spec
INVARIANTS TypeOK ViewsInBounds ResultsAsOwed
PROPERTIES ImplementsLiveWalk MovesAsOwed
CHECK_DEADLOCK FALSE
