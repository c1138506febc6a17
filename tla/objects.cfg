CONSTANTS
    Indices <- IndexSeq
    Names = {"a", "b"}
    MaxDenseElements = 2
    Setup <- Worlds
SPECIFICATION Spec
INVARIANTS TypeOK ReadsAgree AnswersAgree
PROPERTIES ImplementsContract
CHECK_DEADLOCK FALSE
