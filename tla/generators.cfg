SPECIFICATION Spec
CONSTANTS
    NumGens = 2
    NoFrame = NoFrame
    Setups <- Nested
INVARIANTS TypeOK GeneratorInv
PROPERTIES ResumerRestored HandlersHonoured
