SPECIFICATION Spec
CONSTANTS
    NumGens = 1
    NoFrame = NoFrame
    Setups <- Captured
INVARIANT EnvironmentKept
