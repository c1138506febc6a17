CONSTANTS
    Programs <- TheSources
    Given = {1, 2}
    MaxKept = 5
    MaxFrames = 4
    MaxCalls = 4
SPECIFICATION Spec
INVARIANTS NamesMeanBindings CellsAreBindings
