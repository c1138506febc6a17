SPECIFICATION Spec
CONSTANTS
    Source <- AllFunctions
    Answers <- MCAnswers
    MaxCalls = 4
    StrayExits = FALSE
INVARIANT HandlersAsEmitted
PROPERTIES CodeMeansSource
