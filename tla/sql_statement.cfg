CONSTANTS
    MaxText = 4
    MaxString = 4
    PkWidth = 2
    None = None
    Keywords <- MCKeywords
    Scenarios <- MCScenarios
SPECIFICATION Spec
CHECK_DEADLOCK FALSE
INVARIANTS TypeOK TokensStable ParsesWritten KeysAreGiven CodecExact SelectAnswers 
