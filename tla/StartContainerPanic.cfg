CONSTANTS
    Header <- MCHeader
    Alphabet = {"g", "o"}
    StdoutCap = 1
    MaxStarts = 2
    MaxWritten = 4
SPECIFICATION Spec
INVARIANTS WorkerSurvives
CHECK_DEADLOCK FALSE
