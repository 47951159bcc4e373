CONSTANTS
    Header <- MCHeader
    Alphabet = {"g", "o"}
    StdoutCap = 1
    MaxStarts = 2
    MaxWritten = 4
SPECIFICATION TimedSpec
PROPERTIES StartEnds
CHECK_DEADLOCK FALSE
