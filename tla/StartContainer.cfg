CONSTANTS
    Header <- MCHeader
    Alphabet = {"g", "o"}
    StdoutCap = 1
    MaxStarts = 2
    MaxWritten = 4
SPECIFICATION FairSpec
INVARIANTS TypeOK OfferedIsReady NothingLost RunningIsWanted
PROPERTIES GreetingIsHeard
CHECK_DEADLOCK FALSE
