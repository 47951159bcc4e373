CONSTANT None = None
SPECIFICATION FairSpec
INVARIANTS TypeOK SignalAttributed FinishedInTimeKept
PROPERTIES StopEnds ReapedReturns KeepsContract
