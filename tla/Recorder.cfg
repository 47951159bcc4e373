CONSTANTS
    Magic = 3
    Outputs <- MCOutputs
SPECIFICATION Spec
INVARIANTS TypeOK UnreadKept PlayedAsWritten
CHECK_DEADLOCK FALSE
