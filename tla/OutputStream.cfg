CONSTANTS
    Header <- MCHeader
    Alphabet = {"g", "o", "n"}
    Cap = 2
    MaxSent = 8
SPECIFICATION MCSpec
INVARIANTS TypeOK SplitAtHeader KeepsFirst LossIsSeen
CHECK_DEADLOCK FALSE
