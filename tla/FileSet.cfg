SPECIFICATION Spec
CONSTANTS
    Names <- MCNames
    GoParts <- MCGoParts
    BogusParts <- MCBogusParts
    MaxFiles = 3
    MaxDepth = 2
    MaxLines = 4
INVARIANTS
    SplitAsDocumented
    FormatKeepsProgram
