SPECIFICATION FairSpec
CONSTANTS
    Texts <- MCTexts
    Ids <- MCIds
    ID <- MCID
    TooLarge = {"bad"}
    Examples = {"tidy"}
    Hello = "tidy"
    Formatted <- MCFormatted
    Malformed = "malformed"
    CannotLoad = "bad"
    Typed = {"mess", "bad"}
    MaxEvents = 1
    MaxClicks = 2
INVARIANTS TypeOK OnlyNewestShown OutputOfShownText LinkShowsShared
PROPERTIES WaitingEnds
