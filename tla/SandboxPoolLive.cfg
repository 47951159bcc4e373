CONSTANTS
    Workers = {w1}
    Requests = {r1}
    Containers = {c1, c2}
    StartFaults = {}
    WaitErrors = {"exit", "ctx"}
    HealthChecks = TRUE
    None = None
SPECIFICATION FairSpec
PROPERTIES RunsEnd GetsContainer TakenIsClosed
