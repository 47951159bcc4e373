CONSTANTS
    Workers = {w1}
    Requests = {r1, r2}
    Containers = {c1, c2}
    StartFaults = {"exec", "hang"}
    WaitErrors = {"nil", "exit", "io", "ctx"}
    HealthChecks = TRUE
    None = None
SPECIFICATION Spec
SYMMETRY MCSymmetry
INVARIANTS SlotsCounted OneError UsedOnce NoOrphan AtMostNPrograms OutputIsGenuine
PROPERTY KeepsPromise
