CONSTANTS
    Requests = {r1, r2}
    b1 = b1
    b2 = b2
    Bodies = {b1, b2}
    Asks <- MCAsks
    None = None
SPECIFICATION Spec
INVARIANTS NoTimeoutCached
