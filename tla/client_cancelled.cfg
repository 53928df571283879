SPECIFICATION Spec
CONSTANTS
    Requests = {q1, q2}
    Capacity = 1
    TTL = 1
    Slowest = 0
    Setups <- Cancelled
    NoEntry = NoEntry
    NoRef = NoRef
INVARIANTS
    SeenByWhoeverWaits
CHECK_DEADLOCK FALSE
