SPECIFICATION Spec
CONSTANTS
    Requests = {q1, q2}
    Capacity = 1
    TTL = 1
    Slowest = 1
    Setups <- MCSetups
    NoEntry = NoEntry
    NoRef = NoRef
INVARIANTS
    SeenWithinTTL
    NeverEmptyByAccident
CHECK_DEADLOCK FALSE
