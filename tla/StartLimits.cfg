SPECIFICATION Spec
CONSTANTS
    start_limit_interval = 5
    start_limit_burst = 4
    delay = 1
    MAX_START_LIMIT_BURST = 3
    WordSize = 32
    Horizon = 14
INVARIANT RateBound
CHECK_DEADLOCK FALSE
