CONSTANTS
    Workers = {w1, w2, w3}
    Base = 2
    BackoffCap = 2
    Recovery = 3
SPECIFICATION PoolSpec
INVARIANT BackoffObserved
