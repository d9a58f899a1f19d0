CONSTANTS
    Workers = {w1, w2, w3}
    Base = 3
    BackoffCap = 2
    Recovery = 2
SPECIFICATION PoolFairSpec
INVARIANTS
    SlotsAccounted
    ParkedHasHolder
PROPERTIES
    LoweredOncePerCooldown
    ParkedIsWoken
