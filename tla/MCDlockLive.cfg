CONSTANTS
    i1 = i1
    i2 = i2
    g1 = g1
    g2 = g2
    g3 = g3
    Instances = {i1, i2}
    Goroutines = {g1, g3}
    Uses <- MCUses
    Tokens = {t1, t2}
    NoToken = NoToken
    Nobody = Nobody
    TTL = 4
    Millisecond = 2
    MinRetryDelay = 1
    MaxRetryDelay = 2
SPECIFICATION DlockFairSpec
PROPERTY CancelledCallsReturn
