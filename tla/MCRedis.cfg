\* Two servers whose clocks differ by a second, two logins at a time.
SPECIFICATION MCSpec
CONSTANTS
    s1 = s1
    s2 = s2
    Request = {p1, p2}
    Server = {s1, s2}
    Skew <- MCSkew
    Token = {t1}
    Nonce = {v1}
    NoToken = NoToken
    NoNonce = NoNonce
    TokenTTL = 2
    NonceTTL = 2
    Wiggle = 2
    Stall = 1
    Attempts = 2
    MaxTime = 6
    \* One limiter's lock outlives a request that uses it, the other's does not;
    \* a bucket of two refills within the run.
    Client = {r1, r2, r3}
    r3 = r3
    Node = {n1, n2}
    n1 = n1
    n2 = n2
    NodeOf <- MCNodeOf
    Key = {k1, k2}
    Nobody = Nobody
    NoKey = NoKey
    Capacity = 2
    RefillRate = 1
    LockTTL = 2
    MaxHold = 1
    LimiterTime = 3
    Window = {0, 1}
    SlowTTL = 1
    SlowHold = 2
    SlowTimeBound = 2
    \* A value lives for two seconds and takes up to one to compute.
    Loader = {l1, l2}
    TTL = 2
    MaxCalc = 1
    CacheTime = 5
INVARIANTS
    OneTimeTokenOnce
    NonceOnce
    HolderHasLock
    StalenessBound
PROPERTY
    ImplementsTokenBucket
SYMMETRY Symmetry
CHECK_DEADLOCK FALSE
