SPECIFICATION FairSpec
CONSTANTS
    \* Two senders share a host with one token, a third has its own host.
    Sender = {"s1", "s2", "s3"}
    Host = {"h1", "h2"}
    HostOf <- MCHostOf
    LoopCaller = {c1, c2}
    Nobody = Nobody
    MaxRetries = 1
    \* Enough rounds for MaxWait to cap the sleep.
    LoopRetries = 5
    MinWait = 1
    MaxWait = 10
    Capacity = 1
    Gateway = {w1, w2, w3}
    Fetch = {f1, f2, f3}
    Task = {t1, t2, t3, t4}
    Message = {m1, m2}
    m2 = m2
    Subscription = {s1, s2}
    s2 = s2
    u1 = u1
    u2 = u2
    None = None
    Job = {j1}
    Notification = {n1, n2, n3, n4}
    ResultLimit = 2
INVARIANTS
    WaitersAreServed
PROPERTIES
    RequestsReturn
    NeverLockedForever
    EveryMessageAcked
    DigestEnds
CHECK_DEADLOCK FALSE
