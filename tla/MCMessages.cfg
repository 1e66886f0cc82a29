SPECIFICATION Spec
CONSTANTS
    User = {u1, u2}
    \* Views from a Friday to the Sunday after, and views of the Friday
    \* that may fail, in a process that is ahead of Los Angeles, as one that
    \* runs in UTC.
    Event = {e1, e2, e3}
    External = {x}
    Owner = Owner
    Nobody = Nobody
    Day = 2
    Offset = 1
    StartTime = 10
    MaxTime = 15
    MayFail = FALSE
    FailingTime = 11
    Member = {"x1", "x2"}
    Message = {"m1", "m2", "m3"}
    Subscription = {"s1", "s2", "s3"}
    OwnerOf <- MCOwnerOf
    UserOf <- MCUserOf
    \* Two users share a device.
    Device = {t1, t2}
    Caller = {c1, c2}
    NoUser = NoUser
    NoToken = NoToken
    MaxRows = 3
    Address = {a1, a2}
    Request = {r1, r2}
    None = None
    \* Pages of two: a full one followed by a short, an empty or another full one.
    Job = {j1}
    UserCount = 4
    EmailsAtATime = 2
    \* Six notifications for a mail of three: the code's limits are 10 and 5.
    Notification = {n1, n2, n3, n4, n5, n6}
    ResultLimit = 3
INVARIANTS
    GroupedByWindow
    AmountIsViewers
    DeliveredToOwner
    OnlyConfirmed
    AgreeWhenClean
    DigestIsComplete
PROPERTY
    OnlyOwnerRemoves
SYMMETRY Symmetry
CHECK_DEADLOCK FALSE
