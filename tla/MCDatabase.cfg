\* Two requests at a time, any of them; statements may fail.
CONSTANTS
    Request = {p1, p2}
    UserID = {u1, u2, u3}
    WalletID = {w1, w2, w3, w4}
    Address = {a1, a2, a3}
    Username = {n1, n2, n3}
    NoUser = NoUser
    NoWallet = NoWallet
    NoAddress = NoAddress
    Member = u1
    Universal = u2
    MemberAddress = a1
    UniversalAddress = a2
    MemberWallet = w1
    UniversalWallet = w2
    MemberName = n1
    UniversalName = n2
    Faults = TRUE
    \* Two messages about two accounts: enough to compare any two ways to a key.
    Account = {"acct1", "acct2"}
    Message = {"m1", "m2"}
    \* Five files with every choice of sudo flags, run up to three times.
    Process = {k1}
    Latest = 5
    MaxRuns = 3
SPECIFICATION MCSpec
SYMMETRY Symmetry
INVARIANTS PrimaryIsOwned ListedWalletsLive AccountsAreFound MigrationsComplete
PROPERTIES NotTakenOver
CHECK_DEADLOCK FALSE
