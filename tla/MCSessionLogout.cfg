\* Two requests at a time from one client; calls may fail; no roles.
CONSTANTS
    Request = {r1, r2}
    Client = {c1}
    User = {u1}
    SessionID = {s1, s2}
    Role = {}
    NoSession = NoSession
    NoUser = NoUser
    NoToken = NoToken
    AuthTTL = 1
    RefreshTTL = 2
    Wiggle = 1
    MaxTime = 2
    Faults = TRUE
SPECIFICATION Spec
SYMMETRY Symmetry
INVARIANTS TokensHaveSessions
PROPERTIES LoggedOutStaysOut
