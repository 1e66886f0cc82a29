\* Two requests at a time from one client, changes of roles, one session.
CONSTANTS
    Request = {r1, r2}
    Client = {c1}
    User = {u1}
    SessionID = {s1}
    Role = {role}
    NoSession = NoSession
    NoUser = NoUser
    NoToken = NoToken
    AuthTTL = 2
    RefreshTTL = 3
    Wiggle = 2
    MaxTime = 4
    Faults = FALSE
SPECIFICATION Spec
SYMMETRY Symmetry
PROPERTIES ForcedRefreshHolds
