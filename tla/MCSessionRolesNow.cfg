\* Is a token with roles that have changed ever believed?
CONSTANTS
    Request = {r1, r2}
    Client = {c1}
    User = {u1}
    SessionID = {s1}
    Role = {role}
    NoSession = NoSession
    NoUser = NoUser
    NoToken = NoToken
    AuthTTL = 2
    RefreshTTL = 3
    Wiggle = 2
    MaxTime = 3
    Faults = FALSE
SPECIFICATION Spec
PROPERTIES RolesAppearImmediately
