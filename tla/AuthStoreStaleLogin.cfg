SPECIFICATION Spec
CONSTANTS
    Users = {u1}
    Logins = {l1, l2}
    Creators = {}
    Changers = {p1}
    Leavers = {}
    Revokers = {}
    Callers = {}
    MaxSessions = 2
    MaxTokens = 1
    SessionTTL = 2
    TokenTTL = 1
    TouchEvery = 1
    MaxNow = 2
    NoUser = NoUser
    NoRow = NoRow
    Bootstrap = Bootstrap
SYMMETRY Symmetry
\* A handler runs once; when all have, nothing happens any more.
CHECK_DEADLOCK FALSE
INVARIANTS
    SessionsOfCurrentPassword
