SPECIFICATION Spec
CONSTANTS
    Users = {u1, u2}
    Logins = {l1, l2}
    Creators = {c1, c2}
    Changers = {p1}
    Leavers = {o1}
    Revokers = {r1}
    Callers = {g1}
    MaxSessions = 1
    MaxTokens = 1
    SessionTTL = 2
    TokenTTL = 1
    TouchEvery = 1
    MaxNow = 2
    NoUser = NoUser
    NoRow = NoRow
    Bootstrap = Bootstrap
SYMMETRY Symmetry
\* A handler runs once; when all have, nothing happens any more.
CHECK_DEADLOCK FALSE
INVARIANTS
    CredentialsBounded
    TokensOfCurrentPassword
PROPERTIES
    RevokesWhatWasPicked
