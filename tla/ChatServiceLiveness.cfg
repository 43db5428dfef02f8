SPECIFICATION FairSpec
CONSTANTS
    alice = alice
    bob = bob
    s1 = s1
    s2 = s2
    t1 = t1
    r1 = r1
    r2 = r2
    r3 = r3
    r4 = r4
    Req = {r1, r2}
    Users = {alice}
    Sessions = {s1}
    Tokens = {t1}
    Owner <- MCSolo
    Revokers = {v1}
    ExpiryOn = TRUE
    NoCred = NoCred
    NoUser = NoUser
    CHAT_CONCURRENCY = 1
    CHAT_PENDING = 1
PROPERTIES
    QueueDrains
    PermitsReturn
    CancelledEnds
    KeepsStreamContract
