SPECIFICATION Spec
CONSTANTS
    alice = alice
    bob = bob
    s1 = s1
    s2 = s2
    t1 = t1
    r1 = r1
    r2 = r2
    r3 = r3
    r4 = r4
    Req = {r1, r2, r3, r4}
    Users = {alice, bob}
    Sessions = {s2}
    Tokens = {t1}
    Owner <- MCPair
    Revokers = {v1}
    ExpiryOn = FALSE
    NoCred = NoCred
    NoUser = NoUser
    CHAT_CONCURRENCY = 2
    CHAT_PENDING = 2
SYMMETRY Symmetry
INVARIANTS
    SlotsConserved
    AdmissionConserved
    RegistryComplete
    RevokedWorkStops
    NoLostWakeup
PROPERTIES
    NoBarging
    KeepsModelBounded
