\* Every operation, failure and crash of a session.
SPECIFICATION Spec
CONSTANTS
    alice = alice
    bob = bob
    g1 = g1
    g2 = g2
    g3 = g3
    k1 = k1
    k2 = k2
    Grants = {g1, g2, g3}
    Addresses = {alice, bob}
    Owner <- MCOwner
    None = None
    MaxTime = 1
    Keys = {k1, k2}
    Ttl = 1
    ReplayMemory = 1
    MaxAttempts = 2
SYMMETRY SessionSymmetry
INVARIANTS
    TypeOK
    StoredIdentity
    ExchangedOnce
    ReplaysRecognised
    RevokedIsRevoked
    SnapshotIsBacked
PROPERTIES
    RevocationIsTrue
    RefreshTokenKept
    ImplementsLifecycle
