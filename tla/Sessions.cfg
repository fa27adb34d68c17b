SPECIFICATION FairSpec
CONSTANTS
    ana = ana
    bob = bob
    None = None
    Users = {ana, bob}
    Calls = {c1, c2, c3}
    Seeds = {old}
    old = old
    fresh = fresh
    SeedRow <- MCSeedRow
    Lifetime = 1
    MaxTime = 2
INVARIANT TypeOK
INVARIANT RevokedStaysRevoked
INVARIANT OwnTokenCanAlwaysBeRevoked
PROPERTY OnlyItsOwnerEndsASession EveryCallAnswered
