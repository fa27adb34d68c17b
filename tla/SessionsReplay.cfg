SPECIFICATION Spec
CONSTANTS
    ana = ana
    bob = bob
    None = None
    Users = {ana, bob}
    Calls = {c1, c2}
    Seeds = {old, fresh}
    old = old
    fresh = fresh
    SeedRow <- MCSeedRow
    Lifetime = 1
    MaxTime = 2
INVARIANT TokenIsUsedOnce
