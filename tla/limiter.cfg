SPECIFICATION Spec
CONSTANTS
    a1 = a1
    a2 = a2
    a3 = a3
    a4 = a4
    Addresses = {a1, a2, a3, a4}
    t1 = t1
    t2 = t2
    Threads = {t1, t2}
    b1 = b1
    b2 = b2
    b3 = b3
    b4 = b4
    Buckets = {b1, b2, b3, b4}
    None = None
    Slots = 2
    Burst = 1
    Refill = 2
    GlobalBurst = 3
    GlobalRefill = 1
    MaxStall = 1
    MaxTime = 1
    MaxOverlaps = 1
SYMMETRY Interchangeable
VIEW Live
INVARIANTS TypeOK SlotsOvershootBounded AddressRateHeld GlobalRateHeld GlobalOnlyPaysForAdmitted LostOnlyToRaces
