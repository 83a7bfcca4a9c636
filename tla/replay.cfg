SPECIFICATION Spec
CONSTANTS
    Nonces = {n1}
    Threads = {t1, t2}
    Window = 2
    MaxSkew = 2
    MaxStall = 1
    MaxTime = 8
INVARIANTS TypeOK NoEarlyReplay RecordsAreGenuine TableHoldsOneWindow AcceptancesBounded
