SPECIFICATION Spec
CONSTANTS
    Nonces = {n1}
    Threads = {t1, t2}
    Window = 2
    MaxSkew = 2
    MaxStall = 0
    MaxTime = 4
INVARIANTS RememberedWhileAcceptable
