SPECIFICATION Spec
CONSTANTS
    k1 = k1
    k2 = k2
    b1 = b1
    b2 = b2
    b3 = b3
    b4 = b4
    t1 = t1
    t2 = t2
    Keys = {k1, k2}
    Blobs = {b1, b2, b3, b4, t1, t2}
    Workers = {w1, w2}
    Size <- Sizes
    Uploads <- SharedUploads
    NoUpload = NoUpload
    KeyLimit = 1
    HourLimit = 1
    MaxRequest = 3
    MaxDisk = 6
    Day = 2
    Hour = 1
    MaxTime = 2
    MaxTroubles = 1
SYMMETRY WorkerSymmetry
INVARIANTS TypeOK RowsHaveWholeBlobs DebrisBounded DiskOvershootBounded DailyOvershootBounded HourlyOvershootBounded
