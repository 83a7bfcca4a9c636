SPECIFICATION FairSpec
CONSTANTS
    c1 = c1
    c2 = c2
    Conns = {c1, c2}
    Inputs <- Mix
    NoInput = NoInput
    MaxBody = 24
    HeadBytes = 64
    MaxMeta = 4
    MaxModel = 4
    MaxThumb = 4
    MaxSignals = 1
    MaxTasks = 3
CHECK_DEADLOCK FALSE
INVARIANTS TypeOK ChargedToTheHeader NothingReadUnpaid StoredAsDeclared OneAnswer
PROPERTIES StopComes AnswerComes
