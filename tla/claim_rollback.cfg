SPECIFICATION Spec
CONSTANTS
    MaxCommit = 3
    MaxTag = 2
    MaxRuns = 1
INVARIANT FailureRollsBack
