SPECIFICATION Spec
CONSTANTS
    MaxCommit = 3
    MaxTag = 2
    MaxRuns = 3
INVARIANTS TypeOK BadReleaseNeverInstalled AWorkingCopySurvives RolledBackMeansPrevious UpToDateMeansInstalled UpToDateMeansFetched
PROPERTIES UpdatedMeansRunning
