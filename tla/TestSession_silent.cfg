\* A failing agent: a test fails with nothing reported before it.
SPECIFICATION Spec
CONSTANTS
    Api <- MCApi
    Statuses <- MCStatuses
    Reliable = FALSE
    Crashes = FALSE
    MaxSessions = 1
INVARIANT FailureTraced
CHECK_DEADLOCK FALSE
