\* A reliable agent and a runner that may be killed at any step, then run
\* again: every assert of every run holds.
SPECIFICATION Spec
CONSTANTS
    Api <- MCApi
    Statuses <- MCStatuses
    Reliable = TRUE
    Crashes = TRUE
    MaxSessions = 2
INVARIANT AssertionsHold
\* The last run ends: the session really stops there.
CHECK_DEADLOCK FALSE
