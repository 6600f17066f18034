\* An agent that may fail every backchannel call: every run still ends.
SPECIFICATION Spec
CONSTANTS
    Api <- MCApi
    Statuses <- MCStatuses
    Reliable = FALSE
    Crashes = FALSE
    MaxSessions = 2
INVARIANT TypeOK
PROPERTY SessionEnds
CHECK_DEADLOCK FALSE
