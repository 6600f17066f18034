SPECIFICATION Spec
CONSTANTS
    Ops <- MCEnumOps
    PathValues <- MCPathValues
    Statuses <- MCStatuses
    ClientTimeout = "5.0"
INVARIANT
    NoneTolerated
