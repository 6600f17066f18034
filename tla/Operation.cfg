SPECIFICATION Spec
CONSTANTS
    Ops <- MCOps
    PathValues <- MCPathValues
    Statuses <- MCStatuses
    ClientTimeout = "5.0"
INVARIANTS
    TypeOK
    AsyncClientClosed
PROPERTY
    Implements
