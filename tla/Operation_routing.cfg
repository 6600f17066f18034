SPECIFICATION Spec
CONSTANTS
    Ops <- MCRouteOps
    PathValues <- MCUnsafePathValues
    Statuses <- MCStatuses
    ClientTimeout = "5.0"
INVARIANT
    UrlRoutesBack
