SPECIFICATION Spec
CONSTANTS
    Ops <- MCKeylistOps
    PathValues <- MCPathValues
    Statuses <- MCStatuses
    ClientTimeout = "5.0"
INVARIANT
    SpecOmissionLaw
