SPECIFICATION Spec
CONSTANTS
    Classes <- MCClasses
    Probes <- MCProbes
INVARIANTS
    TypeOK
    MemberRoundTrip
