\* The round-trip law as the spec words it.
SPECIFICATION Spec
CONSTANTS
    ModelNames <- MCAllModels
    ExtraKeys <- MCExtraKeys
    MaxMutations <- MCNoMutations
INVARIANT SpecRoundTrip
