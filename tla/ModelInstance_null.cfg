\* Explicit null for an omittable field.
SPECIFICATION Spec
CONSTANTS
    ModelNames <- MCAllModels
    ExtraKeys <- MCExtraKeys
    MaxMutations <- MCNoMutations
INVARIANT NullAccepted
