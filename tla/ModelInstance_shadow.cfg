\* An additional property set under the wire key of an attribute.
SPECIFICATION Spec
CONSTANTS
    ModelNames <- MCMutatedModels
    ExtraKeys <- MCExtraKeys
    MaxMutations <- MCShadowBound
INVARIANT FieldsPrevail
