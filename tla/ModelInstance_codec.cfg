\* Decode/encode of every model class; the six classes of MCMutatedModels
\* also change by assignment and item protocol and are encoded and decoded again.
SPECIFICATION Spec
CONSTANTS
    ModelNames <- MCAllModels
    ExtraKeys <- MCExtraKeys
    MaxMutations <- MCMutationBound
INVARIANT TypeOK
INVARIANT RoundTrip
INVARIANT DecodeContract
INVARIANT SentIsReceived
