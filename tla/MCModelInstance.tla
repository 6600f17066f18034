--------------------------- MODULE MCModelInstance ---------------------------
(***************************************************************************)
(* Model-checking instances of ModelInstance.                              *)
(***************************************************************************)
EXTENDS ModelInstance

\* Every generated model class.
MCAllModels == DOMAIN AllModels

\* Classes that between them use every field kind, every kind of
\* additional_properties, nullable attributes and renamed wire keys:
\* required enum, optional nested model and optional List[X]
\* (IndyProofReqPredSpec), Optional[X] (TAAInfo), the nullable, renamed
\* "mime-type" (CredAttrSpec), List[str] (AdminModules), and typed
\* additional_properties (QueryResultResults,
\* ClearPendingRevocationsRequestPurge).
MCMutatedModels ==
    {"IndyProofReqPredSpec", "TAAInfo", "CredAttrSpec", "AdminModules",
     "QueryResultResults", "ClearPendingRevocationsRequestPurge"}

\* Instances of the classes above take up to two changes, enough for a
\* change and its undoing or for an extra that shadows a field; the other
\* classes are decoded and encoded only.
MCMutationBound ==
    [m \in MCAllModels |-> IF m \in MCMutatedModels THEN 2 ELSE 0]

\* One change to the classes above.
MCShadowBound == [m \in MCMutatedModels |-> 1]

\* No changes at all.
MCNoMutations == [m \in MCAllModels |-> 0]

\* The undeclared key of the spec's extras-preservation example.
MCExtraKeys == {"foo"}

=============================================================================
