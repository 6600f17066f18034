---------------------------- MODULE Enums ----------------------------
(*************************************************************************)
(* The 32 enum classes of models/. Each is `class X(str, Enum)` with one  *)
(* NAME = "value" line per member and a __str__ that returns the value.  *)
(* A class is the sequence of its members in declaration order, which is  *)
(* the order Enum's value lookup resolves aliases in.                     *)
(*************************************************************************)
EXTENDS Naturals, Sequences

Member(name, value) == [name |-> name, value |-> value]

AttachmentDefType ==
    <<Member("CREDENTIAL_OFFER", "credential-offer"),
      Member("PRESENT_PROOF", "present-proof")>>

ConnRecordAccept ==
    <<Member("MANUAL", "manual"), Member("AUTO", "auto")>>

ConnRecordInvitationMode ==
    <<Member("ONCE", "once"), Member("MULTI", "multi"),
      Member("STATIC", "static")>>

ConnRecordRoutingState ==
    <<Member("NONE", "none"), Member("REQUEST", "request"),
      Member("ACTIVE", "active"), Member("ERROR", "error")>>

ConnRecordTheirRole ==
    <<Member("INVITEE", "invitee"), Member("REQUESTER", "requester"),
      Member("INVITER", "inviter"), Member("RESPONDER", "responder")>>

DIDEndpointWithTypeEndpointType ==
    <<Member("ENDPOINT", "Endpoint"), Member("PROFILE", "Profile"),
      Member("LINKEDDOMAINS", "LinkedDomains")>>

DIDPosture ==
    <<Member("PUBLIC", "public"), Member("POSTED", "posted"),
      Member("WALLET_ONLY", "wallet_only")>>

GetConnectionsState ==
    <<Member("START", "start"), Member("ERROR", "error"),
      Member("RESPONSE", "response"), Member("INIT", "init"),
      Member("ABANDONED", "abandoned"), Member("ACTIVE", "active"),
      Member("REQUEST", "request"), Member("INVITATION", "invitation"),
      Member("COMPLETED", "completed")>>

GetConnectionsTheirRole ==
    <<Member("INVITEE", "invitee"), Member("REQUESTER", "requester"),
      Member("INVITER", "inviter"), Member("RESPONDER", "responder")>>

GetIssueCredential20RecordsRole ==
    <<Member("ISSUER", "issuer"), Member("HOLDER", "holder")>>

GetIssueCredentialRecordsRole ==
    <<Member("ISSUER", "issuer"), Member("HOLDER", "holder")>>

GetIssueCredentialRecordsState ==
    <<Member("PROPOSAL_SENT", "proposal_sent"),
      Member("PROPOSAL_RECEIVED", "proposal_received"),
      Member("OFFER_SENT", "offer_sent"),
      Member("OFFER_RECEIVED", "offer_received"),
      Member("REQUEST_SENT", "request_sent"),
      Member("REQUEST_RECEIVED", "request_received"),
      Member("CREDENTIAL_ISSUED", "credential_issued"),
      Member("CREDENTIAL_RECEIVED", "credential_received"),
      Member("CREDENTIAL_ACKED", "credential_acked")>>

GetLedgerDidEndpointEndpointType ==
    <<Member("ENDPOINT", "Endpoint"), Member("PROFILE", "Profile"),
      Member("LINKEDDOMAINS", "LinkedDomains")>>

GetMediationKeylistsRole ==
    <<Member("CLIENT", "client"), Member("SERVER", "server")>>

GetMediationRequestsState ==
    <<Member("REQUEST", "request"), Member("GRANTED", "granted"),
      Member("DENIED", "denied")>>

GetPresentProofRecordsRole ==
    <<Member("PROVER", "prover"), Member("VERIFIER", "verifier")>>

GetPresentProofRecordsState ==
    <<Member("PROPOSAL_SENT", "proposal_sent"),
      Member("PROPOSAL_RECEIVED", "proposal_received"),
      Member("REQUEST_SENT", "request_sent"),
      Member("REQUEST_RECEIVED", "request_received"),
      Member("PRESENTATION_SENT", "presentation_sent"),
      Member("PRESENTATION_RECEIVED", "presentation_received"),
      Member("VERIFIED", "verified"),
      Member("PRESENTATION_ACKED", "presentation_acked")>>

GetRevocationRegistriesCreatedState ==
    <<Member("INIT", "init"), Member("GENERATED", "generated"),
      Member("POSTED", "posted"), Member("ACTIVE", "active"),
      Member("FULL", "full")>>

GetWalletDidPosture ==
    <<Member("PUBLIC", "public"), Member("POSTED", "posted"),
      Member("WALLET_ONLY", "wallet_only")>>

IndyProofReqPredSpecPType ==
    <<Member("VALUE_0", "<"), Member("VALUE_1", "<="),
      Member("VALUE_2", ">="), Member("VALUE_3", ">")>>

KeylistUpdateRuleAction ==
    <<Member("ADD", "add"), Member("REMOVE", "remove")>>

PatchRevocationRegistryRevRegIdSetStateState ==
    <<Member("INIT", "init"), Member("GENERATED", "generated"),
      Member("POSTED", "posted"), Member("ACTIVE", "active"),
      Member("FULL", "full")>>

PostLedgerRegisterNymRole ==
    <<Member("STEWARD", "STEWARD"), Member("TRUSTEE", "TRUSTEE"),
      Member("ENDORSER", "ENDORSER"),
      Member("NETWORK_MONITOR", "NETWORK_MONITOR"), Member("RESET", "reset")>>

PresPredSpecPredicate ==
    <<Member("VALUE_0", "<"), Member("VALUE_1", "<="),
      Member("VALUE_2", ">="), Member("VALUE_3", ">")>>

V10CredentialExchangeInitiator ==
    <<Member("SELF", "self"), Member("EXTERNAL", "external")>>

V10CredentialExchangeRole ==
    <<Member("HOLDER", "holder"), Member("ISSUER", "issuer")>>

V10PresentationExchangeInitiator ==
    <<Member("SELF", "self"), Member("EXTERNAL", "external")>>

V10PresentationExchangeRole ==
    <<Member("PROVER", "prover"), Member("VERIFIER", "verifier")>>

V10PresentationExchangeVerified ==
    <<Member("TRUE", "true"), Member("FALSE", "false")>>

V20CredExRecordInitiator ==
    <<Member("SELF", "self"), Member("EXTERNAL", "external")>>

V20CredExRecordRole ==
    <<Member("ISSUER", "issuer"), Member("HOLDER", "holder")>>

V20CredExRecordState ==
    <<Member("PROPOSAL_SENT", "proposal-sent"),
      Member("PROPOSAL_RECEIVED", "proposal-received"),
      Member("OFFER_SENT", "offer-sent"),
      Member("OFFER_RECEIVED", "offer-received"),
      Member("REQUEST_SENT", "request-sent"),
      Member("REQUEST_RECEIVED", "request-received"),
      Member("CREDENTIAL_ISSUED", "credential-issued"),
      Member("CREDENTIAL_RECEIVED", "credential-received"),
      Member("DONE", "done")>>

AllEnums ==
    [AttachmentDefType |-> AttachmentDefType,
     ConnRecordAccept |-> ConnRecordAccept,
     ConnRecordInvitationMode |-> ConnRecordInvitationMode,
     ConnRecordRoutingState |-> ConnRecordRoutingState,
     ConnRecordTheirRole |-> ConnRecordTheirRole,
     DIDEndpointWithTypeEndpointType |-> DIDEndpointWithTypeEndpointType,
     DIDPosture |-> DIDPosture,
     GetConnectionsState |-> GetConnectionsState,
     GetConnectionsTheirRole |-> GetConnectionsTheirRole,
     GetIssueCredential20RecordsRole |-> GetIssueCredential20RecordsRole,
     GetIssueCredentialRecordsRole |-> GetIssueCredentialRecordsRole,
     GetIssueCredentialRecordsState |-> GetIssueCredentialRecordsState,
     GetLedgerDidEndpointEndpointType |-> GetLedgerDidEndpointEndpointType,
     GetMediationKeylistsRole |-> GetMediationKeylistsRole,
     GetMediationRequestsState |-> GetMediationRequestsState,
     GetPresentProofRecordsRole |-> GetPresentProofRecordsRole,
     GetPresentProofRecordsState |-> GetPresentProofRecordsState,
     GetRevocationRegistriesCreatedState |-> GetRevocationRegistriesCreatedState,
     GetWalletDidPosture |-> GetWalletDidPosture,
     IndyProofReqPredSpecPType |-> IndyProofReqPredSpecPType,
     KeylistUpdateRuleAction |-> KeylistUpdateRuleAction,
     PatchRevocationRegistryRevRegIdSetStateState |-> PatchRevocationRegistryRevRegIdSetStateState,
     PostLedgerRegisterNymRole |-> PostLedgerRegisterNymRole,
     PresPredSpecPredicate |-> PresPredSpecPredicate,
     V10CredentialExchangeInitiator |-> V10CredentialExchangeInitiator,
     V10CredentialExchangeRole |-> V10CredentialExchangeRole,
     V10PresentationExchangeInitiator |-> V10PresentationExchangeInitiator,
     V10PresentationExchangeRole |-> V10PresentationExchangeRole,
     V10PresentationExchangeVerified |-> V10PresentationExchangeVerified,
     V20CredExRecordInitiator |-> V20CredExRecordInitiator,
     V20CredExRecordRole |-> V20CredExRecordRole,
     V20CredExRecordState |-> V20CredExRecordState]
Literals(E) == {E[i].value : i \in DOMAIN E}

\* Mutant of Construct: the member looked up by name, as X[s] does.
ConstructByName(E, s) ==
    IF \E i \in DOMAIN E : E[i].name = s
    THEN [ok |-> TRUE, member |-> E[CHOOSE i \in DOMAIN E : E[i].name = s]]
    ELSE [ok |-> FALSE, err |-> "KeyError"]

\* X(s), the call every from_dict makes on an enum key: EnumMeta looks s up
\* among the members' values, the first declared member winning an alias,
\* and raises ValueError when no member has that value.
Construct(E, s) ==
    IF s \in Literals(E)
    THEN [ok |-> TRUE,
          member |-> E[CHOOSE i \in DOMAIN E :
                         E[i].value = s /\ \A j \in 1..(i-1) : E[j].value # s]]
    ELSE [ok |-> FALSE, err |-> "ValueError"]

\* Mutant of Value: the member's name written instead of its value.
ValueName(m) == m.name

\* member.value, what to_dict and _get_kwargs write.
Value(m) == m.value

\* __str__: str(self.value).
Str(m) == m.value

=============================================================================
