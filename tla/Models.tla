------------------------------- MODULE Models -------------------------------
(***************************************************************************)
(* The field tables of the model classes of acapy_backchannel/models: for *)
(* each class, its attributes in declared order with their wire key and   *)
(* generated pattern (see ModelCodec), and the value type of its          *)
(* additional_properties.  The enum classes carry no table: an enum field *)
(* is a field of kind "enum".                                             *)
(***************************************************************************)
EXTENDS ModelCodec
LOCAL INSTANCE TLC

\* A field whose wire key is its attribute name, and one whose key differs.
Req(a, kind) == Field(a, a, kind, TRUE, FALSE)
Opt(a, kind) == Field(a, a, kind, FALSE, FALSE)
OptNullable(a, kind) == Field(a, a, kind, FALSE, TRUE)
ReqKey(a, k, kind) == Field(a, k, kind, TRUE, FALSE)
OptKey(a, k, kind) == Field(a, k, kind, FALSE, FALSE)
OptNullableKey(a, k, kind) == Field(a, k, kind, FALSE, TRUE)

AMLRecord == Model(<<
    Opt("aml", "model"), OptKey("aml_context", "amlContext", "plain"),
    Opt("version", "plain")
  >>, "any")

AdminAPIMessageTracing == Model(<<
    Opt("trace", "plain")
  >>, "any")

AdminMediationDeny == Model(<<
    Opt("mediator_terms", "strlist"), Opt("recipient_terms", "strlist")
  >>, "any")

AdminModules == Model(<<
    Opt("result", "strlist")
  >>, "any")

AdminStatusLiveliness == Model(<<
    Opt("alive", "plain")
  >>, "any")

AdminStatusReadiness == Model(<<
    Opt("ready", "plain")
  >>, "any")

AttachDecoratorData1JWS == Model(<<
    Req("header", "model"), Req("signature", "plain"),
    Opt("protected", "plain")
  >>, "any")

AttachDecoratorDataJWS == Model(<<
    Opt("header", "model"), Opt("protected", "plain"),
    Opt("signature", "plain"), Opt("signatures", "modellist")
  >>, "any")

AttachDecoratorDataJWSHeader == Model(<<
    Req("kid", "plain")
  >>, "any")

AttachmentDef == Model(<<
    Opt("id", "plain"), Opt("type", "enum")
  >>, "any")

ClearPendingRevocationsRequest == Model(<<
    Opt("purge", "model")
  >>, "any")

ClearPendingRevocationsRequestPurge == Model(<<>>, "strlist")

ConnRecord == Model(<<
    Req("connection_id", "plain"), Req("state", "plain"),
    Opt("accept", "enum"), Opt("alias", "plain"), Opt("created_at", "plain"),
    Opt("error_msg", "plain"), Opt("inbound_connection_id", "plain"),
    Opt("invitation_key", "plain"), Opt("invitation_mode", "enum"),
    Opt("invitation_msg_id", "plain"), Opt("my_did", "plain"),
    Opt("request_id", "plain"),
    OptKey("rfc_23_state", "rfc23_state", "plain"),
    Opt("routing_state", "enum"), Opt("their_did", "plain"),
    Opt("their_label", "plain"), Opt("their_public_did", "plain"),
    Opt("their_role", "enum"), Opt("updated_at", "plain")
  >>, "any")

ConnectionInvitation == Model(<<
    OptKey("id", "@id", "plain"), OptKey("type", "@type", "plain"),
    Opt("did", "plain"), OptNullableKey("image_url", "imageUrl", "plain"),
    Opt("label", "plain"),
    OptKey("recipient_keys", "recipientKeys", "strlist"),
    OptKey("routing_keys", "routingKeys", "strlist"),
    OptKey("service_endpoint", "serviceEndpoint", "plain")
  >>, "any")

ConnectionMetadata == Model(<<
    Opt("results", "model")
  >>, "any")

ConnectionMetadataSetRequest == Model(<<
    Req("metadata", "model")
  >>, "any")

ConnectionStaticRequest == Model(<<
    Opt("alias", "plain"), Opt("my_did", "plain"), Opt("my_seed", "plain"),
    Opt("their_did", "plain"), Opt("their_endpoint", "plain"),
    Opt("their_label", "plain"), Opt("their_seed", "plain"),
    Opt("their_verkey", "plain")
  >>, "any")

ConnectionStaticResult == Model(<<
    Req("my_verkey", "plain"), Req("my_did", "plain"),
    Req("my_endpoint", "plain"), Req("record", "model"),
    Req("their_did", "plain"), Req("their_verkey", "plain")
  >>, "any")

CreateInvitationRequest == Model(<<
    Opt("mediation_id", "plain"), Opt("metadata", "model"),
    Opt("recipient_keys", "strlist"), Opt("routing_keys", "strlist"),
    Opt("service_endpoint", "plain")
  >>, "any")

CredAttrSpec == Model(<<
    Req("name", "plain"), Req("value", "plain"),
    OptNullableKey("mime_type", "mime-type", "plain")
  >>, "any")

CredBrief == Model(<<
    Opt("attrs", "model"), Opt("cred_def_id", "plain"),
    Opt("cred_rev_id", "plain"), Opt("referent", "plain"),
    Opt("rev_reg_id", "plain"), Opt("schema_id", "plain")
  >>, "any")

CredRevokedResult == Model(<<
    Opt("revoked", "plain")
  >>, "any")

CredentialDefinition == Model(<<
    Opt("id", "plain"), OptKey("schema_id", "schemaId", "plain"),
    Opt("tag", "plain"), Opt("type", "model"), Opt("value", "model"),
    Opt("ver", "plain")
  >>, "any")

CredentialDefinitionGetResults == Model(<<
    Opt("credential_definition", "model")
  >>, "any")

CredentialDefinitionSendRequest == Model(<<
    Opt("revocation_registry_size", "plain"), Opt("schema_id", "plain"),
    Opt("support_revocation", "plain"), Opt("tag", "plain")
  >>, "any")

CredentialDefinitionsCreatedResults == Model(<<
    Opt("credential_definition_ids", "strlist")
  >>, "any")

CredentialPreview == Model(<<
    Req("attributes", "modellist"), OptKey("type", "@type", "plain")
  >>, "any")

DID == Model(<<
    Req("did", "plain"), Req("posture", "enum"), Req("verkey", "plain")
  >>, "any")

DIDEndpoint == Model(<<
    Req("did", "plain"), Opt("endpoint", "plain")
  >>, "any")

DIDEndpointWithType == Model(<<
    Req("did", "plain"), Opt("endpoint", "plain"),
    Opt("endpoint_type", "enum")
  >>, "any")

EndpointsResult == Model(<<
    Opt("my_endpoint", "plain"), Opt("their_endpoint", "plain")
  >>, "any")

IndyCredInfo == Model(<<
    Opt("attrs", "model"), Opt("referent", "plain")
  >>, "any")

IndyProofReqAttrSpec == Model(<<
    Opt("name", "plain"), Opt("names", "strlist"),
    Opt("non_revoked", "model"), Opt("restrictions", "modellist")
  >>, "any")

IndyProofReqNonRevoked == Model(<<
    Req("to", "plain")
  >>, "any")

IndyProofReqPredSpec == Model(<<
    Req("name", "plain"), Req("p_type", "enum"), Req("p_value", "plain"),
    Opt("non_revoked", "model"), Opt("restrictions", "modellist")
  >>, "any")

IndyProofReqPredSpecRestrictions == Model(<<
    Opt("cred_def_id", "plain"), Opt("issuer_did", "plain"),
    Opt("schema_id", "plain"), Opt("schema_issuer_did", "plain"),
    Opt("schema_name", "plain"), Opt("schema_version", "plain")
  >>, "any")

IndyProofRequest == Model(<<
    Req("name", "plain"), Req("requested_attributes", "model"),
    Req("requested_predicates", "model"), Req("version", "plain"),
    Opt("non_revoked", "model"), Opt("nonce", "plain")
  >>, "any")

IndyRequestedCredsRequestedAttr == Model(<<
    Req("cred_id", "plain"), Opt("revealed", "plain")
  >>, "any")

IndyRequestedCredsRequestedPred == Model(<<
    Req("cred_id", "plain"), Opt("timestamp", "plain")
  >>, "any")

InvitationCreateRequest == Model(<<
    Opt("alias", "plain"), Opt("attachments", "modellist"),
    Opt("handshake_protocols", "strlist"), Opt("mediation_id", "plain"),
    Opt("metadata", "model"), Opt("my_label", "plain"),
    Opt("use_public_did", "plain")
  >>, "any")

InvitationRecord == Model(<<
    Opt("created_at", "plain"), Opt("invi_msg_id", "plain"),
    Opt("invitation", "model"), Opt("invitation_id", "plain"),
    Opt("invitation_url", "plain"), Opt("state", "plain"),
    Opt("trace", "plain"), Opt("updated_at", "plain")
  >>, "any")

InvitationResult == Model(<<
    Req("connection_id", "plain"), Req("invitation", "model"),
    Req("invitation_url", "plain")
  >>, "any")

KeylistQueryFilterRequest == Model(<<
    OptKey("filter_", "filter", "model")
  >>, "any")

KeylistQueryPaginate == Model(<<
    Opt("limit", "plain"), Opt("offset", "plain")
  >>, "any")

KeylistUpdate == Model(<<
    OptKey("id", "@id", "plain"), OptKey("type", "@type", "plain"),
    Opt("updates", "modellist")
  >>, "any")

KeylistUpdateRequest == Model(<<
    Opt("updates", "modellist")
  >>, "any")

MediationDeny == Model(<<
    OptKey("id", "@id", "plain"), OptKey("type", "@type", "plain"),
    Opt("mediator_terms", "strlist"), Opt("recipient_terms", "strlist")
  >>, "any")

MediationGrant == Model(<<
    OptKey("id", "@id", "plain"), OptKey("type", "@type", "plain"),
    Opt("endpoint", "plain"), Opt("routing_keys", "strlist")
  >>, "any")

MediationRecord == Model(<<
    Req("connection_id", "plain"), Req("role", "plain"),
    Opt("created_at", "plain"), Opt("endpoint", "plain"),
    Opt("mediation_id", "plain"), Opt("mediator_terms", "strlist"),
    Opt("recipient_terms", "strlist"), Opt("routing_keys", "strlist"),
    Opt("state", "plain"), Opt("updated_at", "plain")
  >>, "any")

MenuForm == Model(<<
    Opt("description", "plain"), Opt("params", "modellist"),
    OptKey("submit_label", "submit-label", "plain"), Opt("title", "plain")
  >>, "any")

MenuFormParam == Model(<<
    Req("name", "plain"), Req("title", "plain"), Opt("default", "plain"),
    Opt("description", "plain"), Opt("required", "plain"),
    Opt("type", "plain")
  >>, "any")

MenuJson == Model(<<
    Req("options", "modellist"), Opt("description", "plain"),
    Opt("errormsg", "plain"), Opt("title", "plain")
  >>, "any")

MenuOption == Model(<<
    Req("name", "plain"), Req("title", "plain"), Opt("description", "plain"),
    Opt("disabled", "plain"), Opt("form", "model")
  >>, "any")

PerformRequest == Model(<<
    Opt("name", "plain"), Opt("params", "model")
  >>, "any")

PingRequestResponse == Model(<<
    Opt("thread_id", "plain")
  >>, "any")

PresAttrSpec == Model(<<
    Req("name", "plain"), Opt("cred_def_id", "plain"),
    OptKey("mime_type", "mime-type", "plain"), Opt("referent", "plain"),
    Opt("value", "plain")
  >>, "any")

PresPredSpec == Model(<<
    Req("name", "plain"), Req("predicate", "enum"), Req("threshold", "plain"),
    Opt("cred_def_id", "plain")
  >>, "any")

PresentationPreview == Model(<<
    Req("attributes", "modellist"), Req("predicates", "modellist"),
    OptKey("type", "@type", "plain")
  >>, "any")

PublishRevocations == Model(<<
    OptKey("rrid_2_crid", "rrid2crid", "model")
  >>, "any")

QueryResult == Model(<<
    Opt("results", "model")
  >>, "any")

QueryResultResults == Model(<<>>, "model")

RevRegCreateRequest == Model(<<
    Opt("credential_definition_id", "plain"), Opt("max_cred_num", "plain")
  >>, "any")

RevRegsCreated == Model(<<
    Opt("rev_reg_ids", "strlist")
  >>, "any")

RevokeRequest == Model(<<
    Opt("cred_ex_id", "plain"), Opt("cred_rev_id", "plain"),
    Opt("publish", "plain"), Opt("rev_reg_id", "plain")
  >>, "any")

RouteRecord == Model(<<
    Req("recipient_key", "plain"), Opt("connection_id", "plain"),
    Opt("created_at", "plain"), Opt("record_id", "plain"),
    Opt("role", "plain"), Opt("state", "plain"), Opt("updated_at", "plain"),
    Opt("wallet_id", "plain")
  >>, "any")

Schema == Model(<<
    OptKey("attr_names", "attrNames", "strlist"), Opt("id", "plain"),
    Opt("name", "plain"), OptKey("seq_no", "seqNo", "plain"),
    Opt("ver", "plain"), Opt("version", "plain")
  >>, "any")

SchemaGetResults == Model(<<
    Opt("schema", "model")
  >>, "any")

SchemaSendRequest == Model(<<
    Req("attributes", "strlist"), Req("schema_name", "plain"),
    Req("schema_version", "plain")
  >>, "any")

SchemaSendResults == Model(<<
    Req("schema", "model"), Req("schema_id", "plain")
  >>, "any")

SchemasCreatedResults == Model(<<
    Opt("schema_ids", "strlist")
  >>, "any")

Service == Model(<<
    Req("id", "plain"), Req("type", "plain"), Opt("did", "plain"),
    OptKey("recipient_keys", "recipientKeys", "strlist"),
    OptKey("routing_keys", "routingKeys", "strlist"),
    OptKey("service_endpoint", "serviceEndpoint", "plain")
  >>, "any")

TAAAcceptance == Model(<<
    Opt("mechanism", "plain"), Opt("time", "plain")
  >>, "any")

TAAInfo == Model(<<
    Req("aml_record", "model"), Req("taa_record", "model"),
    Req("taa_required", "plain"), Req("taa_accepted", "nullmodel")
  >>, "any")

TAARecord == Model(<<
    Req("digest", "plain"), Req("text", "plain"), Req("version", "plain")
  >>, "any")

TAAResult == Model(<<
    Req("result", "model")
  >>, "any")

V10CredentialCreate == Model(<<
    Req("credential_proposal", "model"), Opt("auto_remove", "plain"),
    OptNullable("comment", "plain"), Opt("cred_def_id", "plain"),
    Opt("issuer_did", "plain"), Opt("schema_id", "plain"),
    Opt("schema_issuer_did", "plain"), Opt("schema_name", "plain"),
    Opt("schema_version", "plain"), Opt("trace", "plain")
  >>, "any")

V10CredentialExchange == Model(<<
    Opt("auto_issue", "plain"), Opt("auto_offer", "plain"),
    Opt("auto_remove", "plain"), Opt("connection_id", "plain"),
    Opt("created_at", "plain"), Opt("credential", "model"),
    Opt("credential_definition_id", "plain"),
    Opt("credential_exchange_id", "plain"), Opt("credential_id", "plain"),
    Opt("credential_offer", "model"), Opt("credential_offer_dict", "model"),
    Opt("credential_proposal_dict", "model"),
    Opt("credential_request", "model"),
    Opt("credential_request_metadata", "model"), Opt("error_msg", "plain"),
    Opt("initiator", "enum"), Opt("parent_thread_id", "plain"),
    Opt("raw_credential", "model"), Opt("revoc_reg_id", "plain"),
    Opt("revocation_id", "plain"), Opt("role", "enum"),
    Opt("schema_id", "plain"), Opt("state", "plain"),
    Opt("thread_id", "plain"), Opt("trace", "plain"),
    Opt("updated_at", "plain")
  >>, "any")

V10CredentialExchangeListResult == Model(<<
    Opt("results", "modellist")
  >>, "any")

V10CredentialOfferRequest == Model(<<
    Req("connection_id", "plain"), Req("cred_def_id", "plain"),
    Req("credential_preview", "model"), Opt("auto_issue", "plain"),
    Opt("auto_remove", "plain"), OptNullable("comment", "plain"),
    Opt("trace", "plain")
  >>, "any")

V10CredentialProblemReportRequest == Model(<<
    Req("explain_ltxt", "plain")
  >>, "any")

V10CredentialStoreRequest == Model(<<
    Opt("credential_id", "plain")
  >>, "any")

V10PresentationExchange == Model(<<
    Opt("auto_present", "plain"), Opt("connection_id", "plain"),
    Opt("created_at", "plain"), Opt("error_msg", "plain"),
    Opt("initiator", "enum"), Opt("presentation", "model"),
    Opt("presentation_exchange_id", "plain"),
    Opt("presentation_proposal_dict", "model"),
    Opt("presentation_request", "model"),
    Opt("presentation_request_dict", "model"), Opt("role", "enum"),
    Opt("state", "plain"), Opt("thread_id", "plain"), Opt("trace", "plain"),
    Opt("updated_at", "plain"), Opt("verified", "enum")
  >>, "any")

V10PresentationProposalRequest == Model(<<
    Req("connection_id", "plain"), Req("presentation_proposal", "model"),
    Opt("auto_present", "plain"), OptNullable("comment", "plain"),
    Opt("trace", "plain")
  >>, "any")

V10PresentationRequest == Model(<<
    Req("requested_attributes", "model"),
    Req("requested_predicates", "model"),
    Req("self_attested_attributes", "model"), Opt("trace", "plain")
  >>, "any")

V10PresentationRequestRequestedAttributes == Model(<<>>, "model")

V10PresentationSendRequestRequest == Model(<<
    Req("connection_id", "plain"), Req("proof_request", "model"),
    OptNullable("comment", "plain"), Opt("trace", "plain")
  >>, "any")

V20CredExRecord == Model(<<
    Opt("auto_issue", "plain"), Opt("auto_offer", "plain"),
    Opt("auto_remove", "plain"), Opt("conn_id", "plain"),
    Opt("created_at", "plain"), Opt("cred_ex_id", "plain"),
    Opt("cred_id_stored", "plain"), Opt("cred_issue", "model"),
    Opt("cred_offer", "model"), Opt("cred_preview", "model"),
    Opt("cred_proposal", "model"), Opt("cred_request", "model"),
    Opt("cred_request_metadata", "model"), Opt("error_msg", "plain"),
    Opt("initiator", "enum"), Opt("parent_thread_id", "plain"),
    Opt("role", "enum"), Opt("state", "enum"), Opt("thread_id", "plain"),
    Opt("trace", "plain"), Opt("updated_at", "plain")
  >>, "any")

V20CredExRecordCredPreview == Model(<<>>, "any")

V20CredExRecordDIF == Model(<<
    Opt("created_at", "plain"), Opt("cred_ex_dif_id", "plain"),
    Opt("cred_ex_id", "plain"), Opt("item", "model"), Opt("state", "plain"),
    Opt("updated_at", "plain")
  >>, "any")

V20CredExRecordIndy == Model(<<
    Opt("created_at", "plain"), Opt("cred_ex_id", "plain"),
    Opt("cred_ex_indy_id", "plain"), Opt("cred_request_metadata", "model"),
    Opt("cred_rev_id", "plain"), Opt("rev_reg_id", "plain"),
    Opt("state", "plain"), Opt("updated_at", "plain")
  >>, "any")

V20CredFilterDIF == Model(<<
    Opt("some_dif_criterion", "plain")
  >>, "any")

V20CredIssueRequest == Model(<<
    OptNullable("comment", "plain")
  >>, "any")

V20CredPreview == Model(<<
    Req("attributes", "modellist"), OptKey("type", "@type", "plain")
  >>, "any")

\* Every model class by name.
AllModels ==
    "AMLRecord" :> AMLRecord
    @@ "AdminAPIMessageTracing" :> AdminAPIMessageTracing
    @@ "AdminMediationDeny" :> AdminMediationDeny
    @@ "AdminModules" :> AdminModules
    @@ "AdminStatusLiveliness" :> AdminStatusLiveliness
    @@ "AdminStatusReadiness" :> AdminStatusReadiness
    @@ "AttachDecoratorData1JWS" :> AttachDecoratorData1JWS
    @@ "AttachDecoratorDataJWS" :> AttachDecoratorDataJWS
    @@ "AttachDecoratorDataJWSHeader" :> AttachDecoratorDataJWSHeader
    @@ "AttachmentDef" :> AttachmentDef
    @@ "ClearPendingRevocationsRequest" :> ClearPendingRevocationsRequest
    @@ "ClearPendingRevocationsRequestPurge" :> ClearPendingRevocationsRequestPurge
    @@ "ConnRecord" :> ConnRecord
    @@ "ConnectionInvitation" :> ConnectionInvitation
    @@ "ConnectionMetadata" :> ConnectionMetadata
    @@ "ConnectionMetadataSetRequest" :> ConnectionMetadataSetRequest
    @@ "ConnectionStaticRequest" :> ConnectionStaticRequest
    @@ "ConnectionStaticResult" :> ConnectionStaticResult
    @@ "CreateInvitationRequest" :> CreateInvitationRequest
    @@ "CredAttrSpec" :> CredAttrSpec @@ "CredBrief" :> CredBrief
    @@ "CredRevokedResult" :> CredRevokedResult
    @@ "CredentialDefinition" :> CredentialDefinition
    @@ "CredentialDefinitionGetResults" :> CredentialDefinitionGetResults
    @@ "CredentialDefinitionSendRequest" :> CredentialDefinitionSendRequest
    @@ "CredentialDefinitionsCreatedResults" :> CredentialDefinitionsCreatedResults
    @@ "CredentialPreview" :> CredentialPreview @@ "DID" :> DID
    @@ "DIDEndpoint" :> DIDEndpoint
    @@ "DIDEndpointWithType" :> DIDEndpointWithType
    @@ "EndpointsResult" :> EndpointsResult @@ "IndyCredInfo" :> IndyCredInfo
    @@ "IndyProofReqAttrSpec" :> IndyProofReqAttrSpec
    @@ "IndyProofReqNonRevoked" :> IndyProofReqNonRevoked
    @@ "IndyProofReqPredSpec" :> IndyProofReqPredSpec
    @@ "IndyProofReqPredSpecRestrictions" :> IndyProofReqPredSpecRestrictions
    @@ "IndyProofRequest" :> IndyProofRequest
    @@ "IndyRequestedCredsRequestedAttr" :> IndyRequestedCredsRequestedAttr
    @@ "IndyRequestedCredsRequestedPred" :> IndyRequestedCredsRequestedPred
    @@ "InvitationCreateRequest" :> InvitationCreateRequest
    @@ "InvitationRecord" :> InvitationRecord
    @@ "InvitationResult" :> InvitationResult
    @@ "KeylistQueryFilterRequest" :> KeylistQueryFilterRequest
    @@ "KeylistQueryPaginate" :> KeylistQueryPaginate
    @@ "KeylistUpdate" :> KeylistUpdate
    @@ "KeylistUpdateRequest" :> KeylistUpdateRequest
    @@ "MediationDeny" :> MediationDeny @@ "MediationGrant" :> MediationGrant
    @@ "MediationRecord" :> MediationRecord @@ "MenuForm" :> MenuForm
    @@ "MenuFormParam" :> MenuFormParam @@ "MenuJson" :> MenuJson
    @@ "MenuOption" :> MenuOption @@ "PerformRequest" :> PerformRequest
    @@ "PingRequestResponse" :> PingRequestResponse
    @@ "PresAttrSpec" :> PresAttrSpec @@ "PresPredSpec" :> PresPredSpec
    @@ "PresentationPreview" :> PresentationPreview
    @@ "PublishRevocations" :> PublishRevocations
    @@ "QueryResult" :> QueryResult
    @@ "QueryResultResults" :> QueryResultResults
    @@ "RevRegCreateRequest" :> RevRegCreateRequest
    @@ "RevRegsCreated" :> RevRegsCreated @@ "RevokeRequest" :> RevokeRequest
    @@ "RouteRecord" :> RouteRecord @@ "Schema" :> Schema
    @@ "SchemaGetResults" :> SchemaGetResults
    @@ "SchemaSendRequest" :> SchemaSendRequest
    @@ "SchemaSendResults" :> SchemaSendResults
    @@ "SchemasCreatedResults" :> SchemasCreatedResults
    @@ "Service" :> Service @@ "TAAAcceptance" :> TAAAcceptance
    @@ "TAAInfo" :> TAAInfo @@ "TAARecord" :> TAARecord
    @@ "TAAResult" :> TAAResult
    @@ "V10CredentialCreate" :> V10CredentialCreate
    @@ "V10CredentialExchange" :> V10CredentialExchange
    @@ "V10CredentialExchangeListResult" :> V10CredentialExchangeListResult
    @@ "V10CredentialOfferRequest" :> V10CredentialOfferRequest
    @@ "V10CredentialProblemReportRequest" :> V10CredentialProblemReportRequest
    @@ "V10CredentialStoreRequest" :> V10CredentialStoreRequest
    @@ "V10PresentationExchange" :> V10PresentationExchange
    @@ "V10PresentationProposalRequest" :> V10PresentationProposalRequest
    @@ "V10PresentationRequest" :> V10PresentationRequest
    @@ "V10PresentationRequestRequestedAttributes" :> V10PresentationRequestRequestedAttributes
    @@ "V10PresentationSendRequestRequest" :> V10PresentationSendRequestRequest
    @@ "V20CredExRecord" :> V20CredExRecord
    @@ "V20CredExRecordCredPreview" :> V20CredExRecordCredPreview
    @@ "V20CredExRecordDIF" :> V20CredExRecordDIF
    @@ "V20CredExRecordIndy" :> V20CredExRecordIndy
    @@ "V20CredFilterDIF" :> V20CredFilterDIF
    @@ "V20CredIssueRequest" :> V20CredIssueRequest
    @@ "V20CredPreview" :> V20CredPreview

=============================================================================
