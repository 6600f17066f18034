------------------------------ MODULE Endpoints ------------------------------
(***************************************************************************)
(* The operation descriptors of acapy_backchannel/api: one definition per  *)
(* endpoint module, named after it, giving what its _get_kwargs,           *)
(* _parse_response and sync/asyncio functions fix for that operation:      *)
(*   method  the httpx verb of sync_detailed (httpx.<verb>) and of         *)
(*           asyncio_detailed (_client.<verb>), which agree in every file; *)
(*   path    the URL template after "{}" (the base URL), split at "/",     *)
(*           a literal segment as L(word), a placeholder {name} as P(name);*)
(*   query   the query parameters in the order of the params dict: the     *)
(*           keyword, the wire key, the annotation ("str", "bool", "int",  *)
(*           "enum", "strlist") and the default of the signature           *)
(*           (Required when the keyword has none);                         *)
(*   body    the model class of the required json_body keyword, or NoBody; *)
(*   status  the status _parse_response maps, and resp the model it        *)
(*           decodes; NoStatus when the module has no _parse_response and   *)
(*           _build_response sets parsed=None.                             *)
(* The descriptors are data: the behaviour common to all endpoint modules  *)
(* is in Request.tla.                                                      *)
(***************************************************************************)
EXTENDS Models
LOCAL INSTANCE TLC

\* A keyword the signature declares without a default.
Required == "required"
\* No json_body keyword / no decoded model.
NoBody == "nobody"
\* No _parse_response: parsed is always None.
NoStatus == 0

\* A literal path segment and a placeholder.
L(word) == [lit |-> word]
P(name) == [param |-> name]

IsParam(seg) == "param" \in DOMAIN seg

Q(name, wire, kind, default) ==
    [name |-> name, wire |-> wire, kind |-> kind, default |-> default]

Endpoint(method, path, query, body, status, resp) ==
    [method |-> method, path |-> path, query |-> query,
     body |-> body, status |-> status, resp |-> resp]

post_action_menu_conn_id_close ==
    Endpoint("POST", <<L("action-menu"), P("conn_id"), L("close")>>,
             <<>>,
             NoBody, 200, "ActionMenuModulesResult")

post_action_menu_conn_id_perform ==
    Endpoint("POST", <<L("action-menu"), P("conn_id"), L("perform")>>,
             <<>>,
             "PerformRequest", 200, "ActionMenuModulesResult")

post_connections_conn_id_send_message ==
    Endpoint("POST", <<L("connections"), P("conn_id"), L("send-message")>>,
             <<>>,
             "SendMessage", 200, "BasicMessageModuleResponse")

create_invitation ==
    Endpoint("POST", <<L("connections"), L("create-invitation")>>,
             <<Q("alias", "alias", "str", UNSET),
               Q("auto_accept", "auto_accept", "str", UNSET),
               Q("multi_use", "multi_use", "bool", UNSET),
               Q("public", "public", "bool", UNSET)>>,
             "CreateInvitationRequest", 200, "InvitationResult")

create_static ==
    Endpoint("POST", <<L("connections"), L("create-static")>>,
             <<>>,
             "ConnectionStaticRequest", 200, "ConnectionStaticResult")

get_connection ==
    Endpoint("GET", <<L("connections"), P("conn_id")>>,
             <<>>,
             NoBody, 200, "ConnRecord")

get_connections ==
    Endpoint("GET", <<L("connections")>>,
             <<Q("alias", "alias", "str", UNSET),
               Q("invitation_key", "invitation_key", "str", UNSET),
               Q("my_did", "my_did", "str", UNSET),
               Q("state", "state", "enum", UNSET),
               Q("their_did", "their_did", "str", UNSET),
               Q("their_role", "their_role", "enum", UNSET)>>,
             NoBody, 200, "ConnectionList")

get_connections_conn_id_endpoints ==
    Endpoint("GET", <<L("connections"), P("conn_id"), L("endpoints")>>,
             <<>>,
             NoBody, 200, "EndpointsResult")

get_metadata ==
    Endpoint("GET", <<L("connections"), P("conn_id"), L("metadata")>>,
             <<Q("key", "key", "str", UNSET)>>,
             NoBody, 200, "ConnectionMetadata")

post_connections_conn_id_accept_invitation ==
    Endpoint("POST", <<L("connections"), P("conn_id"), L("accept-invitation")>>,
             <<Q("mediation_id", "mediation_id", "str", UNSET),
               Q("my_endpoint", "my_endpoint", "str", UNSET),
               Q("my_label", "my_label", "str", UNSET)>>,
             NoBody, 200, "ConnRecord")

post_connections_conn_id_accept_request ==
    Endpoint("POST", <<L("connections"), P("conn_id"), L("accept-request")>>,
             <<Q("my_endpoint", "my_endpoint", "str", UNSET)>>,
             NoBody, 200, "ConnRecord")

receive_invitation ==
    Endpoint("POST", <<L("connections"), L("receive-invitation")>>,
             <<Q("alias", "alias", "str", UNSET),
               Q("auto_accept", "auto_accept", "str", UNSET),
               Q("mediation_id", "mediation_id", "str", UNSET)>>,
             "ReceiveInvitationRequest", 200, "ConnRecord")

set_metadata ==
    Endpoint("POST", <<L("connections"), P("conn_id"), L("metadata")>>,
             <<>>,
             "ConnectionMetadataSetRequest", 200, "ConnectionMetadata")

get_credential_definitions_created ==
    Endpoint("GET", <<L("credential-definitions"), L("created")>>,
             <<Q("cred_def_id", "cred_def_id", "str", UNSET),
               Q("issuer_did", "issuer_did", "str", UNSET),
               Q("schema_id", "schema_id", "str", UNSET),
               Q("schema_issuer_did", "schema_issuer_did", "str", UNSET),
               Q("schema_name", "schema_name", "str", UNSET),
               Q("schema_version", "schema_version", "str", UNSET)>>,
             NoBody, 200, "CredentialDefinitionsCreatedResults")

get_credential_definitions_cred_def_id ==
    Endpoint("GET", <<L("credential-definitions"), P("cred_def_id")>>,
             <<>>,
             NoBody, 200, "CredentialDefinitionGetResults")

publish_cred_def ==
    Endpoint("POST", <<L("credential-definitions")>>,
             <<>>,
             "CredentialDefinitionSendRequest", 200, "CredentialDefinitionSendResults")

delete_credential_credential_id ==
    Endpoint("DELETE", <<L("credential"), P("credential_id")>>,
             <<>>,
             NoBody, 200, "HolderModuleResponse")

get_credential_credential_id ==
    Endpoint("GET", <<L("credential"), P("credential_id")>>,
             <<>>,
             NoBody, 200, "CredBrief")

get_credential_mime_types_credential_id ==
    Endpoint("GET", <<L("credential"), L("mime-types"), P("credential_id")>>,
             <<>>,
             NoBody, 200, "AttributeMimeTypesResult")

get_credential_revoked_credential_id ==
    Endpoint("GET", <<L("credential"), L("revoked"), P("credential_id")>>,
             <<Q("from_", "from", "str", UNSET),
               Q("to", "to", "str", UNSET)>>,
             NoBody, 200, "CredRevokedResult")

get_credentials ==
    Endpoint("GET", <<L("credentials")>>,
             <<Q("count", "count", "str", UNSET),
               Q("start", "start", "str", UNSET),
               Q("wql", "wql", "str", UNSET)>>,
             NoBody, 200, "CredBriefList")

post_connections_conn_id_start_introduction ==
    Endpoint("POST", <<L("connections"), P("conn_id"), L("start-introduction")>>,
             <<Q("target_connection_id", "target_connection_id", "str", Required),
               Q("message", "message", "str", UNSET)>>,
             NoBody, 200, "IntroModuleResponse")

delete_issue_credential_records_cred_ex_id ==
    Endpoint("DELETE", <<L("issue-credential"), L("records"), P("cred_ex_id")>>,
             <<>>,
             NoBody, 200, "IssueCredentialModuleResponse")

get_issue_credential_records ==
    Endpoint("GET", <<L("issue-credential"), L("records")>>,
             <<Q("connection_id", "connection_id", "str", UNSET),
               Q("role", "role", "enum", UNSET),
               Q("state", "state", "enum", UNSET),
               Q("thread_id", "thread_id", "str", UNSET)>>,
             NoBody, 200, "V10CredentialExchangeListResult")

post_issue_credential_records_cred_ex_id_send_offer ==
    Endpoint("POST", <<L("issue-credential"), L("records"), P("cred_ex_id"), L("send-offer")>>,
             <<>>,
             NoBody, 200, "V10CredentialExchange")

delete_issue_credential_20_records_cred_ex_id ==
    Endpoint("DELETE", <<L("issue-credential-2.0"), L("records"), P("cred_ex_id")>>,
             <<>>,
             NoBody, 200, "V20IssueCredentialModuleResponse")

get_issue_credential_20_records ==
    Endpoint("GET", <<L("issue-credential-2.0"), L("records")>>,
             <<Q("connection_id", "connection_id", "str", UNSET),
               Q("role", "role", "enum", UNSET),
               Q("state", "state", "enum", UNSET),
               Q("thread_id", "thread_id", "str", UNSET)>>,
             NoBody, NoStatus, NoBody)

get_issue_credential_20_records_cred_ex_id ==
    Endpoint("GET", <<L("issue-credential-2.0"), L("records"), P("cred_ex_id")>>,
             <<>>,
             NoBody, NoStatus, NoBody)

post_issue_credential_20_records_cred_ex_id_problem_report ==
    Endpoint("POST", <<L("issue-credential-2.0"), L("records"), P("cred_ex_id"), L("problem-report")>>,
             <<>>,
             "V20CredIssueProblemReportRequest", 200, "V20IssueCredentialModuleResponse")

post_issue_credential_20_records_cred_ex_id_send_request ==
    Endpoint("POST", <<L("issue-credential-2.0"), L("records"), P("cred_ex_id"), L("send-request")>>,
             <<>>,
             NoBody, 200, "V20CredExRecord")

post_issue_credential_20_records_cred_ex_id_store ==
    Endpoint("POST", <<L("issue-credential-2.0"), L("records"), P("cred_ex_id"), L("store")>>,
             <<>>,
             "V20CredStoreRequest", NoStatus, NoBody)

accept_taa ==
    Endpoint("POST", <<L("ledger"), L("taa"), L("accept")>>,
             <<>>,
             "TAAAccept", 200, "LedgerModulesResult")

fetch_taa ==
    Endpoint("GET", <<L("ledger"), L("taa")>>,
             <<>>,
             NoBody, 200, "TAAResult")

get_ledger_did_endpoint ==
    Endpoint("GET", <<L("ledger"), L("did-endpoint")>>,
             <<Q("did", "did", "str", Required),
               Q("endpoint_type", "endpoint_type", "enum", UNSET)>>,
             NoBody, 200, "LedgerModulesResult")

patch_ledger_rotate_public_did_keypair ==
    Endpoint("PATCH", <<L("ledger"), L("rotate-public-did-keypair")>>,
             <<>>,
             NoBody, 200, "LedgerModulesResult")

post_ledger_register_nym ==
    Endpoint("POST", <<L("ledger"), L("register-nym")>>,
             <<Q("did", "did", "str", Required),
               Q("verkey", "verkey", "str", Required),
               Q("alias", "alias", "str", UNSET),
               Q("role", "role", "enum", UNSET)>>,
             NoBody, 200, "LedgerModulesResult")

get_mediation_keylists ==
    Endpoint("GET", <<L("mediation"), L("keylists")>>,
             <<Q("conn_id", "conn_id", "str", UNSET),
               Q("role", "role", "enum", Member)>>,
             NoBody, 200, "Keylist")

get_mediation_requests ==
    Endpoint("GET", <<L("mediation"), L("requests")>>,
             <<Q("conn_id", "conn_id", "str", UNSET),
               Q("mediator_terms", "mediator_terms", "strlist", UNSET),
               Q("recipient_terms", "recipient_terms", "strlist", UNSET),
               Q("state", "state", "enum", UNSET)>>,
             NoBody, 200, "MediationList")

post_mediation_keylists_mediation_id_send_keylist_query ==
    Endpoint("POST", <<L("mediation"), L("keylists"), P("mediation_id"), L("send-keylist-query")>>,
             <<Q("paginate_limit", "paginate_limit", "int", "-1"),
               Q("paginate_offset", "paginate_offset", "int", "0")>>,
             "KeylistQueryFilterRequest", NoStatus, NoBody)

post_mediation_keylists_mediation_id_send_keylist_update ==
    Endpoint("POST", <<L("mediation"), L("keylists"), P("mediation_id"), L("send-keylist-update")>>,
             <<>>,
             "KeylistUpdateRequest", 201, "KeylistUpdate")

post_mediation_requests_mediation_id_deny ==
    Endpoint("POST", <<L("mediation"), L("requests"), P("mediation_id"), L("deny")>>,
             <<>>,
             "AdminMediationDeny", 201, "MediationDeny")

post_mediation_requests_mediation_id_grant ==
    Endpoint("POST", <<L("mediation"), L("requests"), P("mediation_id"), L("grant")>>,
             <<>>,
             NoBody, 201, "MediationGrant")

put_mediation_mediation_id_default_mediator ==
    Endpoint("PUT", <<L("mediation"), P("mediation_id"), L("default-mediator")>>,
             <<>>,
             NoBody, 201, "MediationRecord")

post_out_of_band_create_invitation ==
    Endpoint("POST", <<L("out-of-band"), L("create-invitation")>>,
             <<Q("auto_accept", "auto_accept", "str", UNSET),
               Q("multi_use", "multi_use", "bool", UNSET)>>,
             "InvitationCreateRequest", 200, "InvitationRecord")

delete_present_proof_records_pres_ex_id ==
    Endpoint("DELETE", <<L("present-proof"), L("records"), P("pres_ex_id")>>,
             <<>>,
             NoBody, 200, "PresentProofModuleResponse")

get_present_proof_records ==
    Endpoint("GET", <<L("present-proof"), L("records")>>,
             <<Q("connection_id", "connection_id", "str", UNSET),
               Q("role", "role", "enum", UNSET),
               Q("state", "state", "enum", UNSET),
               Q("thread_id", "thread_id", "str", UNSET)>>,
             NoBody, 200, "V10PresentationExchangeList")

post_present_proof_create_request ==
    Endpoint("POST", <<L("present-proof"), L("create-request")>>,
             <<>>,
             "V10PresentationCreateRequestRequest", 200, "V10PresentationExchange")

post_present_proof_records_pres_ex_id_problem_report ==
    Endpoint("POST", <<L("present-proof"), L("records"), P("pres_ex_id"), L("problem-report")>>,
             <<>>,
             "V10PresentationProblemReportRequest", 200, "PresentProofModuleResponse")

post_present_proof_records_pres_ex_id_send_request ==
    Endpoint("POST", <<L("present-proof"), L("records"), P("pres_ex_id"), L("send-request")>>,
             <<>>,
             "AdminAPIMessageTracing", 200, "V10PresentationExchange")

post_present_proof_records_pres_ex_id_verify_presentation ==
    Endpoint("POST", <<L("present-proof"), L("records"), P("pres_ex_id"), L("verify-presentation")>>,
             <<>>,
             NoBody, 200, "V10PresentationExchange")

get_revocation_active_registry_cred_def_id ==
    Endpoint("GET", <<L("revocation"), L("active-registry"), P("cred_def_id")>>,
             <<>>,
             NoBody, 200, "RevRegResult")

get_revocation_credential_record ==
    Endpoint("GET", <<L("revocation"), L("credential-record")>>,
             <<Q("cred_ex_id", "cred_ex_id", "str", UNSET),
               Q("cred_rev_id", "cred_rev_id", "str", UNSET),
               Q("rev_reg_id", "rev_reg_id", "str", UNSET)>>,
             NoBody, 200, "CredRevRecordResult")

get_revocation_registries_created ==
    Endpoint("GET", <<L("revocation"), L("registries"), L("created")>>,
             <<Q("cred_def_id", "cred_def_id", "str", UNSET),
               Q("state", "state", "enum", UNSET)>>,
             NoBody, 200, "RevRegsCreated")

get_revocation_registry_rev_reg_id_issued ==
    Endpoint("GET", <<L("revocation"), L("registry"), P("rev_reg_id"), L("issued")>>,
             <<>>,
             NoBody, 200, "RevRegIssuedResult")

patch_revocation_registry_rev_reg_id ==
    Endpoint("PATCH", <<L("revocation"), L("registry"), P("rev_reg_id")>>,
             <<>>,
             "RevRegUpdateTailsFileUri", 200, "RevRegResult")

patch_revocation_registry_rev_reg_id_set_state ==
    Endpoint("PATCH", <<L("revocation"), L("registry"), P("rev_reg_id"), L("set-state")>>,
             <<Q("state", "state", "enum", Required)>>,
             NoBody, 200, "RevRegResult")

post_revocation_registry_rev_reg_id_entry ==
    Endpoint("POST", <<L("revocation"), L("registry"), P("rev_reg_id"), L("entry")>>,
             <<>>,
             NoBody, 200, "RevRegResult")

put_revocation_registry_rev_reg_id_tails_file ==
    Endpoint("PUT", <<L("revocation"), L("registry"), P("rev_reg_id"), L("tails-file")>>,
             <<>>,
             NoBody, 200, "RevocationModuleResponse")

revoke_credential ==
    Endpoint("POST", <<L("revocation"), L("revoke")>>,
             <<>>,
             "RevokeRequest", 200, "RevocationModuleResponse")

get_schemas_created ==
    Endpoint("GET", <<L("schemas"), L("created")>>,
             <<Q("schema_id", "schema_id", "str", UNSET),
               Q("schema_issuer_did", "schema_issuer_did", "str", UNSET),
               Q("schema_name", "schema_name", "str", UNSET),
               Q("schema_version", "schema_version", "str", UNSET)>>,
             NoBody, 200, "SchemasCreatedResults")

get_schemas_schema_id ==
    Endpoint("GET", <<L("schemas"), P("schema_id")>>,
             <<>>,
             NoBody, 200, "SchemaGetResults")

publish_schema ==
    Endpoint("POST", <<L("schemas")>>,
             <<>>,
             "SchemaSendRequest", 200, "SchemaSendResults")

get_features ==
    Endpoint("GET", <<L("features")>>,
             <<Q("query", "query", "str", UNSET)>>,
             NoBody, 200, "QueryResult")

get_plugins ==
    Endpoint("GET", <<L("plugins")>>,
             <<>>,
             NoBody, 200, "AdminModules")

get_shutdown ==
    Endpoint("GET", <<L("shutdown")>>,
             <<>>,
             NoBody, 200, "AdminShutdown")

get_status ==
    Endpoint("GET", <<L("status")>>,
             <<>>,
             NoBody, 200, "AdminStatus")

get_status_ready ==
    Endpoint("GET", <<L("status"), L("ready")>>,
             <<>>,
             NoBody, 200, "AdminStatusReadiness")

post_connections_conn_id_send_ping ==
    Endpoint("POST", <<L("connections"), P("conn_id"), L("send-ping")>>,
             <<>>,
             "PingRequest", 200, "PingRequestResponse")

get_wallet_did ==
    Endpoint("GET", <<L("wallet"), L("did")>>,
             <<Q("did", "did", "str", UNSET),
               Q("posture", "posture", "enum", UNSET),
               Q("verkey", "verkey", "str", UNSET)>>,
             NoBody, 200, "DIDList")

get_wallet_did_public ==
    Endpoint("GET", <<L("wallet"), L("did"), L("public")>>,
             <<>>,
             NoBody, 200, "DIDResult")

get_wallet_get_did_endpoint ==
    Endpoint("GET", <<L("wallet"), L("get-did-endpoint")>>,
             <<Q("did", "did", "str", Required)>>,
             NoBody, 200, "DIDEndpoint")

patch_wallet_did_local_rotate_keypair ==
    Endpoint("PATCH", <<L("wallet"), L("did"), L("local"), L("rotate-keypair")>>,
             <<Q("did", "did", "str", Required)>>,
             NoBody, 200, "WalletModuleResponse")

set_public_did ==
    Endpoint("POST", <<L("wallet"), L("did"), L("public")>>,
             <<Q("did", "did", "str", Required)>>,
             NoBody, 200, "DIDResult")

AllEndpoints ==
    "post_action_menu_conn_id_close" :> post_action_menu_conn_id_close
    @@ "post_action_menu_conn_id_perform" :> post_action_menu_conn_id_perform
    @@ "post_connections_conn_id_send_message" :> post_connections_conn_id_send_message
    @@ "create_invitation" :> create_invitation
    @@ "create_static" :> create_static
    @@ "get_connection" :> get_connection
    @@ "get_connections" :> get_connections
    @@ "get_connections_conn_id_endpoints" :> get_connections_conn_id_endpoints
    @@ "get_metadata" :> get_metadata
    @@ "post_connections_conn_id_accept_invitation" :> post_connections_conn_id_accept_invitation
    @@ "post_connections_conn_id_accept_request" :> post_connections_conn_id_accept_request
    @@ "receive_invitation" :> receive_invitation
    @@ "set_metadata" :> set_metadata
    @@ "get_credential_definitions_created" :> get_credential_definitions_created
    @@ "get_credential_definitions_cred_def_id" :> get_credential_definitions_cred_def_id
    @@ "publish_cred_def" :> publish_cred_def
    @@ "delete_credential_credential_id" :> delete_credential_credential_id
    @@ "get_credential_credential_id" :> get_credential_credential_id
    @@ "get_credential_mime_types_credential_id" :> get_credential_mime_types_credential_id
    @@ "get_credential_revoked_credential_id" :> get_credential_revoked_credential_id
    @@ "get_credentials" :> get_credentials
    @@ "post_connections_conn_id_start_introduction" :> post_connections_conn_id_start_introduction
    @@ "delete_issue_credential_records_cred_ex_id" :> delete_issue_credential_records_cred_ex_id
    @@ "get_issue_credential_records" :> get_issue_credential_records
    @@ "post_issue_credential_records_cred_ex_id_send_offer" :> post_issue_credential_records_cred_ex_id_send_offer
    @@ "delete_issue_credential_20_records_cred_ex_id" :> delete_issue_credential_20_records_cred_ex_id
    @@ "get_issue_credential_20_records" :> get_issue_credential_20_records
    @@ "get_issue_credential_20_records_cred_ex_id" :> get_issue_credential_20_records_cred_ex_id
    @@ "post_issue_credential_20_records_cred_ex_id_problem_report" :> post_issue_credential_20_records_cred_ex_id_problem_report
    @@ "post_issue_credential_20_records_cred_ex_id_send_request" :> post_issue_credential_20_records_cred_ex_id_send_request
    @@ "post_issue_credential_20_records_cred_ex_id_store" :> post_issue_credential_20_records_cred_ex_id_store
    @@ "accept_taa" :> accept_taa
    @@ "fetch_taa" :> fetch_taa
    @@ "get_ledger_did_endpoint" :> get_ledger_did_endpoint
    @@ "patch_ledger_rotate_public_did_keypair" :> patch_ledger_rotate_public_did_keypair
    @@ "post_ledger_register_nym" :> post_ledger_register_nym
    @@ "get_mediation_keylists" :> get_mediation_keylists
    @@ "get_mediation_requests" :> get_mediation_requests
    @@ "post_mediation_keylists_mediation_id_send_keylist_query" :> post_mediation_keylists_mediation_id_send_keylist_query
    @@ "post_mediation_keylists_mediation_id_send_keylist_update" :> post_mediation_keylists_mediation_id_send_keylist_update
    @@ "post_mediation_requests_mediation_id_deny" :> post_mediation_requests_mediation_id_deny
    @@ "post_mediation_requests_mediation_id_grant" :> post_mediation_requests_mediation_id_grant
    @@ "put_mediation_mediation_id_default_mediator" :> put_mediation_mediation_id_default_mediator
    @@ "post_out_of_band_create_invitation" :> post_out_of_band_create_invitation
    @@ "delete_present_proof_records_pres_ex_id" :> delete_present_proof_records_pres_ex_id
    @@ "get_present_proof_records" :> get_present_proof_records
    @@ "post_present_proof_create_request" :> post_present_proof_create_request
    @@ "post_present_proof_records_pres_ex_id_problem_report" :> post_present_proof_records_pres_ex_id_problem_report
    @@ "post_present_proof_records_pres_ex_id_send_request" :> post_present_proof_records_pres_ex_id_send_request
    @@ "post_present_proof_records_pres_ex_id_verify_presentation" :> post_present_proof_records_pres_ex_id_verify_presentation
    @@ "get_revocation_active_registry_cred_def_id" :> get_revocation_active_registry_cred_def_id
    @@ "get_revocation_credential_record" :> get_revocation_credential_record
    @@ "get_revocation_registries_created" :> get_revocation_registries_created
    @@ "get_revocation_registry_rev_reg_id_issued" :> get_revocation_registry_rev_reg_id_issued
    @@ "patch_revocation_registry_rev_reg_id" :> patch_revocation_registry_rev_reg_id
    @@ "patch_revocation_registry_rev_reg_id_set_state" :> patch_revocation_registry_rev_reg_id_set_state
    @@ "post_revocation_registry_rev_reg_id_entry" :> post_revocation_registry_rev_reg_id_entry
    @@ "put_revocation_registry_rev_reg_id_tails_file" :> put_revocation_registry_rev_reg_id_tails_file
    @@ "revoke_credential" :> revoke_credential
    @@ "get_schemas_created" :> get_schemas_created
    @@ "get_schemas_schema_id" :> get_schemas_schema_id
    @@ "publish_schema" :> publish_schema
    @@ "get_features" :> get_features
    @@ "get_plugins" :> get_plugins
    @@ "get_shutdown" :> get_shutdown
    @@ "get_status" :> get_status
    @@ "get_status_ready" :> get_status_ready
    @@ "post_connections_conn_id_send_ping" :> post_connections_conn_id_send_ping
    @@ "get_wallet_did" :> get_wallet_did
    @@ "get_wallet_did_public" :> get_wallet_did_public
    @@ "get_wallet_get_did_endpoint" :> get_wallet_get_did_endpoint
    @@ "patch_wallet_did_local_rotate_keypair" :> patch_wallet_did_local_rotate_keypair
    @@ "set_public_did" :> set_public_did

=============================================================================
