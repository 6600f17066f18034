----------------------------- MODULE MCOperation -----------------------------
EXTENDS Operation

\* Operations of every shape: a path parameter (alone, before a literal,
\* with a body), enum, bool, str and List[str] query parameters, a 201
\* mapping, no mapping at all, and a response model outside the models
\* package.
MCOps == {"get_connection", "get_connections_conn_id_endpoints", "set_metadata",
          "get_connections", "create_invitation", "get_mediation_requests",
          "post_mediation_requests_mediation_id_grant",
          "get_issue_credential_20_records_cred_ex_id"}

\* Identifiers of the agent's records: non-empty, without "/" or "?".
MCPathValues == {<<"a">>, <<"a", "a">>}

MCStatuses == {200, 201, 404}

\* The mediation operations whose signatures declare defaults.
MCKeylistOps == {"get_mediation_keylists",
                 "post_mediation_keylists_mediation_id_send_keylist_query"}

\* An identifier holding "?" (a schema or credential definition name).
MCUnsafePathValues == {<<"a">>, <<"a", "?">>}

MCRouteOps == {"get_connection", "get_connections_conn_id_endpoints"}

\* Operations with an optional enum and optional str query keywords.
MCEnumOps == {"get_connections", "get_mediation_keylists"}
=============================================================================
