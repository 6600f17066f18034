---------------------------- MODULE MCTestSession ----------------------------
EXTENDS TestSession
LOCAL INSTANCE TLC

\* The status codes of a failing agent: success, not found, server error.
MCStatuses == {200, 404, 500}

\* The package with a delete_connection module, which test_invitations.py
\* imports: the DELETE /connections/{conn_id} operation of the agent's admin
\* API, in the shape every generated module has.  Its file is not among the
\* sources, like client.py, types.py and the response classes that present
\* modules import (connection_list.py, keylist.py, mediation_list.py).
MCApi == AllEndpoints @@
    ("delete_connection" :>
        Endpoint("DELETE", <<L("connections"), P("conn_id")>>, <<>>, NoBody, 200,
                 "ConnectionModuleResponse"))

====
