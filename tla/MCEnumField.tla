--------------------------- MODULE MCEnumField ---------------------------
EXTENDS EnumField

\* Every enum class of models/.
MCClasses == DOMAIN AllEnums

\* Strings a body may hold that are no literal: a member name, the
\* Python repr of a member, another class's literal written differently,
\* and the empty string.
MCProbes == {"INVITEE", "ConnRecordTheirRole.INVITEE", "request_sent", "", "true "}
=============================================================================
