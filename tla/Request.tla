------------------------------- MODULE Request -------------------------------
(***************************************************************************)
(* What every endpoint module of acapy_backchannel/api does with its       *)
(* descriptor (Endpoints.tla): _get_kwargs turns the caller's keywords     *)
(* into the keyword arguments of the httpx call, httpx encodes them into   *)
(* the request the agent receives, and _parse_response / _build_response  *)
(* turn the agent's answer into a Response.                                *)
(*                                                                         *)
(* Python values are represented by strings so that any two can be        *)
(* compared: a str argument is "" or "s1", a bool "True" or "False", an    *)
(* int its decimal digits, an enum argument the member Member (whose      *)
(* .value is Lit), a List[str] argument "[]" or "['s1']".  A path argument *)
(* is a tuple of characters, so that the URL it is pasted into can be      *)
(* split at "/" and "?" the way the agent's router splits it.  The         *)
(* caller's keywords are a function whose domain is the keywords passed.   *)
(***************************************************************************)
EXTENDS Endpoints
LOCAL INSTANCE Sequences
LOCAL INSTANCE SequencesExt
LOCAL INSTANCE Functions
LOCAL INSTANCE Naturals

\* client.base_url, a single URL token, and the two characters that
\* structure a URL path.
BaseUrl == "base"
Slash == "/"
QMark == "?"

\* The items of the List[str] values.
ListItems == ("[]" :> <<>>) @@ ("['s1']" :> <<"s1">>)

PathParams(e) == {e.path[i].param : i \in {j \in DOMAIN e.path : IsParam(e.path[j])}}

QueryNames(e) == {e.query[i].name : i \in DOMAIN e.query}

Keywords(e) ==
    PathParams(e) \cup QueryNames(e) \cup (IF e.body = NoBody THEN {} ELSE {"json_body"})

(***************************************************************************)
(* _get_kwargs                                                             *)
(***************************************************************************)
\* Python binds the keywords before the function body runs: a keyword the
\* signature declares without a default and the caller does not pass is a
\* TypeError.
MissingKeyword(e, args) ==
    \/ \E n \in PathParams(e) : n \notin DOMAIN args
    \/ \E i \in DOMAIN e.query :
          e.query[i].default = Required /\ e.query[i].name \notin DOMAIN args
    \/ e.body # NoBody /\ "json_body" \notin DOMAIN args

\* The value the keyword is bound to: the caller's, or the default.
Bound(q, args) == IF q.name \in DOMAIN args THEN args[q.name] ELSE q.default

\* Mutant of Converted: the enum keyword passed on without .value.
ConvertedNoValue(q, v) == v

\* json_x = x.value, guarded by `if not isinstance(x, Unset)` when the
\* keyword is optional; other values are used as they are.
Converted(q, v) == IF q.kind = "enum" /\ v = Member THEN Lit ELSE v

\* Mutant of Url: a template that lacks the "/" after a placeholder,
\* "{}/a/{p}b".
UrlMissingSlash(e, args) ==
    <<BaseUrl>> \o
    FlattenSeq([i \in DOMAIN e.path |->
                  (IF i > 1 /\ IsParam(e.path[i - 1]) THEN <<>> ELSE <<Slash>>)
                  \o (IF IsParam(e.path[i]) THEN args[e.path[i].param]
                      ELSE <<e.path[i].lit>>)])

\* url = "{}/a/{p}/b".format(client.base_url, p=p): each value is pasted
\* in as it is.
Url(e, args) ==
    <<BaseUrl>> \o
    FlattenSeq([i \in DOMAIN e.path |->
                  <<Slash>> \o (IF IsParam(e.path[i]) THEN args[e.path[i].param]
                                ELSE <<e.path[i].lit>>)])

\* params = {k: v for k, v in params.items() if v is not UNSET and v is not None}
Kept(v) == v # UNSET /\ v # Null

\* httpx's primitive_value_to_str: True -> "true", False -> "false", an int
\* by str(), a str as it is.
WireText(kind, v) ==
    IF kind = "bool" THEN IF v = "True" THEN "true" ELSE "false" ELSE v

\* httpx encodes a list value as one key=value pair per item, so [] as none.
Pairs(q, v) ==
    IF q.kind = "strlist"
    THEN [i \in DOMAIN ListItems[v] |-> <<q.wire, ListItems[v][i]>>]
    ELSE << <<q.wire, WireText(q.kind, v)>> >>

QueryPairs(e, vals) ==
    FlattenSeq([i \in DOMAIN e.query |->
                  IF Kept(vals[i]) THEN Pairs(e.query[i], vals[i]) ELSE <<>>])

\* json_json_body = json_body.to_dict(); no "json" keyword is NoJson.  A
\* body class that is not part of the models package is abstracted to an
\* opaque object.
NoJson == [k \in {} |-> Null]
OpaqueJson == [k \in {"*"} |-> Obj]
ToDictOf(m, inst) ==
    IF m \in DOMAIN AllModels THEN Encode(AllModels[m], inst) ELSE OpaqueJson

\* The kwargs and the verb: the request the agent receives.
Raise(x) == [err |-> x]

\* An enum keyword bound to None: `if not isinstance(x, Unset)` lets it
\* through and x.value raises AttributeError (a str keyword bound to None
\* is dropped by the params filter instead).
EnumOfNone(e, args) ==
    \E i \in DOMAIN e.query : e.query[i].kind = "enum" /\ Bound(e.query[i], args) = Null

\* The call forms a module defines: one without _parse_response has only
\* sync_detailed and asyncio_detailed.
FormsOf(e) ==
    IF e.status = NoStatus THEN {"sync_detailed", "asyncio_detailed"}
    ELSE {"sync", "sync_detailed", "asyncio", "asyncio_detailed"}

Request(e, args, timeout) ==
    LET vals == [i \in DOMAIN e.query |-> Converted(e.query[i], Bound(e.query[i], args))]
    IN [method |-> e.method, url |-> Url(e, args),
        params |-> QueryPairs(e, vals),
        json |-> IF e.body = NoBody THEN NoJson ELSE ToDictOf(e.body, args["json_body"]),
        timeout |-> timeout]

GetKwargs(e, args, timeout) ==
    CASE MissingKeyword(e, args) -> Raise("TypeError")
      [] EnumOfNone(e, args) -> Raise("AttributeError")
      [] OTHER -> [err |-> "none", req |-> Request(e, args, timeout)]

(***************************************************************************)
(* _parse_response and _build_response                                     *)
(***************************************************************************)
\* A response body: a JSON document holding the object obj, or text that
\* is not JSON.
Content(isJson, obj) == [isJson |-> isJson, obj |-> obj]
NotJson == Content(FALSE, EmptyDict)

\* Response.parsed: the decoded instance, or None.
Parsed(inst) == [some |-> TRUE, inst |-> inst]
NoneParsed == [some |-> FALSE, inst |-> NoInstance]

\* X.from_dict(response.json()); a response class that is not part of the
\* models package accepts the object.
FromDictResp(m, obj) ==
    IF m \in DOMAIN AllModels
    THEN LET d == Decode(AllModels[m], obj)
         IN [err |-> d.err, parsed |-> Parsed(d.inst)]
    ELSE [err |-> "none", parsed |-> Parsed(NoInstance)]

\* Mutant of ParseResponse: the status test fixed at 200, whatever code
\* the operation maps.
ParseResponse200(e, status, content) ==
    IF e.status # NoStatus /\ status = 200
    THEN IF content.isJson THEN FromDictResp(e.resp, content.obj)
         ELSE Raise("JSONDecodeError")
    ELSE [err |-> "none", parsed |-> NoneParsed]

\* if response.status_code == 200: return X.from_dict(response.json());
\* return None.  response.json() raises JSONDecodeError on a body that is
\* not JSON.
ParseResponse(e, status, content) ==
    IF e.status # NoStatus /\ status = e.status
    THEN IF content.isJson THEN FromDictResp(e.resp, content.obj)
         ELSE Raise("JSONDecodeError")
    ELSE [err |-> "none", parsed |-> NoneParsed]

\* Response(status_code, content, headers, parsed=_parse_response(...)).
BuildResponse(e, status, content) ==
    LET p == ParseResponse(e, status, content)
    IN IF p.err # "none" THEN Raise(p.err)
       ELSE [err |-> "none",
             resp |-> [status |-> status, content |-> content, parsed |-> p.parsed]]

(***************************************************************************)
(* The calls offered to an endpoint and the answers of the agent.          *)
(*                                                                         *)
(* A call passes every keyword without a default (each path parameter at   *)
(* each value of pathValues, the required query parameters, a body built   *)
(* by from_dict from a valid object) and, one at a time, one optional      *)
(* query keyword at each value its annotation admits, UNSET, or None;      *)
(* or it leaves out one keyword without a default.  The query keywords    *)
(* are converted and filtered one by one, so one at a time reaches every  *)
(* case.                                                                   *)
(***************************************************************************)
ArgValues(q) ==
    CASE q.kind = "str" -> {"", "s1", UNSET, Null}
      [] q.kind = "bool" -> {"True", "False", UNSET, Null}
      [] q.kind = "int" -> {"0", "5", UNSET, Null}
      [] q.kind = "enum" -> {Member, UNSET, Null}
      [] q.kind = "strlist" -> {"[]", "['s1']", UNSET, Null}

BodyArg(e) ==
    IF e.body \in DOMAIN AllModels
    THEN Decode(AllModels[e.body], Base(AllModels[e.body], FALSE)).inst
    ELSE NoInstance

RequiredArgs(e, p) ==
    [n \in PathParams(e) |-> p]
    @@ [n \in {e.query[i].name : i \in {j \in DOMAIN e.query : e.query[j].default = Required}} |->
          IF \E i \in DOMAIN e.query : e.query[i].name = n /\ e.query[i].kind = "enum"
          THEN Member ELSE "s1"]
    @@ (IF e.body = NoBody THEN <<>> ELSE "json_body" :> BodyArg(e))

Calls(e, pathValues) ==
    LET base(p) == RequiredArgs(e, p)
        p0 == CHOOSE p \in pathValues : TRUE
    IN  {base(p) : p \in pathValues}
        \cup UNION {{(e.query[i].name :> v) @@ base(p0) : v \in ArgValues(e.query[i])} :
                      i \in {j \in DOMAIN e.query : e.query[j].default # Required}}
        \cup {Restrict(base(p0), DOMAIN base(p0) \ {k}) : k \in DOMAIN base(p0)}

\* The agent answers with a status and a body, or the transport fails.
TransportErrors == {"ConnectError", "ReadTimeout"}
NoAnswer == [kind |-> "none", status |-> 0, content |-> NotJson]

Objects(m) ==
    IF m \in DOMAIN AllModels THEN {Base(AllModels[m], FALSE), EmptyDict} ELSE {EmptyDict}

Answers(e, statuses) ==
    {[kind |-> "response", status |-> s, content |-> c] :
        s \in statuses, c \in {NotJson} \cup {Content(TRUE, o) : o \in Objects(e.resp)}}
    \cup {[kind |-> x, status |-> 0, content |-> NotJson] : x \in TransportErrors}

=============================================================================
