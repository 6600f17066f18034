------------------------------ MODULE Operation ------------------------------
(***************************************************************************)
(* One caller of the endpoint functions of acapy_backchannel/api, call     *)
(* after call.  A call goes through the steps of the generated code:       *)
(*                                                                         *)
(*   sync_detailed / sync:   kwargs = _get_kwargs(...)                     *)
(*                           response = httpx.<verb>( **kwargs)             *)
(*                           return _build_response(response)[.parsed]     *)
(*   asyncio_detailed / asyncio:                                           *)
(*                           kwargs = _get_kwargs(...)                     *)
(*                           async with httpx.AsyncClient() as _client:    *)
(*                               response = await _client.<verb>( **kwargs) *)
(*                           return _build_response(response)[.parsed]     *)
(*                                                                         *)
(* pc: "idle" before the first call; "sent" while the request is with the *)
(* agent; "exiting" while the async with block is left (normally or by    *)
(* the transport's exception); "received" once the response is in hand;    *)
(* "returned" or "raised" when the call is over.  The agent's answer is    *)
(* the environment's choice: any status of Statuses with any body, or a   *)
(* transport error.                                                        *)
(***************************************************************************)
EXTENDS Request
LOCAL INSTANCE Sequences
LOCAL INSTANCE Naturals

CONSTANTS
    Ops,            \* the endpoint modules called, a subset of DOMAIN AllEndpoints
    PathValues,     \* the path-parameter values callers pass (character tuples)
    Statuses,       \* the status codes the agent answers with
    ClientTimeout   \* client.get_timeout()

ASSUME Ops \subseteq DOMAIN AllEndpoints

VARIABLES
    pc,         \* the caller's position in the current call
    call,       \* [op, form, args] of the current call
    req,        \* the request the agent received (method, url, params, json, timeout)
    answer,     \* the agent's answer, or NoAnswer before it
    aclient,    \* the httpx.AsyncClient of an asyncio call: "none", "open", "closed"
    result,     \* what the call returned
    exc         \* the exception the call raised, or "none"

vars == <<pc, call, req, answer, aclient, result, exc>>

E(o) == AllEndpoints[o]

Forms == {"sync", "sync_detailed", "asyncio", "asyncio_detailed"}
Async == {"asyncio", "asyncio_detailed"}
Detailed == {"sync_detailed", "asyncio_detailed"}
NoRequest == [method |-> "none"]
NoCall == [op |-> "none", form |-> "none", args |-> <<>>]
NoResult == [parsed |-> NoneParsed]

\* sync and asyncio return response.parsed; the _detailed forms the Response.
Returned(form, r) == IF form \in Detailed THEN r ELSE [parsed |-> r.parsed]

Init ==
    /\ pc = "idle"
    /\ call = NoCall
    /\ req = NoRequest
    /\ answer = NoAnswer
    /\ aclient = "none"
    /\ result = NoResult
    /\ exc = "none"

\* The call up to the send: _get_kwargs (a missing keyword raises before
\* it runs), for asyncio the AsyncClient entered, then the request sent.
Invoke ==
    /\ pc = "idle"
    /\ \E o \in Ops : \E f \in FormsOf(E(o)) : \E a \in Calls(E(o), PathValues) :
         LET k == GetKwargs(E(o), a, ClientTimeout) IN
         /\ call' = [op |-> o, form |-> f, args |-> a]
         /\ answer' = NoAnswer
         /\ result' = NoResult
         /\ IF k.err # "none"
            THEN /\ pc' = "raised" /\ exc' = k.err
                 /\ req' = NoRequest /\ aclient' = "none"
            ELSE /\ pc' = "sent" /\ exc' = "none" /\ req' = k.req
                 /\ aclient' = IF f \in Async THEN "open" ELSE "none"

\* Mutant of Exchange: the AsyncClient closed by a statement after the
\* await instead of by async with, so a transport error skips the close.
ExchangeNoExit ==
    /\ pc = "sent"
    /\ \E ans \in Answers(E(call.op), Statuses) :
         /\ answer' = ans
         /\ IF ans.kind \in TransportErrors
            THEN pc' = "raised" /\ exc' = ans.kind
            ELSE /\ pc' = IF call.form \in Async THEN "exiting" ELSE "received"
                 /\ UNCHANGED exc
    /\ UNCHANGED <<call, req, aclient, result>>

\* The blocking / awaited httpx call returns with ans, or raises it.
Delivered(ans) ==
    /\ answer' = ans
    /\ IF call.form \in Async THEN pc' = "exiting" /\ UNCHANGED exc
       ELSE IF ans.kind \in TransportErrors
            THEN pc' = "raised" /\ exc' = ans.kind
            ELSE pc' = "received" /\ UNCHANGED exc
    /\ UNCHANGED <<call, req, aclient, result>>

\* The agent answers, or the connection fails: the httpx call completes
\* with a response or the transport's exception, which for sync_detailed
\* propagates at once and for asyncio_detailed leaves the async with block
\* first.  The agent may also never answer.
Exchange ==
    /\ pc = "sent"
    /\ \E ans \in Answers(E(call.op), Statuses) :
         ans.kind # "ReadTimeout" /\ Delivered(ans)

\* httpx's read timeout (the "timeout" keyword, client.get_timeout())
\* expires while the agent has not answered.
TimeOut ==
    /\ pc = "sent"
    /\ Delivered([kind |-> "ReadTimeout", status |-> 0, content |-> NotJson])

\* AsyncClient.__aexit__: the client is closed, then a pending exception
\* propagates.
AExit ==
    /\ pc = "exiting"
    /\ aclient' = "closed"
    /\ IF answer.kind \in TransportErrors
       THEN pc' = "raised" /\ exc' = answer.kind
       ELSE pc' = "received" /\ UNCHANGED exc
    /\ UNCHANGED <<call, req, answer, result>>

\* return _build_response(response=response), or its .parsed.
Complete ==
    /\ pc = "received"
    /\ LET b == BuildResponse(E(call.op), answer.status, answer.content) IN
         IF b.err # "none"
         THEN pc' = "raised" /\ exc' = b.err /\ UNCHANGED result
         ELSE pc' = "returned" /\ result' = Returned(call.form, b.resp)
              /\ UNCHANGED exc
    /\ UNCHANGED <<call, req, answer, aclient>>

\* The call is over and the caller moves on: nothing of it is kept.
Discard ==
    /\ pc \in {"returned", "raised"}
    /\ pc' = "idle"
    /\ call' = NoCall
    /\ req' = NoRequest
    /\ answer' = NoAnswer
    /\ aclient' = "none"
    /\ result' = NoResult
    /\ exc' = "none"

Next == Invoke \/ Exchange \/ TimeOut \/ AExit \/ Complete \/ Discard

Spec == Init /\ [][Next]_vars

(***************************************************************************)
(* Properties.                                                             *)
(***************************************************************************)
\* The text httpx puts in a query string for the values callers pass.
WireValues == {"", "s1", "0", "5", "-1", "true", "false", Lit}

TypeOK ==
    /\ pc \in {"idle", "sent", "exiting", "received", "returned", "raised"}
    /\ call = NoCall \/ (call.op \in Ops /\ call.form \in Forms)
    /\ aclient \in {"none", "open", "closed"}
    /\ exc \in {"none", "JSONDecodeError"} \cup Errors \cup TransportErrors
    /\ pc \in {"sent", "exiting", "received"} =>
          /\ req.method = E(call.op).method
          /\ \A i \in DOMAIN req.params : req.params[i][2] \in WireValues

(***************************************************************************)
(* AsyncClientClosed (spec 5, "each call constructs and discards its own   *)
(* request/response objects"): an asyncio call never returns or raises    *)
(* with its AsyncClient still open -- also when the await raised a         *)
(* transport error -- so no connection pool outlives the call.             *)
(***************************************************************************)
AsyncClientClosed ==
    pc \in {"returned", "raised"} /\ call.form \in Async /\ req # NoRequest
        => aclient = "closed"

(***************************************************************************)
(* Implements: every behaviour of the staged sync and asyncio code is a    *)
(* behaviour of the operation contract of OperationContract.tla (spec      *)
(* 4.1, 4.2, 7).  The in-flight positions are the contract's "waiting";    *)
(* the answer becomes visible when the call is over.                       *)
(***************************************************************************)
Contract == INSTANCE OperationContract WITH
    pc <- IF pc \in {"sent", "exiting", "received"} THEN "waiting" ELSE pc,
    sent <- req,
    answer <- IF pc \in {"sent", "exiting", "received"} THEN NoAnswer ELSE answer

Implements == Contract!Spec

(***************************************************************************)
(* NoneTolerated (spec 4.1 step 3: only "not provided" and absent values   *)
(* are dropped, and the omittable parameters are independent of each      *)
(* other): a call fails before sending only for a keyword it did not pass; *)
(* None given to an optional query keyword, of whatever annotation, is     *)
(* dropped like it is for a str keyword.                                   *)
(***************************************************************************)
NoneTolerated ==
    pc = "raised" /\ req = NoRequest => MissingKeyword(E(call.op), call.args)

(***************************************************************************)
(* The agent's router (aiohttp): the path is the URL up to the first "?",  *)
(* split at "/"; a literal segment matches itself and a {name} segment     *)
(* matches any one non-empty segment.                                      *)
(***************************************************************************)
RECURSIVE SplitAt(_, _)
SplitAt(s, c) ==
    IF \A i \in DOMAIN s : s[i] # c THEN <<s>>
    ELSE LET i == CHOOSE i \in DOMAIN s : s[i] = c /\ \A j \in 1..(i - 1) : s[j] # c
         IN <<SubSeq(s, 1, i - 1)>> \o SplitAt(SubSeq(s, i + 1, Len(s)), c)

PathPart(url) == SplitAt(url, QMark)[1]

\* url is <<BaseUrl, "/", ...>>: the segments after the base URL.
Segments(url) == Tail(SplitAt(Tail(PathPart(url)), Slash))

Matches(e, segs) ==
    /\ Len(segs) = Len(e.path)
    /\ \A i \in DOMAIN segs :
          IF IsParam(e.path[i]) THEN segs[i] # <<>> ELSE segs[i] = <<e.path[i].lit>>

Routes(method, url) == {o \in Ops : E(o).method = method /\ Matches(E(o), Segments(url))}

RouteArgs(e, segs) ==
    [n \in PathParams(e) |-> segs[CHOOSE i \in DOMAIN e.path : e.path[i] = P(n)]]

(***************************************************************************)
(* UrlRoutesBack (spec 4.1 step 1 and the example of spec 8): the request  *)
(* _get_kwargs builds reaches, through the agent's router, the operation   *)
(* the caller invoked and no other, with the path arguments the caller     *)
(* passed.                                                                 *)
(***************************************************************************)
UrlRoutesBack ==
    req # NoRequest =>
        /\ Routes(req.method, req.url) = {call.op}
        /\ RouteArgs(E(call.op), Segments(req.url)) =
             [n \in PathParams(E(call.op)) |-> call.args[n]]

(***************************************************************************)
(* SpecOmissionLaw (spec 4.1 and 8, as written): a query parameter the     *)
(* caller does not pass never appears in the request, and one passed with *)
(* a falsy value ("", 0, False) always appears.                           *)
(***************************************************************************)
SpecOmissionLaw ==
    req # NoRequest =>
        \A j \in DOMAIN E(call.op).query :
            LET q == E(call.op).query[j]
                present == \E i \in DOMAIN req.params : req.params[i][1] = q.wire
            IN /\ q.name \notin DOMAIN call.args => ~present
               /\ q.name \in DOMAIN call.args /\ call.args[q.name] \in {"", "0", "False"}
                    => present

=============================================================================
