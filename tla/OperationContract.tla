-------------------------- MODULE OperationContract --------------------------
(***************************************************************************)
(* What one call of an endpoint operation promises (spec 4.1, 4.2, 5, 7),  *)
(* stated without the code's staging: a call either fails at construction  *)
(* (a keyword without a default not passed), or sends one request and     *)
(* then, in one step, meets the agent's answer and returns or raises.      *)
(*                                                                         *)
(* The request is described by laws, not built: the URL is the template   *)
(* with each placeholder replaced by its value, and for each query         *)
(* parameter the pairs with its wire key are those its bound value calls   *)
(* for -- none when the value is "not provided", the enum's wire string,   *)
(* a falsy value kept, a list item by item.  A parameter the caller       *)
(* leaves out is bound to the default its signature declares.             *)
(***************************************************************************)
EXTENDS Request
LOCAL INSTANCE Sequences

CONSTANTS Ops, PathValues, Statuses, ClientTimeout

VARIABLES pc, call, sent, answer, result, exc

vars == <<pc, call, sent, answer, result, exc>>

E(o) == AllEndpoints[o]

Forms == {"sync", "sync_detailed", "asyncio", "asyncio_detailed"}
Detailed == {"sync_detailed", "asyncio_detailed"}
NoRequest == [method |-> "none"]
NoCall == [op |-> "none", form |-> "none", args |-> <<>>]
NoResult == [parsed |-> NoneParsed]

\* Placeholder substitution, template segment by template segment.
RECURSIVE Substituted(_, _)
Substituted(path, args) ==
    IF path = <<>> THEN <<>>
    ELSE LET seg == Head(path)
             text == IF IsParam(seg) THEN args[seg.param] ELSE <<seg.lit>>
         IN <<Slash>> \o text \o Substituted(Tail(path), args)

\* The pairs a query parameter contributes, given its bound value.
Expected(q, v) ==
    CASE v \in {UNSET, Null} -> <<>>
      [] q.kind = "enum" -> << <<q.wire, Lit>> >>
      [] q.kind = "strlist" -> [i \in DOMAIN ListItems[v] |-> <<q.wire, ListItems[v][i]>>]
      [] q.kind = "bool" -> << <<q.wire, IF v = "True" THEN "true" ELSE "false">> >>
      [] OTHER -> << <<q.wire, v>> >>

WithKey(params, k) == SelectSeq(params, LAMBDA pr : pr[1] = k)

SentOK(e, args, r) ==
    /\ r.method = e.method
    /\ r.url = <<BaseUrl>> \o Substituted(e.path, args)
    /\ \A i \in DOMAIN r.params : \E j \in DOMAIN e.query : r.params[i][1] = e.query[j].wire
    /\ \A j \in DOMAIN e.query :
          WithKey(r.params, e.query[j].wire) =
            Expected(e.query[j], IF e.query[j].name \in DOMAIN args
                                 THEN args[e.query[j].name] ELSE e.query[j].default)
    /\ r.json = IF e.body = NoBody THEN NoJson ELSE ToDictOf(e.body, args["json_body"])
    /\ r.timeout = ClientTimeout

\* What the caller gets: the Response of the _detailed forms, or its
\* parsed payload.
Delivered(form, status, content, parsed) ==
    IF form \in Detailed
    THEN [status |-> status, content |-> content, parsed |-> parsed]
    ELSE [parsed |-> parsed]

Init ==
    /\ pc = "idle"
    /\ call = NoCall
    /\ sent = NoRequest
    /\ answer = NoAnswer
    /\ result = NoResult
    /\ exc = "none"

\* The caller invokes an operation.  A keyword without a default left out
\* is a programming error that fails at construction and sends nothing; so
\* does None given to an enum keyword, which has no wire string.
Call ==
    /\ pc = "idle"
    /\ \E o \in Ops : \E f \in FormsOf(E(o)) : \E a \in Calls(E(o), PathValues) :
         /\ call' = [op |-> o, form |-> f, args |-> a]
         /\ answer' = NoAnswer
         /\ result' = NoResult
         /\ CASE MissingKeyword(E(o), a) ->
                   pc' = "raised" /\ exc' = "TypeError" /\ sent' = NoRequest
              [] EnumOfNone(E(o), a) ->
                   pc' = "raised" /\ exc' = "AttributeError" /\ sent' = NoRequest
              [] OTHER -> pc' = "waiting" /\ exc' = "none" /\ SentOK(E(o), a, sent')

\* The agent answers.  Transport errors propagate unchanged; a mapped
\* status decodes its body (a body that is not JSON, or that the model
\* rejects, is a hard failure); any other status is returned with no
\* payload and its status and content intact.
Return ==
    /\ pc = "waiting"
    /\ \E ans \in Answers(E(call.op), Statuses) :
         LET e == E(call.op)
             mapped == e.status # NoStatus /\ ans.status = e.status
             dec == FromDictResp(e.resp, ans.content.obj)
         IN /\ answer' = ans
            /\ CASE ans.kind \in TransportErrors ->
                      pc' = "raised" /\ exc' = ans.kind /\ UNCHANGED result
                 [] mapped /\ ~ans.content.isJson ->
                      pc' = "raised" /\ exc' = "JSONDecodeError" /\ UNCHANGED result
                 [] mapped /\ dec.err # "none" ->
                      pc' = "raised" /\ exc' = dec.err /\ UNCHANGED result
                 [] mapped ->
                      /\ pc' = "returned" /\ UNCHANGED exc
                      /\ result' = Delivered(call.form, ans.status, ans.content, dec.parsed)
                 [] OTHER ->
                      /\ pc' = "returned" /\ UNCHANGED exc
                      /\ result' = Delivered(call.form, ans.status, ans.content, NoneParsed)
    /\ UNCHANGED <<call, sent>>

\* Nothing of a call outlives it (spec 5).
Discard ==
    /\ pc \in {"returned", "raised"}
    /\ pc' = "idle"
    /\ call' = NoCall
    /\ sent' = NoRequest
    /\ answer' = NoAnswer
    /\ result' = NoResult
    /\ exc' = "none"

Next == Call \/ Return \/ Discard

Spec == Init /\ [][Next]_vars

=============================================================================
