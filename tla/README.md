# TLA+ models of the ACA-Py backchannel client and its integration tests

This directory holds TLA+ models of the Python code under `src/int/`:

- `acapy-backchannel/acapy_backchannel`, a generated openapi-python-client for the agent's admin API. It has 73 endpoint modules under `api/` and the attrs model classes under `models/`.
- `tests/`, the pytest integration tests that drive a running agent. They use this client (the backchannel) and a DIDComm static connection.

TLC checks every module. `PROJECT.json` lists the components, runs, mutants, findings and hazards, and maps each definition to the source lines it translates.

## The system and how its parts interact

```
 tests (conftest.py, test_invitations.py)
   |  create_static / set_metadata / get_connections / delete_connection
   v
 endpoint module (api/<group>/<op>.py)
   _get_kwargs -> httpx.<verb> / AsyncClient.<verb> -> _build_response(_parse_response)
   |                 body: Model.to_dict()          response: Model.from_dict(response.json())
   v
 model classes (models/*.py): to_dict / from_dict / additional properties
```

An endpoint call goes through these steps:

1. `_get_kwargs` builds the URL with `str.format`, with no escaping.
2. It converts enum keywords with `.value`.
3. It drops query parameters that are `UNSET` or `None`.
4. It encodes the body with `to_dict()`.
5. httpx sends the request. In the asyncio forms it goes out inside `async with httpx.AsyncClient()`.
6. `_parse_response` decodes the body, and only for the one status the module maps.
7. `sync` and `asyncio` return only `.parsed`. The `_detailed` forms return the whole `Response`.

The tests work in this order:

1. A session fixture creates a static connection (`create_static`) and gives it admin metadata (`set_metadata`).
2. Each test sends admin-invitations messages over DIDComm and asserts on the reply.
3. An autouse fixture's teardown lists the connections and deletes those whose state is `"invitation"`.

## Modules

| module | models | state / actions |
|---|---|---|
| `ModelCodec` | the per-field code of every `to_dict` / `from_dict` | Pure operators. Python values are model values: `UNSET`, `Null`, `Lit` (an enum's `.value`), `Obj`, `Arr0` / `Arr1`. The conversions are `Decode(s, m)` and `Encode(s, inst)`, with one decoder per field kind (`DecodeScalar`, `DecodeEnum`, `DecodeModel`, `DecodeNullableModel`, `DecodeModelList`, `DecodeExtra`). |
| `Enums` | the 32 enum classes of `models/` | Each class is the sequence of its members (`Member(name, value)`) in declaration order, plus `AllEnums`. The operators are `Construct(E, s)` (the value lookup `X(s)`, with ValueError), `Value` (`.value`) and `Str` (`__str__`). |
| `EnumField` | one enum-valued field | Variables: `cls`, `set`, `wire`, `raw`, `field`, `exc`. Actions: `SetAttr` (assignment of a member), `ToDict` (`self.f.value`), `FromDict` (`X(d.pop("f"))` on a literal, a probe, or the string just written). |
| `Models` | the 93 classes of `models/` | One field table per class (`Req` / `Opt`, wire key, kind, nullability, the kind of its additional properties), plus `AllModels`. |
| `ModelInstance` | one instance's life | Variables: `phase`, `src`, `obj`, `muts`, `sent`, `out`. Actions: `FromDict`, `ToDict`, `SetAttr`, `SetItem` (`__setitem__`), `DelItem` (`__delitem__`). |
| `Endpoints` | the 73 endpoint modules | One descriptor per module, named after the file: verb, path template (`L(word)` / `P(name)`), query parameters with wire key, annotation and signature default, body class, mapped status, response class. |
| `Request` | the code common to all endpoint modules | `GetKwargs` (with `MissingKeyword`, `Bound`, `Converted`, `Url`, `Kept`, `QueryPairs`), the httpx encoding (`WireText`, `Pairs`), `ParseResponse` and `BuildResponse`, the calls offered (`Calls`) and the agent's answers (`Answers`). |
| `OperationContract` | the abstract call contract (spec 4.1, 4.2, 5, 7) | `Call` either sends a request that satisfies the declarative law `SentOK`, or fails with TypeError (a missing keyword) or AttributeError (None given to an enum keyword). `Return` applies the agent's answer in one step. `Discard` ends the call. |
| `Operation` | one caller of the four call forms | Variables: `pc`, `call`, `req`, `answer`, `aclient`, `result`, `exc`. Actions: `Invoke` (`_get_kwargs` and the send), `Exchange` (the agent's answer or a connect error), `TimeOut` (httpx raises ReadTimeout), `AExit` (`AsyncClient.__aexit__`), `Complete` (`_build_response`, `.parsed`), `Discard`. It is shown to implement `OperationContract`. |
| `TestSession` | pytest runs of `test_invitations.py` against one agent | Variables: `phase`, `sessions`, `t`, `step`, `fx`, `static`, `stale` (static connections of earlier runs), `invites`, `todo`, `deletes`, `outcome`, `reported`. Actions: `Collect` (the imports, assumed present), `CreateStatic`, `SetMetadata`, `CachedError`, `StartTest`, `Send`, `ListConnections`, `SkipRecord`, `DeleteRecord`, `ClearDone`, and the environment's `Crash` and `Rerun`. Its backchannel calls use `BuildResponse` of `Request`, so an answer means exactly what the client makes of it. |
| `MCModelInstance`, `MCEnumField`, `MCOperation`, `MCTestSession` | model-checking instances | These give the constants: the model classes checked, the endpoints, path values, statuses, and the agent's endpoint table. |

These modules compose as follows:

- `Models` EXTENDS `ModelCodec`.
- `Endpoints` EXTENDS `Models`.
- `Request` EXTENDS `Endpoints`.
- `Operation`, `OperationContract` and `TestSession` each EXTEND `Request`.
- `Operation` INSTANCEs `OperationContract` with a refinement mapping. The mapping collapses `sent`, `exiting` and `received` into the contract's `waiting`, and hides the answer until the call is over.

## Runs

| run | cfg | result | what it shows |
|---|---|---|---|
| codec | `ModelInstance_codec.cfg` | pass, 113,080 states | Covers every model class with bounded JSON objects. `from_dict` fails exactly on a missing required key or a bad enum value (`DecodeContract`). `to_dict(from_dict(m))` is `m`, except that an absent or null optional `List[X]` comes back as `[]` (`RoundTrip`). Six classes of every field kind also take up to two assignments and item changes (`MaxMutations <- MCMutationBound`). What `to_dict` then writes decodes back to what was set (`SentIsReceived`). |
| specroundtrip | `ModelInstance_specroundtrip.cfg` | violation | The spec's literal round-trip law fails on the optional-list policy. |
| shadow | `ModelInstance_shadow.cfg` | violation | `instance["result"] = None` on an `AdminModules` whose `result` is UNSET: `to_dict` writes `{"result": None}`, and `from_dict` reads it back as the attribute (`FieldsPrevail`). |
| null | `ModelInstance_null.cfg` | violation | A null optional nested model raises AttributeError. |
| enums | `EnumField.cfg` | pass, 2,808 states | Covers all 32 enum classes. A member that `to_dict` writes (`.value`) is read back by `from_dict` (`X(s)`) as the same member (`MemberRoundTrip`). Names, reprs and other classes' spellings raise ValueError. |
| operation | `Operation.cfg` | pass, 5,321 states | Covers eight endpoints of every shape, in each call form the module defines (only the `_detailed` forms where it has no `_parse_response`). The AsyncClient is closed on every exit (`AsyncClientClosed`). The staged code refines the contract (`Implements`). |
| none | `Operation_none.cfg` | violation | `role=None` or `state=None` raises AttributeError from `.value` before anything is sent. None for a str keyword is dropped instead (`NoneTolerated`). |
| omission | `Operation_omission.cfg` | violation | A parameter that is omitted but has a non-`UNSET` default is sent (`role=server`, `paginate_limit=-1`). |
| routing | `Operation_routing.cfg` | violation | `conn_id = "a?"` reaches another resource. |
| session | `TestSession.cfg` | pass, 332 states | The agent is reliable. The runner may be killed at any step and is then run again. Every assert holds, because each teardown clears all invitations, including those a killed run left (`AssertionsHold`). The agent keeps and lists the static connections of earlier runs, and the teardown's state filter passes over them. |
| session_faults | `TestSession_faults.cfg` | pass, 3,231 states | The agent may answer each backchannel call with 200, 404, 500, a body that is not JSON, or a transport error. Every run still reaches its last test (`SessionEnds`, under weak fairness). |
| silent_teardown | `TestSession_silent.cfg` | violation | A refused delete is ignored, and `test_num_results` fails later with nothing reported before it. |

Every property of a passing run has a mutant in `PROJECT.json`: a plausible bug in a mapped definition that makes TLC report the property violated.

## Bounds and why they are enough

**Models**
- JSON objects start from the required keys only, or from every declared key.
- One declared key at a time takes each value of its kind, including null, or is dropped.
- At most one undeclared key (`"foo"`) is added.
- Decoding treats declared keys one at a time and undeclared keys together, so these objects reach every per-key case and every way a key meets the additional properties.
- Two changes per instance are enough for a change and its undoing, or for an extra that shadows a field.

**Endpoints**
- The eight operations cover every kind of descriptor:
  - a path parameter alone, before a literal, and with a body;
  - every annotation of a query parameter;
  - a 201 mapping, no mapping, and a response class outside the package.
- Path values are `a` and `a/a`.
- The none run uses the two operations with both an optional enum keyword and an optional str keyword.
- The enum probes are a member name, a member repr, another class's spelling, the empty string, and a literal with a trailing blank. The routing run uses `a` and `a?`.
- Optional keywords vary one at a time, because `_get_kwargs` converts and filters each independently.

**Tests**
- There are two pytest runs, so that leftovers of a killed or failing run meet the next one.
- `MaxInvites = MaxSessions * 4` is the most invitations the runs create. The guard `deletes < MaxInvites` never binds for the code.

## Fairness

- `Operation` and `OperationContract` check only safety and refinement, so they assume no fairness. Every `_get_kwargs` forwards `client.get_timeout()`, and httpx applies a default timeout even without one. A call that ends only because of a timeout says nothing about the code.
- `TestSession` assumes `WF_vars(Next)`. pytest is one sequential process that takes its next step whenever one is possible.
- The agent's answer is chosen inside each step, so fairness never forces a particular answer.
- A teardown that retried a refused delete would loop without end. `deletes` counts the calls, so that loop shows up as a violation of `SessionEnds` and is not hidden as stuttering.

## Not modelled

- `delete_connection`, which `test_invitations.py` imports, is not among the sources. Neither are `client.py`, `types.py`, `__init__.py`, or the response classes that present modules import (`connection_list.py`, `keylist.py`, `mediation_list.py`). The session runs assume the module exists, as a descriptor of the generated shape (`MCApi` in `MCTestSession.tla`), and `TestSession` ASSUMEs its imports are there. The copy of the package does not show whether the real package has it.

- `client.py` and `types.py` are not among the sources. The base URL, headers, cookies and timeout are constants, and `Response` is a record.
- Of httpx, only the query-string encoding of bools and lists is modelled.
- The agent and the DIDComm layer (`aries_staticagent`) are the environment: nondeterministic answers, and admin replies only over a static connection that has admin metadata.
- In `ModelCodec`, an enum is abstracted to one member and one string outside the enum. `EnumField` checks each class on its own.
- The `host`, `port` and `backchannel` fixtures only read environment variables.
- The agent's answer to `create_static` on seeds it already holds is not in the sources. It is one of the agent's nondeterministic answers. The static connections of earlier runs are counted (`stale`) and listed by `get_connections`.
