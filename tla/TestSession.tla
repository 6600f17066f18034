----------------------------- MODULE TestSession -----------------------------
(***************************************************************************)
(* One pytest run of int/tests/test_invitations.py against an agent, and   *)
(* the runs after it.  The agent's state outlives a run: it holds the      *)
(* connection records the tests created, of which the invitations are the  *)
(* ones the teardown clears.                                               *)
(*                                                                         *)
(*   collection   the module imports get_connections and delete_connection *)
(*                from acapy_backchannel.api.connection;                   *)
(*   per test     the session fixture `connection` (conftest.py), set up   *)
(*                at the first test: create_static.sync, set_metadata.sync,*)
(*                RuntimeError on a falsy result, and a failure cached for *)
(*                the rest of the session; then the autouse fixture        *)
(*                clear_invitation_state, the test body's DIDComm messages *)
(*                and its assert, and the fixture's teardown               *)
(*                clear_invitations: get_connections.asyncio, then         *)
(*                delete_connection.asyncio for each record whose state is *)
(*                "invitation", its result ignored.                        *)
(*                                                                         *)
(* The backchannel calls are the endpoint operations of Request.tla: their *)
(* Python result ("value", "none" for a parsed None, or "raise") is what   *)
(* BuildResponse makes of the agent's answer.  The agent carries out an    *)
(* operation when it answers 200; after a ReadTimeout it may or may not   *)
(* have.  The DIDComm exchange (aries_staticagent) is the agent's: it      *)
(* answers the admin protocol over a static connection that has the admin  *)
(* metadata, and with a problem report otherwise.                          *)
(***************************************************************************)
EXTENDS Request
LOCAL INSTANCE Sequences
LOCAL INSTANCE Naturals

CONSTANTS
    Api,            \* the endpoint modules importable from the package: name -> descriptor
    Statuses,       \* the status codes the agent may answer with
    Reliable,       \* TRUE: every backchannel call is answered 200 with a valid body
    Crashes,        \* TRUE: the test runner may be killed at any step
    MaxSessions     \* bound on the pytest runs against the same agent

ASSUME MaxSessions \in Nat \ {0} /\ Reliable \in BOOLEAN /\ Crashes \in BOOLEAN

VARIABLES
    phase,      \* "collect", "setup", "body", "teardown", "clearing",
                \* "finished" or "crashed"
    sessions,   \* pytest runs started so far
    t,          \* the index of the current test in Tests
    step,       \* the DIDComm messages of the current test sent so far
    fx,         \* the session fixture `connection`: "none", "created", "ready", "error"
    static,     \* this run's static connection in the agent: "none", "active", "admin"
    stale,      \* static connections of earlier runs, which the agent still holds
    invites,    \* connection records in state "invitation" held by the agent
    todo,       \* the states of the records clear_invitations has still to visit
    deletes,    \* the delete calls the current clear_invitations has made
    outcome,    \* test -> "pending", "passed", "failed", "error" (setup error)
    reported    \* whether a setup or teardown error, or a killed run, has been shown

vars == <<phase, sessions, t, step, fx, static, stale, invites, todo, deletes, outcome, reported>>

\* The tests in file order, and the admin-invitations messages each sends.
Tests == <<"test_create_invitation", "test_get_list", "test_num_results", "test_empty_list">>

\* added_num in test_num_results.
AddedNum == 3

\* Mutant of Program: test_num_results loops over range(added_num + 1).
ProgramOffByOne(name) ==
    CASE name = "test_create_invitation" -> <<"create">>
      [] name = "test_get_list" -> <<"get-list">>
      [] name = "test_num_results" -> [i \in 1..(AddedNum + 1) |-> "create"] \o <<"get-list">>
      [] name = "test_empty_list" -> <<"get-list">>

Program(name) ==
    CASE name = "test_create_invitation" -> <<"create">>
      [] name = "test_get_list" -> <<"get-list">>
      [] name = "test_num_results" -> [i \in 1..AddedNum |-> "create"] \o <<"get-list">>
      [] name = "test_empty_list" -> <<"get-list">>

\* The endpoint modules the test module imports.
Imported == {"get_connections", "delete_connection"}

ASSUME Imported \subseteq DOMAIN Api

\* What sync() / asyncio() return for the answer a: the parsed model, None,
\* or an exception (transport error, JSONDecodeError, a decode error).
CallResult(o, a) ==
    IF a.kind \in TransportErrors THEN "raise"
    ELSE LET b == BuildResponse(Api[o], a.status, a.content)
         IN IF b.err # "none" THEN "raise"
            ELSE IF b.resp.parsed.some THEN "value" ELSE "none"

AgentAnswers(o) ==
    IF Reliable THEN {a \in Answers(Api[o], {200}) : CallResult(o, a) = "value"}
    ELSE Answers(Api[o], Statuses)

\* Whether the agent carried the operation out, as far as it can be known.
Performed(a) ==
    IF a.kind = "ReadTimeout" THEN BOOLEAN ELSE {a.kind = "response" /\ a.status = 200}

\* The records get_connections lists: the static connections of earlier
\* runs ("stale", in state "active" like this run's), this run's static
\* connection and the invitations.
Listing == [i \in 1..stale |-> "stale"]
           \o (IF static = "none" THEN <<>> ELSE <<"active">>)
           \o [i \in 1..invites |-> "invitation"]

\* The static connections the agent holds.
StaticsHeld == stale + (IF static = "none" THEN 0 ELSE 1)

\* Mutant of IsInvitation: the state test left out, every record deleted.
IsInvitationAny(state) == TRUE

\* if connection.state == "invitation"
IsInvitation(state) == state = "invitation"

\* The agent's reply to an admin-invitations message.
Reply(msg) ==
    CASE static # "admin" -> [type |-> "problem-report", results |-> 0]
      [] msg = "create" -> [type |-> "invitation", results |-> 0]
      [] OTHER -> [type |-> "list", results |-> invites]

\* The test's assert on the last reply.
Verdict(name, r) ==
    CASE name = "test_create_invitation" -> r.type = "invitation"
      [] name = "test_get_list" -> r.type = "list"
      [] name = "test_num_results" -> r.type = "list" /\ r.results = AddedNum
      [] name = "test_empty_list" -> r.type = "list" /\ r.results = 0

\* The most invitations the agent can hold: those the runs create.
MaxInvites == MaxSessions * (1 + AddedNum)

NoOutcomes == [i \in DOMAIN Tests |-> "pending"]

Init ==
    /\ phase = "collect"
    /\ sessions = 1
    /\ t = 1
    /\ step = 0
    /\ fx = "none"
    /\ static = "none"
    /\ stale = 0
    /\ invites = 0
    /\ todo = <<>>
    /\ deletes = 0
    /\ outcome = NoOutcomes
    /\ reported = FALSE

\* Importing the test module; the endpoint modules it imports are assumed
\* to exist (ASSUME above).
Collect ==
    /\ phase = "collect"
    /\ phase' = "setup"
    /\ UNCHANGED <<stale, sessions, t, step, fx, static, invites, todo, outcome, reported, deletes>>

\* The next test, or the end of the run after the last one.
Advance ==
    IF t = Len(Tests) THEN phase' = "finished" /\ UNCHANGED <<t, step>>
    ELSE phase' = "setup" /\ t' = t + 1 /\ step' = 0

\* A test that errors at setup: clear_invitation_state, which pytest sets
\* up after the session fixture, is never entered, so nothing is torn down.
SetupError ==
    /\ outcome' = [outcome EXCEPT ![t] = "error"]
    /\ reported' = TRUE
    /\ Advance

\* create_static.sync(...); `if not create_result: raise RuntimeError`.
CreateStatic ==
    /\ phase = "setup" /\ fx = "none"
    /\ \E a \in AgentAnswers("create_static") : \E done \in Performed(a) :
         /\ static' = IF done THEN "active" ELSE static
         /\ IF CallResult("create_static", a) = "value"
            THEN fx' = "created" /\ UNCHANGED <<phase, t, step, outcome, reported>>
            ELSE fx' = "error" /\ SetupError
    /\ UNCHANGED <<stale, sessions, invites, todo, deletes>>

\* set_metadata.sync(conn_id=create_result.record.connection_id, ...);
\* `if not set_result: raise RuntimeError`.
SetMetadata ==
    /\ phase = "setup" /\ fx = "created"
    /\ \E a \in AgentAnswers("set_metadata") : \E done \in Performed(a) :
         /\ static' = IF done THEN "admin" ELSE static
         /\ IF CallResult("set_metadata", a) = "value"
            THEN fx' = "ready" /\ UNCHANGED <<phase, t, step, outcome, reported>>
            ELSE fx' = "error" /\ SetupError
    /\ UNCHANGED <<stale, sessions, invites, todo, deletes>>

\* A session fixture that failed is not set up again: pytest raises its
\* cached error for every later test of the run.
CachedError ==
    /\ phase = "setup" /\ fx = "error"
    /\ SetupError
    /\ UNCHANGED <<stale, sessions, fx, static, invites, todo, deletes>>

\* clear_invitation_state is set up (it only yields) and the body starts.
StartTest ==
    /\ phase = "setup" /\ fx = "ready"
    /\ phase' = "body"
    /\ UNCHANGED <<stale, sessions, t, step, fx, static, invites, todo, outcome, reported, deletes>>

\* connection.send_and_await_reply_async(msg): the agent handles the
\* message and replies; the last reply of the test is asserted on.
Send ==
    /\ phase = "body"
    /\ LET prog == Program(Tests[t])
           msg == prog[step + 1]
           last == step + 1 = Len(prog)
       IN /\ invites' = IF msg = "create" /\ static = "admin" THEN invites + 1 ELSE invites
          /\ step' = step + 1
          /\ IF last
             THEN /\ phase' = "teardown"
                  /\ outcome' = [outcome EXCEPT ![t] =
                                   IF Verdict(Tests[t], Reply(msg)) THEN "passed" ELSE "failed"]
             ELSE UNCHANGED <<phase, outcome>>
    /\ UNCHANGED <<stale, sessions, t, fx, static, todo, reported, deletes>>

\* clear_invitations: connections = await get_connections.asyncio(...);
\* `connections.results` raises AttributeError when that is None.
ListConnections ==
    /\ phase = "teardown"
    /\ \E a \in AgentAnswers("get_connections") :
         IF CallResult("get_connections", a) = "value"
         THEN /\ phase' = "clearing" /\ todo' = Listing /\ deletes' = 0
              /\ UNCHANGED <<t, step, reported>>
         ELSE reported' = TRUE /\ Advance /\ UNCHANGED <<todo, deletes>>
    /\ UNCHANGED <<stale, sessions, fx, static, invites, outcome>>

\* A listed record that is not an invitation is passed over.
SkipRecord ==
    /\ phase = "clearing" /\ todo # <<>>
    /\ ~IsInvitation(Head(todo))
    /\ todo' = Tail(todo)
    /\ UNCHANGED <<stale, phase, sessions, t, step, fx, static, invites, outcome, reported, deletes>>

\* Mutant of DeleteRecord: a delete that returned None is tried again on
\* the same record.
DeleteRecordRetry ==
    /\ phase = "clearing" /\ todo # <<>>
    /\ IsInvitation(Head(todo))
    /\ deletes < MaxInvites
    /\ deletes' = deletes + 1
    /\ \E a \in AgentAnswers("delete_connection") : \E done \in Performed(a) :
         /\ invites' = IF done /\ Head(todo) = "invitation" THEN invites - 1 ELSE invites
         /\ static' = IF done /\ Head(todo) = "active" THEN "none" ELSE static
         /\ stale' = IF done /\ Head(todo) = "stale" THEN stale - 1 ELSE stale
         /\ CASE CallResult("delete_connection", a) = "raise" ->
                    reported' = TRUE /\ todo' = <<>> /\ Advance
              [] CallResult("delete_connection", a) = "none" ->
                    UNCHANGED <<todo, phase, t, step, reported>>
              [] OTHER -> todo' = Tail(todo) /\ UNCHANGED <<phase, t, step, reported>>
    /\ UNCHANGED <<sessions, fx, outcome>>

\* await delete_connection.asyncio(conn_id=...): its result is not looked
\* at; an exception ends the teardown with an error.  A listing holds at
\* most MaxInvites invitations, so the bound on deletes never binds here.
DeleteRecord ==
    /\ phase = "clearing" /\ todo # <<>>
    /\ IsInvitation(Head(todo))
    /\ deletes < MaxInvites
    /\ deletes' = deletes + 1
    /\ \E a \in AgentAnswers("delete_connection") : \E done \in Performed(a) :
         /\ invites' = IF done /\ Head(todo) = "invitation" THEN invites - 1 ELSE invites
         /\ static' = IF done /\ Head(todo) = "active" THEN "none" ELSE static
         /\ stale' = IF done /\ Head(todo) = "stale" THEN stale - 1 ELSE stale
         /\ IF CallResult("delete_connection", a) = "raise"
            THEN reported' = TRUE /\ todo' = <<>> /\ Advance
            ELSE todo' = Tail(todo) /\ UNCHANGED <<phase, t, step, reported>>
    /\ UNCHANGED <<sessions, fx, outcome>>

\* The loop over the listing is over: the next test.
ClearDone ==
    /\ phase = "clearing" /\ todo = <<>>
    /\ Advance
    /\ UNCHANGED <<stale, sessions, fx, static, invites, todo, outcome, reported, deletes>>

\* The runner is killed (CI timeout, Ctrl-C): no teardown runs.
Crash ==
    /\ Crashes
    /\ phase \in {"collect", "setup", "body", "teardown", "clearing"}
    /\ phase' = "crashed"
    /\ reported' = TRUE
    /\ UNCHANGED <<stale, sessions, t, step, fx, static, invites, todo, outcome, deletes>>

\* pytest is run again against the same agent, which keeps the static
\* connection the killed or finished run made: the fixture has no code
\* after its yield.
Rerun ==
    /\ phase \in {"finished", "crashed"}
    /\ sessions < MaxSessions
    /\ phase' = "collect"
    /\ sessions' = sessions + 1
    /\ t' = 1 /\ step' = 0 /\ fx' = "none" /\ static' = "none" /\ todo' = <<>>
    /\ stale' = StaticsHeld
    /\ outcome' = NoOutcomes
    /\ UNCHANGED <<invites, reported, deletes>>

Next ==
    \/ Collect \/ CreateStatic \/ SetMetadata \/ CachedError \/ StartTest \/ Send
    \/ ListConnections \/ SkipRecord \/ DeleteRecord \/ ClearDone \/ Crash \/ Rerun

\* pytest runs one step after the other as long as one is possible.
Spec == Init /\ [][Next]_vars /\ WF_vars(Next)

(***************************************************************************)
(* Properties.                                                             *)
(***************************************************************************)
TypeOK ==
    /\ phase \in {"collect", "setup", "body", "teardown", "clearing", "finished",
                  "crashed"}
    /\ sessions \in 1..MaxSessions
    /\ t \in DOMAIN Tests
    /\ step \in 0..Len(Program(Tests[t]))
    /\ fx \in {"none", "created", "ready", "error"}
    /\ static \in {"none", "active", "admin"}
    /\ stale \in 0..(MaxSessions - 1)
    /\ invites \in 0..MaxInvites
    /\ deletes \in 0..MaxInvites
    /\ todo \in Seq({"stale", "active", "invitation"}) /\ Len(todo) <= Len(Listing)
    /\ outcome \in [DOMAIN Tests -> {"pending", "passed", "failed", "error"}]
    /\ reported \in BOOLEAN

(***************************************************************************)
(* AssertionsHold: no assert of test_invitations.py fails -- in particular *)
(* test_num_results sees exactly the invitations it created and           *)
(* test_empty_list none, because every earlier test's teardown removed the *)
(* invitations it left and nothing else.                                   *)
(***************************************************************************)
AssertionsHold == \A i \in DOMAIN Tests : outcome[i] # "failed"

(***************************************************************************)
(* FailureTraced: a failing assert is never the first sign of trouble:     *)
(* before it, a setup or teardown error was reported or a run was killed.  *)
(* (A teardown that silently leaves an invitation behind makes a later,    *)
(* unrelated test fail.)                                                   *)
(***************************************************************************)
FailureTraced == (\E i \in DOMAIN Tests : outcome[i] = "failed") => reported

(***************************************************************************)
(* SessionEnds: every pytest run that starts reaches the end of the last   *)
(* test, whatever the agent answers: no fixture or teardown loop goes on   *)
(* for ever and no error stops the run before its last test.               *)
(***************************************************************************)
SessionEnds == [](phase = "collect" => <>(phase = "finished"))

====
