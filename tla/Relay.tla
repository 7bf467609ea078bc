-------------------------------- MODULE Relay --------------------------------
(***************************************************************************)
(* A Database opened with a URL: each method becomes one HTTP request to   *)
(* the REST API of a server (Requests), built with the access token that   *)
(* all calls of this Database share, over connections that break.  There   *)
(* is no retry and no timeout in the client; the caller may repeat a call. *)
(* set_admin, get_by_username, get_by_name and list_admin_groups fail      *)
(* before anything is sent and are left out.                               *)
(*                                                                         *)
(* Call s uses slot s of the server.  A call that the caller has given up  *)
(* keeps its slot until nothing of it is left on the way, and another slot *)
(* is free for a repetition.                                               *)
(***************************************************************************)
EXTENDS Requests

CONSTANTS
  Calls,     \* what callers ask for, a subset of Call
  NoToken    \* nobody has logged in through this Database

VARIABLES
  held,       \* RelayBackend::token
  stage,      \* of each call: idle, waiting or returned
  call,       \* the call
  carried,    \* the token its request carries
  wire,       \* is the request on its way to the server?
  outcome,    \* what the method returned
  performed   \* history: has the server executed the call?

clientVars == <<held, stage, call, carried, wire, outcome, performed>>
rVars == <<vars, clientVars>>

\* create sends no token, nor does login, which authenticate uses as well.
Anonymous == {"create_user", "login"}

\* How the answer is decoded: request_no_content(_strict), request_json_opt,
\* and request_json or login.  is_admin reads the user it asks about.
Flags     == {"delete_user", "delete_group", "add_member", "remove_member"}
Optionals == {"get_user", "get_group", "update_user", "update_group"}
Values    == {"create_user", "create_group", "read", "is_admin", "login"}
Mutations == Flags \cup {"create_user", "create_group", "update_user", "update_group"}

Call ==
       [kind: Anonymous, name: Usernames, password: Passwords]
  \cup [kind: {"delete_user", "get_user", "is_admin"}, user: UserIdArg]
  \cup [kind: {"update_user"}, user: UserIdArg, change: UserChange]
  \cup [kind: {"create_group"}, name: GroupNames, is_admin: BOOLEAN]
  \cup [kind: {"delete_group", "get_group"}, group: GroupIdArg]
  \cup [kind: {"update_group"}, group: GroupIdArg, change: GroupChange]
  \cup [kind: {"add_member", "remove_member"}, group: GroupIdArg, user: UserIdArg]
  \cup [kind: {"read"}]

ASSUME RelayAssumption == Calls \subseteq Call /\ NoToken \notin Token

NoCall == [kind |-> "none"]

RelayInit ==
  /\ RInit
  /\ held = NoToken
  /\ stage = [s \in Slot |-> "idle"]
  /\ call = [s \in Slot |-> NoCall]
  /\ carried = [s \in Slot |-> NoToken]
  /\ wire = [s \in Slot |-> FALSE]
  /\ outcome = [s \in Slot |-> "none"]
  /\ performed = [s \in Slot |-> FALSE]

\* The request that arrives.  add_user names the group in path and body.
RequestFor(c, t) ==
  [f \in DOMAIN c \cup (IF c.kind \in Anonymous THEN {} ELSE {"token"})
           \cup (IF c.kind = "add_member" THEN {"body"} ELSE {}) |->
     CASE f = "token" -> t
       [] f = "body" -> c.group
       [] f = "kind" -> IF c.kind = "is_admin" THEN "get_user" ELSE c.kind
       [] OTHER -> c[f]]

\* A 409 counts as a success, as for something that is there already.
Bug_Outcome(kind, answer) ==
  CASE kind \in Flags -> IF answer = "ok" THEN "true" ELSE "false"
    [] kind \in Optionals /\ answer = "not_found" -> "null"
    [] kind \notin Flags /\ answer \in {"ok", "conflict"} -> "value"
    [] OTHER -> "error"

\* 201 is expected where the server answers 204.
Bug_OutcomeStatus(kind, answer) ==
  CASE kind \in Flags -> IF answer = "ok" /\ kind = "add_member" THEN "true" ELSE "false"
    [] kind \in Optionals /\ answer = "not_found" -> "null"
    [] kind \notin Flags /\ answer = "ok" -> "value"
    [] OTHER -> "error"

\* Any status but the one of success is false, 404 may be None, and any other
\* one is an error.
Outcome(kind, answer) ==
  CASE kind \in Flags -> IF answer = "ok" THEN "true" ELSE "false"
    [] kind \in Optionals /\ answer = "not_found" -> "null"
    [] kind \notin Flags /\ answer = "ok" -> "value"
    [] OTHER -> "error"

-----------------------------------------------------------------------------
(* The client *)

\* The token is read when the request is built; one stored later is not used.
Send(s, c) ==
  /\ stage[s] = "idle"
  /\ stage' = [stage EXCEPT ![s] = "waiting"]
  /\ call' = [call EXCEPT ![s] = c]
  /\ carried' = [carried EXCEPT ![s] = IF c.kind \in Anonymous THEN NoToken ELSE held]
  /\ wire' = [wire EXCEPT ![s] = TRUE]
  /\ UNCHANGED <<vars, held, outcome, performed>>

\* A client that waits for a new login when its token is refused.
Bug_Receive(s) ==
  /\ stage[s] = "waiting" /\ pc[s] = "done" /\ reply[s] # "unauthorized"
  /\ stage' = [stage EXCEPT ![s] = "returned"]
  /\ outcome' = [outcome EXCEPT ![s] = Outcome(call[s].kind, reply[s])]
  /\ IF call[s].kind = "login" /\ reply[s] = "ok"
     THEN \E t \in tokens : t.sub = local[s].found /\ held' = t
     ELSE UNCHANGED held
  /\ Leave(s)
  /\ UNCHANGED <<call, carried, wire, performed, witnessed>>

\* The answer arrives.  Of a login the token is kept, for all later calls.
Receive(s) ==
  /\ stage[s] = "waiting" /\ pc[s] = "done"
  /\ stage' = [stage EXCEPT ![s] = "returned"]
  /\ outcome' = [outcome EXCEPT ![s] = Outcome(call[s].kind, reply[s])]
  /\ IF call[s].kind = "login" /\ reply[s] = "ok"
     THEN \E t \in tokens : t.sub = local[s].found /\ held' = t
     ELSE UNCHANGED held
  /\ Leave(s)
  /\ UNCHANGED <<call, carried, wire, performed, witnessed>>

\* Error::Http: no connection, a broken one, or an answer that is cut off.
\* What has become of the request is not known.
GiveUp(s) ==
  /\ stage[s] = "waiting"
  /\ stage' = [stage EXCEPT ![s] = "returned"]
  /\ outcome' = [outcome EXCEPT ![s] = "error"]
  /\ UNCHANGED <<vars, held, call, carried, wire, performed>>

\* The caller goes on, and nothing of the call is left.
Done(s) ==
  /\ stage[s] = "returned" /\ ~wire[s] /\ pc[s] = "idle"
  /\ stage' = [stage EXCEPT ![s] = "idle"]
  /\ call' = [call EXCEPT ![s] = NoCall]
  /\ carried' = [carried EXCEPT ![s] = NoToken]
  /\ outcome' = [outcome EXCEPT ![s] = "none"]
  /\ performed' = [performed EXCEPT ![s] = FALSE]
  /\ UNCHANGED <<vars, held, wire>>

-----------------------------------------------------------------------------
(* The network and the server *)

Lose(s) ==
  /\ wire[s]
  /\ wire' = [wire EXCEPT ![s] = FALSE]
  /\ UNCHANGED <<vars, held, stage, call, carried, outcome, performed>>

\* No token, or one that has expired: 401 before any handler runs.
Reject(s) ==
  /\ wire[s] /\ call[s].kind \notin Anonymous
  /\ wire' = [wire EXCEPT ![s] = FALSE]
  /\ pc' = [pc EXCEPT ![s] = "done"]
  /\ reply' = [reply EXCEPT ![s] = "unauthorized"]
  /\ UNCHANGED <<db, req, local, tokens, witnessed>>
  /\ UNCHANGED <<held, stage, call, carried, outcome, performed>>

\* The token is put in when the request goes out, not when it is built.
Bug_Deliver(s) ==
  /\ wire[s] /\ (call[s].kind \in Anonymous \/ held # NoToken)
  /\ wire' = [wire EXCEPT ![s] = FALSE]
  /\ Arrive(s, RequestFor(call[s], held))
  /\ UNCHANGED <<witnessed, held, stage, call, carried, outcome, performed>>

Deliver(s) ==
  /\ wire[s] /\ (call[s].kind \in Anonymous \/ carried[s] # NoToken)
  /\ wire' = [wire EXCEPT ![s] = FALSE]
  /\ Arrive(s, RequestFor(call[s], carried[s]))
  /\ UNCHANGED <<witnessed, held, stage, call, carried, outcome, performed>>

\* A deletion that finds no row, or a read that fails, executes nothing.
Serve(s) ==
  /\ pc[s] # "done" /\ Handle(s)
  /\ performed' = [performed EXCEPT ![s] =
       @ \/ IF req[s].kind \in Mutations
            THEN Act(s) /\ reply'[s] # "not_found"
            ELSE reply'[s] = "ok"]
  /\ UNCHANGED <<witnessed, held, stage, call, carried, wire, outcome>>

\* Nobody waits any more: the answer is dropped, and so is the future of a
\* handler whose connection is closed, between two database calls.
Hangup(s) ==
  /\ stage[s] = "returned" /\ pc[s] # "idle"
  /\ pc' = [pc EXCEPT ![s] = "idle"]
  /\ req' = [req EXCEPT ![s] = NoRequest]
  /\ reply' = [reply EXCEPT ![s] = "none"]
  /\ local' = [local EXCEPT ![s] = NoLocal]
  /\ UNCHANGED <<db, tokens, witnessed, clientVars>>

RelayNext ==
  \E s \in Slot :
    \/ \E c \in Calls : Send(s, c)
    \/ Receive(s) \/ GiveUp(s) \/ Done(s)
    \/ Lose(s) \/ Reject(s) \/ Deliver(s)
    \/ Serve(s) \/ Hangup(s)

RelaySpec == RelayInit /\ [][RelayNext]_rVars

\* What has been sent is answered or found lost in the end: there is no
\* timeout, so this rests on the network and the server, not on the client.
FairRelaySpec ==
  /\ RelaySpec
  /\ \A s \in Slot :
       /\ WF_rVars(Lose(s) \/ Reject(s) \/ Deliver(s))
       /\ WF_rVars(Serve(s))
       /\ WF_rVars(Receive(s))
       /\ WF_rVars(~wire[s] /\ pc[s] = "idle" /\ GiveUp(s))

-----------------------------------------------------------------------------

RelayTypeOK ==
  /\ RTypeOK
  /\ held \in Token \cup {NoToken}
  /\ stage \in [Slot -> {"idle", "waiting", "returned"}]
  /\ call \in [Slot -> Calls \cup {NoCall}]
  /\ carried \in [Slot -> Token \cup {NoToken}]
  /\ wire \in [Slot -> BOOLEAN]
  /\ outcome \in [Slot -> {"none", "true", "false", "null", "value", "error"}]
  /\ performed \in [Slot -> BOOLEAN]

\* How far a call is, and what it reported, in the terms of RemoteCall.
Phase(st)  == CASE st = "idle" -> "idle" [] st = "waiting" -> "open" [] OTHER -> "closed"
Result(o)  == CASE o = "none" -> "none" [] o \in {"true", "value"} -> "success"
                [] OTHER -> "failure"

Remote == INSTANCE RemoteCall WITH
  phase   <- [s \in Slot |-> Phase(stage[s])],
  outcome <- [s \in Slot |-> Result(outcome[s])]

\* README, "リレー", the same interface for both backends: whatever is lost on
\* the way and whoever gives up when, a method is executed at most once, and
\* it reports success only if the server has executed it.
AtMostOnce == Remote!Spec

\* false stands for a missing row as well as for 401, 403, 409 and 500, but
\* never for something that was done (relay.rs:99).
FalseIsNotDone == \A s \in Slot : outcome[s] = "false" => ~performed[s]

\* README, "リレー": a request acts for the user who was logged in when the
\* method was called, whoever logs in while it is under way.
ActsForItsCaller ==
  \A s \in Slot : req[s] # NoRequest /\ call[s].kind \notin Anonymous =>
    req[s].token = carried[s]

\* A call comes back, unless its request or its answer vanishes unnoticed.
EveryCallComesBack == \A s \in Slot : stage[s] = "waiting" ~> stage[s] = "returned"
=============================================================================
