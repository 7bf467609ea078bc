----------------------------- MODULE RelayProofs -----------------------------
(***************************************************************************)
(* A method called over the relay is executed at most once, and success is *)
(* reported only for what was executed: Relay implements RemoteCall, for   *)
(* any number of calls, callers and faults.                                *)
(***************************************************************************)
EXTENDS Relay, HandlersProofs

\* The kinds of requests that calls become.
ServerKinds == (Flags \cup Optionals \cup Values) \ {"is_admin"}

\* Where a handler has not yet reached the statement it is there for, and
\* where it has.
Ahead  == {"identify", "authorize", "group", "user", "status", "authenticate",
           "claim", "act"}
Behind == {"reread", "badge"}

Shape ==
  /\ pc \in [Slot -> Labels] /\ reply \in [Slot -> Replies]
  /\ req = [s \in Slot |-> req[s]] /\ call = [s \in Slot |-> call[s]]
  /\ stage \in [Slot -> {"idle", "waiting", "returned"}]
  /\ wire \in [Slot -> BOOLEAN] /\ performed \in [Slot -> BOOLEAN]
  /\ outcome \in [Slot -> {"none", "true", "false", "null", "value", "error"}]

\* What the client knows of its calls.
ClientInv(s) ==
  /\ stage[s] = "idle" => ~wire[s] /\ pc[s] = "idle" /\ ~performed[s]
  /\ stage[s] # "idle" => call[s] \in Calls
  /\ stage[s] \in {"idle", "waiting"} <=> outcome[s] = "none"
  /\ wire[s] => pc[s] = "idle" /\ ~performed[s]
  /\ outcome[s] \notin {"none", "error"} => pc[s] = "idle" /\ ~wire[s]
  /\ outcome[s] = "false" => ~performed[s]

\* What the server has done when it has come so far with a request.
ServerInv(s) ==
  LET kind == req[s].kind
  IN  /\ pc[s] \in Ahead \cup Behind => kind \in ServerKinds
      /\ pc[s] \in Ahead \cup Behind /\ call[s].kind \in Flags => kind = call[s].kind
      /\ pc[s] \in Behind => kind \notin Flags
      /\ pc[s] = "done" /\ call[s].kind \in Flags /\ performed[s] => reply[s] = "ok"
      /\ pc[s] # "done" => reply[s] = "none"
      /\ pc[s] \in {"authenticate", "claim"} => kind \notin Mutations
      /\ pc[s] \in Ahead => ~performed[s]
      /\ pc[s] \in Behind /\ kind \in Mutations => performed[s]
      /\ pc[s] = "done" /\ reply[s] = "ok" => performed[s]

CallInv == Shape /\ \A s \in Slot : ClientInv(s) /\ ServerInv(s)

USE RelayAssumption

\* One step of a handler: a label and a reply.
Moves(s, l, r) ==
  /\ pc' = [pc EXCEPT ![s] = l]
  /\ reply' = [reply EXCEPT ![s] = r]
  /\ req' = req

\* Before the act, a handler for a mutation answers nothing but a refusal.
LEMMA MovesAhead ==
  ASSUME CallInv, NEW s \in Slot, pc[s] \in Ahead, pc[s] # "act",
         Identify(s) \/ Authorize(s) \/ LookUpGroup(s) \/ LookUpUser(s)
           \/ TargetStatus(s) \/ Authenticate(s) \/ Claim(s)
  PROVE  \E l \in Labels, r \in Replies :
           /\ Moves(s, l, r)
           /\ \/ l \in Ahead /\ r = reply[s]
              \/ l = "badge" /\ r = reply[s] /\ req[s].kind \notin Mutations
              \/ l = "done" /\ (r = "ok" => req[s].kind \notin Mutations)
           /\ l \in {"authenticate", "claim"} => req[s].kind \notin Mutations
<1> DEFINE k == req[s].kind
<1>0. k \in ServerKinds
  BY DEF CallInv, ServerInv
<1> USE DEF CallInv, Shape, Moves, Goto, Answer, Labels, Replies, Ahead
<1>1. AfterGuard(req[s]) \in {"group", "user", "act"}
  BY <1>0 DEF AfterGuard, ServerKinds, Flags, Optionals, Values, LooksUpGroup, LooksUpUser
<1>2. CASE Identify(s) \/ Authorize(s)
  <2>1. AfterIdentify(req[s]) \subseteq {"authorize", "group", "user", "act"}
    BY <1>1 DEF AfterIdentify
  <2>2. \/ \E l \in {"authorize", "group", "user", "act"} : Goto(s, l)
        \/ \E a \in {"unauthorized", "forbidden", "bad_request"} : Answer(s, a)
    BY <1>1, <1>2, <2>1 DEF Identify, Authorize
  <2> QED BY <2>2
<1>3. CASE LookUpGroup(s)
  BY <1>3 DEF LookUpGroup
<1>4. CASE LookUpUser(s)
  <2>1. AfterLookup(k) \in {"status", "act"} \/ (AfterLookup(k) = "badge" /\ k \notin Mutations)
    BY <1>0 DEF AfterLookup, Mutations, Flags
  <2> QED BY <1>4, <2>1 DEF LookUpUser
<1>5. CASE TargetStatus(s)
  BY <1>5 DEF TargetStatus
<1>6. CASE Authenticate(s)
  <2>1. k \notin Mutations /\ k # "register"
    BY <1>0, <1>6 DEF Authenticate, ServerInv, ServerKinds, Flags, Optionals, Values
  <2> QED BY <1>6, <2>1 DEF Authenticate
<1>7. CASE Claim(s)
  <2>1. k \notin Mutations /\ k # "me_password"
    BY <1>0, <1>7 DEF Claim, ServerInv, ServerKinds, Flags, Optionals, Values
  <2> QED BY <1>7, <2>1 DEF Claim
<1> QED BY <1>2, <1>3, <1>4, <1>5, <1>6, <1>7

\* The act itself: whoever does not answer 404 goes on with it done.
LEMMA MovesAct ==
  ASSUME CallInv, NEW s \in Slot, Act(s)
  PROVE  \E l \in Labels, r \in Replies :
           /\ Moves(s, l, r) /\ pc[s] = "act"
           /\ (l \in Behind /\ r = reply[s]) \/ l = "done"
           /\ req[s].kind \in Flags => l = "done" /\ r \in {"ok", "not_found"}
<1> DEFINE k == req[s].kind
<1>1. pc[s] = "act" /\ k \in ServerKinds
  BY DEF Act, CallInv, ServerInv, Ahead
<1>2. k # "register"
  BY <1>1 DEF ServerKinds, Flags, Optionals, Values
<1> USE DEF CallInv, Shape, Moves, Goto, Answer, Labels, Replies, Behind
<1>3. CASE k \in UserUpdates \cup GroupUpdates
  <2>1. Goto(s, "reread")
    BY <1>3 DEF Act, UserUpdates, GroupUpdates, Passwordings
  <2>2. k \notin Flags
    BY <1>3 DEF Flags, UserUpdates, GroupUpdates, Passwordings
  <2> QED BY <1>1, <2>1, <2>2
<1>4. CASE k = "create_user"
  <2>1. Goto(s, "badge")
    BY <1>4 DEF Act, UserUpdates, GroupUpdates, Passwordings
  <2>2. k \notin Flags
    BY <1>4 DEF Flags
  <2> QED BY <1>1, <2>1, <2>2
<1>5. CASE k \in {"delete_user", "delete_group", "remove_member"}
  <2>1. Answer(s, IF db' = db THEN "not_found" ELSE "ok")
    BY <1>5 DEF Act, UserUpdates, GroupUpdates, Passwordings
  <2> QED BY <1>1, <2>1
<1>6. CASE k \notin UserUpdates \cup GroupUpdates \cup
                   {"create_user", "delete_user", "delete_group", "remove_member"}
  <2>1. Answer(s, "ok")
    BY <1>2, <1>6 DEF Act, UserUpdates, GroupUpdates, Passwordings
  <2> QED BY <1>1, <2>1
<1> QED BY <1>3, <1>4, <1>5, <1>6

\* What follows it.
LEMMA MovesBehind ==
  ASSUME CallInv, NEW s \in Slot, Reread(s) \/ Badge(s)
  PROVE  \E l \in Labels, r \in Replies :
           /\ Moves(s, l, r) /\ pc[s] \in Behind
           /\ (l = "badge" /\ r = reply[s]) \/ l = "done"
<1> USE DEF CallInv, Shape, Moves, Goto, Answer, Labels, Replies, Behind
<1>1. CASE Badge(s)
  BY <1>1 DEF Badge
<1>2. CASE Reread(s)
  <2> DEFINE k == req[s].kind
  <2>1. k \in ServerKinds
    BY <1>2 DEF Reread, ServerInv
  <2>2. \/ Goto(s, "badge")
        \/ \E r \in Replies : Answer(s, r)
    <3> DEFINE there == IF k \in GroupUpdates THEN req[s].group \in GroupIds(db)
                        ELSE Subject(req[s]) \in UserIds(db)
    <3>1. k \notin Passwordings
      BY <2>1 DEF Passwordings, ServerKinds, Flags, Optionals, Values
    <3>2. CASE k = "update_user" /\ there
      BY <1>2, <3>1, <3>2 DEF Reread
    <3>3. CASE k # "update_user" /\ there
      <4>1. Answer(s, "ok")
        BY <1>2, <3>1, <3>3 DEF Reread
      <4> QED BY <4>1
    <3>4. CASE k \in {"update_user", "update_group", "toggle_active"} /\ ~there
      <4>1. Answer(s, "not_found")
        BY <1>2, <3>1, <3>4 DEF Reread
      <4> QED BY <4>1
    <3>5. CASE k \notin {"update_user", "update_group", "toggle_active"} /\ ~there
      <4>1. Answer(s, "error")
        BY <1>2, <3>1, <3>5 DEF Reread
      <4> QED BY <4>1
    <3> QED BY <3>2, <3>3, <3>4, <3>5
  <2>3. pc[s] = "reread"
    BY <1>2 DEF Reread
  <2> QED BY <2>2, <2>3, <1>2 DEF Reread
<1> QED BY <1>1, <1>2

\* No failure looks like a success.
LEMMA MovesRefused ==
  ASSUME CallInv, NEW s \in Slot, Conflict(s) \/ Fail(s)
  PROVE  \E r \in Replies : /\ Moves(s, "done", r) /\ pc[s] \in Ahead \cup Behind
                            /\ r # "ok"
<1> USE DEF CallInv, Shape, Moves, Answer, Labels, Replies
<1>1. CASE Conflict(s)
  BY <1>1 DEF Conflict, Ahead
<1>2. CASE Fail(s)
  <2> DEFINE k == req[s].kind
  <2>1. pc[s] \in Ahead \cup Behind
    BY <1>2 DEF Fail, Ahead, Behind
  <2>2. k \notin {"register", "toggle_admin", "toggle_active", "me_password", "reset_password"}
    BY <2>1 DEF ServerInv, ServerKinds, Flags, Optionals, Values
  <2>3. OnError(k, pc[s]) \subseteq Replies \ {"ok"}
    BY <2>2 DEF OnError, Passwordings
  <2> QED BY <1>2, <2>1, <2>3 DEF Fail
<1> QED BY <1>1, <1>2
\* One step of the server on behalf of call s, seen from the call.
Served(s, l, r) ==
  /\ Moves(s, l, r) /\ pc[s] \in Ahead \cup Behind
  /\ (l \in Ahead \cup Behind /\ r = "none") \/ l = "done"
  /\ l \in {"authenticate", "claim"} => req[s].kind \notin Mutations
  /\ l \in Ahead => ~performed'[s]
  /\ l \in Behind /\ req[s].kind \in Mutations => performed'[s]
  /\ l = "done" /\ r = "ok" => performed'[s]
  /\ req[s].kind \in Flags => l \notin Behind
  /\ req[s].kind \in Flags /\ l = "done" /\ performed'[s] => r = "ok"

\* Every step of Serve is of that form, and leaves the other calls alone.
LEMMA ServeMoves ==
  ASSUME CallInv, NEW s \in Slot, Serve(s)
  PROVE  /\ performed' \in [Slot -> BOOLEAN]
         /\ \A t \in Slot \ {s} : performed'[t] = performed[t]
         /\ performed[s] => performed'[s]
         /\ \E l \in Labels, r \in Replies : Served(s, l, r)
<1> DEFINE k == req[s].kind
           new == performed[s] \/ IF k \in Mutations THEN Act(s) /\ reply'[s] # "not_found"
                                 ELSE reply'[s] = "ok"
<1> HIDE DEF new
<1>0. /\ performed' = [performed EXCEPT ![s] = new]
      /\ performed \in [Slot -> BOOLEAN] /\ reply \in [Slot -> Replies]
      /\ new \in BOOLEAN
  BY DEF Serve, CallInv, Shape, new
<1>1. /\ performed' \in [Slot -> BOOLEAN] /\ performed'[s] = new
      /\ \A t \in Slot \ {s} : performed'[t] = performed[t]
  BY <1>0
<1>2. performed[s] => performed'[s]
  BY <1>1 DEF new
<1>3. ASSUME NEW l \in Labels, NEW r \in Replies, Moves(s, l, r)
      PROVE  reply'[s] = r
  BY <1>0, <1>3 DEF Moves
<1>4. CASE \/ Identify(s) \/ Authorize(s) \/ LookUpGroup(s) \/ LookUpUser(s)
           \/ TargetStatus(s) \/ Authenticate(s) \/ Claim(s)
  <2>1. pc[s] \in Ahead /\ pc[s] # "act"
    BY <1>4 DEF Identify, Authorize, LookUpGroup, LookUpUser, TargetStatus, Authenticate,
                Claim, Ahead
  <2>2. ~performed[s] /\ reply[s] = "none" /\ ~Act(s)
    BY <2>1 DEF CallInv, ServerInv, Ahead, Act
  <2>3. PICK l \in Labels, r \in Replies :
           /\ Moves(s, l, r)
           /\ \/ l \in Ahead /\ r = reply[s]
              \/ l = "badge" /\ r = reply[s] /\ k \notin Mutations
              \/ l = "done" /\ (r = "ok" => k \notin Mutations)
           /\ l \in {"authenticate", "claim"} => k \notin Mutations
    BY <1>4, <2>1, MovesAhead
  <2>4. l \in Ahead => ~new
    BY <1>3, <2>2, <2>3 DEF new, Ahead
  <2>5. l = "done" /\ r = "ok" => new
    BY <1>3, <2>3 DEF new, Ahead
  <2>6. k \in Flags => k \in Mutations /\ ~new
    BY <2>2 DEF new, Flags, Mutations
  <2>7. Served(s, l, r)
    BY <1>1, <2>1, <2>2, <2>3, <2>4, <2>5, <2>6 DEF Served, Ahead, Behind
  <2> QED BY <1>1, <1>2, <2>7
<1>5. CASE Act(s)
  <2>1. PICK l \in Labels, r \in Replies :
           /\ Moves(s, l, r) /\ pc[s] = "act"
           /\ (l \in Behind /\ r = reply[s]) \/ l = "done"
           /\ k \in Flags => l = "done" /\ r \in {"ok", "not_found"}
    BY <1>5, MovesAct
  <2>2. reply[s] = "none"
    BY <2>1 DEF CallInv, ServerInv
  <2>3. (l \in Behind /\ k \in Mutations) \/ (l = "done" /\ r = "ok") => new
    BY <1>3, <1>5, <2>1, <2>2 DEF new, Behind
  <2>4. k \in Flags /\ new => r = "ok" /\ l \notin Behind
    <3>1. ~performed[s]
      BY <2>1 DEF CallInv, ServerInv, Ahead
    <3> QED BY <1>3, <2>1, <3>1 DEF new, Behind, Flags, Mutations
  <2>5. k \in Flags => l \notin Behind
    BY <2>1 DEF Behind
  <2>6. Served(s, l, r)
    BY <1>1, <2>1, <2>2, <2>3, <2>4, <2>5 DEF Served, Ahead, Behind
  <2> QED BY <1>1, <1>2, <2>6
<1>6. CASE Reread(s) \/ Badge(s)
  <2>1. PICK l \in Labels, r \in Replies :
           /\ Moves(s, l, r) /\ pc[s] \in Behind
           /\ (l = "badge" /\ r = reply[s]) \/ l = "done"
    BY <1>6, MovesBehind
  <2>2. reply[s] = "none" /\ (k \in Mutations => performed[s])
    BY <2>1 DEF CallInv, ServerInv, Behind
  <2>3. k \in Mutations \/ r = "ok" => new
    BY <1>3, <2>1, <2>2 DEF new
  <2>4. k \notin Flags
    BY <2>1 DEF CallInv, ServerInv
  <2>5. Served(s, l, r)
    BY <1>1, <2>1, <2>2, <2>3, <2>4 DEF Served, Ahead, Behind
  <2> QED BY <1>1, <1>2, <2>5
<1>7. CASE Conflict(s) \/ Fail(s)
  <2>1. PICK r \in Replies : Moves(s, "done", r) /\ pc[s] \in Ahead \cup Behind /\ r # "ok"
    BY <1>7, MovesRefused
  <2>2. k \in Flags => ~new
    <3> SUFFICES ASSUME k \in Flags PROVE ~new
      OBVIOUS
    <3>1. pc[s] \in Ahead /\ ~performed[s] /\ k \in Mutations
      BY <2>1 DEF CallInv, ServerInv, Mutations
    <3>2. reply'[s] = r
      BY <1>3, <2>1 DEF Labels
    <3>3. Act(s) => reply'[s] \in {"ok", "not_found"}
      BY <1>3, MovesAct
    <3>4. ~(Act(s) /\ reply'[s] # "not_found")
      BY <2>1, <3>2, <3>3
    <3> QED BY <3>1, <3>4 DEF new
  <2>3. Served(s, "done", r) /\ "done" \in Labels
    BY <1>1, <2>1, <2>2 DEF Served, Ahead, Behind, Labels
  <2> QED BY <1>1, <1>2, <2>3
<1>8. CASE Leave(s)
  BY <1>8 DEF Serve, Leave
<1> QED BY <1>4, <1>5, <1>6, <1>7, <1>8 DEF Serve, Handle

\* A handler's step keeps what client and server know.
LEMMA ServeKeepsInv ==
  ASSUME CallInv, NEW s \in Slot, Serve(s)
  PROVE  CallInv'
<1>1. PICK l \in Labels, r \in Replies : Served(s, l, r)
  BY ServeMoves
<1>2. /\ performed' \in [Slot -> BOOLEAN]
      /\ \A t \in Slot \ {s} : performed'[t] = performed[t]
  BY ServeMoves
<1>3. UNCHANGED <<stage, call, wire, outcome, req>>
  BY <1>1 DEF Serve, Served, Moves
<1>4. Shape'
  BY <1>1, <1>2, <1>3 DEF Served, Moves, CallInv, Shape
<1>5. pc'[s] = l /\ reply'[s] = r
  BY <1>1 DEF Served, Moves, CallInv, Shape
<1>6. \A t \in Slot \ {s} : pc'[t] = pc[t] /\ reply'[t] = reply[t]
  BY <1>1 DEF Served, Moves, CallInv, Shape
<1>7. ASSUME NEW t \in Slot \ {s} PROVE ClientInv(t)' /\ ServerInv(t)'
  BY <1>2, <1>3, <1>6 DEF CallInv, ClientInv, ServerInv
<1>8. ClientInv(s)'
  <2>1. stage[s] # "idle" /\ ~wire[s]
    BY <1>1 DEF Served, CallInv, Shape, ClientInv, Ahead, Behind
  <2>2. pc[s] # "idle" /\ outcome[s] \in {"none", "error"}
    BY <1>1 DEF Served, CallInv, Shape, ClientInv, Ahead, Behind
  <2>3. ClientInv(s)
    BY DEF CallInv
  <2> QED BY <1>3, <2>1, <2>2, <2>3 DEF ClientInv
<1>9. ServerInv(s)'
  BY <1>1, <1>3, <1>5 DEF Served, CallInv, ServerInv, Ahead, Behind
<1> QED BY <1>4, <1>7, <1>8, <1>9 DEF CallInv

LEMMA InitCallInv == RelayInit => CallInv
  BY DEF RelayInit, RInit, CallInv, Shape, ClientInv, ServerInv, Labels, Replies, Ahead, Behind

\* The client's steps.
LEMMA ClientKeepsInv ==
  ASSUME CallInv, NEW s \in Slot,
         (\E c \in Calls : Send(s, c)) \/ Receive(s) \/ GiveUp(s) \/ Done(s)
  PROVE  CallInv'
<1>1. CASE \E c \in Calls : Send(s, c)
  <2>1. PICK c \in Calls : Send(s, c)
    BY <1>1
  <2>2. Shape'
    BY <2>1 DEF CallInv, Shape, Send, vars
  <2>3. ASSUME NEW t \in Slot PROVE ClientInv(t)'
    BY <2>1 DEF CallInv, Shape, ClientInv, Send, vars
  <2>4. ASSUME NEW t \in Slot PROVE ServerInv(t)'
    BY <2>1 DEF CallInv, Shape, ClientInv, ServerInv, Send, vars, Ahead, Behind
  <2> QED BY <2>2, <2>3, <2>4 DEF CallInv
<1>2. CASE Receive(s)
  <2> DEFINE o == Outcome(call[s].kind, reply[s])
  <2>1. o \in {"true", "false", "null", "value", "error"}
    BY DEF Outcome
  <2>2. o = "false" => ~performed[s]
    BY <1>2 DEF Receive, Outcome, CallInv, ServerInv
  <2> HIDE DEF o
  <2>3. /\ stage' = [stage EXCEPT ![s] = "returned"] /\ outcome' = [outcome EXCEPT ![s] = o]
        /\ pc[s] = "done" /\ pc' = [pc EXCEPT ![s] = "idle"]
        /\ reply' = [reply EXCEPT ![s] = "none"] /\ req' = [req EXCEPT ![s] = NoRequest]
        /\ UNCHANGED <<call, wire, performed>>
    BY <1>2 DEF Receive, Leave, o
  <2>4. Shape'
    BY <2>1, <2>3 DEF CallInv, Shape, Labels, Replies
  <2>5. ASSUME NEW t \in Slot PROVE ClientInv(t)'
    BY <1>2, <2>1, <2>2, <2>3 DEF CallInv, Shape, ClientInv, Receive
  <2>6. ASSUME NEW t \in Slot PROVE ServerInv(t)'
    BY <2>3 DEF CallInv, Shape, ServerInv, Ahead, Behind
  <2> QED BY <2>4, <2>5, <2>6 DEF CallInv
<1>3. CASE GiveUp(s)
  <2>1. Shape'
    BY <1>3 DEF CallInv, Shape, GiveUp, vars
  <2>2. ASSUME NEW t \in Slot PROVE ClientInv(t)' /\ ServerInv(t)'
    BY <1>3 DEF CallInv, Shape, ClientInv, ServerInv, GiveUp, vars
  <2> QED BY <2>1, <2>2 DEF CallInv
<1>4. CASE Done(s)
  <2>1. Shape'
    BY <1>4 DEF CallInv, Shape, Done, vars
  <2>2. ASSUME NEW t \in Slot PROVE ClientInv(t)' /\ ServerInv(t)'
    BY <1>4 DEF CallInv, Shape, ClientInv, ServerInv, Done, vars, Ahead, Behind
  <2> QED BY <2>1, <2>2 DEF CallInv
<1> QED BY <1>1, <1>2, <1>3, <1>4

\* The request that arrives is for the same kind of thing as the call.
LEMMA RequestKind ==
  ASSUME NEW c \in Calls, NEW t
  PROVE  LET kind == RequestFor(c, t).kind
         IN  /\ kind \in ServerKinds
             /\ c.kind \in Flags => kind = c.kind
             /\ FirstCall(kind) \in Ahead
             /\ FirstCall(kind) \in {"authenticate", "claim"} => kind \notin Mutations
<1>1. "kind" \in DOMAIN c /\ c.kind \in Flags \cup Optionals \cup Values
  BY DEF Call, Anonymous, Flags, Optionals, Values
<1>2. RequestFor(c, t).kind = IF c.kind = "is_admin" THEN "get_user" ELSE c.kind
  BY <1>1 DEF RequestFor
<1> QED BY <1>1, <1>2
        DEF ServerKinds, Flags, Optionals, Values, Mutations, FirstCall, Ahead, Open

\* What happens on the way and to a connection that is closed.
LEMMA NetworkKeepsInv ==
  ASSUME CallInv, NEW s \in Slot, Lose(s) \/ Reject(s) \/ Deliver(s) \/ Hangup(s)
  PROVE  CallInv'
<1>1. CASE Lose(s)
  <2>1. Shape'
    BY <1>1 DEF CallInv, Shape, Lose, vars
  <2>2. ASSUME NEW t \in Slot PROVE ClientInv(t)' /\ ServerInv(t)'
    BY <1>1 DEF CallInv, Shape, ClientInv, ServerInv, Lose, vars
  <2> QED BY <2>1, <2>2 DEF CallInv
<1>2. CASE Reject(s)
  <2>1. Shape'
    BY <1>2 DEF CallInv, Shape, Reject, Labels, Replies
  <2>2. ASSUME NEW t \in Slot PROVE ClientInv(t)' /\ ServerInv(t)'
    BY <1>2 DEF CallInv, Shape, ClientInv, ServerInv, Reject, Ahead, Behind
  <2> QED BY <2>1, <2>2 DEF CallInv
<1>3. CASE Deliver(s)
  <2> DEFINE r == RequestFor(call[s], carried[s])
  <2>1. call[s] \in Calls
    BY <1>3 DEF Deliver, CallInv, ClientInv
  <2>2. /\ r.kind \in ServerKinds /\ FirstCall(r.kind) \in Ahead
        /\ call[s].kind \in Flags => r.kind = call[s].kind
        /\ FirstCall(r.kind) \in {"authenticate", "claim"} => r.kind \notin Mutations
    BY <2>1, RequestKind
  <2> HIDE DEF r
  <2>3. /\ wire' = [wire EXCEPT ![s] = FALSE] /\ pc' = [pc EXCEPT ![s] = FirstCall(r.kind)]
        /\ req' = [req EXCEPT ![s] = r] /\ wire[s]
        /\ UNCHANGED <<reply, stage, call, outcome, performed>>
    BY <1>3 DEF Deliver, Arrive, r
  <2>4. Shape'
    BY <2>2, <2>3 DEF CallInv, Shape, Labels, Ahead
  <2>5. ASSUME NEW t \in Slot \ {s} PROVE ClientInv(t)' /\ ServerInv(t)'
    BY <2>3 DEF CallInv, Shape, ClientInv, ServerInv
  <2>6. ClientInv(s)'
    BY <2>1, <2>3 DEF CallInv, Shape, ClientInv
  <2>7. ServerInv(s)'
    BY <2>2, <2>3 DEF CallInv, Shape, ClientInv, ServerInv, Ahead, Behind
  <2> QED BY <2>4, <2>5, <2>6, <2>7 DEF CallInv
<1>4. CASE Hangup(s)
  <2>1. Shape'
    BY <1>4 DEF CallInv, Shape, Hangup, clientVars, Labels, Replies
  <2>2. ASSUME NEW t \in Slot PROVE ClientInv(t)' /\ ServerInv(t)'
    BY <1>4 DEF CallInv, Shape, ClientInv, ServerInv, Hangup, clientVars, Ahead, Behind
  <2> QED BY <2>1, <2>2 DEF CallInv
<1> QED BY <1>1, <1>2, <1>3, <1>4

LEMMA NextKeepsInv == CallInv /\ [RelayNext]_rVars => CallInv'
<1> SUFFICES ASSUME CallInv, [RelayNext]_rVars PROVE CallInv'
  OBVIOUS
<1>1. CASE RelayNext
  BY <1>1, ClientKeepsInv, NetworkKeepsInv, ServeKeepsInv DEF RelayNext
<1>2. CASE UNCHANGED rVars
  BY <1>2 DEF rVars, vars, clientVars, CallInv, Shape, ClientInv, ServerInv
<1> QED BY <1>1, <1>2

THEOREM CallInvariant == RelaySpec => []CallInv
  BY InitCallInv, NextKeepsInv, PTL DEF RelaySpec

\* request_no_content returns false for 404 as for 401, 403, 409 and 500, and
\* never for something the server has done.
THEOREM FalseIsNotDoneHolds == RelaySpec => []FalseIsNotDone
<1>1. CallInv => FalseIsNotDone
  BY DEF CallInv, ClientInv, FalseIsNotDone
<1> QED BY <1>1, CallInvariant, PTL

\* A success is reported only for what the server has executed.
LEMMA SuccessIsDone ==
  ASSUME CallInv, NEW s \in Slot, pc[s] = "done",
         Result(Outcome(call[s].kind, reply[s])) = "success"
  PROVE  performed[s]
<1>1. reply[s] = "ok"
  BY DEF Result, Outcome
<1> QED BY <1>1 DEF CallInv, ServerInv

\* Every step of the relay is one of RemoteCall, or none.
LEMMA NextRefines ==
  ASSUME CallInv, [RelayNext]_rVars
  PROVE  [Remote!Next]_(Remote!vars)
<1> DEFINE ph == [s \in Slot |-> Phase(stage[s])]
           oc == [s \in Slot |-> Result(outcome[s])]
           Same == ph' = ph /\ oc' = oc /\ performed' = performed
<1>1. Same => [Remote!Next]_(Remote!vars)
  BY DEF Remote!vars
<1>2. CASE UNCHANGED rVars
  BY <1>1, <1>2 DEF rVars, clientVars
<1>3. ASSUME NEW s \in Slot, NEW c \in Calls, Send(s, c)
      PROVE  Remote!Next
  <2>1. Remote!Invoke(s)
    BY <1>3 DEF Remote!Invoke, Send, Phase, CallInv, Shape
  <2> QED BY <2>1 DEF Remote!Next
<1>4. ASSUME NEW s \in Slot, Receive(s)
      PROVE  Remote!Next
  <2> DEFINE o == Result(Outcome(call[s].kind, reply[s]))
  <2>1. o \in {"success", "failure"} /\ (o = "success" => performed[s])
    <3>1. o \in {"success", "failure"}
      BY DEF Outcome, Result
    <3> QED BY <1>4, <3>1, SuccessIsDone DEF Receive
  <2>2. Remote!Finish(s, o)
    BY <1>4 DEF Remote!Finish, Receive, Phase, CallInv, Shape
  <2>3. Remote!Succeed(s) \/ Remote!Fail(s)
    BY <2>1, <2>2 DEF Remote!Succeed, Remote!Fail
  <2> QED BY <2>3 DEF Remote!Next
<1>5. ASSUME NEW s \in Slot, GiveUp(s)
      PROVE  Remote!Next
  <2>1. Remote!Fail(s)
    BY <1>5 DEF Remote!Fail, Remote!Finish, GiveUp, Phase, Result, CallInv, Shape
  <2> QED BY <2>1 DEF Remote!Next
<1>6. ASSUME NEW s \in Slot, Done(s)
      PROVE  Remote!Next
  <2>1. Remote!Settle(s)
    BY <1>6 DEF Remote!Settle, Done, Phase, Result, CallInv, Shape
  <2> QED BY <2>1 DEF Remote!Next
<1>7. ASSUME NEW s \in Slot, Serve(s)
      PROVE  [Remote!Next]_(Remote!vars)
  <2>1. /\ performed' \in [Slot -> BOOLEAN]
        /\ \A t \in Slot \ {s} : performed'[t] = performed[t]
        /\ performed[s] => performed'[s]
    BY <1>7, ServeMoves
  <2>2. ph' = ph /\ oc' = oc /\ performed \in [Slot -> BOOLEAN]
    BY <1>7 DEF Serve, CallInv, Shape
  <2>3. CASE performed'[s] = performed[s]
    BY <1>1, <2>1, <2>2, <2>3
  <2>4. CASE performed'[s] # performed[s]
    <3>1. ~performed[s] /\ performed' = [performed EXCEPT ![s] = TRUE]
      BY <2>1, <2>2, <2>4
    <3>2. stage[s] # "idle"
      <4>1. PICK l \in Labels, r \in Replies : Served(s, l, r)
        BY <1>7, ServeMoves
      <4> QED BY <4>1 DEF Served, CallInv, ClientInv, Ahead, Behind
    <3>3. Remote!Perform(s)
      BY <2>2, <3>1, <3>2 DEF Remote!Perform, Phase, CallInv, Shape
    <3> QED BY <3>3 DEF Remote!Next
  <2> QED BY <2>3, <2>4
<1>8. ASSUME NEW s \in Slot, Lose(s) \/ Reject(s) \/ Deliver(s) \/ Hangup(s)
      PROVE  Same
  BY <1>8 DEF Lose, Reject, Deliver, Hangup, clientVars
<1> QED BY <1>1, <1>2, <1>3, <1>4, <1>5, <1>6, <1>7, <1>8 DEF RelayNext

\* A method of a Database opened with a URL is executed at most once, and
\* reports success only after it was: the relay implements RemoteCall.
THEOREM RelayIsAtMostOnce == RelaySpec => AtMostOnce
<1>1. RelayInit => Remote!Init
  BY DEF RelayInit, Remote!Init, Phase, Result
<1>2. CallInv /\ [RelayNext]_rVars => [Remote!Next]_(Remote!vars)
  BY NextRefines
<1> QED BY <1>1, <1>2, CallInvariant, PTL DEF RelaySpec, AtMostOnce, Remote!Spec

\* What ActsForItsCaller rests on: a slot without a request holds none, so a
\* call that is made in it finds nothing of the one before.
CarriedInv ==
  /\ carried = [s \in Slot |-> carried[s]]
  /\ \A s \in Slot : pc[s] = "idle" => req[s] = NoRequest
  /\ ActsForItsCaller

LEMMA InitCarriedInv == RelayInit => CarriedInv
BY DEF RelayInit, RInit, CarriedInv, ActsForItsCaller

\* The request that arrives bears the token its call was built with.
LEMMA RequestToken ==
  ASSUME NEW c \in Calls, NEW t, c.kind \notin Anonymous
  PROVE  RequestFor(c, t).token = t
BY DEF RequestFor

LEMMA NextKeepsCarriedInv ==
  ASSUME CallInv, CarriedInv, [RelayNext]_rVars
  PROVE  CarriedInv'
<1> USE DEF CallInv, Shape, CarriedInv, ActsForItsCaller
<1>1. ASSUME NEW s \in Slot, NEW c \in Calls, Send(s, c) PROVE CarriedInv'
  <2>1. req[s] = NoRequest
    BY <1>1 DEF Send, ClientInv
  <2> QED BY <1>1, <2>1 DEF Send, vars
<1>2. ASSUME NEW s \in Slot, Receive(s) PROVE CarriedInv'
  BY <1>2 DEF Receive, Leave
<1>3. ASSUME NEW s \in Slot, GiveUp(s) \/ Lose(s) PROVE CarriedInv'
  BY <1>3 DEF GiveUp, Lose, vars
<1>4. ASSUME NEW s \in Slot, Done(s) PROVE CarriedInv'
  BY <1>4 DEF Done, vars
<1>5. ASSUME NEW s \in Slot, Reject(s) PROVE CarriedInv'
  BY <1>5 DEF Reject
<1>6. ASSUME NEW s \in Slot, Deliver(s) PROVE CarriedInv'
  <2> DEFINE r == RequestFor(call[s], carried[s])
  <2>1. call[s] \in Calls
    BY <1>6 DEF Deliver, ClientInv
  <2>2. call[s].kind \notin Anonymous => r.token = carried[s]
    BY <2>1, RequestToken
  <2>3. FirstCall(r.kind) # "idle"
    BY <2>1, RequestKind DEF Ahead
  <2> HIDE DEF r
  <2>4. /\ pc' = [pc EXCEPT ![s] = FirstCall(r.kind)] /\ req' = [req EXCEPT ![s] = r]
        /\ UNCHANGED <<call, carried>>
    BY <1>6 DEF Deliver, Arrive, r
  <2> QED BY <2>2, <2>3, <2>4
<1>7. ASSUME NEW s \in Slot, Serve(s) PROVE CarriedInv'
  <2>1. PICK l \in Labels, r \in Replies : Served(s, l, r)
    BY <1>7, ServeMoves
  <2>2. l # "idle"
    BY <2>1 DEF Served, Ahead, Behind
  <2>3. pc' = [pc EXCEPT ![s] = l] /\ UNCHANGED <<req, call, carried>>
    BY <1>7, <2>1 DEF Served, Moves, Serve
  <2>4. pc[s] # "idle"
    BY <2>1 DEF Served, Ahead, Behind
  <2> QED BY <2>2, <2>3, <2>4
<1>8. ASSUME NEW s \in Slot, Hangup(s) PROVE CarriedInv'
  BY <1>8 DEF Hangup, clientVars
<1>9. CASE UNCHANGED rVars
  BY <1>9 DEF rVars, vars, clientVars
<1> QED
  BY <1>1, <1>2, <1>3, <1>4, <1>5, <1>6, <1>7, <1>8, <1>9 DEF RelayNext

\* A login that comes back while a call is under way changes nothing about
\* whom that call acts for, however many calls share the token.
THEOREM ActsForItsCallerHolds == RelaySpec => []ActsForItsCaller
<1> DEFINE Inv == CallInv /\ CarriedInv
<1>1. RelayInit => Inv
  BY InitCallInv, InitCarriedInv
<1>2. Inv /\ [RelayNext]_rVars => Inv'
  BY NextKeepsInv, NextKeepsCarriedInv
<1>3. Inv => ActsForItsCaller
  BY DEF CarriedInv
<1> QED BY <1>1, <1>2, <1>3, PTL DEF RelaySpec
-----------------------------------------------------------------------------
(* The served database, and the types *)

USE UserStoreAssumption

\* What the client sends is a request that a client of the API may send.
LEMMA CallsBecomeRequests ==
  ASSUME NEW c \in Calls, NEW t, c.kind \notin Anonymous => t \in Token
  PROVE  RequestFor(c, t) \in Request
<1> DEFINE r == RequestFor(c, t)
<1> USE DEF RequestFor, Request, Anonymous
<1>1. CASE c \in [kind: Anonymous, name: Usernames, password: Passwords]
  <2>1. r = [kind |-> c.kind, name |-> c.name, password |-> c.password]
    BY <1>1
  <2> HIDE DEF r
  <2> QED BY <1>1, <2>1 DEF Open
<1>2. CASE c \in [kind: {"delete_user", "get_user", "is_admin"}, user: UserIdArg]
  <2>1. r = [kind |-> IF c.kind = "is_admin" THEN "get_user" ELSE c.kind,
             token |-> t, user |-> c.user]
    BY <1>2
  <2> HIDE DEF r
  <2> QED BY <1>2, <2>1
<1>3. CASE c \in [kind: {"update_user"}, user: UserIdArg, change: UserChange]
  <2>1. r = [kind |-> "update_user", token |-> t, user |-> c.user, change |-> c.change]
    BY <1>3
  <2> HIDE DEF r
  <2> QED BY <1>3, <2>1
<1>4. CASE c \in [kind: {"create_group"}, name: GroupNames, is_admin: BOOLEAN]
  <2>1. r = [kind |-> "create_group", token |-> t, name |-> c.name, is_admin |-> c.is_admin]
    BY <1>4
  <2> HIDE DEF r
  <2> QED BY <1>4, <2>1
<1>5. CASE c \in [kind: {"delete_group", "get_group"}, group: GroupIdArg]
  <2>1. r = [kind |-> c.kind, token |-> t, group |-> c.group]
    BY <1>5
  <2> HIDE DEF r
  <2> QED BY <1>5, <2>1
<1>6. CASE c \in [kind: {"update_group"}, group: GroupIdArg, change: GroupChange]
  <2>1. r = [kind |-> "update_group", token |-> t, group |-> c.group, change |-> c.change]
    BY <1>6
  <2> HIDE DEF r
  <2> QED BY <1>6, <2>1 DEF GroupUpdates
<1>7. CASE c \in [kind: {"add_member", "remove_member"}, group: GroupIdArg, user: UserIdArg]
  <2>1. CASE c.kind = "add_member"
    <3>1. r = [kind |-> c.kind, token |-> t, group |-> c.group, user |-> c.user,
               body |-> c.group]
      BY <1>7, <2>1
    <3> HIDE DEF r
    <3> QED BY <1>7, <2>1, <3>1
  <2>2. CASE c.kind = "remove_member"
    <3>1. r = [kind |-> c.kind, token |-> t, group |-> c.group, user |-> c.user]
      BY <1>7, <2>2
    <3> HIDE DEF r
    <3> QED BY <1>7, <2>2, <3>1
  <2> QED BY <1>7, <2>1, <2>2
<1>8. CASE c \in [kind: {"read"}]
  <2>1. r = [kind |-> "read", token |-> t]
    BY <1>8
  <2> HIDE DEF r
  <2> QED BY <1>8, <2>1
<1> QED BY <1>1, <1>2, <1>3, <1>4, <1>5, <1>6, <1>7, <1>8 DEF Call

\* The client holds and sends only tokens that the server has handed out.
TokensKnown ==
  /\ held \in tokens \cup {NoToken}
  /\ carried \in [Slot -> tokens \cup {NoToken}]
  /\ call \in [Slot -> Calls \cup {NoCall}]
  /\ Witnessed

RelayInv == CallInv /\ HandlerInv /\ TokensKnown

LEMMA RelayStep ==
  ASSUME RelayInv, [RelayNext]_rVars
  PROVE  HandlerInv' /\ TokensKnown' /\ [Next]_db
<1> USE DEF RelayInv, TokensKnown, Witnessed
<1>1. ASSUME UNCHANGED vars
      PROVE  HandlerInv' /\ db' = db
  BY <1>1 DEF vars, HandlerInv, Known
<1>2. ASSUME NEW s \in Slot, NEW c \in Calls, Send(s, c)
      PROVE  TokensKnown' /\ UNCHANGED vars
  BY <1>2 DEF Send, vars
<1>3. ASSUME NEW s \in Slot, Receive(s)
      PROVE  HandlerInv' /\ TokensKnown' /\ db' = db
  <2>1. Leave(s) /\ UNCHANGED <<call, carried, witnessed>>
        /\ (held' \in tokens \/ held' = held)
    BY <1>3 DEF Receive
  <2> QED BY <2>1, LeaveKeepsInv DEF Leave
<1>4. ASSUME NEW s \in Slot, GiveUp(s) \/ Done(s) \/ Lose(s)
      PROVE  TokensKnown' /\ UNCHANGED vars
  BY <1>4 DEF GiveUp, Done, Lose, vars
<1>5. ASSUME NEW s \in Slot, Reject(s)
      PROVE  HandlerInv' /\ TokensKnown' /\ db' = db
  <2>1. /\ pc' = [pc EXCEPT ![s] = "done"] /\ reply' = [reply EXCEPT ![s] = "unauthorized"]
        /\ UNCHANGED <<db, req, local, tokens, witnessed, held, call, carried>>
    BY <1>5 DEF Reject
  <2>2. HandlerInv'
    BY <2>1 DEF HandlerInv, Known, Labels, Replies
  <2> QED BY <2>1, <2>2
<1>6. ASSUME NEW s \in Slot, Deliver(s)
      PROVE  HandlerInv' /\ TokensKnown' /\ db' = db
  <2> DEFINE r == RequestFor(call[s], carried[s])
  <2>1. call[s] \in Calls /\ (call[s].kind \notin Anonymous => carried[s] \in Token)
    BY <1>6 DEF Deliver, CallInv, Shape, ClientInv, HandlerInv
  <2>2. r \in Request
    BY <2>1, CallsBecomeRequests
  <2> HIDE DEF r
  <2>3. Arrive(s, r) /\ UNCHANGED <<witnessed, held, call, carried>>
    BY <1>6 DEF Deliver, r
  <2> QED BY <2>2, <2>3, ArriveKeepsInv DEF Arrive
<1>7. ASSUME NEW s \in Slot, Serve(s)
      PROVE  HandlerInv' /\ TokensKnown' /\ [Next]_db
  <2>1. Handle(s) /\ UNCHANGED <<witnessed, held, call, carried>>
    BY <1>7 DEF Serve
  <2> QED BY <2>1, HandleKeepsInv
<1>8. ASSUME NEW s \in Slot, Hangup(s)
      PROVE  HandlerInv' /\ TokensKnown' /\ db' = db
  <2>1. HandlerInv'
    BY <1>8, ClearKeepsInv DEF Hangup
  <2> QED BY <1>8, <2>1 DEF Hangup, clientVars
<1>9. CASE UNCHANGED rVars
  <2>1. UNCHANGED vars /\ TokensKnown'
    BY <1>9 DEF rVars, vars, clientVars
  <2> QED BY <1>1, <2>1
<1>10. CASE RelayNext
  <2>1. CASE \E s \in Slot :
               (\E c \in Calls : Send(s, c)) \/ GiveUp(s) \/ Done(s) \/ Lose(s)
    <3>1. TokensKnown' /\ UNCHANGED vars
      BY <1>2, <1>4, <2>1
    <3> QED BY <1>1, <3>1
  <2>2. CASE \E s \in Slot : Receive(s) \/ Reject(s) \/ Deliver(s) \/ Hangup(s)
    BY <1>3, <1>5, <1>6, <1>8, <2>2
  <2>3. CASE \E s \in Slot : Serve(s)
    BY <1>7, <2>3
  <2> QED BY <1>10, <2>1, <2>2, <2>3 DEF RelayNext
<1> QED BY <1>9, <1>10

LEMMA RelayInvariance == RelaySpec => []RelayInv
<1>1. RelayInit => RelayInv
  <2>1. RelayInit => HandlerInv /\ TokensKnown
    BY InitHandlerInv DEF RelayInit, RInit, TokensKnown, Witnessed
  <2> QED BY <2>1, InitCallInv DEF RelayInv
<1>2. RelayInv /\ [RelayNext]_rVars => RelayInv'
  BY RelayStep, NextKeepsInv DEF RelayInv
<1> QED BY <1>1, <1>2, PTL DEF RelaySpec

\* The client's and the server's variables keep their types: whatever is lost,
\* given up or cut off, each call becomes a request that the API has, and the
\* server never works on anything else.
THEOREM RelayTypeCorrect == RelaySpec => []RelayTypeOK
<1>1. RelayInv => RelayTypeOK
  BY DEF RelayInv, CallInv, Shape, HandlerInv, TokensKnown, Witnessed, RelayTypeOK, RTypeOK,
         TypeOK, Sound, Memory
<1> QED BY <1>1, RelayInvariance, PTL

\* The database behind a relay takes the steps of UserStore and no others,
\* whatever is lost, given up, repeated or cut off on the way to it.
THEOREM RelayCallsTheStore == RelaySpec => [][Next]_db
<1>1. RelayInv /\ [RelayNext]_rVars => [Next]_db
  BY RelayStep
<1> QED BY <1>1, RelayInvariance, PTL DEF RelaySpec
\* A token that a relay holds, or that is on its way with a call, is refused
\* for good once its user has been deleted, however long it is kept.
THEOREM RelayTokensStayDead ==
  RelaySpec =>
    /\ []TokensKnown
    /\ DeletedTokensStayDead
<1>1. RelayInv => TokensKnown
  BY DEF RelayInv
<1>2. RelayInv /\ [RelayNext]_rVars =>
        [\A t \in tokens : t.sub \notin UserIds(db) => t.sub \notin UserIds(db')]_vars
  BY RelayStep, DeadTokensStep DEF RelayInv
<1> QED BY <1>1, <1>2, RelayInvariance, PTL DEF RelaySpec, DeletedTokensStayDead
=============================================================================
