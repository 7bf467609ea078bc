---------------------------- MODULE HandlersProofs ----------------------------
(***************************************************************************)
(* What the requests in progress make of the database, for any number of   *)
(* them, any database the server starts on and any failing calls: every    *)
(* step of a handler is one method of UserStore or none, so that what the  *)
(* store promises holds of the served database as well, and what a handler *)
(* remembers and the tokens that circulate stay within what was given out. *)
(* From that, what toggling an administrator may leave behind, and what a  *)
(* client may believe that is told its edit was made.                      *)
(***************************************************************************)
EXTENDS Requests, UserStoreProofs

USE TablesAssumption, UserStoreAssumption, RequestsAssumption, StartAssumption

Memory == [name: Usernames \cup {Unset}, flag: BOOLEAN, found: Nat]

\* The ids that a token or a handler may hold have been given out, so each is
\* one that a method of the store may name.
Known(s) ==
  /\ pc[s] \notin {"idle", "done"} => req[s] # NoRequest
  /\ req[s] # NoRequest /\ req[s].kind \notin Open => req[s].token \in tokens
  /\ pc[s] = "claim" => local[s].found \in 1..db.userSeq

HandlerInv ==
  /\ Sound(db) /\ db.userSeq <= MaxUserId
  /\ pc \in [Slot -> Labels]
  /\ req \in [Slot -> Request \cup {NoRequest}]
  /\ local \in [Slot -> Memory]
  /\ reply \in [Slot -> Replies]
  /\ tokens \in SUBSET Token
  /\ \A t \in tokens : t.sub <= db.userSeq
  /\ \A s \in Slot : Known(s)

-----------------------------------------------------------------------------
(* What a request consists of *)

LEMMA KindOfRequest ==
  \A r \in Request :
    r.kind \in Open \cup AnyUser \cup SelfOrAdmin \cup AdminOnly \cup OthersOnly
BY DEF Request, Open, AnyUser, SelfOrAdmin, AdminOnly, OthersOnly, GroupUpdates, Joins

LEMMA CredentialsOfRequest ==
  \A r \in Request : r.kind \in Creations => r.name \in Usernames /\ r.password \in Passwords
BY DEF Request, Open, Creations, GroupUpdates, Joins

LEMMA UserOfRequest ==
  \A r \in Request :
    r.kind \in (UserUpdates \ {"me_update", "me_password"}) \cup Joins
                 \cup {"delete_user", "toggle_admin", "remove_member"}
      => r.user \in UserIdArg
BY DEF Request, Open, UserUpdates, Passwordings, GroupUpdates, Joins

LEMMA GroupOfRequest ==
  \A r \in Request :
    r.kind \in GroupUpdates \cup Joins \cup {"delete_group", "remove_member"}
      => r.group \in GroupIdArg
BY DEF Request, Open, GroupUpdates, Joins

LEMMA ChangeOfRequest ==
  \A r \in Request :
    /\ r.kind \in {"update_user", "users_edit"} => r.change \in UserChange
    /\ r.kind = "me_update" => r.name \in Usernames
    /\ r.kind \in Passwordings => r.password \in Passwords
    /\ r.kind \in GroupUpdates => r.change \in GroupChange
    /\ r.kind = "create_group" => r.name \in GroupNames /\ r.is_admin \in BOOLEAN
BY DEF Request, Open, Passwordings, GroupUpdates, Joins

\* A request never is the empty slot.
LEMMA NoRequestIsNone == NoRequest \notin Request
BY KindOfRequest DEF NoRequest, Open, AnyUser, SelfOrAdmin, AdminOnly, OthersOnly

-----------------------------------------------------------------------------
(* One step of a handler *)

\* The user a change is about has been given an id.
LEMMA SubjectInRange ==
  ASSUME HandlerInv, NEW s \in Slot, req[s] \in Request, req[s].kind \in UserUpdates
  PROVE  Subject(req[s]) \in UserIdArg
<1>1. CASE req[s].kind \in {"me_update", "me_password"}
  <2>1. req[s].token \in tokens
    BY <1>1, NoRequestIsNone DEF HandlerInv, Known, Open
  <2>2. /\ req[s].token.sub \in Nat \ {0}
        /\ req[s].token.sub <= db.userSeq
    BY <2>1 DEF HandlerInv, Token, Id
  <2>3. db.userSeq \in Nat /\ db.userSeq <= MaxUserId
    BY DEF HandlerInv, Sound, Db
  <2> QED BY <1>1, <2>2, <2>3 DEF Subject, UserIdArg
<1>2. CASE req[s].kind \notin {"me_update", "me_password"}
  BY <1>2, UserOfRequest DEF Subject
<1> QED BY <1>1, <1>2

LEMMA ChangeIsTyped ==
  ASSUME HandlerInv, NEW s \in Slot, req[s] \in Request, req[s].kind \in UserUpdates
  PROVE  Change(s) \in UserChange
<1> DEFINE r == req[s]
<1>1. NoChange \in UserChange
  BY DEF NoChange, UserChange
<1>2. CASE r.kind \in {"update_user", "users_edit"}
  BY <1>2, ChangeOfRequest DEF Change, Passwordings
<1>3. CASE r.kind = "toggle_active"
  <2>1. (~local[s].flag) \in BOOLEAN
    OBVIOUS
  <2>2. Change(s) = [NoChange EXCEPT !.active = ~local[s].flag]
    BY <1>3 DEF Change, Passwordings
  <2> QED BY <2>1, <2>2 DEF NoChange, UserChange
<1>4. CASE r.kind = "me_update"
  <2>1. Change(s) = [NoChange EXCEPT !.username = r.name] /\ r.name \in Usernames
    BY <1>4, ChangeOfRequest DEF Change, Passwordings
  <2> QED BY <2>1 DEF NoChange, UserChange
<1>5. CASE r.kind \in Passwordings
  <2>1. Change(s) = [NoChange EXCEPT !.password = r.password] /\ r.password \in Passwords
    BY <1>5, ChangeOfRequest DEF Change, Passwordings
  <2> QED BY <2>1 DEF NoChange, UserChange
<1> QED BY <1>2, <1>3, <1>4, <1>5 DEF UserUpdates

\* The effect of every handler is one method of the store, called with
\* arguments of its types and with ids that may exist.
LEMMA EffectIsNext ==
  ASSUME HandlerInv, NEW s \in Slot, pc[s] = "act", Effect(s)
  PROVE  [Next]_db
<1> DEFINE r == req[s]
<1>1. r \in Request
  BY DEF HandlerInv, Known
<1> HIDE DEF r
<1>2. CASE r.kind \in Creations /\ CreateUser(r.name, r.password)
  BY <1>1, <1>2, CredentialsOfRequest DEF Next
<1>3. CASE r.kind \in UserUpdates /\ UpdateUser(Subject(r), Change(s))
  <2>1. Subject(r) \in UserIdArg /\ Change(s) \in UserChange
    BY <1>1, <1>3, SubjectInRange, ChangeIsTyped DEF r
  <2> QED BY <1>3, <2>1 DEF Next
<1>4. CASE \/ r.kind = "delete_user" /\ DeleteUser(r.user)
           \/ r.kind = "toggle_admin" /\ (PromoteUser(r.user) \/ DemoteUser(r.user))
  BY <1>1, <1>4, UserOfRequest DEF Next
<1>5. CASE r.kind = "create_group" /\ CreateGroup(r.name, r.is_admin)
  BY <1>1, <1>5, ChangeOfRequest DEF Next
<1>6. CASE r.kind \in GroupUpdates /\ UpdateGroup(r.group, r.change)
  BY <1>1, <1>6, ChangeOfRequest, GroupOfRequest DEF Next
<1>7. CASE r.kind = "delete_group" /\ DeleteGroup(r.group)
  BY <1>1, <1>7, GroupOfRequest DEF Next
<1>8. CASE \/ r.kind \in Joins /\ AddUser(r.group, r.user)
           \/ r.kind = "remove_member" /\ RemoveUser(r.group, r.user)
  BY <1>1, <1>8, UserOfRequest, GroupOfRequest DEF Next
<1>9. CASE UNCHANGED db
  BY <1>9
<1> QED BY <1>2, <1>3, <1>4, <1>5, <1>6, <1>7, <1>8, <1>9 DEF Effect, r
\* What a step of a handler may change besides: how far it is, what it
\* remembers and answers, and the token that a login hands out.
Advances(s) ==
  /\ \E l \in Labels \ {"idle"}, x \in Memory, a \in Replies :
       /\ pc' = [pc EXCEPT ![s] = l]
       /\ local' = [local EXCEPT ![s] = x]
       /\ reply' = [reply EXCEPT ![s] = a]
       /\ l = "claim" => x.found \in 1..db.userSeq
  /\ pc[s] \notin {"idle", "done"}
  /\ req' = req
  /\ tokens \subseteq tokens' /\ tokens' \subseteq Token
  /\ \A t \in tokens' : t.sub <= db.userSeq

LEMMA GotoAdvances ==
  ASSUME HandlerInv, NEW s \in Slot, pc[s] \notin {"idle", "done"},
         NEW l \in Labels \ {"idle", "claim"}, Goto(s, l),
         NEW x \in Memory, local' = [local EXCEPT ![s] = x], tokens' = tokens
  PROVE  Advances(s)
<1>1. reply' = [reply EXCEPT ![s] = reply[s]] /\ reply[s] \in Replies
  BY DEF Goto, HandlerInv
<1>2. pc' = [pc EXCEPT ![s] = l] /\ req' = req
  BY DEF Goto
<1> QED BY <1>1, <1>2 DEF Advances, HandlerInv

LEMMA AnswerAdvances ==
  ASSUME HandlerInv, NEW s \in Slot, pc[s] \notin {"idle", "done"},
         NEW a \in Replies, Answer(s, a), local' = local, tokens' = tokens
  PROVE  Advances(s)
<1>1. local' = [local EXCEPT ![s] = local[s]] /\ local[s] \in Memory
  BY DEF HandlerInv
<1>2. pc' = [pc EXCEPT ![s] = "done"] /\ reply' = [reply EXCEPT ![s] = a] /\ req' = req
  BY DEF Answer
<1>3. "done" \in Labels \ {"idle"}
  BY DEF Labels
<1> QED BY <1>1, <1>2, <1>3 DEF Advances, HandlerInv

LEMMA GotoOnlyAdvances ==
  ASSUME HandlerInv, NEW s \in Slot, pc[s] \notin {"idle", "done"},
         NEW l \in Labels \ {"idle", "claim"}, Goto(s, l),
         local' = local, tokens' = tokens
  PROVE  Advances(s)
<1>1. local' = [local EXCEPT ![s] = local[s]] /\ local[s] \in Memory
  BY DEF HandlerInv
<1> QED BY <1>1, GotoAdvances

\* A row that exists has an id that was given out.
LEMMA RowsAreKnown ==
  ASSUME HandlerInv, NEW u \in db.users
  PROVE  /\ u.id \in 1..db.userSeq /\ u.id \in Id
         /\ u.username \in Usernames /\ u.active \in BOOLEAN
<1>1. u \in UserRow /\ u.id <= db.userSeq /\ db.userSeq \in Nat
  BY DEF HandlerInv, Sound, Db, KeysOf
<1> QED BY <1>1 DEF UserRow, Id

LEMMA RememberIsTyped ==
  ASSUME HandlerInv, NEW s \in Slot
  PROVE  /\ \A v \in Usernames : Remember(s, "name", v) =>
              \E x \in Memory : local' = [local EXCEPT ![s] = x]
         /\ \A v \in BOOLEAN : Remember(s, "flag", v) =>
              \E x \in Memory : local' = [local EXCEPT ![s] = x]
         /\ \A v \in Nat : Remember(s, "found", v) =>
              \E x \in Memory : local' = [local EXCEPT ![s] = x] /\ x.found = v
BY DEF HandlerInv, Remember, Memory
\* Up to the act a handler reads the database and remembers what it read.
LEMMA ReadingAdvances ==
  ASSUME HandlerInv, NEW s \in Slot,
         \/ Identify(s) \/ Authorize(s) \/ LookUpGroup(s) \/ LookUpUser(s)
         \/ TargetStatus(s) \/ Authenticate(s) \/ Claim(s)
  PROVE  Advances(s) /\ db' = db
<1> USE DEF Labels, Replies
<1>1. CASE Identify(s)
  <2> DEFINE rows == {u \in db.users : u.id = req[s].token.sub /\ u.active}
  <2>0. pc[s] = "identify" /\ db' = db /\ tokens' = tokens
    BY <1>1 DEF Identify
  <2>1. CASE Answer(s, "unauthorized") /\ local' = local
    BY <2>0, <2>1, AnswerAdvances
  <2>2. CASE \E u \in rows, label \in AfterIdentify(req[s]) :
               Remember(s, "name", u.username) /\ Goto(s, label)
    <3>1. PICK label \in AfterIdentify(req[s]) : Goto(s, label)
      BY <2>2
    <3>2. label \in Labels \ {"idle", "claim"}
      BY <3>1 DEF AfterIdentify, AfterGuard
    <3>3. PICK x \in Memory : local' = [local EXCEPT ![s] = x]
      BY <2>2, RowsAreKnown, RememberIsTyped
    <3> QED BY <2>0, <3>1, <3>2, <3>3, GotoAdvances
  <2> QED BY <1>1, <2>1, <2>2 DEF Identify
<1>2. CASE Authorize(s)
  <2>1. AfterGuard(req[s]) \in Labels \ {"idle", "claim"}
    BY DEF AfterGuard
  <2>2. pc[s] = "authorize" /\ UNCHANGED <<db, local, tokens>>
    BY <1>2 DEF Authorize
  <2>3. \/ Goto(s, AfterGuard(req[s]))
        \/ Answer(s, "forbidden") \/ Answer(s, "bad_request")
    BY <1>2 DEF Authorize
  <2> QED BY <2>1, <2>2, <2>3, GotoOnlyAdvances, AnswerAdvances
<1>3. CASE LookUpGroup(s)
  <2>1. pc[s] = "group" /\ UNCHANGED <<db, local, tokens>>
    BY <1>3 DEF LookUpGroup
  <2>2. Goto(s, "user") \/ Goto(s, "act") \/ Answer(s, "not_found")
    BY <1>3 DEF LookUpGroup
  <2> QED BY <2>1, <2>2, GotoOnlyAdvances, AnswerAdvances
<1>4. CASE LookUpUser(s)
  <2> DEFINE rows == {u \in db.users : u.id = req[s].user}
  <2>0. pc[s] = "user" /\ db' = db /\ tokens' = tokens
    BY <1>4 DEF LookUpUser
  <2>1. CASE Answer(s, "not_found") /\ local' = local
    BY <2>0, <2>1, AnswerAdvances
  <2>2. CASE \E u \in rows : Remember(s, "flag", u.active)
                            /\ Goto(s, AfterLookup(req[s].kind))
    <3>1. PICK x \in Memory : local' = [local EXCEPT ![s] = x]
      BY <2>2, RowsAreKnown, RememberIsTyped
    <3>2. AfterLookup(req[s].kind) \in Labels \ {"idle", "claim"}
      BY DEF AfterLookup
    <3> QED BY <2>0, <2>2, <3>1, <3>2, GotoAdvances
  <2> QED BY <1>4, <2>1, <2>2 DEF LookUpUser
<1>5. CASE TargetStatus(s)
  <2>1. pc[s] = "status" /\ Goto(s, "act") /\ db' = db /\ tokens' = tokens
    BY <1>5 DEF TargetStatus
  <2>2. PICK admin \in {IsAdmin(db, req[s].user), FALSE} : Remember(s, "flag", admin)
    BY <1>5 DEF TargetStatus
  <2>3. admin \in BOOLEAN
    BY <2>2 DEF IsAdmin
  <2>4. PICK x \in Memory : local' = [local EXCEPT ![s] = x]
    BY <2>2, <2>3, RememberIsTyped
  <2> QED BY <2>1, <2>4, GotoAdvances
<1>6. CASE Authenticate(s)
  <2> DEFINE rows == {u \in db.users : u.active /\ <<u.username, u.password>> = Claimed(s)}
  <2>0. pc[s] = "authenticate" /\ db' = db /\ tokens' = tokens
    BY <1>6 DEF Authenticate
  <2>1. CASE (Answer(s, "ok") \/ Answer(s, "wrong")) /\ local' = local
    BY <2>0, <2>1, AnswerAdvances
  <2>2. CASE \E u \in rows : Remember(s, "found", u.id) /\ Goto(s, "claim")
    <3>1. PICK u \in rows : Remember(s, "found", u.id) /\ Goto(s, "claim")
      BY <2>2
    <3>2. u.id \in 1..db.userSeq /\ u.id \in Nat
      BY RowsAreKnown DEF Id
    <3>3. PICK x \in Memory : local' = [local EXCEPT ![s] = x] /\ x.found = u.id
      BY <3>1, <3>2, RememberIsTyped
    <3>4. reply' = [reply EXCEPT ![s] = reply[s]] /\ reply[s] \in Replies
      BY <3>1 DEF Goto, HandlerInv
    <3>5. pc' = [pc EXCEPT ![s] = "claim"] /\ req' = req
      BY <3>1 DEF Goto
    <3> QED BY <2>0, <3>2, <3>3, <3>4, <3>5 DEF Advances, HandlerInv
  <2> QED BY <1>6, <2>1, <2>2 DEF Authenticate
<1>7. CASE Claim(s)
  <2>0. pc[s] = "claim" /\ db' = db /\ local' = local
    BY <1>7 DEF Claim
  <2>1. CASE Goto(s, "act") /\ tokens' = tokens
    BY <2>0, <2>1, GotoOnlyAdvances
  <2>2. CASE Answer(s, "ok") /\ tokens' = tokens \cup {TokenFor(db, local[s].found)}
    <3>1. local[s].found \in 1..db.userSeq
      BY <2>0 DEF HandlerInv, Known
    <3>2. IsAdmin(db, local[s].found) \in BOOLEAN
      BY DEF IsAdmin
    <3>3. /\ TokenFor(db, local[s].found) \in Token
          /\ TokenFor(db, local[s].found).sub <= db.userSeq
      BY <3>1, <3>2 DEF TokenFor, Token, Id, HandlerInv, Sound, Db
    <3>4. local' = [local EXCEPT ![s] = local[s]] /\ local[s] \in Memory
      BY <2>0 DEF HandlerInv
    <3>5. pc' = [pc EXCEPT ![s] = "done"] /\ reply' = [reply EXCEPT ![s] = "ok"]
          /\ req' = req
      BY <2>2 DEF Answer
    <3> QED BY <2>0, <2>2, <3>3, <3>4, <3>5 DEF Advances, HandlerInv
  <2> QED BY <1>7, <2>1, <2>2 DEF Claim
<1> QED BY <1>1, <1>2, <1>3, <1>4, <1>5, <1>6, <1>7
\* The act is the one step that may change the database.
LEMMA ActAdvances ==
  ASSUME HandlerInv, NEW s \in Slot, Act(s)
  PROVE  Advances(s) /\ [Next]_db
<1> DEFINE k == req[s].kind
<1>1. pc[s] = "act" /\ Effect(s) /\ local' = local /\ tokens' = tokens
  BY DEF Act
<1>2. [Next]_db
  BY <1>1, EffectIsNext
<1>3. \/ Goto(s, "reread") \/ Goto(s, "authenticate") \/ Goto(s, "badge")
      \/ Answer(s, "not_found") \/ Answer(s, "ok")
  <2>1. CASE k \in UserUpdates \cup GroupUpdates \cup {"register", "create_user"}
    BY <2>1 DEF Act, UserUpdates, GroupUpdates, Passwordings
  <2>2. CASE k \in {"delete_user", "delete_group", "remove_member"}
    <3>1. Answer(s, IF db' = db THEN "not_found" ELSE "ok")
      BY <2>2 DEF Act, UserUpdates, GroupUpdates, Passwordings
    <3> QED BY <3>1
  <2>3. CASE k \notin UserUpdates \cup GroupUpdates \cup
              {"register", "create_user", "delete_user", "delete_group", "remove_member"}
    BY <2>3 DEF Act
  <2> QED BY <2>1, <2>2, <2>3
<1>4. Advances(s)
  BY <1>1, <1>3, GotoOnlyAdvances, AnswerAdvances DEF Labels, Replies
<1> QED BY <1>2, <1>4

\* What follows it, and what goes wrong, leave the database alone.
LEMMA EndingAdvances ==
  ASSUME HandlerInv, NEW s \in Slot,
         Reread(s) \/ Badge(s) \/ Conflict(s) \/ Fail(s)
  PROVE  Advances(s) /\ db' = db
<1> DEFINE k == req[s].kind
<1> USE DEF Labels, Replies
<1>1. CASE Reread(s)
  <2> DEFINE there == IF k \in GroupUpdates THEN req[s].group \in GroupIds(db)
                      ELSE Subject(req[s]) \in UserIds(db)
  <2>1. pc[s] = "reread" /\ UNCHANGED <<db, local, tokens>>
    BY <1>1 DEF Reread
  <2>2. \/ Goto(s, "badge") \/ Answer(s, "ok") \/ Answer(s, "password_changed")
        \/ Answer(s, "not_found") \/ Answer(s, "error")
    <3>1. CASE k \in Passwordings
      BY <1>1, <3>1 DEF Reread, Passwordings
    <3>2. CASE k \notin Passwordings /\ there
      BY <1>1, <3>2 DEF Reread
    <3>3. CASE k \notin Passwordings /\ ~there
                 /\ k \in {"update_user", "update_group", "toggle_active"}
      BY <1>1, <3>3 DEF Reread
    <3>4. CASE k \notin Passwordings /\ ~there
                 /\ k \notin {"update_user", "update_group", "toggle_active"}
      BY <1>1, <3>4 DEF Reread
    <3> QED BY <3>1, <3>2, <3>3, <3>4
  <2> QED BY <2>1, <2>2, GotoOnlyAdvances, AnswerAdvances
<1>2. CASE Badge(s)
  BY <1>2, AnswerAdvances DEF Badge
<1>3. CASE Conflict(s)
  BY <1>3, AnswerAdvances DEF Conflict
<1>4. CASE Fail(s)
  <2>1. OnError(k, pc[s]) \subseteq Replies
    BY DEF OnError
  <2>2. pc[s] \notin {"idle", "done"} /\ UNCHANGED <<db, local, tokens>>
    BY <1>4 DEF Fail
  <2>3. PICK r \in OnError(k, pc[s]) : Answer(s, r)
    BY <1>4 DEF Fail
  <2>4. r \in Replies
    BY <2>1, <2>3
  <2> HIDE DEF Replies, Labels
  <2> QED BY <2>2, <2>3, <2>4, AnswerAdvances
<1> QED BY <1>1, <1>2, <1>3, <1>4

-----------------------------------------------------------------------------
(* The invariant is kept *)

\* A method of the store keeps what its schema declares, and ids only grow.
LEMMA StoreStep ==
  ASSUME Sound(db), db.userSeq <= MaxUserId, [Next]_db
  PROVE  /\ Sound(db)' /\ (db.userSeq <= MaxUserId)'
         /\ db.userSeq \in Nat /\ db'.userSeq \in Nat /\ db.userSeq <= db'.userSeq
<1>1. db.userSeq \in Nat
  BY DEF Sound, Db
<1>2. CASE Next
  <2>1. /\ Sound(db') /\ (NoNewUser(db, db') \/ Fresh(db, db'))
        /\ db'.userSeq # db.userSeq => db.userSeq < MaxUserId
    BY <1>2, NextSound DEF IInv
  <2>2. db'.userSeq = db.userSeq \/ db'.userSeq = db.userSeq + 1
    BY <2>1 DEF NoNewUser, Fresh
  <2> QED BY <1>1, <2>1, <2>2
<1>3. CASE db' = db
  BY <1>1, <1>3
<1> QED BY <1>2, <1>3

LEMMA AdvancesKeepsInv ==
  ASSUME HandlerInv, NEW s \in Slot, Advances(s), [Next]_db
  PROVE  HandlerInv'
<1>1. PICK l \in Labels \ {"idle"}, x \in Memory, a \in Replies :
        /\ pc' = [pc EXCEPT ![s] = l]
        /\ local' = [local EXCEPT ![s] = x]
        /\ reply' = [reply EXCEPT ![s] = a]
        /\ l = "claim" => x.found \in 1..db.userSeq
  BY DEF Advances
<1>2. /\ pc[s] \notin {"idle", "done"} /\ req' = req
      /\ tokens \subseteq tokens' /\ tokens' \subseteq Token
      /\ \A t \in tokens' : t.sub <= db.userSeq
  BY DEF Advances
<1>3. /\ Sound(db)' /\ (db.userSeq <= MaxUserId)'
      /\ db.userSeq \in Nat /\ db'.userSeq \in Nat /\ db.userSeq <= db'.userSeq
  BY StoreStep DEF HandlerInv
<1>4. /\ pc' \in [Slot -> Labels] /\ local' \in [Slot -> Memory]
      /\ reply' \in [Slot -> Replies] /\ req' \in [Slot -> Request \cup {NoRequest}]
  BY <1>1, <1>2 DEF HandlerInv
<1>5. \A t \in tokens' : t.sub <= db'.userSeq
  <2> SUFFICES ASSUME NEW t \in tokens' PROVE t.sub <= db'.userSeq
    OBVIOUS
  <2>1. t.sub \in Nat /\ t.sub <= db.userSeq
    BY <1>2 DEF Token, Id
  <2> QED BY <1>3, <2>1
<1>6. 1..db.userSeq \subseteq 1..db'.userSeq
  BY <1>3
<1>7. ASSUME NEW t \in Slot PROVE Known(t)'
  <2>1. Known(t)
    BY DEF HandlerInv
  <2>2. CASE t = s
    <3>1. req'[s] # NoRequest
      BY <1>2 DEF HandlerInv, Known
    <3>2. pc'[s] = l /\ local'[s] = x
      BY <1>1 DEF HandlerInv
    <3> QED BY <1>1, <1>2, <1>6, <2>1, <2>2, <3>1, <3>2 DEF Known
  <2>3. CASE t # s
    <3>1. pc'[t] = pc[t] /\ local'[t] = local[t]
      BY <1>1, <2>3 DEF HandlerInv
    <3> QED BY <1>2, <1>6, <2>1, <3>1 DEF Known
  <2> QED BY <2>2, <2>3
<1> QED BY <1>2, <1>3, <1>4, <1>5, <1>7 DEF HandlerInv

\* A slot is free again.
LEMMA ClearKeepsInv ==
  ASSUME HandlerInv, NEW s \in Slot,
         pc' = [pc EXCEPT ![s] = "idle"], req' = [req EXCEPT ![s] = NoRequest],
         reply' = [reply EXCEPT ![s] = "none"], local' = [local EXCEPT ![s] = NoLocal],
         db' = db, tokens' = tokens
  PROVE  HandlerInv'
<1>1. NoLocal \in Memory /\ "idle" \in Labels /\ "none" \in Replies
  BY DEF NoLocal, Memory, Labels, Replies
<1>2. ASSUME NEW t \in Slot PROVE Known(t)'
  BY DEF HandlerInv, Known
<1> QED BY <1>1, <1>2 DEF HandlerInv

LEMMA LeaveKeepsInv ==
  ASSUME HandlerInv, NEW s \in Slot, Leave(s)
  PROVE  HandlerInv'
BY ClearKeepsInv DEF Leave

\* Every step of a handler keeps the invariant and is one of the store, or none,
\* and takes no token back.
LEMMA HandleKeepsInv ==
  ASSUME HandlerInv, NEW s \in Slot, Handle(s)
  PROVE  HandlerInv' /\ [Next]_db /\ tokens \subseteq tokens'
<1>1. CASE Leave(s)
  BY <1>1, LeaveKeepsInv DEF Leave
<1>2. CASE Act(s)
  BY <1>2, ActAdvances, AdvancesKeepsInv DEF Advances
<1>3. CASE \/ Identify(s) \/ Authorize(s) \/ LookUpGroup(s) \/ LookUpUser(s)
           \/ TargetStatus(s) \/ Authenticate(s) \/ Claim(s)
           \/ Reread(s) \/ Badge(s) \/ Conflict(s) \/ Fail(s)
  <2>1. Advances(s) /\ db' = db
    BY <1>3, ReadingAdvances, EndingAdvances
  <2> QED BY <2>1, AdvancesKeepsInv DEF Advances
<1> QED BY <1>1, <1>2, <1>3 DEF Handle

LEMMA ArriveKeepsInv ==
  ASSUME HandlerInv, NEW s \in Slot, NEW r \in Request, Arrive(s, r)
  PROVE  HandlerInv'
<1>1. /\ pc' = [pc EXCEPT ![s] = FirstCall(r.kind)] /\ req' = [req EXCEPT ![s] = r]
      /\ UNCHANGED <<db, local, reply, tokens>>
      /\ r.kind \notin Open => r.token \in tokens
  BY DEF Arrive
<1>2. FirstCall(r.kind) \in Labels \ {"claim"}
  BY DEF FirstCall, Labels
<1>3. r # NoRequest
  BY NoRequestIsNone
<1>4. ASSUME NEW t \in Slot PROVE Known(t)'
  BY <1>1, <1>2, <1>3 DEF HandlerInv, Known
<1> QED BY <1>1, <1>2, <1>4 DEF HandlerInv
LEMMA InitHandlerInv == RInit => HandlerInv
<1> SUFFICES ASSUME RInit PROVE HandlerInv
  OBVIOUS
<1>1. db = Start
  BY DEF RInit
<1>2. Sound(db) /\ db.userSeq <= MaxUserId /\ db.userSeq \in Nat
  BY <1>1 DEF Sound, Db
<1>3. ASSUME NEW i \in UserIds(Start)
      PROVE  TokenFor(Start, i) \in Token /\ TokenFor(Start, i).sub <= db.userSeq
  <2>1. i \in Id /\ i <= Start.userSeq
    BY DEF UserIds, Db, UserRow, KeysOf
  <2>2. IsAdmin(Start, i) \in BOOLEAN
    BY DEF IsAdmin
  <2> QED BY <1>1, <2>1, <2>2 DEF TokenFor, Token
<1>4. tokens \in SUBSET Token /\ \A t \in tokens : t.sub <= db.userSeq
  BY <1>3 DEF RInit
<1>5. NoLocal \in Memory /\ "idle" \in Labels /\ "none" \in Replies
  BY DEF NoLocal, Memory, Labels, Replies
<1>6. \A s \in Slot : Known(s)
  BY DEF RInit, Known
<1> QED BY <1>2, <1>4, <1>5, <1>6 DEF RInit, HandlerInv

LEMMA NextHandlerInv ==
  ASSUME HandlerInv, [RNext]_vars
  PROVE  HandlerInv' /\ [Next]_db
<1>1. CASE RNext
  <2>1. PICK s \in Slot : Handle(s) \/ \E r \in Requests : Arrive(s, r)
    BY <1>1 DEF RNext
  <2>2. CASE Handle(s)
    BY <2>2, HandleKeepsInv
  <2>3. CASE \E r \in Requests : Arrive(s, r)
    <3>1. PICK r \in Requests : Arrive(s, r)
      BY <2>3
    <3> QED BY <3>1, ArriveKeepsInv DEF Arrive
  <2> QED BY <2>1, <2>2, <2>3
<1>2. CASE UNCHANGED vars
  BY <1>2 DEF vars, HandlerInv, Known
<1> QED BY <1>1, <1>2

LEMMA HandlerInvariance == RSpec => []HandlerInv
BY InitHandlerInv, NextHandlerInv, PTL DEF RSpec

-----------------------------------------------------------------------------
(* Theorems *)

Witnessed == witnessed \in [Slot -> SUBSET FactNames]

LEMMA WitnessTyped ==
  ASSUME Witnessed, Witness
  PROVE  Witnessed'
<1>1. \A d, r : Facts(d, r) \subseteq FactNames
  BY DEF Facts
<1>2. \A s \in Slot : witnessed[s] \subseteq FactNames
  BY DEF Witnessed
<1>3. witnessed' \in [Slot -> SUBSET FactNames]
  BY <1>1, <1>2 DEF Witness
<1> QED BY <1>3 DEF Witnessed

\* The variables of the handlers keep their types, for any number of requests.
THEOREM RTypeCorrect == RSpec => []RTypeOK
<1>1. RInit => Witnessed
  BY DEF RInit, Witnessed
<1>2. Witnessed /\ [RNext]_vars => Witnessed'
  <2>1. Witnessed /\ RNext => Witnessed'
    BY WitnessTyped DEF RNext
  <2>2. Witnessed /\ UNCHANGED vars => Witnessed'
    BY DEF Witnessed, vars
  <2> QED BY <2>1, <2>2
<1>3. HandlerInv /\ Witnessed => RTypeOK
  BY DEF HandlerInv, Witnessed, RTypeOK, TypeOK, Sound, Memory
<1> QED BY <1>1, <1>2, <1>3, HandlerInvariance, PTL DEF RSpec

\* Whatever the handlers do, the database sees the methods of UserManager and
\* GroupManager and nothing else: from the database it starts on, the server
\* takes the steps of UserStore.
THEOREM ServerCallsTheStore == RSpec => [][Next]_db
<1>1. HandlerInv /\ [RNext]_vars => [Next]_db
  BY NextHandlerInv
<1> QED BY <1>1, HandlerInvariance, PTL DEF RSpec

\* PRIMARY KEY, AUTOINCREMENT and UNIQUE hold of the served database.
THEOREM ServedKeysHold == RSpec => []Keys
<1>1. HandlerInv => Keys
  BY DEF HandlerInv, Sound, Keys
<1> QED BY <1>1, HandlerInvariance, PTL

\* With its foreign keys, every membership in it names existing rows.
THEOREM ServedNoOrphansHold ==
  ASSUME ForeignKeys = TRUE
  PROVE  RSpec => []NoOrphans
<1>1. HandlerInv => NoOrphans
  BY DEF HandlerInv, Sound, NoOrphans
<1> QED BY <1>1, HandlerInvariance, PTL

\* What UserStore promises of each of its steps holds of the served database.
THEOREM ServedStoreKeepsItsPromises ==
  RSpec => IdsNeverReused /\ FirstUserIsAdmin
<1>1. HandlerInv => IInv
  BY DEF HandlerInv, IInv
<1> QED
  BY <1>1, IdsStep, FirstUserStep, ServerCallsTheStore, HandlerInvariance, PTL
  DEF IdsNeverReused, FirstUserIsAdmin

LEMMA DeadTokensStep ==
  ASSUME HandlerInv, [Next]_db, NEW t \in tokens, t.sub \notin UserIds(db)
  PROVE  t.sub \notin UserIds(db')
<1>1. t.sub \in Nat \ {0} /\ t.sub <= db.userSeq /\ db.userSeq \in Nat
  BY DEF HandlerInv, Token, Id, Sound, Db
<1>2. t.sub \in 1..db.userSeq
  BY <1>1
<1> QED BY <1>2, IdsStep DEF HandlerInv, IInv

\* A token whose user has been deleted is refused for good: no registration
\* brings its id back, so it never speaks for somebody else.
THEOREM DeletedTokensStayDeadHolds == RSpec => DeletedTokensStayDead
<1>1. HandlerInv /\ [RNext]_vars =>
        [\A t \in tokens : t.sub \notin UserIds(db) => t.sub \notin UserIds(db')]_vars
  BY NextHandlerInv, DeadTokensStep
<1> QED BY <1>1, HandlerInvariance, PTL DEF RSpec, DeletedTokensStayDead

-----------------------------------------------------------------------------
(* What has been witnessed of a request *)

LEMMA Witnesses ==
  ASSUME Witness, NEW s \in Slot, req'[s] = req[s], req[s] # NoRequest
  PROVE  witnessed'[s] = witnessed[s] \cup Facts(db', req[s])
  BY DEF Witness

\* A step on behalf of one request leaves the others where they are.
LEMMA OthersStay ==
  ASSUME HandlerInv, NEW s \in Slot, NEW t \in Slot, t # s,
         Handle(s) \/ \E r \in Request : Arrive(s, r)
  PROVE  pc'[t] = pc[t] /\ req'[t] = req[t] /\ reply'[t] = reply[t]
<1>1. CASE \E r \in Request : Arrive(s, r)
  BY <1>1 DEF Arrive, HandlerInv
<1>2. CASE Leave(s)
  BY <1>2 DEF Leave, HandlerInv
<1>3. CASE Handle(s) /\ ~Leave(s)
  <2>1. Advances(s)
    BY <1>3, ReadingAdvances, ActAdvances, EndingAdvances DEF Handle
  <2> QED BY <2>1 DEF Advances, HandlerInv
<1> QED BY <1>1, <1>2, <1>3

-----------------------------------------------------------------------------
(* Toggling administrators *)

\* What users_toggle_admin has established when it has come so far.
ToggleInv(s) ==
  req[s].kind = "toggle_admin" =>
    /\ pc[s] \in {"identify", "authorize", "user", "status", "act", "done"}
    /\ pc[s] \in {"authorize", "user", "status", "act"} => "active" \in witnessed[s]
    /\ pc[s] \in {"user", "status", "act"} =>
         "admin" \in witnessed[s] /\ req[s].token.sub # req[s].user

\* The toggle itself leaves its caller's row and right alone.
LEMMA ToggleSparesOthers ==
  ASSUME Sound(db), NEW i, NEW j, i # j, IsAdmin(db, j), PromoteUser(i) \/ DemoteUser(i)
  PROVE  db'.users = db.users /\ IsAdmin(db', j)
<1>0. PICK g \in db.groups : g.is_admin /\ <<j, g.id>> \in db.members
  BY DEF IsAdmin
<1>1. CASE PromoteUser(i)
  <2> DEFINE e == WithPromotionGroup(db)
             ms == e.members \cup {<<i, h>> : h \in PromotionGroups(e)}
  <2>1. /\ e \in Db /\ e.users = db.users
        /\ db.groups \subseteq e.groups /\ e.members = db.members
    <3>1. CASE PromotionGroups(db) = {}
      <4>1. e = InsertGroup(db, AdminName, TRUE) /\ ~GroupNameTaken(db, AdminName)
        BY <1>1, <3>1 DEF WithPromotionGroup, PromoteUser
      <4>2. Sound(e)
        BY <4>1, InsertGroupSound
      <4> QED BY <4>1, <4>2 DEF Sound, Db, InsertGroup
    <3>2. CASE PromotionGroups(db) # {}
      BY <3>2 DEF WithPromotionGroup, Sound
    <3> QED BY <3>1, <3>2
  <2>2. db' = [e EXCEPT !.members = ms]
    BY <1>1 DEF PromoteUser, Promote
  <2>3. e.members \subseteq ms
    OBVIOUS
  <2> HIDE DEF e, ms
  <2>4. db'.users = db.users /\ g \in db'.groups /\ <<j, g.id>> \in db'.members
    BY <1>0, <2>1, <2>2, <2>3 DEF Db
  <2> QED BY <1>0, <2>4 DEF IsAdmin
<1>2. CASE DemoteUser(i)
  <2> DEFINE ms == {m \in db.members : ~ \E h \in db.groups : h.is_admin /\ m = <<i, h.id>>}
  <2>1. db' = [db EXCEPT !.members = ms]
    BY <1>2 DEF DemoteUser, Demote
  <2>2. <<j, g.id>> \in ms
    BY <1>0
  <2> HIDE DEF ms
  <2>3. db'.users = db.users /\ db'.groups = db.groups /\ db'.members = ms
    BY <2>1 DEF Sound, Db
  <2> QED BY <1>0, <2>2, <2>3 DEF IsAdmin
<1> QED BY <1>1, <1>2

\* A request that arrives, or leaves, establishes it anew.
LEMMA ToggleEnds ==
  ASSUME HandlerInv, NEW s \in Slot, Leave(s) \/ \E r \in Request : Arrive(s, r)
  PROVE  ToggleInv(s)'
<1>1. CASE Leave(s)
  <2>1. req'[s] = NoRequest
    BY <1>1 DEF Leave, HandlerInv
  <2> QED BY <2>1 DEF ToggleInv, NoRequest
<1>2. ASSUME NEW r \in Request, Arrive(s, r)
      PROVE  ToggleInv(s)'
  <2>1. req'[s] = r /\ pc'[s] = FirstCall(r.kind)
    BY <1>2 DEF Arrive, HandlerInv
  <2>2. r.kind = "toggle_admin" => pc'[s] = "identify"
    BY <2>1 DEF FirstCall, Open
  <2> QED BY <2>1, <2>2 DEF ToggleInv
<1> QED BY <1>1, <1>2

\* Every other step of the handler carries it on.
LEMMA ToggleAdvances ==
  ASSUME HandlerInv, Witness, NEW s \in Slot, ToggleInv(s), Handle(s), ~Leave(s)
  PROVE  ToggleInv(s)'
<1>0. req' = req
  BY ReadingAdvances, ActAdvances, EndingAdvances DEF Handle, Advances
<1> SUFFICES ASSUME req[s].kind = "toggle_admin"
             PROVE  ToggleInv(s)'
  BY <1>0 DEF ToggleInv
<1>w. witnessed'[s] = witnessed[s] \cup Facts(db', req[s])
  BY <1>0, Witnesses DEF NoRequest
<1> DEFINE k == req[s].kind
<1> USE DEF ToggleInv, HandlerInv, Goto, Answer
<1>1. CASE Identify(s)
  <2>1. AfterIdentify(req[s]) = {"authorize"}
    BY DEF AfterIdentify
  <2>2. CASE Answer(s, "unauthorized")
    BY <1>0, <2>2
  <2>3. CASE Goto(s, "authorize") /\ "active" \in Facts(db', req[s])
    BY <1>0, <1>w, <2>3
  <2>4. (\E u \in db.users : u.id = req[s].token.sub /\ u.active)
          => "active" \in Facts(db, req[s])
    BY DEF Facts, Fact, FactNames, Open
  <2>5. db' = db
    BY <1>1 DEF Identify
  <2> QED BY <1>1, <2>1, <2>2, <2>3, <2>4, <2>5 DEF Identify
<1>2. CASE Authorize(s)
  <2>1. AfterGuard(req[s]) = "user"
    BY DEF AfterGuard, LooksUpUser, LooksUpGroup
  <2>2. IsAdmin(db, req[s].token.sub) \in BOOLEAN /\ db' = db
    BY <1>2 DEF IsAdmin, Authorize
  <2>3. \A admin \in BOOLEAN :
          Allowed(req[s], admin) => req[s].token.sub # req[s].user /\ admin
    BY DEF Allowed, AnyUser, SelfOrAdmin, AdminOnly, OthersOnly
  <2>4. CASE Answer(s, "forbidden") \/ Answer(s, "bad_request")
    BY <1>0, <1>2, <2>4 DEF Authorize
  <2>5. CASE Goto(s, "user") /\ IsAdmin(db, req[s].token.sub)
             /\ req[s].token.sub # req[s].user
    <3>1. "admin" \in Facts(db', req[s])
      BY <2>2, <2>5 DEF Facts, Fact, FactNames, Open
    <3> QED BY <1>0, <1>w, <1>2, <2>5, <3>1 DEF Authorize
  <2> QED BY <1>2, <2>1, <2>2, <2>3, <2>4, <2>5 DEF Authorize
<1>3. CASE LookUpUser(s)
  <2>1. AfterLookup(k) = "status"
    BY DEF AfterLookup
  <2> QED BY <1>0, <1>w, <1>3, <2>1 DEF LookUpUser
<1>4. CASE TargetStatus(s)
  BY <1>0, <1>w, <1>4 DEF TargetStatus
<1>5. CASE Act(s)
  <2>1. Answer(s, "ok")
    BY <1>5 DEF Act, UserUpdates, GroupUpdates, Passwordings
  <2> QED BY <1>0, <2>1
<1>6. CASE Conflict(s) \/ Fail(s)
  BY <1>0, <1>6 DEF Conflict, Fail
<1>7. CASE LookUpGroup(s) \/ Authenticate(s) \/ Claim(s) \/ Reread(s) \/ Badge(s)
  BY <1>7 DEF LookUpGroup, Authenticate, Claim, Reread, Badge
<1> QED BY <1>1, <1>2, <1>3, <1>4, <1>5, <1>6, <1>7 DEF Handle

\* So do the steps of others: what has been witnessed stays so.
LEMMA ToggleStays ==
  ASSUME Witness, NEW t \in Slot, ToggleInv(t), pc'[t] = pc[t], req'[t] = req[t]
  PROVE  ToggleInv(t)'
<1> SUFFICES ASSUME req[t].kind = "toggle_admin"
             PROVE  ToggleInv(t)'
  BY DEF ToggleInv
<1>1. witnessed[t] \subseteq witnessed'[t]
  BY Witnesses DEF NoRequest
<1> QED BY <1>1 DEF ToggleInv

\* If its caller is still an active administrator when it acts, it remains one.
LEMMA ToggleActs ==
  ASSUME HandlerInv, NEW s \in Slot, ToggleInv(s), Handle(s),
         req[s].kind = "toggle_admin", pc[s] = "act",
         NEW u \in db.users, u.id = req[s].token.sub, u.active, IsAdmin(db, u.id)
  PROVE  \E v \in db'.users : v.active /\ IsAdmin(db', v.id)
<1>1. req[s].user # u.id
  BY DEF ToggleInv
<1>2. db'.users = db.users /\ IsAdmin(db', u.id)
  <2>1. CASE db' = db
    BY <2>1
  <2>2. CASE Act(s)
    <3>1. PromoteUser(req[s].user) \/ DemoteUser(req[s].user)
      BY <2>2 DEF Act, Effect, Creations, UserUpdates, GroupUpdates, Passwordings, Joins, Reads
    <3> QED BY <1>1, <3>1, ToggleSparesOthers DEF HandlerInv
  <2>3. CASE ~Act(s)
    <3>1. db' = db
      BY <2>3 DEF Handle, Identify, Authorize, LookUpGroup, LookUpUser, TargetStatus,
                  Authenticate, Claim, Reread, Badge, Conflict, Fail, Leave
    <3> QED BY <2>1, <3>1
  <2> QED BY <2>2, <2>3
<1> QED BY <1>2

\* However many requests toggle, demote, deactivate and delete at the same
\* time, and whatever fails: users_toggle_admin takes the last active
\* administrator away only if its caller, who was one since the request
\* arrived, no longer is.
THEOREM ToggleLeavesAnAdminHolds == RSpec => ToggleLeavesAnAdmin
<1> DEFINE Inv == \A s \in Slot : ToggleInv(s)
           A == \A s \in Slot :
                  pc[s] = "act" /\ pc'[s] # "act" /\ req[s].kind = "toggle_admin" =>
                    \/ \E u \in db'.users : u.active /\ IsAdmin(db', u.id)
                    \/ /\ {"active", "admin"} \subseteq witnessed[s]
                       /\ ~ \E u \in db.users : /\ u.id = req[s].token.sub
                                               /\ u.active /\ IsAdmin(db, u.id)
<1>1. RInit => Inv
  BY DEF RInit, ToggleInv, NoRequest
<1>2. ASSUME HandlerInv, Inv, [RNext]_vars
      PROVE  Inv' /\ [A]_vars
  <2>1. CASE UNCHANGED vars
    BY <1>2, <2>1 DEF vars, ToggleInv
  <2>2. CASE RNext
    <3>1. PICK s \in Slot : Handle(s) \/ \E r \in Request : Arrive(s, r)
      BY <2>2 DEF RNext
    <3>2. Witness /\ ToggleInv(s)
      BY <1>2, <2>2 DEF RNext
    <3>3. ToggleInv(s)'
      BY <1>2, <3>1, <3>2, ToggleEnds, ToggleAdvances
    <3>4. ASSUME NEW t \in Slot, t # s
          PROVE  ToggleInv(t)' /\ pc'[t] = pc[t]
      BY <1>2, <3>1, <3>2, <3>4, OthersStay, ToggleStays
    <3>5. pc[s] = "act" => Handle(s)
      BY <3>1 DEF Arrive
    <3>6. pc[s] = "act" /\ req[s].kind = "toggle_admin" =>
            \/ \E u \in db'.users : u.active /\ IsAdmin(db', u.id)
            \/ /\ {"active", "admin"} \subseteq witnessed[s]
               /\ ~ \E u \in db.users : /\ u.id = req[s].token.sub
                                       /\ u.active /\ IsAdmin(db, u.id)
      BY <1>2, <3>2, <3>5, ToggleActs DEF ToggleInv
    <3>7. A
      BY <3>4, <3>6
    <3> QED BY <3>3, <3>4, <3>7
  <2> QED BY <1>2, <2>1, <2>2
<1>3. HandlerInv /\ Inv /\ [RNext]_vars => Inv' /\ [A]_vars
  BY <1>2
<1> HIDE DEF Inv
<1> QED BY <1>1, <1>3, HandlerInvariance, PTL DEF RSpec, ToggleLeavesAnAdmin

-----------------------------------------------------------------------------
(* Edits *)

\* The id was given out and its row is gone, for good.
Gone(d, r) ==
  IF r.kind \in GroupUpdates THEN r.group \in (1..d.groupSeq) \ GroupIds(d)
  ELSE Subject(r) \in (1..d.userSeq) \ UserIds(d)

Settled(s) == witnessed[s] \cap {"edited", "unassigned"} # {}

\* An UPDATE either made the edit, or missed a row that will never be there,
\* or was about an id that nobody had been given.
EditInv(s) ==
  /\ reply[s] = "ok" => pc[s] = "done"
  /\ req[s].kind \in Edits =>
       /\ pc[s] \in {"identify", "authorize", "group", "user", "act", "reread", "badge", "done"}
       /\ pc[s] = "user" => req[s].kind = "users_edit"
       /\ pc[s] = "reread" => Settled(s) \/ Gone(db, req[s])
       /\ pc[s] = "badge" => Settled(s)
       /\ reply[s] = "ok" => Settled(s)

LEMMA InsertGroupIds ==
  ASSUME NEW d \in Db, NEW n, NEW a
  PROVE  /\ GroupIds(InsertGroup(d, n, a)) = GroupIds(d) \cup {d.groupSeq + 1}
         /\ InsertGroup(d, n, a).groupSeq = d.groupSeq + 1
         /\ InsertGroup(d, n, a).users = d.users
<1> DEFINE row == [id |-> d.groupSeq + 1, name |-> n, is_admin |-> a]
           e == InsertGroup(d, n, a)
<1>1. /\ e.groups = d.groups \cup {row} /\ e.groupSeq = d.groupSeq + 1
      /\ e.users = d.users
  BY DEF InsertGroup, Db
<1>2. row.id = d.groupSeq + 1
  OBVIOUS
<1> HIDE DEF row, e
<1>3. GroupIds(e) = GroupIds(d) \cup {d.groupSeq + 1}
  BY <1>1, <1>2 DEF GroupIds
<1> QED BY <1>1, <1>3 DEF e

\* At most the next id is given to a group.
NextGroupOnly(d, e) ==
  /\ GroupIds(e) \subseteq GroupIds(d) \cup {d.groupSeq + 1}
  /\ e.groupSeq \in {d.groupSeq, d.groupSeq + 1}

LEMMA CreateUserGroups ==
  ASSUME Sound(db), NEW n \in Usernames, NEW p \in Passwords, ~UsernameTaken(db, n)
  PROVE  NextGroupOnly(db, CreateUserRow(db, n, p))
<1> DEFINE d == InsertUser(db, n, p)
           e == EnsureAdminGroup(d)
<1>1. /\ d \in Db /\ d.groups = db.groups /\ d.groupSeq = db.groupSeq
      /\ d.groupSeq \in Nat
  BY InsertUserSound, InsertUserEffect DEF Sound, Db
<1>2. GroupIds(d) = GroupIds(db)
  BY <1>1 DEF GroupIds
<1>3. NextGroupOnly(db, e)
  <2>1. CASE NamedAdmin(d) = {}
    <3>1. e = InsertGroup(d, AdminName, TRUE)
      BY <2>1 DEF EnsureAdminGroup
    <3> HIDE DEF d, e
    <3>2. GroupIds(e) = GroupIds(d) \cup {d.groupSeq + 1} /\ e.groupSeq = d.groupSeq + 1
      BY <1>1, <3>1, InsertGroupIds
    <3> QED BY <1>1, <1>2, <3>2 DEF NextGroupOnly
  <2>2. CASE NamedAdmin(d) # {}
    <3> HIDE DEF d
    <3>1. e = [d EXCEPT !.groups = {IF g.name = AdminName
                                    THEN [g EXCEPT !.is_admin = TRUE] ELSE g : g \in @}]
      BY <2>2 DEF EnsureAdminGroup
    <3>2. /\ e.groups = {IF g.name = AdminName
                         THEN [g EXCEPT !.is_admin = TRUE] ELSE g : g \in d.groups}
          /\ e.groupSeq = d.groupSeq
      BY <1>1, <3>1 DEF Db
    <3>3. \A g \in d.groups : [g EXCEPT !.is_admin = TRUE].id = g.id
      BY <1>1 DEF Db, GroupRow
    <3>4. GroupIds(e) \subseteq GroupIds(d)
      BY <3>2, <3>3 DEF GroupIds
    <3> QED BY <1>1, <1>2, <3>2, <3>4 DEF NextGroupOnly
  <2> QED BY <2>1, <2>2
<1>4. EnrolFirstUser(e).groups = e.groups /\ EnrolFirstUser(e).groupSeq = e.groupSeq
  BY DEF EnrolFirstUser
<1> HIDE DEF d, e
<1>5. CASE db.users = {}
  <2>1. CreateUserRow(db, n, p) = EnrolFirstUser(e)
    BY <1>5 DEF CreateUserRow, d, e
  <2> QED BY <1>3, <1>4, <2>1 DEF NextGroupOnly, GroupIds
<1>6. CASE db.users # {}
  <2>1. CreateUserRow(db, n, p) = d
    BY <1>6 DEF CreateUserRow, d
  <2> QED BY <1>1, <1>2, <2>1 DEF NextGroupOnly
<1> QED BY <1>5, <1>6

LEMMA PromoteGroups ==
  ASSUME Sound(db), NEW i
  PROVE  NextGroupOnly(db, Promote(db, i))
<1> DEFINE e == WithPromotionGroup(db)
<1>1. NextGroupOnly(db, e)
  <2>1. CASE PromotionGroups(db) = {}
    BY <2>1, InsertGroupIds DEF WithPromotionGroup, NextGroupOnly, Sound
  <2>2. CASE PromotionGroups(db) # {}
    BY <2>2 DEF WithPromotionGroup, NextGroupOnly
  <2> QED BY <2>1, <2>2
<1>2. Promote(db, i).groups = e.groups /\ Promote(db, i).groupSeq = e.groupSeq
  BY DEF Promote
<1> HIDE DEF e
<1> QED BY <1>1, <1>2 DEF NextGroupOnly, GroupIds

LEMMA StoreGivesNextGroup ==
  ASSUME Sound(db), [Next]_db
  PROVE  NextGroupOnly(db, db')
<1>0. db \in Db
  BY DEF Sound
<1>1. CASE \E n \in Usernames, p \in Passwords : CreateUser(n, p)
  BY <1>1, CreateUserGroups DEF CreateUser
<1>2. CASE \E i \in UserIdArg : PromoteUser(i)
  BY <1>2, PromoteGroups DEF PromoteUser
<1>3. CASE \E n \in GroupNames, a \in BOOLEAN : CreateGroup(n, a)
  BY <1>0, <1>3, InsertGroupIds DEF CreateGroup, NextGroupOnly
<1>4. CASE \E i \in GroupIdArg, ch \in GroupChange : UpdateGroup(i, ch)
  <2>1. PICK i \in GroupIdArg, ch \in GroupChange : UpdateGroup(i, ch)
    BY <1>4
  <2>2. /\ db'.groupSeq = db.groupSeq
        /\ db'.groups = {IF g.id # i THEN g
              ELSE [id |-> i, name |-> Coalesce(ch.name, g.name),
                    is_admin |-> Coalesce(ch.is_admin, g.is_admin)] : g \in db.groups}
    BY <1>0, <2>1 DEF UpdateGroup, UpdateGroupRow, Db
  <2>3. GroupIds(db') \subseteq GroupIds(db)
    BY <2>2 DEF GroupIds
  <2> QED BY <2>2, <2>3 DEF NextGroupOnly
<1>5. CASE \E i \in GroupIdArg : DeleteGroup(i)
  BY <1>0, <1>5 DEF DeleteGroup, DeleteGroupRow, Db, NextGroupOnly, GroupIds
<1>6. CASE \/ \E i \in UserIdArg, ch \in UserChange : UpdateUser(i, ch)
           \/ \E i \in UserIdArg : DeleteUser(i) \/ DemoteUser(i)
           \/ \E g \in GroupIdArg, u \in UserIdArg : AddUser(g, u) \/ RemoveUser(g, u)
           \/ db' = db
  <2>1. db'.groups = db.groups /\ db'.groupSeq = db.groupSeq
    BY <1>0, <1>6 DEF UpdateUser, UpdateUserRow, DeleteUser, DeleteUserRow, DemoteUser,
          Demote, AddUser, InsertMember, RemoveUser, DeleteMember, Db
  <2> QED BY <2>1 DEF NextGroupOnly, GroupIds
<1> QED BY <1>1, <1>2, <1>3, <1>4, <1>5, <1>6 DEF Next

\* What is gone does not come back.
LEMMA GoneStays ==
  ASSUME HandlerInv, [Next]_db, NEW r, Gone(db, r)
  PROVE  Gone(db', r)
<1>1. /\ db.userSeq \in Nat /\ db'.userSeq \in Nat /\ db.userSeq <= db'.userSeq
  BY StoreStep DEF HandlerInv
<1>2. CASE r.kind \in GroupUpdates
  <2>1. NextGroupOnly(db, db') /\ db.groupSeq \in Nat
    BY StoreGivesNextGroup DEF HandlerInv, Sound, Db
  <2>2. r.group \in 1..db.groupSeq /\ r.group \notin GroupIds(db)
    BY <1>2 DEF Gone
  <2> QED BY <1>2, <2>1, <2>2 DEF Gone, NextGroupOnly
<1>3. CASE r.kind \notin GroupUpdates
  <2>1. Subject(r) \in 1..db.userSeq /\ Subject(r) \notin UserIds(db)
    BY <1>3 DEF Gone
  <2>2. Subject(r) \notin UserIds(db')
    BY <2>1, IdsStep DEF HandlerInv, IInv
  <2> QED BY <1>1, <1>3, <2>1, <2>2 DEF Gone
<1> QED BY <1>2, <1>3

\* The act of an edit settles it, one way or another.
LEMMA ActSettles ==
  ASSUME HandlerInv, Witness, NEW s \in Slot, Act(s), req[s].kind \in Edits, req' = req
  PROVE  Settled(s)' \/ Gone(db, req[s])'
<1> DEFINE r == req[s]
           i == Subject(r)
<1>1. pc[s] = "act" /\ r \in Request /\ r # NoRequest
  BY NoRequestIsNone DEF Act, HandlerInv, Known
<1>2. witnessed'[s] = witnessed[s] \cup Facts(db', r)
  BY <1>1, Witnesses
<1>3. db \in Db /\ db' \in Db
  <2>1. [Next]_db
    BY <1>1, EffectIsNext DEF Act
  <2> QED BY <2>1, StoreStep DEF HandlerInv, Sound
<1>4. (Edited(db', r) \/ Fact(db', r, "unassigned")) => Settled(s)'
  <2>1. Edited(db', r) => "edited" \in Facts(db', r)
    BY DEF Facts, Fact, FactNames
  <2>2. Fact(db', r, "unassigned") => "unassigned" \in Facts(db', r)
    BY DEF Facts, FactNames
  <2> QED BY <1>2, <2>1, <2>2 DEF Settled
<1>5. CASE r.kind \in GroupUpdates
  <2>1. UpdateGroup(r.group, r.change)
    BY <1>5 DEF Act, Effect, Creations, UserUpdates, GroupUpdates, Passwordings, Joins, Reads
  <2>2. /\ db'.groupSeq = db.groupSeq
        /\ db'.groups = {IF g.id # r.group THEN g
              ELSE [id |-> r.group, name |-> Coalesce(r.change.name, g.name),
                    is_admin |-> Coalesce(r.change.is_admin, g.is_admin)] : g \in db.groups}
    BY <1>3, <2>1 DEF UpdateGroup, UpdateGroupRow, Db
  <2>3. ASSUME NEW g \in db.groups, g.id = r.group
        PROVE  Edited(db', r)
    <3> DEFINE h == [id |-> r.group, name |-> Coalesce(r.change.name, g.name),
                     is_admin |-> Coalesce(r.change.is_admin, g.is_admin)]
    <3>1. h \in db'.groups
      BY <2>2, <2>3
    <3>2. /\ h.id = r.group /\ r.change.name \in {Unset, h.name}
          /\ r.change.is_admin \in {Unset, h.is_admin}
      BY DEF Coalesce
    <3> HIDE DEF h
    <3> QED BY <1>5, <3>1, <3>2 DEF Edited
  <2>4. r.group \notin GroupIds(db) => r.group \notin GroupIds(db')
    BY <2>2 DEF GroupIds
  <2>5. r.group \in Nat \ {0} /\ db'.groupSeq \in Nat
    BY <1>1, <1>3, <1>5, GroupOfRequest DEF GroupIdArg, Db
  <2>6. r.group > db'.groupSeq => Fact(db', r, "unassigned")
    BY <1>5 DEF Fact, Edits
  <2>7. r.group \in GroupIds(db) => Edited(db', r)
    BY <2>3 DEF GroupIds
  <2> QED BY <1>4, <1>5, <2>4, <2>5, <2>6, <2>7 DEF Gone
<1>6. CASE r.kind \in {"update_user", "users_edit", "me_update"}
  <2> DEFINE ch == Change(s)
  <2>1. r.kind \notin GroupUpdates /\ r.kind \in UserUpdates /\ r.kind \in Edits
    BY <1>6 DEF GroupUpdates, UserUpdates, Edits
  <2>2. UpdateUser(i, ch)
    BY <1>6 DEF Act, Effect, Creations, UserUpdates, GroupUpdates, Passwordings, Joins, Reads
  <2>3. /\ db'.userSeq = db.userSeq
        /\ db'.users = {IF u.id # i THEN u
              ELSE [id |-> i, username |-> Coalesce(ch.username, u.username),
                    password |-> Coalesce(ch.password, u.password),
                    active |-> Coalesce(ch.active, u.active)] : u \in db.users}
    BY <1>3, <2>2 DEF UpdateUser, UpdateUserRow, Db
  <2>4. /\ r.kind \in {"update_user", "users_edit"} => ch = r.change /\ i = r.user
        /\ r.kind = "me_update" => ch.username = r.name /\ i = r.token.sub
    BY DEF Change, Subject, NoChange, Passwordings
  <2>5. r.kind = "me_update" => r.name # Unset
    BY <1>1, ChangeOfRequest
  <2> HIDE DEF ch, i
  <2>6. ASSUME NEW u \in db.users, u.id = i
        PROVE  Edited(db', r)
    <3> DEFINE v == [id |-> i, username |-> Coalesce(ch.username, u.username),
                     password |-> Coalesce(ch.password, u.password),
                     active |-> Coalesce(ch.active, u.active)]
    <3>1. v \in db'.users
      BY <2>3, <2>6
    <3>2. /\ v.id = i /\ ch.username \in {Unset, v.username}
          /\ ch.password \in {Unset, v.password} /\ ch.active \in {Unset, v.active}
          /\ ch.username # Unset => v.username = ch.username
      BY DEF Coalesce
    <3> HIDE DEF v
    <3>3. CASE r.kind \in {"update_user", "users_edit"}
      <4>1. /\ v.id = r.user /\ r.change.username \in {Unset, v.username}
            /\ r.change.password \in {Unset, v.password}
            /\ r.change.active \in {Unset, v.active}
        BY <2>4, <3>2, <3>3
      <4> QED BY <3>1, <3>3, <4>1 DEF Edited
    <3>4. CASE r.kind = "me_update"
      <4>1. v.id = r.token.sub /\ v.username = r.name
        BY <2>4, <2>5, <3>2, <3>4
      <4> QED BY <3>1, <3>4, <4>1 DEF Edited
    <3> QED BY <1>6, <3>3, <3>4
  <2>7. i \notin UserIds(db) => i \notin UserIds(db')
    BY <2>3 DEF UserIds
  <2>8. i \in Nat \ {0} /\ db'.userSeq \in Nat
    BY <1>1, <1>3, <2>1, SubjectInRange DEF UserIdArg, Db, i
  <2>9. i > db'.userSeq => Fact(db', r, "unassigned")
    BY <2>1 DEF Fact, i
  <2>10. i \in UserIds(db) => Edited(db', r)
    BY <2>6 DEF UserIds
  <2> QED BY <1>4, <2>1, <2>7, <2>8, <2>9, <2>10 DEF Gone, i
<1> QED BY <1>5, <1>6 DEF Edits

\* Where the handler of an edit goes, and what its client is told.
LEMMA EditAdvances ==
  ASSUME HandlerInv, Witness, NEW s \in Slot, EditInv(s), Handle(s), ~Leave(s),
         req[s].kind \in Edits
  PROVE  EditInv(s)'
<1> DEFINE r == req[s]
<1>0. Advances(s) /\ [Next]_db
  BY ReadingAdvances, ActAdvances, EndingAdvances DEF Handle
<1>1. /\ req' = req /\ r # NoRequest /\ pc[s] \notin {"idle", "done"}
      /\ reply[s] # "ok"
  BY <1>0 DEF Advances, HandlerInv, Known, EditInv
<1>2. Settled(s) => Settled(s)'
  BY <1>1, Witnesses DEF Settled
<1>3. ASSUME NEW l, Goto(s, l) PROVE pc'[s] = l /\ reply'[s] = reply[s]
  BY <1>3 DEF Goto, HandlerInv
<1>4. ASSUME NEW a, Answer(s, a) PROVE pc'[s] = "done" /\ reply'[s] = a
  BY <1>4 DEF Answer, HandlerInv
<1>5. ASSUME NEW a, Answer(s, a), a = "ok" => Settled(s)'
      PROVE  EditInv(s)'
  BY <1>1, <1>4, <1>5 DEF EditInv
<1>6. ASSUME NEW l \in {"authorize", "group", "user", "act", "reread", "badge"}, Goto(s, l),
             l = "user" => r.kind = "users_edit",
             l = "reread" => Settled(s)' \/ Gone(db', r),
             l = "badge" => Settled(s)'
      PROVE  EditInv(s)'
  BY <1>1, <1>3, <1>6 DEF EditInv
<1>7. CASE Identify(s)
  <2>1. AfterIdentify(r) = {"authorize"}
    BY DEF AfterIdentify, Edits, GroupUpdates
  <2>2. Answer(s, "unauthorized") \/ Goto(s, "authorize")
    BY <1>7, <2>1 DEF Identify
  <2> QED BY <1>5, <1>6, <2>2
<1>8. CASE Authorize(s)
  <2>1. /\ AfterGuard(r) \in {"group", "user", "act"}
        /\ AfterGuard(r) = "user" => r.kind = "users_edit"
    BY DEF AfterGuard, Edits, GroupUpdates, LooksUpGroup, LooksUpUser
  <2>2. Answer(s, "forbidden") \/ Answer(s, "bad_request") \/ Goto(s, AfterGuard(r))
    BY <1>8 DEF Authorize
  <2> QED BY <1>5, <1>6, <2>1, <2>2
<1>9. CASE LookUpGroup(s)
  <2>1. r.kind \in LooksUpUser => r.kind = "users_edit"
    BY DEF Edits, GroupUpdates, LooksUpUser
  <2>2. \/ Answer(s, "not_found")
        \/ Goto(s, "user") /\ r.kind \in LooksUpUser
        \/ Goto(s, "act")
    BY <1>9 DEF LookUpGroup
  <2> QED BY <1>5, <1>6, <2>1, <2>2
<1>10. CASE LookUpUser(s)
  <2>1. r.kind = "users_edit"
    BY <1>10 DEF LookUpUser, EditInv
  <2>2. AfterLookup(r.kind) = "act"
    BY <2>1 DEF AfterLookup
  <2>3. Answer(s, "not_found") \/ Goto(s, "act")
    BY <1>10, <2>2 DEF LookUpUser
  <2> QED BY <1>5, <1>6, <2>3
<1>11. CASE Act(s)
  <2>1. r.kind \in UserUpdates \cup GroupUpdates
    BY DEF Edits, UserUpdates
  <2>2. Goto(s, "reread")
    BY <1>11, <2>1 DEF Act, UserUpdates, GroupUpdates, Passwordings
  <2>3. Settled(s)' \/ Gone(db', r)
    BY <1>1, <1>11, ActSettles
  <2> QED BY <1>6, <2>2, <2>3
<1>12. CASE Reread(s)
  <2> DEFINE there == IF r.kind \in GroupUpdates THEN r.group \in GroupIds(db)
                      ELSE Subject(r) \in UserIds(db)
  <2>1. r.kind \notin Passwordings
    BY DEF Edits, GroupUpdates, Passwordings
  <2>2. CASE there
    <3>1. Settled(s)'
      BY <1>2, <1>12, <2>2 DEF Reread, EditInv, Gone
    <3>2. Goto(s, "badge") \/ Answer(s, "ok")
      BY <1>12, <2>1, <2>2 DEF Reread
    <3> QED BY <1>5, <1>6, <3>1, <3>2
  <2>3. CASE ~there
    <3>1. Answer(s, "not_found") \/ Answer(s, "error")
      <4>1. CASE r.kind \in {"update_user", "update_group", "toggle_active"}
        BY <1>12, <2>1, <2>3, <4>1 DEF Reread
      <4>2. CASE r.kind \notin {"update_user", "update_group", "toggle_active"}
        BY <1>12, <2>1, <2>3, <4>2 DEF Reread
      <4> QED BY <4>1, <4>2
    <3> QED BY <1>5, <3>1
  <2> QED BY <2>2, <2>3
<1>13. CASE Badge(s)
  BY <1>2, <1>5, <1>13 DEF Badge, EditInv
<1>14. CASE Conflict(s)
  BY <1>5, <1>14 DEF Conflict
<1>15. CASE Fail(s)
  <2>1. "ok" \notin OnError(r.kind, pc[s])
    BY DEF OnError, Edits, GroupUpdates, Joins, Passwordings
  <2>2. PICK a \in OnError(r.kind, pc[s]) : Answer(s, a)
    BY <1>15 DEF Fail
  <2> QED BY <1>5, <2>1, <2>2
<1>16. ~TargetStatus(s) /\ ~Authenticate(s) /\ ~Claim(s)
  BY DEF TargetStatus, Authenticate, Claim, EditInv
<1> QED BY <1>7, <1>8, <1>9, <1>10, <1>11, <1>12, <1>13, <1>14, <1>15, <1>16 DEF Handle

\* Other requests answer when they are done, too.
LEMMA AnswersWhenDone ==
  ASSUME HandlerInv, NEW s \in Slot, Handle(s), ~Leave(s), reply[s] # "ok"
  PROVE  reply'[s] = "ok" => pc'[s] = "done"
<1>1. (\E a : Answer(s, a)) => pc'[s] = "done"
  BY DEF Answer, HandlerInv
<1>2. (\E l : Goto(s, l)) => reply'[s] # "ok"
  BY DEF Goto
<1>3. CASE Act(s)
  <2>1. (\E a : Answer(s, a)) \/ (\E l : Goto(s, l))
    BY <1>3 DEF Act
  <2> QED BY <1>1, <1>2, <2>1
<1>4. CASE Reread(s)
  <2>1. (\E a : Answer(s, a)) \/ (\E l : Goto(s, l))
    BY <1>4 DEF Reread
  <2> QED BY <1>1, <1>2, <2>1
<1>5. CASE \/ Identify(s) \/ Authorize(s) \/ LookUpGroup(s) \/ LookUpUser(s)
           \/ TargetStatus(s) \/ Authenticate(s) \/ Claim(s)
           \/ Badge(s) \/ Conflict(s) \/ Fail(s)
  <2>1. (\E a : Answer(s, a)) \/ (\E l : Goto(s, l))
    BY <1>5 DEF Identify, Authorize, LookUpGroup, LookUpUser, TargetStatus, Authenticate,
                Claim, Badge, Conflict, Fail
  <2> QED BY <1>1, <1>2, <2>1
<1> QED BY <1>3, <1>4, <1>5 DEF Handle

\* What is settled stays so, and what is gone stays gone, when others move.
LEMMA EditStays ==
  ASSUME HandlerInv, Witness, [Next]_db, NEW t \in Slot, EditInv(t),
         pc'[t] = pc[t], req'[t] = req[t], reply'[t] = reply[t]
  PROVE  EditInv(t)'
<1>1. CASE req[t].kind \in Edits
  <2>1. req[t] # NoRequest
    BY <1>1 DEF NoRequest, Edits, GroupUpdates
  <2>2. Settled(t) => Settled(t)'
    BY <2>1, Witnesses DEF Settled
  <2>3. Gone(db, req[t]) => Gone(db', req'[t])
    BY GoneStays
  <2> QED BY <2>2, <2>3 DEF EditInv
<1>2. CASE req[t].kind \notin Edits
  BY <1>2 DEF EditInv
<1> QED BY <1>1, <1>2

LEMMA EditEnds ==
  ASSUME HandlerInv, NEW s \in Slot, EditInv(s),
         Leave(s) \/ \E r \in Request : Arrive(s, r)
  PROVE  EditInv(s)'
<1>1. CASE Leave(s)
  <2>1. req'[s] = NoRequest /\ reply'[s] = "none"
    BY <1>1 DEF Leave, HandlerInv
  <2>2. NoRequest.kind \notin Edits
    BY DEF NoRequest, Edits, GroupUpdates
  <2> QED BY <2>1, <2>2 DEF EditInv
<1>2. ASSUME NEW r \in Request, Arrive(s, r)
      PROVE  EditInv(s)'
  <2>1. req'[s] = r /\ pc'[s] = FirstCall(r.kind) /\ reply'[s] = reply[s]
    BY <1>2 DEF Arrive, HandlerInv
  <2>2. reply[s] # "ok"
    BY <1>2 DEF Arrive, EditInv
  <2>3. r.kind \in Edits => pc'[s] = "identify"
    BY <2>1 DEF FirstCall, Open, Edits, GroupUpdates
  <2> QED BY <2>1, <2>2, <2>3 DEF EditInv
<1> QED BY <1>1, <1>2

\* Every step of a handler keeps it, whatever the request is.
LEMMA EditHandled ==
  ASSUME HandlerInv, Witness, NEW s \in Slot, EditInv(s), Handle(s), ~Leave(s)
  PROVE  EditInv(s)'
<1>1. Advances(s)
  BY ReadingAdvances, ActAdvances, EndingAdvances DEF Handle
<1>2. CASE req[s].kind \in Edits
  BY <1>2, EditAdvances
<1>3. CASE req[s].kind \notin Edits
  <2>1. req' = req /\ reply[s] # "ok"
    BY <1>1 DEF Advances, HandlerInv, Known, EditInv
  <2> QED BY <1>3, <2>1, AnswersWhenDone DEF EditInv
<1> QED BY <1>2, <1>3

\* Whatever else goes on between the UPDATE and the row that is read back:
\* who is told that a user or a group was edited is told the truth.  The row
\* that the UPDATE missed is not there afterwards, since its id is not given
\* out again.
THEOREM EditedIsTrueHolds == RSpec => []EditedIsTrue
<1> DEFINE Inv == \A s \in Slot : EditInv(s)
<1>1. RInit => Inv
  <2>1. NoRequest.kind \notin Edits
    BY DEF NoRequest, Edits, GroupUpdates
  <2> QED BY <2>1 DEF RInit, EditInv
<1>2. ASSUME HandlerInv, Inv, [RNext]_vars
      PROVE  Inv'
  <2>1. CASE UNCHANGED vars
    BY <1>2, <2>1 DEF vars, EditInv, Settled
  <2>2. CASE RNext
    <3>1. PICK s \in Slot : Handle(s) \/ \E r \in Request : Arrive(s, r)
      BY <2>2, RequestsAssumption DEF RNext
    <3>2. Witness /\ EditInv(s) /\ [Next]_db
      BY <1>2, <2>2, NextHandlerInv DEF RNext
    <3>3. EditInv(s)'
      BY <1>2, <3>1, <3>2, EditEnds, EditHandled
    <3>4. ASSUME NEW t \in Slot, t # s
          PROVE  EditInv(t)'
      BY <1>2, <3>1, <3>2, <3>4, OthersStay, EditStays
    <3> QED BY <3>3, <3>4
  <2> QED BY <1>2, <2>1, <2>2
<1>3. Inv => EditedIsTrue
  BY DEF EditInv, EditedIsTrue, Settled
<1>4. HandlerInv /\ Inv /\ [RNext]_vars => Inv'
  BY <1>2
<1> HIDE DEF Inv
<1> QED BY <1>1, <1>3, <1>4, HandlerInvariance, PTL DEF RSpec
=============================================================================
