---------------------------- MODULE RequestsProofs ----------------------------
(***************************************************************************)
(* Who acts on others had the right to at some moment since the request    *)
(* arrived, for any number of requests at once, any database the server    *)
(* starts on and any failing calls.                                        *)
(***************************************************************************)
EXTENDS Requests, TLAPS

Kinds == Open \cup AnyUser \cup SelfOrAdmin \cup AdminOnly \cup OthersOnly

\* Where a handler is once it has passed its guard.
Late == {"group", "user", "status", "authenticate", "claim", "act", "reread", "badge"}

\* What the guards let pass, given what has been witnessed.
MayAct(r, w) ==
  \/ r.kind \in AnyUser
  \/ r.kind \in SelfOrAdmin /\ r.token.sub = r.user
  \/ "admin" \in w

\* The record that db is, whatever its tables hold.
DbShape(d) ==
  d = [users |-> d.users, groups |-> d.groups, members |-> d.members,
       userSeq |-> d.userSeq, groupSeq |-> d.groupSeq]

Shape ==
  /\ DbShape(db)
  /\ pc = [s \in Slot |-> pc[s]] /\ req = [s \in Slot |-> req[s]]
  /\ reply = [s \in Slot |-> reply[s]] /\ witnessed = [s \in Slot |-> witnessed[s]]

\* How far a request may come without a witness of its right.
Entitled(s) ==
  /\ pc[s] \in Labels
  /\ pc[s] # "idle" => req[s].kind \in Kinds
  /\ req[s] # NoRequest => req[s].kind \in Kinds
  /\ pc[s] \in {"identify", "authorize"} => req[s].kind \notin Open
  /\ req[s].kind \notin Open =>
       /\ pc[s] \in Late \cup {"authorize"} => "active" \in witnessed[s]
       /\ pc[s] \in Late => MayAct(req[s], witnessed[s])
  /\ reply[s] = "ok" => pc[s] = "done"
  /\ reply[s] = "ok" /\ req[s].kind \in Reads =>
       /\ "active" \in witnessed[s]
       /\ req[s].kind = "users_edit_page" => "admin" \in witnessed[s]

AuthInv == Shape /\ \A s \in Slot : Entitled(s)

USE RequestsAssumption

LEMMA KindsOfRequests == \A r \in Request : r.kind \in Kinds
  BY DEF Request, Kinds, Open, AnyUser, SelfOrAdmin, AdminOnly, OthersOnly, GroupUpdates, Joins

\* A step on behalf of s, as far as the other slots are concerned.
Only(s) ==
  /\ req' = req
  /\ pc' = [pc EXCEPT ![s] = pc'[s]] /\ reply' = [reply EXCEPT ![s] = reply'[s]]

\* Up to the guard a handler only reads, and who comes past it has the right.
LEMMA Guarded ==
  ASSUME AuthInv, NEW s \in Slot, Handle(s), pc[s] \in {"identify", "authorize"}
  PROVE  /\ Only(s) /\ db' = db
         /\ \/ pc'[s] = "done" /\ reply'[s] # "ok"
            \/ /\ pc'[s] \in Late \cup {"authorize"} /\ reply'[s] = reply[s]
               /\ pc[s] = "identify" => "active" \in Facts(db, req[s])
               /\ pc'[s] \in Late => MayAct(req[s], Facts(db, req[s]))
<1> USE DEF Only, Goto, Answer, AuthInv, Shape
<1>1. CASE Identify(s)
  <2> DEFINE rows == {u \in db.users : u.id = req[s].token.sub /\ u.active}
  <2>1. CASE rows = {} /\ Answer(s, "unauthorized")
    BY <1>1, <2>1 DEF Identify
  <2>2. ASSUME rows # {}, NEW l \in AfterIdentify(req[s]), Goto(s, l)
        PROVE  /\ l \in Late \cup {"authorize"}
               /\ l \in Late => MayAct(req[s], Facts(db, req[s]))
               /\ "active" \in Facts(db, req[s])
    <3>1. req[s].kind \notin Open
      BY <1>1 DEF Entitled, Identify
    <3>2. "active" \in Facts(db, req[s])
      BY <2>2, <3>1 DEF Fact, Facts, FactNames
    <3>3. AfterGuard(req[s]) \in Late
      BY DEF AfterGuard, Late
    <3>4. l # "authorize" => l = AfterGuard(req[s]) /\ req[s].kind \in AnyUser
      BY <2>2 DEF AfterIdentify, AnyUser
    <3> QED BY <3>2, <3>3, <3>4 DEF MayAct, Late
  <2>3. CASE \E l \in AfterIdentify(req[s]) : rows # {} /\ Goto(s, l)
    <3>1. PICK l \in AfterIdentify(req[s]) : rows # {} /\ Goto(s, l)
      BY <2>3
    <3>2. db' = db
      BY <1>1 DEF Identify
    <3> QED BY <2>2, <3>1, <3>2
  <2> QED BY <1>1, <2>1, <2>3 DEF Identify
<1>2. CASE Authorize(s)
  <2>1. AfterGuard(req[s]) \in Late
    BY DEF AfterGuard, Late
  <2>2. req[s].kind \in Kinds \ Open
    BY DEF Entitled
  <2>3. CASE IsAdmin(db, req[s].token.sub)
    <3>1. "admin" \in Facts(db, req[s])
      BY <2>2, <2>3 DEF Facts, Fact, FactNames
    <3> QED BY <1>2, <2>1, <3>1 DEF Authorize, MayAct
  <2>4. CASE ~IsAdmin(db, req[s].token.sub)
    <3>1. Allowed(req[s], FALSE) => MayAct(req[s], Facts(db, req[s]))
      BY <2>2 DEF Allowed, MayAct, Kinds, AnyUser, SelfOrAdmin, AdminOnly, OthersOnly
    <3>2. CASE Goto(s, AfterGuard(req[s])) /\ Allowed(req[s], FALSE)
      BY <1>2, <2>1, <3>1, <3>2 DEF Authorize
    <3>3. CASE Answer(s, "forbidden") \/ Answer(s, "bad_request")
      BY <1>2, <3>3 DEF Authorize
    <3>4. IsAdmin(db, req[s].token.sub) = FALSE
      BY <2>4 DEF IsAdmin
    <3> QED BY <1>2, <3>2, <3>3, <3>4 DEF Authorize
  <2> QED BY <2>3, <2>4
<1>3. CASE Fail(s)
  <2>1. "ok" \notin OnError(req[s].kind, pc[s])
    BY DEF OnError
  <2> QED BY <1>3, <2>1 DEF Fail
<1>4. Identify(s) \/ Authorize(s) \/ Fail(s)
  BY DEF Handle, LookUpGroup, LookUpUser, TargetStatus, Authenticate, Claim, Act, Reread,
         Badge, Conflict, Leave
<1> QED BY <1>1, <1>2, <1>3, <1>4

\* After it, it goes on, or is done.
LEMMA Later ==
  ASSUME AuthInv, NEW s \in Slot, Handle(s), pc[s] \in Late
  PROVE  /\ Only(s)
         /\ \/ pc'[s] = "done"
            \/ pc'[s] \in Late /\ reply'[s] = reply[s]
<1> USE DEF Only, Goto, Answer, AuthInv, Shape, Late
<1>1. CASE LookUpGroup(s)
  BY <1>1 DEF LookUpGroup
<1>2. CASE LookUpUser(s)
  <2>1. AfterLookup(req[s].kind) \in Late
    BY DEF AfterLookup
  <2> QED BY <1>2, <2>1 DEF LookUpUser
<1>3. CASE TargetStatus(s)
  BY <1>3 DEF TargetStatus
<1>4. CASE Authenticate(s)
  BY <1>4 DEF Authenticate
<1>5. CASE Claim(s)
  BY <1>5 DEF Claim
<1>6. CASE Act(s)
  <2>1. \/ Goto(s, "reread") \/ Goto(s, "authenticate") \/ Goto(s, "badge")
        \/ \E r \in {"ok", "not_found"} : Answer(s, r)
    <3> DEFINE k == req[s].kind
    <3>1. CASE k \in UserUpdates \cup GroupUpdates \cup {"register", "create_user"}
      BY <1>6, <3>1 DEF Act, UserUpdates, GroupUpdates, Passwordings
    <3>2. CASE k \in {"delete_user", "delete_group", "remove_member"}
      <4>1. Answer(s, IF db' = db THEN "not_found" ELSE "ok")
        BY <1>6, <3>2 DEF Act, UserUpdates, GroupUpdates, Passwordings
      <4> QED BY <4>1
    <3>3. CASE k \notin UserUpdates \cup GroupUpdates \cup
                {"register", "create_user", "delete_user", "delete_group", "remove_member"}
      BY <1>6, <3>3 DEF Act
    <3> QED BY <3>1, <3>2, <3>3
  <2> QED BY <2>1
<1>7. CASE Reread(s)
  <2>1. \/ Goto(s, "badge")
        \/ \E r \in {"ok", "password_changed", "not_found", "error"} : Answer(s, r)
    <3> DEFINE k == req[s].kind
               there == IF k \in GroupUpdates THEN req[s].group \in GroupIds(db)
                        ELSE Subject(req[s]) \in UserIds(db)
    <3>1. CASE k \in Passwordings
      BY <1>7, <3>1 DEF Reread, Passwordings
    <3>2. CASE k \notin Passwordings /\ there
      BY <1>7, <3>2 DEF Reread
    <3>3. CASE k \notin Passwordings /\ ~there
                 /\ k \in {"update_user", "update_group", "toggle_active"}
      BY <1>7, <3>3 DEF Reread
    <3>4. CASE k \notin Passwordings /\ ~there
                 /\ k \notin {"update_user", "update_group", "toggle_active"}
      BY <1>7, <3>4 DEF Reread
    <3> QED BY <3>1, <3>2, <3>3, <3>4
  <2> QED BY <2>1
<1>8. CASE Badge(s) \/ Conflict(s) \/ Fail(s)
  BY <1>8 DEF Badge, Conflict, Fail
<1>9. ~Identify(s) /\ ~Authorize(s) /\ ~Leave(s)
  BY DEF Identify, Authorize, Leave
<1> QED BY <1>1, <1>2, <1>3, <1>4, <1>5, <1>6, <1>7, <1>8, <1>9 DEF Handle

-----------------------------------------------------------------------------
(* What the effects do to the tables *)

LEMMA CreateKeepsOthers ==
  ASSUME DbShape(db), db.users # {}, NEW n, NEW p, CreateUser(n, p)
  PROVE  DbShape(db') /\ db.users \subseteq db'.users /\ \A i : Untouched(i)
<1>1. db' = InsertUser(db, n, p)
  BY DEF CreateUser, CreateUserRow
<1>2. /\ db.users \subseteq db'.users
      /\ db'.members = db.members /\ db'.groups = db.groups /\ DbShape(db')
  BY <1>1 DEF InsertUser, DbShape
<1> QED BY <1>2 DEF Untouched

LEMMA UpdateKeepsOthers ==
  ASSUME DbShape(db), NEW i, NEW ch, UpdateUser(i, ch)
  PROVE  DbShape(db') /\ Untouched(i)
<1>1. db' = UpdateUserRow(db, i, ch)
  BY DEF UpdateUser
<1>2. db'.members = db.members /\ db'.groups = db.groups /\ DbShape(db')
  BY <1>1 DEF UpdateUserRow, DbShape
<1>3. {u \in db.users : u.id # i} \subseteq db'.users
  BY <1>1 DEF UpdateUserRow, DbShape
<1> QED BY <1>2, <1>3 DEF Untouched

LEMMA DeleteKeepsOthers ==
  ASSUME DbShape(db), NEW i, DeleteUser(i)
  PROVE  DbShape(db') /\ Untouched(i)
<1>1. db' = DeleteUserRow(db, i)
  BY DEF DeleteUser
<1>2. /\ db'.users = {u \in db.users : u.id # i} /\ db'.groups = db.groups
      /\ db'.members = db.members \/ db'.members = {m \in db.members : m[1] # i}
      /\ DbShape(db')
  BY <1>1 DEF DeleteUserRow, DbShape
<1> QED BY <1>2 DEF Untouched

LEMMA InsertsKeepShape ==
  ASSUME NEW d, DbShape(d)
  PROVE  /\ \A n, p : DbShape(InsertUser(d, n, p))
         /\ DbShape(EnsureAdminGroup(d)) /\ DbShape(EnrolFirstUser(d))
         /\ DbShape(WithPromotionGroup(d))
<1>0. \A x, y : /\ DbShape([d EXCEPT !.users = x, !.userSeq = y])
                /\ DbShape([d EXCEPT !.groups = x, !.groupSeq = y])
  <2> TAKE x, y
  <2> DEFINE e == [d EXCEPT !.users = x, !.userSeq = y]
             f == [d EXCEPT !.groups = x, !.groupSeq = y]
  <2>1. DOMAIN d = {"users", "groups", "members", "userSeq", "groupSeq"}
    BY DEF DbShape
  <2>2. e = [i \in DOMAIN d |-> IF i = "userSeq" THEN y ELSE IF i = "users" THEN x ELSE d[i]]
    OBVIOUS
  <2>3. f = [i \in DOMAIN d |-> IF i = "groupSeq" THEN y ELSE IF i = "groups" THEN x ELSE d[i]]
    OBVIOUS
  <2>4. DbShape(e)
    BY <2>1, <2>2 DEF DbShape
  <2>5. DbShape(f)
    BY <2>1, <2>3 DEF DbShape
  <2> QED BY <2>4, <2>5
<1>1. \A n, a : DbShape(InsertGroup(d, n, a))
  BY <1>0 DEF InsertGroup
<1>2. \A n, p : DbShape(InsertUser(d, n, p))
  BY <1>0 DEF InsertUser
<1>3. DbShape(EnsureAdminGroup(d))
  <2>1. CASE NamedAdmin(d) = {}
    BY <1>1, <2>1 DEF EnsureAdminGroup
  <2>2. CASE NamedAdmin(d) # {}
    BY <2>2 DEF EnsureAdminGroup, DbShape
  <2> QED BY <2>1, <2>2
<1>4. DbShape(EnrolFirstUser(d))
  BY DEF DbShape, EnrolFirstUser
<1>5. DbShape(WithPromotionGroup(d))
  BY <1>1 DEF WithPromotionGroup
<1> QED BY <1>2, <1>3, <1>4, <1>5

\* Every effect leaves a record of the same fields.
LEMMA EffectKeepsShape ==
  ASSUME DbShape(db), NEW s \in Slot, Effect(s)
  PROVE  DbShape(db')
<1>1. CASE \E n, p : CreateUser(n, p)
  <2>1. PICK n, p : CreateUser(n, p)
    BY <1>1
  <2> QED BY <2>1, InsertsKeepShape DEF CreateUser, CreateUserRow
<1>2. CASE \E i, ch : UpdateUser(i, ch) \/ DeleteUser(i)
  BY <1>2, UpdateKeepsOthers, DeleteKeepsOthers
<1>3. CASE \E i : PromoteUser(i)
  <2>1. PICK i : PromoteUser(i)
    BY <1>3
  <2>2. DbShape(WithPromotionGroup(db))
    BY InsertsKeepShape
  <2> QED BY <2>1, <2>2 DEF DbShape, PromoteUser, Promote
<1>4. CASE \E i : DemoteUser(i) \/ DeleteGroup(i)
  BY <1>4 DEF DbShape, DemoteUser, Demote, DeleteGroup, DeleteGroupRow
<1>5. CASE \E n, a : CreateGroup(n, a) \/ UpdateGroup(n, a)
  BY <1>5 DEF DbShape, CreateGroup, InsertGroup, UpdateGroup, UpdateGroupRow
<1>6. CASE \E g, u : AddUser(g, u) \/ RemoveUser(g, u)
  BY <1>6 DEF DbShape, AddUser, InsertMember, RemoveUser, DeleteMember
<1>7. CASE UNCHANGED db
  BY <1>7
<1>8. \/ \E n, p : CreateUser(n, p)
      \/ \E i, ch : UpdateUser(i, ch) \/ DeleteUser(i)
      \/ \E i : PromoteUser(i)
      \/ \E i : DemoteUser(i) \/ DeleteGroup(i)
      \/ \E n, a : CreateGroup(n, a) \/ UpdateGroup(n, a)
      \/ \E g, u : AddUser(g, u) \/ RemoveUser(g, u)
      \/ UNCHANGED db
  BY DEF Effect
<1> QED BY <1>1, <1>2, <1>3, <1>4, <1>5, <1>6, <1>7, <1>8

LEMMA HandleKeepsShape ==
  ASSUME Shape, NEW s \in Slot, Handle(s)
  PROVE  DbShape(db')
<1>1. CASE Act(s)
  BY <1>1, EffectKeepsShape DEF Act, Shape
<1>2. CASE ~Act(s)
  <2>1. db' = db
    BY <1>2 DEF Handle, Identify, Authorize, LookUpGroup, LookUpUser, TargetStatus,
                Authenticate, Claim, Reread, Badge, Conflict, Fail, Leave
  <2> QED BY <2>1 DEF Shape
<1> QED BY <1>1, <1>2

-----------------------------------------------------------------------------
(* The invariant *)

\* What has been witnessed stays so while the request is there.
LEMMA Grows ==
  ASSUME Witness, NEW s \in Slot, req'[s] = req[s], req[s] # NoRequest
  PROVE  witnessed'[s] = witnessed[s] \cup Facts(db', req[s])
  BY DEF Witness

LEMMA OthersStayEntitled ==
  ASSUME AuthInv, Witness, NEW t \in Slot,
         req'[t] = req[t], pc'[t] = pc[t], reply'[t] = reply[t]
  PROVE  Entitled(t)'
<1>1. CASE req[t] = NoRequest
  <2>1. req[t].kind = "none" /\ "none" \notin Kinds \cup Reads
    BY <1>1 DEF NoRequest, Kinds, Open, AnyUser, SelfOrAdmin, AdminOnly, OthersOnly, Reads
  <2>2. pc[t] = "idle" /\ reply[t] # "ok"
    BY <2>1 DEF AuthInv, Entitled
  <2> QED BY <1>1, <2>1, <2>2 DEF Entitled, Late, Labels
<1>2. CASE req[t] # NoRequest
  <2>1. witnessed[t] \subseteq witnessed'[t]
    BY <1>2, Grows
  <2>2. req[t].kind \in Kinds /\ Entitled(t)
    BY <1>2 DEF AuthInv, Entitled
  <2>3. pc[t] \in Late /\ req[t].kind \notin Open => MayAct(req'[t], witnessed'[t])
    BY <2>1, <2>2 DEF Entitled, MayAct
  <2> QED BY <2>1, <2>2, <2>3 DEF Entitled, MayAct
<1> QED BY <1>1, <1>2

LEMMA GuardedStaysEntitled ==
  ASSUME AuthInv, Witness, NEW s \in Slot, Handle(s), pc[s] \in {"identify", "authorize"}
  PROVE  Entitled(s)'
<1>1. /\ Only(s) /\ db' = db
      /\ \/ pc'[s] = "done" /\ reply'[s] # "ok"
         \/ /\ pc'[s] \in Late \cup {"authorize"} /\ reply'[s] = reply[s]
            /\ pc[s] = "identify" => "active" \in Facts(db, req[s])
            /\ pc'[s] \in Late => MayAct(req[s], Facts(db, req[s]))
  BY Guarded
<1>2. req'[s] = req[s] /\ req[s].kind \in Kinds \ Open /\ Entitled(s)
  BY <1>1 DEF AuthInv, Entitled, Only
<1>3. req[s] # NoRequest
  BY <1>2 DEF NoRequest, Kinds, AnyUser, SelfOrAdmin, AdminOnly, OthersOnly, Open
<1>4. witnessed'[s] = witnessed[s] \cup Facts(db, req[s])
  BY <1>1, <1>2, <1>3, Grows
<1>5. pc'[s] \in Late => MayAct(req[s], witnessed'[s])
  BY <1>1, <1>4 DEF MayAct, Late
<1> QED BY <1>1, <1>2, <1>4, <1>5 DEF Entitled, Late, Labels

LEMMA LaterStaysEntitled ==
  ASSUME AuthInv, Witness, NEW s \in Slot, Handle(s), pc[s] \in Late
  PROVE  Entitled(s)'
<1>1. /\ Only(s)
      /\ \/ pc'[s] = "done"
         \/ pc'[s] \in Late /\ reply'[s] = reply[s]
  BY Later
<1>2. req'[s] = req[s] /\ req[s].kind \in Kinds /\ Entitled(s)
  BY <1>1 DEF AuthInv, Entitled, Only, Late
<1>3. req[s] # NoRequest
  BY <1>2 DEF NoRequest, Kinds, AnyUser, SelfOrAdmin, AdminOnly, OthersOnly, Open
<1>4. witnessed[s] \subseteq witnessed'[s]
  BY <1>1, <1>2, <1>3, Grows
<1>5. req[s].kind \notin Open => MayAct(req[s], witnessed'[s])
  BY <1>2, <1>4 DEF Entitled, MayAct
<1>6. req[s].kind = "users_edit_page" => "admin" \in witnessed'[s]
  BY <1>5 DEF MayAct, Open, AnyUser, SelfOrAdmin
<1>7. Reads \cap Open = {}
  BY DEF Reads, Open
<1>8. pc[s] # "done" /\ reply[s] # "ok"
  BY <1>2 DEF Entitled, Late
<1> QED BY <1>1, <1>2, <1>4, <1>5, <1>6, <1>7, <1>8 DEF Entitled, Late, Labels

LEMMA NextKeepsAuthInv == AuthInv /\ [RNext]_vars => AuthInv'
<1> SUFFICES ASSUME AuthInv, [RNext]_vars PROVE AuthInv'
  OBVIOUS
<1>1. CASE UNCHANGED vars
  BY <1>1 DEF vars, AuthInv, Shape, Entitled
<1>2. ASSUME NEW s \in Slot, Handle(s), Witness
      PROVE  AuthInv'
  <2>1. witnessed' = [t \in Slot |-> witnessed'[t]]
    BY <1>2 DEF Witness
  <2>2. DbShape(db')
    BY <1>2, HandleKeepsShape DEF AuthInv
  <2>3. CASE pc[s] \in {"identify", "authorize"} \cup Late
    <3>1. Only(s)
      BY <1>2, <2>3, Guarded, Later
    <3>2. Shape'
      BY <2>1, <2>2, <3>1 DEF Only, AuthInv, Shape
    <3>3. Entitled(s)'
      BY <1>2, <2>3, GuardedStaysEntitled, LaterStaysEntitled
    <3>4. ASSUME NEW t \in Slot \ {s} PROVE Entitled(t)'
      <4>1. req'[t] = req[t] /\ pc'[t] = pc[t] /\ reply'[t] = reply[t]
        BY <3>1 DEF Only, AuthInv, Shape
      <4> QED BY <1>2, <4>1, OthersStayEntitled
    <3> QED BY <3>2, <3>3, <3>4 DEF AuthInv
  <2>4. CASE pc[s] \notin {"identify", "authorize"} \cup Late
    <3>1. Leave(s)
      BY <1>2, <2>4 DEF Handle, Identify, Authorize, LookUpGroup, LookUpUser, TargetStatus,
            Authenticate, Claim, Act, Reread, Badge, Conflict, Fail, Late, Labels, AuthInv, Entitled
    <3>2. Shape'
      BY <2>1, <2>2, <3>1 DEF Leave, AuthInv, Shape
    <3>3. Entitled(s)'
      BY <3>1 DEF Leave, AuthInv, Shape, Entitled, NoRequest, Late, Reads, Labels
    <3>4. ASSUME NEW t \in Slot \ {s} PROVE Entitled(t)'
      <4>1. req'[t] = req[t] /\ pc'[t] = pc[t] /\ reply'[t] = reply[t]
        BY <3>1 DEF Leave, AuthInv, Shape
      <4> QED BY <1>2, <4>1, OthersStayEntitled
    <3> QED BY <3>2, <3>3, <3>4 DEF AuthInv
  <2> QED BY <2>3, <2>4
<1>3. ASSUME NEW s \in Slot, NEW r \in Requests, Arrive(s, r), Witness
      PROVE  AuthInv'
  <2>1. Shape'
    BY <1>3 DEF Arrive, Witness, AuthInv, Shape
  <2>2. r.kind \in Kinds
    BY KindsOfRequests
  <2>3. /\ FirstCall(r.kind) \in {"authenticate", "act"} => r.kind \in Open
        /\ FirstCall(r.kind) = "identify" => r.kind \notin Open
        /\ FirstCall(r.kind) \in {"authenticate", "act", "identify"}
    BY DEF FirstCall, Open
  <2>4. Entitled(s)'
    BY <1>3, <2>2, <2>3 DEF Arrive, AuthInv, Shape, Entitled, Late, Labels
  <2>5. ASSUME NEW t \in Slot \ {s} PROVE Entitled(t)'
    <3>1. req'[t] = req[t] /\ pc'[t] = pc[t] /\ reply'[t] = reply[t]
      BY <1>3 DEF Arrive, AuthInv, Shape
    <3> QED BY <1>3, <3>1, OthersStayEntitled
  <2> QED BY <2>1, <2>4, <2>5 DEF AuthInv
<1> QED BY <1>1, <1>2, <1>3 DEF RNext

LEMMA InitAuthInv == RInit => AuthInv
<1> SUFFICES ASSUME RInit PROVE AuthInv
  OBVIOUS
<1>1. DbShape(db)
  BY DEF RInit, DbShape, Db
<1>2. Shape
  BY <1>1 DEF RInit, Shape
<1>3. ASSUME NEW s \in Slot PROVE Entitled(s)
  BY DEF RInit, Entitled, NoRequest, Late, Reads, Labels
<1> QED BY <1>2, <1>3 DEF AuthInv

THEOREM AuthInvariant == RSpec => []AuthInv
  BY InitAuthInv, NextKeepsAuthInv, PTL DEF RSpec

-----------------------------------------------------------------------------
(* The theorems *)

\* Pages and answers are for those who were active since their request
\* arrived, and the page of another user for administrators.
THEOREM ShownToTheEntitledHolds == RSpec => []ShownToTheEntitled
<1>1. AuthInv => ShownToTheEntitled
  BY DEF AuthInv, Entitled, ShownToTheEntitled
<1> QED BY <1>1, AuthInvariant, PTL

\* What an act without a witnessed administrator may do.
LEMMA ActOnOwnBehalf ==
  ASSUME AuthInv, NEW s \in Slot, Act(s), db.users # {}, "admin" \notin witnessed[s]
  PROVE  Untouched(IF req[s].kind \in Open THEN 0 ELSE req[s].token.sub)
<1> DEFINE r == req[s]
           i == IF r.kind \in Open THEN 0 ELSE r.token.sub
<1>1. /\ DbShape(db) /\ r.kind \in Kinds
      /\ r.kind \notin Open => MayAct(r, witnessed[s])
  BY DEF Act, AuthInv, Shape, Entitled, Late
<1>2. \/ r.kind \in Open \cup AnyUser
      \/ r.kind \in SelfOrAdmin /\ r.token.sub = r.user
  BY <1>1 DEF MayAct
<1>3. CASE r.kind \in Creations
  <2>1. CreateUser(r.name, r.password)
    BY <1>3 DEF Act, Effect, Creations, UserUpdates, Passwordings, GroupUpdates, Joins, Reads
  <2> QED BY <1>1, <2>1, CreateKeepsOthers
<1>4. CASE r.kind \in UserUpdates
  <2>1. UpdateUser(Subject(r), Change(s))
    BY <1>4 DEF Act, Effect, Creations, UserUpdates, Passwordings, GroupUpdates, Joins, Reads
  <2>2. Untouched(Subject(r))
    BY <1>1, <2>1, UpdateKeepsOthers
  <2>3. Subject(r) = i
    BY <1>2, <1>4 DEF Subject, UserUpdates, Passwordings, Open, AnyUser, SelfOrAdmin
  <2> QED BY <2>2, <2>3
<1>5. CASE r.kind = "delete_user"
  <2>1. DeleteUser(r.user)
    BY <1>5 DEF Act, Effect, Creations, UserUpdates, Passwordings, GroupUpdates, Joins, Reads
  <2>2. r.user = i
    BY <1>2, <1>5 DEF Open, AnyUser
  <2> QED BY <1>1, <2>1, <2>2, DeleteKeepsOthers
<1>6. CASE r.kind \notin Creations \cup UserUpdates \cup {"delete_user"}
  <2>1. r.kind \in Reads \cup {"login"}
    BY <1>2, <1>6 DEF Open, AnyUser, SelfOrAdmin, Creations, UserUpdates, Passwordings, Reads
  <2>2. db' = db
    BY <1>6, <2>1 DEF Act, Effect, GroupUpdates, Joins, Reads
  <2> QED BY <2>2 DEF Untouched
<1> QED BY <1>3, <1>4, <1>5, <1>6

\* Whatever the token says, and however the caller is demoted, deactivated or
\* deleted by others while the request is under way (auth.rs and the guards of
\* api.rs and webui.rs).
THEOREM AuthorityIsFreshHolds == RSpec => AuthorityIsFresh
<1> DEFINE A == \A s \in Slot :
             pc[s] = "act" /\ pc'[s] # "act" /\ db.users # {} =>
               LET r == req[s]
                   i == IF r.kind \in Open THEN 0 ELSE r.token.sub
               IN  /\ "admin" \notin witnessed[s] => Untouched(i)
                   /\ "active" \notin witnessed[s] => db.users \subseteq db'.users
<1>1. AuthInv /\ [RNext]_vars => A
  <2> SUFFICES ASSUME AuthInv, [RNext]_vars, NEW s \in Slot,
                      pc[s] = "act", pc'[s] # "act", db.users # {}
               PROVE  LET r == req[s]
                          i == IF r.kind \in Open THEN 0 ELSE r.token.sub
                      IN  /\ "admin" \notin witnessed[s] => Untouched(i)
                          /\ "active" \notin witnessed[s] => db.users \subseteq db'.users
    OBVIOUS
  <2>1. PICK t \in Slot : Handle(t) \/ \E r \in Requests : Arrive(t, r)
    BY DEF RNext, vars
  <2>2. t = s /\ Handle(s)
    <3>1. \A u \in Slot \ {t} : pc'[u] = pc[u]
      <4>1. CASE \E r \in Requests : Arrive(t, r)
        BY <4>1 DEF Arrive, AuthInv, Shape
      <4>2. CASE Handle(t)
        <5>1. CASE pc[t] \in {"identify", "authorize"} \cup Late
          BY <4>2, <5>1, Guarded, Later DEF Only, AuthInv, Shape
        <5>2. CASE pc[t] \notin {"identify", "authorize"} \cup Late
          <6>1. Leave(t)
            BY <4>2, <5>2 DEF Handle, Identify, Authorize, LookUpGroup, LookUpUser,
                  TargetStatus, Authenticate, Claim, Act, Reread, Badge, Conflict, Fail,
                  Late, Labels, AuthInv, Entitled
          <6> QED BY <6>1 DEF Leave, AuthInv, Shape
        <5> QED BY <5>1, <5>2
      <4> QED BY <2>1, <4>1, <4>2
    <3> QED BY <2>1, <3>1 DEF Arrive
  <2>3. CASE Act(s)
    <3>1. "admin" \notin witnessed[s] =>
            Untouched(IF req[s].kind \in Open THEN 0 ELSE req[s].token.sub)
      BY <2>3, ActOnOwnBehalf
    <3>2. "active" \notin witnessed[s] => db.users \subseteq db'.users
      <4> SUFFICES ASSUME "active" \notin witnessed[s] PROVE db.users \subseteq db'.users
        OBVIOUS
      <4>1. req[s].kind \in Open /\ DbShape(db)
        BY DEF AuthInv, Shape, Entitled, Late
      <4>2. CASE req[s].kind = "login"
        BY <2>3, <4>2 DEF Act, Effect, Creations, UserUpdates, Passwordings, GroupUpdates,
                          Joins, Reads
      <4>3. CASE req[s].kind \in Creations
        <5>1. CreateUser(req[s].name, req[s].password)
          BY <2>3, <4>3 DEF Act, Effect, Creations, UserUpdates, Passwordings, GroupUpdates,
                            Joins, Reads
        <5> QED BY <4>1, <5>1, CreateKeepsOthers
      <4> QED BY <4>1, <4>2, <4>3 DEF Open, Creations
    <3> QED BY <3>1, <3>2
  <2>4. CASE ~Act(s)
    <3>1. db' = db
      BY <2>2, <2>4 DEF Handle, Identify, Authorize, LookUpGroup, LookUpUser, TargetStatus,
                        Authenticate, Claim, Reread, Badge, Conflict, Fail, Leave
    <3> QED BY <3>1 DEF Untouched
  <2> QED BY <2>3, <2>4
<1> QED BY <1>1, AuthInvariant, PTL DEF RSpec, AuthorityIsFresh

-----------------------------------------------------------------------------
(* 404 *)

\* What a handler is about where it may find something missing.
Seeking(s) ==
  LET k == req[s].kind
  IN  /\ pc[s] = "group" => k \in LooksUpGroup
      /\ pc[s] = "user" => k \in LooksUpUser
      /\ pc[s] = "reread" => k \in UserUpdates \cup GroupUpdates
      /\ reply[s] = "not_found" => pc[s] = "done" /\ "absent" \in witnessed[s]

SeekInv == \A s \in Slot : Seeking(s)

\* While no database call fails, who answers 404 has just missed something.
LEMMA MissedIsAbsent ==
  ASSUME AuthInv, SeekInv, ~Faults, NEW s \in Slot, Handle(s),
         pc[s] \in {"identify", "authorize"} \cup Late, reply'[s] = "not_found"
  PROVE  Fact(db', req[s], "absent")
<1> DEFINE r == req[s]
<1> USE DEF Goto, Answer
<1>0. reply[s] # "not_found" /\ r.kind \in Kinds /\ reply = [t \in Slot |-> reply[t]]
  BY DEF SeekInv, Seeking, Late, AuthInv, Shape, Entitled
<1>1. ASSUME NEW a, Answer(s, a) PROVE a = "not_found"
  BY <1>0, <1>1
<1>2. ASSUME NEW l, Goto(s, l) PROVE FALSE
  BY <1>0, <1>2
<1>3. CASE LookUpGroup(s)
  <2>1. r.group \notin GroupIds(db) /\ r.kind \in LooksUpGroup /\ db' = db
    BY <1>2, <1>3 DEF LookUpGroup, SeekInv, Seeking
  <2> QED BY <2>1 DEF Fact
<1>4. CASE LookUpUser(s)
  <2>1. r.user \notin UserIds(db) /\ r.kind \in LooksUpUser /\ db' = db
    BY <1>2, <1>4 DEF LookUpUser, SeekInv, Seeking, UserIds
  <2>2. Subject(r) = r.user
    BY <2>1 DEF Subject, LooksUpUser
  <2> QED BY <2>1, <2>2 DEF Fact
<1>5. CASE Act(s)
  <2>1. r.kind \in {"delete_user", "delete_group", "remove_member"} /\ db' = db
    <3>1. r.kind \notin UserUpdates \cup GroupUpdates \cup {"register", "create_user"}
      BY <1>2, <1>5 DEF Act, UserUpdates, GroupUpdates, Passwordings
    <3>2. CASE r.kind \in {"delete_user", "delete_group", "remove_member"}
      <4>1. Answer(s, IF db' = db THEN "not_found" ELSE "ok")
        BY <1>5, <3>1, <3>2 DEF Act
      <4> QED BY <1>1, <3>2, <4>1
    <3>3. CASE r.kind \notin {"delete_user", "delete_group", "remove_member"}
      <4>1. Answer(s, "ok")
        BY <1>5, <3>1, <3>3 DEF Act
      <4> QED BY <1>1, <4>1
    <3> QED BY <3>2, <3>3
  <2>2. DbShape(db)
    BY DEF AuthInv, Shape
  <2> USE DEF Effect, Creations, UserUpdates, Passwordings, GroupUpdates, Joins, Reads
  <2>3. CASE r.kind = "delete_user"
    <3>1. db = DeleteUserRow(db, r.user)
      BY <1>5, <2>1, <2>3 DEF Act, DeleteUser
    <3>2. r.user \notin UserIds(db)
      <4>1. DeleteUserRow(db, r.user).users = {u \in db.users : u.id # r.user}
        BY <2>2 DEF DeleteUserRow, DbShape
      <4> QED BY <3>1, <4>1 DEF UserIds
    <3> QED BY <2>1, <2>3, <3>2 DEF Fact, Subject
  <2>4. CASE r.kind = "delete_group"
    <3>1. db = DeleteGroupRow(db, r.group)
      BY <1>5, <2>1, <2>4 DEF Act, DeleteGroup
    <3>2. r.group \notin GroupIds(db)
      <4>1. DeleteGroupRow(db, r.group).groups = {g \in db.groups : g.id # r.group}
        BY <2>2 DEF DeleteGroupRow, DbShape
      <4> QED BY <3>1, <4>1 DEF GroupIds
    <3> QED BY <2>1, <2>4, <3>2 DEF Fact
  <2>5. CASE r.kind = "remove_member"
    <3>1. db = DeleteMember(db, r.user, r.group)
      BY <1>5, <2>1, <2>5 DEF Act, RemoveUser
    <3>2. <<r.user, r.group>> \notin db.members
      <4>1. DeleteMember(db, r.user, r.group).members = db.members \ {<<r.user, r.group>>}
        BY <2>2 DEF DeleteMember, DbShape
      <4> QED BY <3>1, <4>1
    <3> QED BY <2>1, <2>5, <3>2 DEF Fact
  <2> QED BY <2>1, <2>3, <2>4, <2>5
<1>6. CASE Reread(s)
  <2> DEFINE there == IF r.kind \in GroupUpdates THEN r.group \in GroupIds(db)
                      ELSE Subject(r) \in UserIds(db)
  <2>1. db' = db /\ r.kind \in UserUpdates \cup GroupUpdates
    BY <1>6 DEF Reread, SeekInv, Seeking
  <2>2. r.kind \notin Passwordings
    <3> SUFFICES ASSUME r.kind \in Passwordings PROVE FALSE
      OBVIOUS
    <3>1. Answer(s, "password_changed")
      BY <1>6 DEF Reread, Passwordings
    <3> QED BY <1>1, <3>1
  <2>3. ~there
    <3> SUFFICES ASSUME there PROVE FALSE
      OBVIOUS
    <3>1. Goto(s, "badge") \/ Answer(s, "ok")
      BY <1>6, <2>2 DEF Reread
    <3> QED BY <1>1, <1>2, <3>1
  <2> QED BY <2>1, <2>3 DEF Fact
<1>7. CASE Fail(s)
  <2>1. pc[s] = "act" /\ Impossible(s)
    BY <1>7 DEF Fail
  <2>2. r.kind \in Creations \cup {"create_group", "toggle_admin"} \cup Joins
    BY <2>1 DEF Impossible
  <2>3. "not_found" \notin OnError(r.kind, "act")
    BY <2>2 DEF OnError, Creations, Joins, Passwordings
  <2> QED BY <1>1, <1>7, <2>1, <2>3 DEF Fail
<1>8. CASE \/ Identify(s) \/ Authorize(s) \/ TargetStatus(s) \/ Authenticate(s) \/ Claim(s)
           \/ Badge(s) \/ Conflict(s)
  BY <1>1, <1>2, <1>8
     DEF Identify, Authorize, TargetStatus, Authenticate, Claim, Badge, Conflict
<1>9. ~Leave(s)
  BY DEF Leave, Late
<1> QED BY <1>3, <1>4, <1>5, <1>6, <1>7, <1>8, <1>9 DEF Handle

\* Where a handler looks, it has been sent for something.
LEMMA SeeksWhatItIsAbout ==
  ASSUME AuthInv, SeekInv, NEW s \in Slot, Handle(s),
         pc[s] \in {"identify", "authorize"} \cup Late
  PROVE  LET k == req[s].kind
         IN  /\ pc'[s] = "group" => k \in LooksUpGroup
             /\ pc'[s] = "user" => k \in LooksUpUser
             /\ pc'[s] = "reread" => k \in UserUpdates \cup GroupUpdates
<1> DEFINE k == req[s].kind
<1> USE DEF Goto, Answer
<1>0. pc = [t \in Slot |-> pc[t]]
  BY DEF AuthInv, Shape
<1>1. ASSUME NEW a, Answer(s, a) PROVE pc'[s] = "done"
  BY <1>0, <1>1
<1>2. ASSUME NEW l, Goto(s, l) PROVE pc'[s] = l
  BY <1>0, <1>2
<1>3. CASE Identify(s) \/ Authorize(s)
  <2>1. /\ AfterGuard(req[s]) = "group" => k \in LooksUpGroup
        /\ AfterGuard(req[s]) = "user" => k \in LooksUpUser
        /\ AfterGuard(req[s]) # "reread"
    BY DEF AfterGuard, LooksUpGroup, LooksUpUser
  <2>2. AfterIdentify(req[s]) \subseteq {AfterGuard(req[s]), "authorize"}
    BY DEF AfterIdentify
  <2>3. \/ Goto(s, "authorize") \/ Goto(s, AfterGuard(req[s]))
        \/ Answer(s, "unauthorized") \/ Answer(s, "forbidden") \/ Answer(s, "bad_request")
    BY <1>3, <2>2 DEF Identify, Authorize
  <2> QED BY <1>1, <1>2, <2>1, <2>3
<1>4. CASE LookUpGroup(s)
  <2>1. CASE Goto(s, IF k \in LooksUpUser THEN "user" ELSE "act")
    <3>1. pc'[s] = IF k \in LooksUpUser THEN "user" ELSE "act"
      BY <1>0, <2>1
    <3> QED BY <3>1
  <2>2. CASE Answer(s, "not_found")
    BY <1>1, <2>2
  <2> QED BY <1>4, <2>1, <2>2 DEF LookUpGroup
<1>5. CASE LookUpUser(s)
  <2>1. AfterLookup(k) \in {"status", "badge", "act"}
    BY DEF AfterLookup
  <2> QED BY <1>1, <1>2, <1>5, <2>1 DEF LookUpUser
<1>6. CASE Act(s)
  <2>1. CASE k \in UserUpdates \cup GroupUpdates
    <3>1. Goto(s, "reread")
      BY <1>6, <2>1 DEF Act, UserUpdates, GroupUpdates, Passwordings
    <3> QED BY <1>2, <2>1, <3>1
  <2>2. CASE k \notin UserUpdates \cup GroupUpdates
    <3>1. \/ Goto(s, "authenticate") \/ Goto(s, "badge") \/ \E a : Answer(s, a)
      <4>1. CASE k \in {"register", "create_user"}
        BY <1>6, <2>2, <4>1 DEF Act
      <4>2. CASE k \in {"delete_user", "delete_group", "remove_member"}
        <5>1. Answer(s, IF db' = db THEN "not_found" ELSE "ok")
          BY <1>6, <2>2, <4>2 DEF Act
        <5> QED BY <5>1
      <4>3. CASE k \notin {"register", "create_user", "delete_user", "delete_group",
                          "remove_member"}
        <5>1. Answer(s, "ok")
          BY <1>6, <2>2, <4>3 DEF Act
        <5> QED BY <5>1
      <4> QED BY <4>1, <4>2, <4>3
    <3>2. CASE Goto(s, "authenticate") \/ Goto(s, "badge")
      BY <1>2, <3>2
    <3>3. CASE \E a : Answer(s, a)
      <4>1. pc'[s] = "done"
        BY <1>0, <3>3
      <4> QED BY <4>1
    <3> QED BY <3>1, <3>2, <3>3
  <2> QED BY <2>1, <2>2
<1>7. CASE \/ TargetStatus(s) \/ Authenticate(s) \/ Claim(s)
           \/ Badge(s) \/ Conflict(s) \/ Fail(s)
  <2>1. (\E a : Answer(s, a)) \/ \E l \in {"act", "claim"} : Goto(s, l)
    BY <1>7 DEF TargetStatus, Authenticate, Claim, Badge, Conflict, Fail
  <2>2. CASE \E a : Answer(s, a)
    <3>1. pc'[s] = "done"
      BY <1>0, <2>2
    <3> QED BY <3>1
  <2>3. CASE \E l \in {"act", "claim"} : Goto(s, l)
    <3>1. pc'[s] \in {"act", "claim"}
      BY <1>0, <2>3
    <3> QED BY <3>1
  <2> QED BY <2>1, <2>2, <2>3
<1>8. CASE Reread(s)
  <2>1. Goto(s, "badge") \/ \E a : Answer(s, a)
    <3> DEFINE there == IF k \in GroupUpdates THEN req[s].group \in GroupIds(db)
                        ELSE Subject(req[s]) \in UserIds(db)
    <3>1. CASE k \in Passwordings
      BY <1>8, <3>1 DEF Reread
    <3>2. CASE k \notin Passwordings /\ there
      BY <1>8, <3>2 DEF Reread
    <3>3. CASE k \notin Passwordings /\ ~there
                 /\ k \in {"update_user", "update_group", "toggle_active"}
      BY <1>8, <3>3 DEF Reread
    <3>4. CASE k \notin Passwordings /\ ~there
                 /\ k \notin {"update_user", "update_group", "toggle_active"}
      BY <1>8, <3>4 DEF Reread
    <3> QED BY <3>1, <3>2, <3>3, <3>4
  <2>2. CASE Goto(s, "badge")
    BY <1>2, <2>2
  <2>3. CASE \E a : Answer(s, a)
    BY <1>1, <2>3
  <2> QED BY <2>1, <2>2, <2>3
<1>9. ~Leave(s)
  BY DEF Leave, Late
<1> QED BY <1>3, <1>4, <1>5, <1>6, <1>7, <1>8, <1>9 DEF Handle

LEMMA SeekerKeeps ==
  ASSUME AuthInv, SeekInv, ~Faults, Witness, NEW s \in Slot, Handle(s),
         pc[s] \in {"identify", "authorize"} \cup Late
  PROVE  Seeking(s)'
<1>1. Only(s) /\ (pc'[s] # "done" => reply'[s] = reply[s])
  BY Guarded, Later
<1>2. req'[s] = req[s] /\ req[s].kind \in Kinds /\ pc[s] # "done" /\ Seeking(s)
  BY <1>1 DEF Only, AuthInv, Entitled, Late, SeekInv
<1>3. req[s] # NoRequest
  BY <1>2 DEF NoRequest, Kinds, AnyUser, SelfOrAdmin, AdminOnly, OthersOnly, Open
<1>4. witnessed'[s] = witnessed[s] \cup Facts(db', req[s])
  BY <1>2, <1>3, Grows
<1>5. reply'[s] = "not_found" => pc'[s] = "done"
  BY <1>1, <1>2 DEF Seeking
<1>6. reply'[s] = "not_found" => "absent" \in witnessed'[s]
  BY <1>4, MissedIsAbsent DEF Facts, FactNames
<1> QED BY <1>2, <1>5, <1>6, SeeksWhatItIsAbout DEF Seeking

LEMMA NextKeepsSeekInv == ~Faults /\ AuthInv /\ SeekInv /\ [RNext]_vars => SeekInv'
<1> SUFFICES ASSUME ~Faults, AuthInv, SeekInv, [RNext]_vars PROVE SeekInv'
  OBVIOUS
<1>0. ASSUME NEW t \in Slot, Witness, req'[t] = req[t], pc'[t] = pc[t], reply'[t] = reply[t]
      PROVE  Seeking(t)'
  <2>1. Seeking(t) /\ Entitled(t)
    BY DEF SeekInv, AuthInv
  <2>2. CASE req[t] = NoRequest
    <3>1. req[t].kind = "none" /\ "none" \notin Kinds
      BY <2>2 DEF NoRequest, Kinds, Open, AnyUser, SelfOrAdmin, AdminOnly, OthersOnly
    <3>2. pc[t] = "idle"
      BY <2>1, <3>1 DEF Entitled
    <3> QED BY <1>0, <2>1, <3>2 DEF Seeking
  <2>3. CASE req[t] # NoRequest
    BY <1>0, <2>1, <2>3, Grows DEF Seeking
  <2> QED BY <2>2, <2>3
<1>1. CASE UNCHANGED vars
  BY <1>1 DEF vars, SeekInv, Seeking
<1>2. ASSUME NEW s \in Slot, Handle(s), Witness
      PROVE  SeekInv'
  <2>1. CASE pc[s] \in {"identify", "authorize"} \cup Late
    <3>1. Only(s)
      BY <1>2, <2>1, Guarded, Later
    <3>2. ASSUME NEW t \in Slot \ {s} PROVE Seeking(t)'
      BY <1>0, <1>2, <3>1 DEF Only, AuthInv, Shape
    <3>3. Seeking(s)'
      BY <1>2, <2>1, SeekerKeeps
    <3> QED BY <3>2, <3>3 DEF SeekInv
  <2>2. CASE pc[s] \notin {"identify", "authorize"} \cup Late
    <3>1. Leave(s)
      BY <1>2, <2>2 DEF Handle, Identify, Authorize, LookUpGroup, LookUpUser, TargetStatus,
            Authenticate, Claim, Act, Reread, Badge, Conflict, Fail, Late, Labels, AuthInv,
            Entitled
    <3>2. Seeking(s)'
      BY <3>1 DEF Leave, AuthInv, Shape, Seeking
    <3>3. ASSUME NEW t \in Slot \ {s} PROVE Seeking(t)'
      BY <1>0, <1>2, <3>1 DEF Leave, AuthInv, Shape
    <3> QED BY <3>2, <3>3 DEF SeekInv
  <2> QED BY <2>1, <2>2
<1>3. ASSUME NEW s \in Slot, NEW r \in Requests, Arrive(s, r), Witness
      PROVE  SeekInv'
  <2>1. FirstCall(r.kind) \notin {"group", "user", "reread"}
    BY DEF FirstCall
  <2>2. reply[s] # "not_found"
    BY <1>3 DEF Arrive, SeekInv, Seeking
  <2>3. Seeking(s)'
    BY <1>3, <2>1, <2>2 DEF Arrive, AuthInv, Shape, Seeking
  <2>4. ASSUME NEW t \in Slot \ {s} PROVE Seeking(t)'
    BY <1>0, <1>3 DEF Arrive, AuthInv, Shape
  <2> QED BY <2>3, <2>4 DEF SeekInv
<1> QED BY <1>1, <1>2, <1>3 DEF RNext

\* While no database call fails without a reason, a 404 is about something that
\* was missing at some moment since the request arrived, whatever other
\* requests delete and create in the meantime (api.rs, webui.rs).
THEOREM NotFoundIsTrueHolds ==
  ASSUME ~Faults PROVE RSpec => []NotFoundIsTrue
<1>1. RInit => SeekInv
  BY DEF RInit, SeekInv, Seeking
<1>2. AuthInv /\ SeekInv /\ [RNext]_vars => SeekInv'
  BY NextKeepsSeekInv
<1>3. SeekInv => NotFoundIsTrue
  BY DEF SeekInv, Seeking, NotFoundIsTrue
<1> QED BY <1>1, <1>2, <1>3, AuthInvariant, PTL DEF RSpec
=============================================================================
