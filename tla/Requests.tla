------------------------------- MODULE Requests -------------------------------
(***************************************************************************)
(* The handlers of the REST API and the web UI: each request identifies    *)
(* its caller, authorizes it, looks up what it is about and acts, one      *)
(* database call at a time, interleaved with other requests.               *)
(* A database call is one step of UserStore here; Faults adds those that   *)
(* SqliteStore shows to fail although nothing stands in the way.           *)
(*                                                                         *)
(* Where an API handler and its web twin make the same calls in the same   *)
(* order they share a kind; a kind with two names in its comment says so.  *)
(* Requests whose token does not verify touch no state and are left out.   *)
(***************************************************************************)
EXTENDS UserStore

CONSTANTS
  Slot,      \* requests in progress at the same time
  Requests,  \* the requests clients send, a subset of Request
  Start,     \* the database the server finds when it starts
  Faults     \* may a database call fail for no reason of the request?

\* The claims that matter of an access token: who, and whether the user was
\* an administrator when it was issued.
Token == [sub: Id, is_admin: BOOLEAN]

\* Who may do what, by handler.
Open        == {"create_user", "register", "login"}
AnyUser     == {"users_create", "me_update", "me_password",
                "read",             \* lists, dashboard and profile
                "get_user",         \* api only
                "get_group"}        \* and group_detail
SelfOrAdmin == {"update_user",      \* api only
                "delete_user",      \* and users_delete
                "toggle_active"}
AdminOnly   == {"create_group",     \* and groups_create
                "update_group",     \* api
                "group_update",     \* web: looks the group up first
                "delete_group",     \* and group_delete
                "add_member",       \* api
                "group_add_member", \* web: looks group and user up first
                "remove_member"}    \* and group_remove_member
OthersOnly  == {"toggle_admin", "users_edit", "reset_password", "users_edit_page"}

Creations    == {"create_user", "register", "users_create"}
Passwordings == {"me_password", "reset_password"}
UserUpdates  == {"update_user", "toggle_active", "me_update", "users_edit"} \cup Passwordings
GroupUpdates == {"update_group", "group_update"}
Joins        == {"add_member", "group_add_member"}
Edits        == {"update_user", "users_edit", "me_update"} \cup GroupUpdates
Reads        == {"read", "get_user", "get_group", "users_edit_page"}
LooksUpGroup == {"group_update", "group_add_member", "get_group"}
LooksUpUser  == {"toggle_active", "toggle_admin", "users_edit", "reset_password",
                 "group_add_member", "get_user", "users_edit_page"}

NoChange == [username |-> Unset, password |-> Unset, active |-> Unset]

Request ==
       [kind: Open, name: Usernames, password: Passwords]
  \cup [kind: {"users_create"}, token: Token, name: Usernames, password: Passwords]
  \cup [kind: {"me_update"}, token: Token, name: Usernames]
  \cup [kind: {"me_password"}, token: Token, current: Passwords, password: Passwords]
  \cup [kind: {"update_user", "users_edit"}, token: Token, user: UserIdArg, change: UserChange]
  \cup [kind: {"delete_user", "toggle_active", "toggle_admin"}, token: Token, user: UserIdArg]
  \cup [kind: {"reset_password"}, token: Token, user: UserIdArg, password: Passwords]
  \cup [kind: {"create_group"}, token: Token, name: GroupNames, is_admin: BOOLEAN]
  \cup [kind: GroupUpdates, token: Token, group: GroupIdArg, change: GroupChange]
  \cup [kind: {"delete_group"}, token: Token, group: GroupIdArg]
  \cup [kind: {"add_member"}, token: Token, group: GroupIdArg, user: UserIdArg,
        body: GroupIdArg]   \* the group_id in the JSON body
  \cup [kind: {"group_add_member", "remove_member"}, token: Token, group: GroupIdArg,
        user: UserIdArg]
  \cup [kind: {"read"}, token: Token]
  \cup [kind: {"get_user", "users_edit_page"}, token: Token, user: UserIdArg]
  \cup [kind: {"get_group"}, token: Token, group: GroupIdArg]

ASSUME RequestsAssumption ==
  Requests \subseteq Request /\ Start \in Db /\ Faults \in BOOLEAN

\* SQLite has kept the constraints of 0001_init.sql in the file it starts on.
ASSUME StartAssumption ==
  /\ KeysOf(Start) /\ (ForeignKeys => NoOrphansOf(Start))
  /\ Start.userSeq <= MaxUserId

VARIABLES
  pc,         \* how far the request in each slot is
  req,        \* the request, NoRequest in a free slot
  local,      \* what its handler remembers of the database
  reply,      \* what the client is told
  tokens,     \* the tokens handed out; one that expires is used no more
  witnessed   \* history: facts that held at some moment since it arrived

vars == <<db, pc, req, local, reply, tokens, witnessed>>

NoRequest == [kind |-> "none"]

\* name: the caller's username as Identify read it; flag: the is_active or the
\* is_admin of the target; found: the id of the row authenticate matched.
NoLocal == [name |-> Unset, flag |-> FALSE, found |-> 0]

TokenFor(d, i) == [sub |-> i, is_admin |-> IsAdmin(d, i)]

RInit ==
  /\ db = Start
  /\ pc = [s \in Slot |-> "idle"]
  /\ req = [s \in Slot |-> NoRequest]
  /\ local = [s \in Slot |-> NoLocal]
  /\ reply = [s \in Slot |-> "none"]
  /\ tokens = {TokenFor(Start, i) : i \in UserIds(Start)}
  /\ witnessed = [s \in Slot |-> {}]

\* The user a request is about: the path parameter, or the caller itself.
Subject(r) == IF r.kind \in {"me_update", "me_password"} THEN r.token.sub ELSE r.user

\* The row that an edit is about is as the edit asks for.
Edited(d, r) ==
  \/ /\ r.kind \in {"update_user", "users_edit"}
     /\ \E u \in d.users : /\ u.id = r.user
                          /\ r.change.username \in {Unset, u.username}
                          /\ r.change.password \in {Unset, u.password}
                          /\ r.change.active \in {Unset, u.active}
  \/ /\ r.kind = "me_update"
     /\ \E u \in d.users : u.id = r.token.sub /\ u.username = r.name
  \/ /\ r.kind \in GroupUpdates
     /\ \E g \in d.groups : /\ g.id = r.group
                           /\ r.change.name \in {Unset, g.name}
                           /\ r.change.is_admin \in {Unset, g.is_admin}

\* The facts about d that a reply to r, or the right to act on r, rests on.
Fact(d, r, f) ==
  CASE f = "active" -> r.kind \notin Open /\ \E u \in d.users : u.id = r.token.sub /\ u.active
    [] f = "admin" -> r.kind \notin Open /\ IsAdmin(d, r.token.sub)
    [] f = "absent" ->
         \/ r.kind \in UserUpdates \cup LooksUpUser \cup Joins \cup {"delete_user"}
              /\ Subject(r) \notin UserIds(d)
         \/ r.kind \in GroupUpdates \cup LooksUpGroup \cup Joins \cup {"delete_group"}
              /\ r.group \notin GroupIds(d)
         \/ r.kind = "remove_member" /\ <<r.user, r.group>> \notin d.members
    [] f = "member" -> r.kind \in Joins /\ <<r.user, r.group>> \in d.members
    [] f = "password" -> r.kind \in Passwordings
         /\ \E u \in d.users : u.id = Subject(r) /\ u.password = r.password
    [] f = "edited" -> r.kind \in Edits /\ Edited(d, r)
    [] f = "unassigned" -> r.kind \in Edits
         /\ IF r.kind \in GroupUpdates THEN r.group > d.groupSeq ELSE Subject(r) > d.userSeq

FactNames == {"active", "admin", "absent", "member", "password", "edited", "unassigned"}

Facts(d, r) == {f \in FactNames : Fact(d, r, f)}

-----------------------------------------------------------------------------
(* How a handler moves *)

\* Every slot takes note of what the step made true.
Witness ==
  witnessed' = [s \in Slot |-> IF req'[s] = NoRequest THEN {}
                               ELSE witnessed[s] \cup Facts(db', req'[s])]

Goto(s, label) ==
  /\ pc' = [pc EXCEPT ![s] = label]
  /\ UNCHANGED <<req, reply>>

Answer(s, r) ==
  /\ pc' = [pc EXCEPT ![s] = "done"]
  /\ reply' = [reply EXCEPT ![s] = r]
  /\ UNCHANGED req

Remember(s, field, value) == local' = [local EXCEPT ![s] = [@ EXCEPT ![field] = value]]

\* authenticate reads is_admin before it has the row, for the id it starts with.
Bug_FirstCall(kind) ==
  CASE kind = "login" -> "claim"
    [] kind \in Open \ {"login"} -> "act"
    [] OTHER -> "identify"

\* The first database call of a handler, its extractors included.
FirstCall(kind) ==
  CASE kind = "login" -> "authenticate"
    [] kind \in Open \ {"login"} -> "act"
    [] OTHER -> "identify"

Arrive(s, r) ==
  /\ pc[s] = "idle"
  /\ r.kind \notin Open => r.token \in tokens
  /\ pc' = [pc EXCEPT ![s] = FirstCall(r.kind)]
  /\ req' = [req EXCEPT ![s] = r]
  /\ UNCHANGED <<db, local, reply, tokens>>

Leave(s) ==
  /\ pc[s] = "done"
  /\ pc' = [pc EXCEPT ![s] = "idle"]
  /\ req' = [req EXCEPT ![s] = NoRequest]
  /\ reply' = [reply EXCEPT ![s] = "none"]
  /\ local' = [local EXCEPT ![s] = NoLocal]
  /\ UNCHANGED <<db, tokens>>

-----------------------------------------------------------------------------
(* The caller: resolve_user, AdminUser, current_user *)

\* The first database call after the guard.
AfterGuard(r) ==
  CASE r.kind \in LooksUpGroup -> "group"
    [] r.kind \in LooksUpUser \ LooksUpGroup -> "user"
    [] r.kind = "me_password"  -> "authenticate"
    [] OTHER                   -> "act"

\* current_user, AdminUser and the handlers of SelfOrAdmin go on to read
\* is_admin; what the API shows to every user does without.
AfterIdentify(r) ==
  CASE r.kind = "get_user"              -> {AfterGuard(r)}
    [] r.kind \in {"read", "get_group"} -> {AfterGuard(r), "authorize"}
    [] OTHER                            -> {"authorize"}

\* is_active not tested.
Bug_Identify(s) ==
  /\ pc[s] = "identify"
  /\ LET rows == {u \in db.users : u.id = req[s].token.sub}
     IN  \/ /\ rows = {}
            /\ Answer(s, "unauthorized")
            /\ UNCHANGED local
         \/ \E u \in rows, label \in AfterIdentify(req[s]) :
              Remember(s, "name", u.username) /\ Goto(s, label)
  /\ UNCHANGED <<db, tokens>>

\* Of the token only the id is used; the row must exist and be active.
Identify(s) ==
  /\ pc[s] = "identify"
  /\ LET rows == {u \in db.users : u.id = req[s].token.sub /\ u.active}
     IN  \/ /\ rows = {}
            /\ Answer(s, "unauthorized")
            /\ UNCHANGED local
         \/ \E u \in rows, label \in AfterIdentify(req[s]) :
              Remember(s, "name", u.username) /\ Goto(s, label)
  /\ UNCHANGED <<db, tokens>>

\* `current.id == user_id` not tested in users_toggle_admin.
Bug_Allowed(r, admin) ==
  CASE r.kind \in AnyUser     -> TRUE
    [] r.kind \in SelfOrAdmin -> r.token.sub = r.user \/ admin
    [] r.kind \in AdminOnly \cup OthersOnly -> admin

\* The guard at the top of the handler.
Allowed(r, admin) ==
  CASE r.kind \in AnyUser     -> TRUE
    [] r.kind \in SelfOrAdmin -> r.token.sub = r.user \/ admin
    [] r.kind \in AdminOnly   -> admin
    [] r.kind \in OthersOnly  -> r.token.sub # r.user /\ admin

\* add_member wants its path and its body to name the same group.
Mismatched(r) == r.kind = "add_member" /\ r.body # r.group

\* The is_admin claim of the token is taken for the truth.
Bug_Authorize(s) ==
  /\ pc[s] = "authorize"
  /\ LET allowed == Allowed(req[s], req[s].token.is_admin)
     IN  \/ ~allowed /\ Answer(s, "forbidden")
         \/ allowed /\ Mismatched(req[s]) /\ Answer(s, "bad_request")
         \/ allowed /\ ~Mismatched(req[s]) /\ Goto(s, AfterGuard(req[s]))
  /\ UNCHANGED <<db, local, tokens>>

\* is_admin is read once, and the guard follows without an await; what comes
\* after the guard reads and writes the database as it is by then.
Authorize(s) ==
  /\ pc[s] = "authorize"
  /\ LET allowed == Allowed(req[s], IsAdmin(db, req[s].token.sub))
     IN  \/ ~allowed /\ Answer(s, "forbidden")
         \/ allowed /\ Mismatched(req[s]) /\ Answer(s, "bad_request")
         \/ allowed /\ ~Mismatched(req[s]) /\ Goto(s, AfterGuard(req[s]))
  /\ UNCHANGED <<db, local, tokens>>

-----------------------------------------------------------------------------
(* The target *)

LookUpGroup(s) ==
  /\ pc[s] = "group"
  /\ IF req[s].group \in GroupIds(db)
     THEN Goto(s, IF req[s].kind \in LooksUpUser THEN "user" ELSE "act")
     ELSE Answer(s, "not_found")
  /\ UNCHANGED <<db, local, tokens>>

AfterLookup(kind) ==
  CASE kind \in {"toggle_admin", "users_edit_page"} -> "status"
    [] kind = "get_user" -> "badge"
    [] OTHER -> "act"

\* A deactivated user is not found.
Bug_LookUpUser(s) ==
  /\ pc[s] = "user"
  /\ LET rows == {u \in db.users : u.id = req[s].user /\ u.active}
     IN  \/ /\ rows = {}
            /\ Answer(s, "not_found")
            /\ UNCHANGED local
         \/ \E u \in rows : /\ Remember(s, "flag", u.active)
                            /\ Goto(s, AfterLookup(req[s].kind))
  /\ UNCHANGED <<db, tokens>>

LookUpUser(s) ==
  /\ pc[s] = "user"
  /\ LET rows == {u \in db.users : u.id = req[s].user}
     IN  \/ /\ rows = {}
            /\ Answer(s, "not_found")
            /\ UNCHANGED local
         \/ \E u \in rows : /\ Remember(s, "flag", u.active)
                            /\ Goto(s, AfterLookup(req[s].kind))
  /\ UNCHANGED <<db, tokens>>

\* users_toggle_admin and build_user_view take an error for "no administrator".
TargetStatus(s) ==
  /\ pc[s] = "status"
  /\ \E admin \in {IsAdmin(db, req[s].user)} \cup (IF Faults THEN {FALSE} ELSE {}) :
       Remember(s, "flag", admin)
  /\ Goto(s, "act")
  /\ UNCHANGED <<db, tokens>>

-----------------------------------------------------------------------------
(* authenticate: login, login_submit, register_submit, me_password *)

Claimed(s) ==
  IF req[s].kind = "me_password" THEN <<local[s].name, req[s].current>>
  ELSE <<req[s].name, req[s].password>>

Authenticate(s) ==
  /\ pc[s] = "authenticate"
  /\ LET rows == {u \in db.users : u.active /\ <<u.username, u.password>> = Claimed(s)}
     IN  \/ /\ rows = {}
            /\ Answer(s, IF req[s].kind = "register" THEN "ok" ELSE "wrong")
            /\ UNCHANGED local
         \/ \E u \in rows : Remember(s, "found", u.id) /\ Goto(s, "claim")
  /\ UNCHANGED <<db, tokens>>

\* The is_admin claim is read in a statement of its own.  me_password drops
\* the token.
Claim(s) ==
  /\ pc[s] = "claim"
  /\ IF req[s].kind = "me_password"
     THEN Goto(s, "act") /\ UNCHANGED tokens
     ELSE Answer(s, "ok") /\ tokens' = tokens \cup {TokenFor(db, local[s].found)}
  /\ UNCHANGED <<db, local>>

-----------------------------------------------------------------------------
(* The effect *)

Change(s) ==
  LET r == req[s]
  IN  CASE r.kind \in {"update_user", "users_edit"} -> r.change
        [] r.kind = "toggle_active" -> [NoChange EXCEPT !.active = ~local[s].flag]
        [] r.kind = "me_update"     -> [NoChange EXCEPT !.username = r.name]
        [] r.kind \in Passwordings  -> [NoChange EXCEPT !.password = r.password]

Effect(s) ==
  LET r == req[s]
  IN  \/ r.kind \in Creations /\ CreateUser(r.name, r.password)
      \/ r.kind \in UserUpdates /\ UpdateUser(Subject(r), Change(s))
      \/ r.kind = "delete_user" /\ DeleteUser(r.user)
      \/ r.kind = "toggle_admin" /\ ~local[s].flag /\ PromoteUser(r.user)
      \/ r.kind = "toggle_admin" /\ local[s].flag /\ DemoteUser(r.user)
      \/ r.kind = "create_group" /\ CreateGroup(r.name, r.is_admin)
      \/ r.kind \in GroupUpdates /\ UpdateGroup(r.group, r.change)
      \/ r.kind = "delete_group" /\ DeleteGroup(r.group)
      \/ r.kind \in Joins /\ AddUser(r.group, r.user)
      \/ r.kind = "remove_member" /\ RemoveUser(r.group, r.user)
      \/ r.kind \in Reads /\ UNCHANGED db

\* Deletions that find no row answer 404; update reads the row back; register
\* goes on to log the new user in; create_user and update_user read is_admin
\* for their answer.
Act(s) ==
  /\ pc[s] = "act"
  /\ Effect(s)
  /\ CASE req[s].kind \in UserUpdates \cup GroupUpdates -> Goto(s, "reread")
       [] req[s].kind = "register"    -> Goto(s, "authenticate")
       [] req[s].kind = "create_user" -> Goto(s, "badge")
       [] req[s].kind \in {"delete_user", "delete_group", "remove_member"} ->
            Answer(s, IF db' = db THEN "not_found" ELSE "ok")
       [] OTHER -> Answer(s, "ok")
  /\ UNCHANGED <<local, tokens>>

Reread(s) ==
  /\ pc[s] = "reread"
  /\ LET r == req[s]
         there == IF r.kind \in GroupUpdates THEN r.group \in GroupIds(db)
                  ELSE Subject(r) \in UserIds(db)
     IN  CASE r.kind \in Passwordings -> Answer(s, "password_changed")
           [] r.kind = "update_user" /\ there -> Goto(s, "badge")
           [] r.kind \notin Passwordings \cup {"update_user"} /\ there -> Answer(s, "ok")
           [] r.kind \in {"update_user", "update_group", "toggle_active"} /\ ~there ->
                Answer(s, "not_found")
           [] OTHER -> Answer(s, "error")
  /\ UNCHANGED <<db, local, tokens>>

Badge(s) ==
  /\ pc[s] = "badge"
  /\ Answer(s, "ok")
  /\ UNCHANGED <<db, local, tokens>>

-----------------------------------------------------------------------------
(* What goes wrong *)

\* A UNIQUE constraint: answered 409, or on the page.
Taken(s) ==
  LET r == req[s]
  IN  \/ r.kind \in Creations /\ UsernameTaken(db, r.name)
      \/ r.kind \in UserUpdates /\ ~UserUpdatable(db, Subject(r), Change(s))
      \/ r.kind = "create_group" /\ GroupNameTaken(db, r.name)
      \/ r.kind \in GroupUpdates /\ ~GroupUpdatable(db, r.group, r.change)

Conflict(s) ==
  /\ pc[s] = "act"
  /\ Taken(s)
  /\ Answer(s, "conflict")
  /\ UNCHANGED <<db, local, tokens>>

\* Any other reason why the database cannot do it.
Impossible(s) ==
  LET r == req[s]
  IN  \/ r.kind \in Creations
           /\ \/ db.userSeq >= MaxUserId
              \/ db.users = {} /\ NamedAdmin(db) = {} /\ db.groupSeq >= MaxGroupId
      \/ r.kind = "create_group" /\ db.groupSeq >= MaxGroupId
      \/ r.kind \in Joins
           /\ (~Joinable(db, r.user, r.group) \/ <<r.user, r.group>> \in db.members)
      \/ r.kind = "toggle_admin" /\ ~local[s].flag
           /\ \/ ForeignKeys /\ r.user \notin UserIds(db)
              \/ PromotionGroups(db) = {}
                   /\ (GroupNameTaken(db, AdminName) \/ db.groupSeq >= MaxGroupId)

\* Handlers of the API without a twin in the web UI, and the other way round.
ApiOnly == {"create_user", "update_user", "update_group", "add_member", "get_user"}
WebOnly == {"register", "users_create", "me_update", "me_password", "users_edit",
            "reset_password", "toggle_active", "toggle_admin", "group_update",
            "group_add_member", "users_edit_page"}

\* What the client may be told when the call at this label fails.  The web UI
\* takes a failure to find its caller, or to log in, for a wrong session or
\* password.  add_user turns its error into false, the handlers of
\* Passwordings and users_toggle_admin throw it away, three more take it for a
\* missing row or a failed login, and two pages show an empty list instead.
OnError(kind, label) ==
  CASE label \in {"identify", "authorize"} ->
         (IF kind \in WebOnly THEN {} ELSE {"error"})
           \cup (IF kind \in ApiOnly THEN {} ELSE {"unauthorized"})
    [] kind = "login" -> {"error", "wrong"}
    [] kind \in Joins /\ label = "act" -> {"already_member"}
    [] kind = "group_add_member" /\ label \in {"group", "user"} -> {"not_found"}
    [] kind = "toggle_active" /\ label \in {"act", "reread"} -> {"not_found"}
    [] kind \in Passwordings /\ label \in {"act", "reread"} -> {"password_changed"}
    [] kind = "toggle_admin" /\ label = "act" -> {"ok"}
    [] kind = "register" /\ label \in {"authenticate", "claim"} -> {"ok"}
    [] kind = "me_password" /\ label \in {"authenticate", "claim"} -> {"wrong"}
    [] kind \in {"get_group", "users_edit_page"} /\ label = "act" -> {}
    [] OTHER -> {"error"}

Fail(s) ==
  /\ \/ pc[s] = "act" /\ Impossible(s) /\ ~Taken(s)
     \/ Faults /\ pc[s] \notin {"idle", "done", "status"}
  /\ \E r \in OnError(req[s].kind, pc[s]) : Answer(s, r)
  /\ UNCHANGED <<db, local, tokens>>

-----------------------------------------------------------------------------

Handle(s) ==
  \/ Identify(s) \/ Authorize(s)
  \/ LookUpGroup(s) \/ LookUpUser(s) \/ TargetStatus(s)
  \/ Authenticate(s) \/ Claim(s)
  \/ Act(s) \/ Reread(s) \/ Badge(s) \/ Conflict(s) \/ Fail(s)
  \/ Leave(s)

RNext ==
  /\ \E s \in Slot : Handle(s) \/ \E r \in Requests : Arrive(s, r)
  /\ Witness

RSpec == RInit /\ [][RNext]_vars

-----------------------------------------------------------------------------

Labels == {"idle", "identify", "authorize", "group", "user", "status",
           "authenticate", "claim", "act", "reread", "badge", "done"}

Replies == {"none", "ok", "password_changed", "unauthorized", "forbidden", "wrong",
            "bad_request", "not_found", "conflict", "already_member", "error"}

RTypeOK ==
  /\ TypeOK
  /\ pc \in [Slot -> Labels]
  /\ req \in [Slot -> Request \cup {NoRequest}]
  /\ local \in [Slot -> [name: Usernames \cup {Unset}, flag: BOOLEAN, found: Nat]]
  /\ reply \in [Slot -> Replies]
  /\ tokens \in SUBSET Token
  /\ witnessed \in [Slot -> SUBSET FactNames]

\* README, "REST API" and the guards of webui.rs: a step for a caller who has
\* been no administrator at any moment since the request arrived (whatever the
\* token says) leaves the rows, the groups and the memberships of others alone
\* and joins no group, and for one who has not been active it deletes and
\* changes no user at all.  Registering in an empty table is the exception.
Untouched(i) ==
  /\ {u \in db.users : u.id # i} \subseteq db'.users
  /\ {m \in db.members : m[1] # i} \subseteq db'.members
  /\ db'.members \subseteq db.members
  /\ db'.groups = db.groups

AuthorityIsFresh ==
  [][\A s \in Slot :
       pc[s] = "act" /\ pc'[s] # "act" /\ db.users # {} =>
         LET r == req[s]
             i == IF r.kind \in Open THEN 0 ELSE r.token.sub
         IN  /\ "admin" \notin witnessed[s] => Untouched(i)
             /\ "active" \notin witnessed[s] => db.users \subseteq db'.users]_vars

\* users_toggle_admin refuses to change its caller's own status, so that the
\* caller, an administrator, is one who remains.  The guard reads that right
\* before the target is looked up and changed: a toggle leaves an active
\* administrator, unless some other request has taken the caller's right or
\* activity in between.  Two administrators who demote each other at the same
\* moment are such a case, and then no administrator may be left.
ToggleLeavesAnAdmin ==
  [][\A s \in Slot : pc[s] = "act" /\ pc'[s] # "act" /\ req[s].kind = "toggle_admin" =>
       \/ \E u \in db'.users : u.active /\ IsAdmin(db', u.id)
       \/ /\ {"active", "admin"} \subseteq witnessed[s]
          /\ ~ \E u \in db.users : /\ u.id = req[s].token.sub
                                  /\ u.active /\ IsAdmin(db, u.id)]_vars

\* A token outlives its user's row and names it by id alone: once the row is
\* gone, nobody who registers later is taken for the one the token was given
\* to, however often users are deleted and created.
DeletedTokensStayDead ==
  [][\A t \in tokens : t.sub \notin UserIds(db) => t.sub \notin UserIds(db')]_vars

\* A token outlives the rights of its user, a page or an answer does not: who
\* is shown something was an active user at some moment since the request
\* arrived, and an administrator for the page of another user.
ShownToTheEntitled ==
  \A s \in Slot : reply[s] = "ok" /\ req[s].kind \in Reads =>
    /\ "active" \in witnessed[s]
    /\ req[s].kind = "users_edit_page" => "admin" \in witnessed[s]

\* A 404 tells the truth: what the path names was missing at some moment since
\* the request arrived.
NotFoundIsTrue ==
  \A s \in Slot : reply[s] = "not_found" => "absent" \in witnessed[s]

\* The same of "Already a member" (api.rs:362, webui.rs:1328).
AlreadyMemberIsTrue ==
  \A s \in Slot : reply[s] = "already_member" => "member" \in witnessed[s]

\* The page that says the password has been changed (me.html, user_edit.html)
\* tells the truth: at some moment it was the new one.
PasswordChangedIsTrue ==
  \A s \in Slot : reply[s] = "password_changed" => "password" \in witnessed[s]

\* update (user.rs:214, group.rs:177) does not ask whether its UPDATE matched a
\* row and takes the row it reads back for the outcome, and other requests may
\* delete and create rows in between.  Since no id is given out twice, who is
\* told that an edit was made is told the truth, be it undone a moment later,
\* except for an id that had not been given out when the request arrived.
EditedIsTrue ==
  \A s \in Slot : reply[s] = "ok" /\ req[s].kind \in Edits =>
    witnessed[s] \cap {"edited", "unassigned"} # {}
=============================================================================
