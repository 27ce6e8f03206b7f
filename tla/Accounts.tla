----------------------------- MODULE Accounts -----------------------------
(***************************************************************************)
(* Users, roles, sessions and password resets: SetupService and            *)
(* AuthService (backend/internal/application/setup.go, auth.go) behind the *)
(* csrf and requireAny wrappers of backend/internal/api/router.go.         *)
(*                                                                         *)
(* A handler is a sequence of statements; what it read of a session, of    *)
(* roles, of a password hash or of a reset request may be out of date when *)
(* its last transaction runs.  Every statement can also fail, which ends   *)
(* the request there (Abandon).                                            *)
(*                                                                         *)
(* The migrations declare references to users, but the connection string   *)
(* (sqlite.go:27) switches their enforcement on in a way the driver does   *)
(* not read: rows that name a deleted user stay, and can be inserted.      *)
(***************************************************************************)
EXTENDS Integers, FiniteSets

CONSTANTS UserIds, SessionIds, ResetIds,  \* ids that randomID may return
          Requests,                       \* HTTP requests being served
          Passwords,
          RoleSets                        \* role lists an admin gives a user

Roles == {"Admin", "Editor", "Viewer", "Messe"}

ASSUME RequestsAssumption == IsFiniteSet(Requests)
ASSUME RoleSetsAssumption == RoleSets \subseteq (SUBSET Roles) \ {{}}

VARIABLES users,        \* users: id -> password
          grants,       \* user_roles: id -> set of roles
          sessions,     \* id -> [user, pw, live]; pw is the password its holder proved
          resets,       \* password_reset_requests: id -> [user, status]
          spent,        \* ids that were given out
          req           \* what each request is doing
vars == <<users, grants, sessions, resets, spent, req>>

NoUser == "no user"
NoSession == "no session"
NoReset == "no reset"
NoPassword == "no password"

Idle == [op |-> "none", pc |-> "idle", session |-> NoSession, user |-> NoUser,
         pw |-> NoPassword, reset |-> NoReset]

Ops == {"none", "setup", "login", "manage", "password", "forgot", "confirm"}
PCs == {"idle", "session", "roles", "write", "change", "close", "insert"}

RequestStates == [op : Ops, pc : PCs, session : SessionIds \cup {NoSession},
                  user : UserIds \cup {NoUser}, pw : Passwords \cup {NoPassword},
                  reset : ResetIds \cup {NoReset}]

\* The user a request acts for or upon is known from this point on.
KnowsUser(q) == q.op \notin {"none", "setup"} /\ q.pc # "session"

SessionRows == [user : UserIds, pw : Passwords, live : BOOLEAN]
ResetRows == [user : UserIds, status : {"open", "closed", "used"}]

TypeOK ==
    /\ DOMAIN users \subseteq UserIds /\ \A u \in DOMAIN users : users[u] \in Passwords
    /\ grants \in [UserIds -> SUBSET Roles]
    /\ DOMAIN sessions \subseteq SessionIds
    /\ \A s \in DOMAIN sessions : sessions[s] \in SessionRows
    /\ DOMAIN resets \subseteq ResetIds
    /\ \A t \in DOMAIN resets : resets[t] \in ResetRows
    /\ DOMAIN users \cup DOMAIN sessions \cup DOMAIN resets \subseteq spent
    /\ spent \subseteq UserIds \cup SessionIds \cup ResetIds
    /\ req \in [Requests -> RequestStates]
    /\ \A r \in Requests : KnowsUser(req[r]) => req[r].user \in UserIds \cap spent
    /\ \A r \in Requests : req[r].op = "login" => req[r].pw \in Passwords

NoRows == [id \in {} |-> {}]     \* an empty table

Init ==
    /\ users = NoRows
    /\ grants = [u \in UserIds |-> {}]
    /\ sessions = NoRows
    /\ resets = NoRows
    /\ spent = {}
    /\ req = [r \in Requests |-> Idle]

\* A table as a function from ids to rows: insert a row, delete rows.
With(f, id, row) == [x \in DOMAIN f \cup {id} |-> IF x = id THEN row ELSE f[x]]
Without(f, ids) == [x \in DOMAIN f \ ids |-> f[x]]

Finish(r) == req' = [req EXCEPT ![r] = Idle]

\* A statement failed, the input was refused or the client went away.
Abandon(r) ==
    /\ req[r] # Idle
    /\ Finish(r)
    /\ UNCHANGED <<users, grants, sessions, resets, spent>>

LiveSession(s) == s \in DOMAIN sessions /\ sessions[s].live
SessionsOf(u) == {s \in DOMAIN sessions : sessions[s].user = u}

\* UPDATE sessions SET revoked_at=... over some sessions.
Revoked(ids) == [s \in DOMAIN sessions |->
                   [sessions[s] EXCEPT !.live = @ /\ s \notin ids]]

----------------------------------------------------------------------------
(* First setup: SetupRequired, then the transaction that inserts the user. *)

BeginSetup(r) ==
    /\ req[r] = Idle
    /\ DOMAIN users = {}
    /\ req' = [req EXCEPT ![r] = [Idle EXCEPT !.op = "setup", !.pc = "write"]]
    /\ UNCHANGED <<users, grants, sessions, resets, spent>>

CreateAdmin(r, u, pw) ==
    /\ req[r].op = "setup" /\ req[r].pc = "write"
    /\ u \notin spent
    /\ users' = With(users, u, pw)
    /\ grants' = [grants EXCEPT ![u] = {"Admin", "Editor", "Viewer"}]
    /\ spent' = spent \cup {u}
    /\ Finish(r)
    /\ UNCHANGED <<sessions, resets>>

----------------------------------------------------------------------------
(* Login: the password is verified against the hash read first, the        *)
(* session is inserted later.                                              *)

BeginLogin(r, u) ==
    /\ req[r] = Idle
    /\ u \in DOMAIN users
    /\ req' = [req EXCEPT ![r] = [Idle EXCEPT !.op = "login", !.pc = "write",
                                              !.user = u, !.pw = users[u]]]
    /\ UNCHANGED <<users, grants, sessions, resets, spent>>

\* The user may be gone by now.
InsertSession(r, s) ==
    /\ req[r].op = "login" /\ req[r].pc = "write"
    /\ s \notin spent
    /\ sessions' = With(sessions, s, [user |-> req[r].user, pw |-> req[r].pw,
                                      live |-> TRUE])
    /\ spent' = spent \cup {s}
    /\ Finish(r)
    /\ UNCHANGED <<users, grants, resets>>

Logout(s) ==
    /\ LiveSession(s)
    /\ sessions' = Revoked({s})
    /\ UNCHANGED <<users, grants, resets, spent, req>>

\* Twelve hours after the login; from then on no query finds the session.
ExpireSession(s) ==
    /\ LiveSession(s)
    /\ sessions' = Revoked({s})
    /\ UNCHANGED <<users, grants, resets, spent, req>>

----------------------------------------------------------------------------
(* Requests with a session: ValidateCSRF reads the session, requireAny     *)
(* reads it again for the user and then reads the user's roles.            *)

BeginWithSession(r, s, op) ==
    /\ req[r] = Idle
    /\ LiveSession(s)
    /\ req' = [req EXCEPT ![r] = [Idle EXCEPT !.op = op, !.pc = "session",
                                              !.session = s]]
    /\ UNCHANGED <<users, grants, sessions, resets, spent>>

ReadSession(r) ==
    /\ req[r].op \in {"manage", "password"} /\ req[r].pc = "session"
    /\ LiveSession(req[r].session)
    /\ req' = [req EXCEPT ![r].pc = "roles",
                          ![r].user = sessions[req[r].session].user]
    /\ UNCHANGED <<users, grants, sessions, resets, spent>>

\* Accounts are managed by admins; changing one's own password takes the role
\* Viewer, which Editor and Admin include.
RolesSuffice(op, roles) ==
    IF op = "manage" THEN "Admin" \in roles
                     ELSE roles \cap {"Viewer", "Editor", "Admin"} # {}

ReadRoles(r) ==
    /\ req[r].op \in {"manage", "password"} /\ req[r].pc = "roles"
    /\ RolesSuffice(req[r].op, grants[req[r].user])
    /\ req' = [req EXCEPT ![r].pc = "write"]
    /\ UNCHANGED <<users, grants, sessions, resets, spent>>

----------------------------------------------------------------------------
(* User management, one transaction each.                                  *)

Managing(r) == req[r].op = "manage" /\ req[r].pc = "write"

\* COUNT(DISTINCT users.id) of the other admins; a grant without a user does not count.
AnotherAdmin(u) == \E v \in DOMAIN users \ {u} : "Admin" \in grants[v]

CreateUser(r, u, pw, roles) ==
    /\ Managing(r)
    /\ u \notin spent
    /\ users' = With(users, u, pw)
    /\ grants' = [grants EXCEPT ![u] = roles]
    /\ spent' = spent \cup {u}
    /\ Finish(r)
    /\ UNCHANGED <<sessions, resets>>

\* fault: a new password leaves the user's sessions alone
UpdateUserKeepsSessions(r, u, pw, roles) ==
    /\ Managing(r)
    /\ u \in DOMAIN users
    /\ "Admin" \notin roles => AnotherAdmin(u)
    /\ users' = IF pw = NoPassword THEN users ELSE [users EXCEPT ![u] = pw]
    /\ grants' = [grants EXCEPT ![u] = roles]
    /\ Finish(r)
    /\ UNCHANGED <<sessions, resets, spent>>

\* fault: the user is not looked up, so its roles are stored though it is gone
UpdateUserUnseen(r, u, pw, roles) ==
    /\ Managing(r)
    /\ u \in spent
    /\ "Admin" \notin roles => AnotherAdmin(u)
    /\ users' = [v \in DOMAIN users |->
                   IF v = u /\ pw # NoPassword THEN pw ELSE users[v]]
    /\ sessions' = IF pw = NoPassword THEN sessions ELSE Revoked(SessionsOf(u))
    /\ grants' = [grants EXCEPT ![u] = roles]
    /\ Finish(r)
    /\ UNCHANGED <<resets, spent>>

\* An empty password in the form keeps the password and the sessions.
UpdateUser(r, u, pw, roles) ==
    /\ Managing(r)
    /\ u \in DOMAIN users
    /\ "Admin" \notin roles => AnotherAdmin(u)
    /\ IF pw = NoPassword
         THEN UNCHANGED <<users, sessions>>
         ELSE /\ users' = [users EXCEPT ![u] = pw]
              /\ sessions' = Revoked(SessionsOf(u))
    /\ grants' = [grants EXCEPT ![u] = roles]
    /\ Finish(r)
    /\ UNCHANGED <<resets, spent>>

\* fault: the last admin can be deleted
DeleteAnyUser(r, u) ==
    /\ Managing(r)
    /\ u \in DOMAIN users
    /\ users' = Without(users, {u})
    /\ Finish(r)
    /\ UNCHANGED <<grants, sessions, resets, spent>>

\* Only the row of the user goes: its roles, sessions and reset links stay.
DeleteUser(r, u) ==
    /\ Managing(r)
    /\ u \in DOMAIN users
    /\ "Admin" \in grants[u] => AnotherAdmin(u)
    /\ users' = Without(users, {u})
    /\ Finish(r)
    /\ UNCHANGED <<grants, sessions, resets, spent>>

RevokeSession(r, s) ==
    /\ Managing(r)
    /\ LiveSession(s)
    /\ sessions' = Revoked({s})
    /\ Finish(r)
    /\ UNCHANGED <<users, grants, resets, spent>>

----------------------------------------------------------------------------
(* Changing one's own password: the old one is verified outside the        *)
(* transaction that stores the new one.                                    *)

VerifyPassword(r) ==
    /\ req[r].op = "password" /\ req[r].pc = "write"
    /\ req[r].user \in DOMAIN users
    /\ req' = [req EXCEPT ![r].pc = "change"]
    /\ UNCHANGED <<users, grants, sessions, resets, spent>>

\* The UPDATE hits nothing when the user is gone.  The session the request came
\* with stays; its holder has just chosen the new password.
ChangeOwnPassword(r, pw) ==
    LET u == req[r].user
        own == req[r].session
    IN  /\ req[r].op = "password" /\ req[r].pc = "change"
        /\ users' = [v \in DOMAIN users |-> IF v = u THEN pw ELSE users[v]]
        /\ sessions' = [s \in DOMAIN sessions |->
                          IF s = own THEN [sessions[s] EXCEPT !.pw = pw]
                                     ELSE Revoked(SessionsOf(u))[s]]
        /\ Finish(r)
        /\ UNCHANGED <<grants, resets, spent>>

----------------------------------------------------------------------------
(* Password reset by mail.  A request for an unknown address leaves a row  *)
(* without a token, which no later query finds.                            *)

BeginForgot(r, u) ==
    /\ req[r] = Idle
    /\ u \in DOMAIN users
    /\ req' = [req EXCEPT ![r] = [Idle EXCEPT !.op = "forgot", !.pc = "close",
                                              !.user = u]]
    /\ UNCHANGED <<users, grants, sessions, resets, spent>>

\* UPDATE password_reset_requests SET handled_at=... of a user's requests.
Closed(u, t) ==
    [resets[t] EXCEPT !.status =
        IF resets[t].user = u /\ @ = "open" THEN "closed" ELSE @]

ClosePrevious(r) ==
    /\ req[r].op = "forgot" /\ req[r].pc = "close"
    /\ resets' = [t \in DOMAIN resets |-> Closed(req[r].user, t)]
    /\ req' = [req EXCEPT ![r].pc = "insert"]
    /\ UNCHANGED <<users, grants, sessions, spent>>

InsertReset(r, t) ==
    /\ req[r].op = "forgot" /\ req[r].pc = "insert"
    /\ t \notin spent
    /\ resets' = With(resets, t, [user |-> req[r].user, status |-> "open"])
    /\ spent' = spent \cup {t}
    /\ Finish(r)
    /\ UNCHANGED <<users, grants, sessions>>

\* The link is past its expires_at.
ExpireReset(t) ==
    /\ t \in DOMAIN resets /\ resets[t].status = "open"
    /\ resets' = [resets EXCEPT ![t].status = "closed"]
    /\ UNCHANGED <<users, grants, sessions, spent, req>>

\* fault: used_at and handled_at are not looked at
ReadAnyToken(r, t) ==
    /\ req[r] = Idle
    /\ t \in DOMAIN resets
    /\ req' = [req EXCEPT ![r] = [Idle EXCEPT !.op = "confirm", !.pc = "write",
                                              !.reset = t, !.user = resets[t].user]]
    /\ UNCHANGED <<users, grants, sessions, resets, spent>>

ReadToken(r, t) ==
    /\ req[r] = Idle
    /\ t \in DOMAIN resets
    /\ resets[t].status = "open"
    /\ req' = [req EXCEPT ![r] = [Idle EXCEPT !.op = "confirm", !.pc = "write",
                                              !.reset = t, !.user = resets[t].user]]
    /\ UNCHANGED <<users, grants, sessions, resets, spent>>

\* The transaction does not look at the request row again.
ResetPassword(r, pw) ==
    LET u == req[r].user
    IN  /\ req[r].op = "confirm" /\ req[r].pc = "write"
        /\ users' = [v \in DOMAIN users |-> IF v = u THEN pw ELSE users[v]]
        /\ sessions' = Revoked(SessionsOf(u))
        /\ resets' = [t \in DOMAIN resets |->
                        IF t = req[r].reset
                          THEN [resets[t] EXCEPT !.status = "used"]
                          ELSE Closed(u, t)]
        /\ Finish(r)
        /\ UNCHANGED <<grants, spent>>

----------------------------------------------------------------------------
Setup(r) ==
    \/ BeginSetup(r)
    \/ \E u \in UserIds, pw \in Passwords : CreateAdmin(r, u, pw)

Login(r) ==
    \/ \E u \in UserIds : BeginLogin(r, u)
    \/ \E s \in SessionIds : InsertSession(r, s)

Authorize(r) ==
    \/ \E s \in SessionIds, op \in {"manage", "password"} : BeginWithSession(r, s, op)
    \/ ReadSession(r)
    \/ ReadRoles(r)

Manage(r) ==
    \/ \E u \in UserIds, pw \in Passwords, roles \in RoleSets :
          CreateUser(r, u, pw, roles)
    \/ \E u \in UserIds, pw \in Passwords \cup {NoPassword}, roles \in RoleSets :
          UpdateUser(r, u, pw, roles)
    \/ \E u \in UserIds : DeleteUser(r, u)
    \/ \E s \in SessionIds : RevokeSession(r, s)

OwnPassword(r) ==
    \/ VerifyPassword(r)
    \/ \E pw \in Passwords : ChangeOwnPassword(r, pw)

Reset(r) ==
    \/ \E u \in UserIds : BeginForgot(r, u)
    \/ ClosePrevious(r)
    \/ \E t \in ResetIds : InsertReset(r, t)
    \/ \E t \in ResetIds : ReadToken(r, t)
    \/ \E pw \in Passwords : ResetPassword(r, pw)

Next ==
    \/ \E r \in Requests : Setup(r) \/ Login(r) \/ Authorize(r) \/ Manage(r)
                            \/ OwnPassword(r) \/ Reset(r) \/ Abandon(r)
    \/ \E s \in SessionIds : Logout(s) \/ ExpireSession(s)
    \/ \E t \in ResetIds : ExpireReset(t)

Spec == Init /\ [][Next]_vars

----------------------------------------------------------------------------
(* Properties.                                                             *)

\* Once the first user exists there is always a user with the role Admin,
\* whatever users change or delete each other at the same time (auth.go:469, 535).
AdminRemains ==
    spent \cap UserIds # {} => \E u \in DOMAIN users : "Admin" \in grants[u]

Deleted(u) == u \in (UserIds \cap spent) \ DOMAIN users
LoggingIn(u) == {r \in Requests : req[r].op = "login" /\ req[r].user = u}

\* What is left of a deleted user only shrinks: the account does not come back, it
\* is given no role, and it gets no session but those of the logins that had
\* verified its password before it was deleted (auth.go:728).  DeleteUser removes
\* the row of the user only (auth.go:543): forms of other admins, its reset links
\* and its own sessions are still there to act upon it (auth.go:458, 624, 859).
DeletedUsersStayOut ==
    [][\A u \in UserIds : Deleted(u) =>
          /\ Deleted(u)'
          /\ grants'[u] \subseteq grants[u]
          /\ LoggingIn(u)' \subseteq LoggingIn(u)
          /\ \A s \in SessionIds : LiveSession(s)' /\ sessions'[s].user = u =>
                LiveSession(s) \/ LoggingIn(u)' # LoggingIn(u)]_vars

Stale(s) ==
    /\ LiveSession(s)
    /\ sessions[s].user \in DOMAIN users
    /\ sessions[s].pw # users[sessions[s].user]

\* A change of a password leaves no session alive that was opened with the old
\* one: a session with an old password is one that a login still inserted after
\* the change, never one that existed when it happened (auth.go:336, 472, 648, 732).
NoSessionSurvivesPasswordChange ==
    [][\A s \in DOMAIN sessions : ~Stale(s) => ~Stale(s)']_vars

\* A reset link that has set a password sets no other.
UsedLinksSetNothing ==
    \A t \in DOMAIN resets :
       (/\ resets[t].status = "used"
        /\ \E r \in Requests : req[r].op = "confirm" /\ req[r].reset = t)
          => users' = users

----------------------------------------------------------------------------
(* The invariant that carries the proofs of AccountsProofs.                *)

\* Before the first user there is nothing a request could act with.
NothingBeforeSetup ==
    spent \cap UserIds = {} =>
        /\ DOMAIN sessions = {} /\ DOMAIN resets = {}
        /\ \A r \in Requests : req[r].op \in {"none", "setup"}

\* Rows name users that have existed.
RowsNameSpentUsers ==
    /\ \A s \in DOMAIN sessions : sessions[s].user \in spent
    /\ \A t \in DOMAIN resets : resets[t].user \in spent
    /\ \A u \in UserIds \ spent : grants[u] = {}

\* The session a request came with belongs to the user it acts for.
ActsForOwner ==
    \A r \in Requests : req[r].op \in {"manage", "password"} =>
        /\ req[r].session \in spent
        /\ KnowsUser(req[r]) /\ req[r].session \in DOMAIN sessions =>
              sessions[req[r].session].user = req[r].user

IInv ==
    /\ TypeOK
    /\ NothingBeforeSetup
    /\ RowsNameSpentUsers
    /\ AdminRemains
=============================================================================
