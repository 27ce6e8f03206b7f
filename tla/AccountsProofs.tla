-------------------------- MODULE AccountsProofs --------------------------
(* What Accounts keeps true for every number of users, sessions, reset       *)
(* links and requests.                                                       *)
EXTENDS MCAccounts, FiniteSetTheorems, TLAPS

(* The conjuncts of IInv that speak of the requests.                         *)
RequestsOK(rq, sp) ==
  /\ rq \in [Requests -> RequestStates]
  /\ \A r \in Requests : KnowsUser(rq[r]) => rq[r].user \in UserIds \cap sp
  /\ \A r \in Requests : rq[r].op = "login" => rq[r].pw \in Passwords
  /\ sp \cap UserIds = {} => \A r \in Requests : rq[r].op \in {"none", "setup"}

(* ... and those that speak of the tables.                                   *)
TablesOK ==
  /\ DOMAIN users \subseteq UserIds /\ \A u \in DOMAIN users : users[u] \in Passwords
  /\ grants \in [UserIds -> SUBSET Roles]
  /\ DOMAIN sessions \subseteq SessionIds
  /\ \A s \in DOMAIN sessions : sessions[s] \in SessionRows
  /\ DOMAIN resets \subseteq ResetIds
  /\ \A t \in DOMAIN resets : resets[t] \in ResetRows
  /\ DOMAIN users \cup DOMAIN sessions \cup DOMAIN resets \subseteq spent
  /\ spent \subseteq UserIds \cup SessionIds \cup ResetIds
  /\ spent \cap UserIds = {} => DOMAIN sessions = {} /\ DOMAIN resets = {}
  /\ RowsNameSpentUsers
  /\ AdminRemains

LEMMA IInvParts == IInv <=> TablesOK /\ RequestsOK(req, spent)
BY DEF IInv, TypeOK, NothingBeforeSetup, TablesOK, RequestsOK

LEMMA IInvParts2 == IInv' <=> TablesOK' /\ RequestsOK(req', spent')
BY DEF IInv, TypeOK, NothingBeforeSetup, TablesOK, RequestsOK, KnowsUser

LEMMA IdleFits == Idle \in RequestStates /\ Idle.op = "none" /\ ~KnowsUser(Idle)
BY DEF Idle, RequestStates, Ops, PCs, KnowsUser

(* One request moves on, and ids are only ever added to the spent ones.      *)
LEMMA RequestMoves ==
  ASSUME NEW rq, NEW sp, NEW sp2, RequestsOK(rq, sp), sp \subseteq sp2,
         NEW r \in Requests, NEW q \in RequestStates,
         KnowsUser(q) => q.user \in UserIds \cap sp2,
         q.op = "login" => q.pw \in Passwords,
         q.op \in {"none", "setup"} \/ sp \cap UserIds # {}
  PROVE  RequestsOK([rq EXCEPT ![r] = q], sp2)
<1> DEFINE next == [rq EXCEPT ![r] = q]
<1>1. \A s \in Requests : next[s] = IF s = r THEN q ELSE rq[s]
  BY DEF RequestsOK
<1>2. next \in [Requests -> RequestStates]
  BY DEF RequestsOK
<1>3. ASSUME NEW s \in Requests, KnowsUser(next[s]) PROVE next[s].user \in UserIds \cap sp2
  <2>1. CASE s = r
    BY <1>1, <1>3, <2>1
  <2>2. CASE s # r
    BY <1>1, <1>3, <2>2 DEF RequestsOK
  <2> QED
    BY <2>1, <2>2
<1>4. ASSUME sp2 \cap UserIds = {}, NEW s \in Requests
      PROVE  next[s].op \in {"none", "setup"}
  BY <1>1, <1>4 DEF RequestsOK
<1>6. ASSUME NEW s \in Requests, next[s].op = "login" PROVE next[s].pw \in Passwords
  BY <1>1, <1>6 DEF RequestsOK
<1> HIDE DEF next
<1>5. RequestsOK(next, sp2)
  BY <1>2, <1>3, <1>4, <1>6 DEF RequestsOK
<1> QED
  BY <1>5 DEF next

(* A step that only moves a request keeps IInv.                              *)
LEMMA OnlyRequestMoves ==
  ASSUME IInv, NEW r \in Requests, NEW q \in RequestStates,
         KnowsUser(q) => q.user \in UserIds \cap spent,
         q.op = "login" => q.pw \in Passwords,
         q.op \in {"none", "setup"} \/ spent \cap UserIds # {},
         req' = [req EXCEPT ![r] = q],
         UNCHANGED <<users, grants, sessions, resets, spent>>
  PROVE  IInv'
<1>1. RequestsOK(req', spent')
  BY IInvParts, RequestMoves
<1>2. TablesOK'
  BY IInvParts DEF TablesOK, RowsNameSpentUsers, AdminRemains
<1> QED
  BY <1>1, <1>2, IInvParts2

(* A step that ends a request keeps IInv if it keeps the tables in order.    *)
LEMMA Finishes ==
  ASSUME IInv, NEW r \in Requests, Finish(r), spent \subseteq spent', TablesOK'
  PROVE  IInv'
<1>1. RequestsOK(req', spent')
  BY IInvParts, RequestMoves, IdleFits DEF Finish
<1> QED
  BY <1>1, IInvParts2

(* What IInv says of a request that has left setup behind.                   *)
LEMMA Acting ==
  ASSUME IInv, NEW r \in Requests
  PROVE  /\ req[r] \in RequestStates
         /\ KnowsUser(req[r]) => req[r].user \in UserIds \cap spent
         /\ req[r].op = "login" => req[r].pw \in Passwords
         /\ req[r].op \notin {"none", "setup"} => spent \cap UserIds # {}
BY DEF IInv, TypeOK, NothingBeforeSetup

(* So there is an admin whenever a row exists.                               *)
LEMMA Started ==
  ASSUME IInv
  PROVE  /\ DOMAIN users # {} => spent \cap UserIds # {}
         /\ DOMAIN sessions # {} => spent \cap UserIds # {}
         /\ DOMAIN resets # {} => spent \cap UserIds # {}
BY DEF IInv, TypeOK, NothingBeforeSetup, NoRows

----------------------------------------------------------------------------
(* Revoking sessions and closing resets changes no row's owner.              *)
LEMMA RevokedRows ==
  ASSUME IInv, NEW ids
  PROVE  /\ DOMAIN Revoked(ids) = DOMAIN sessions
         /\ \A s \in DOMAIN sessions :
              /\ Revoked(ids)[s] \in SessionRows
              /\ Revoked(ids)[s].user = sessions[s].user
              /\ Revoked(ids)[s].pw = sessions[s].pw
              /\ Revoked(ids)[s].live = (sessions[s].live /\ s \notin ids)
<1>1. \A s \in DOMAIN sessions : sessions[s] \in SessionRows
  BY DEF IInv, TypeOK
<1> QED
  BY <1>1 DEF Revoked, SessionRows

LEMMA ClosedRows ==
  ASSUME IInv, NEW u, NEW t \in DOMAIN resets
  PROVE  Closed(u, t) \in ResetRows /\ Closed(u, t).user = resets[t].user
<1>1. resets[t] \in ResetRows
  BY DEF IInv, TypeOK
<1> QED
  BY <1>1 DEF Closed, ResetRows

(* A step that keeps users, roles, ids and the owners of rows keeps the      *)
(* tables in order.                                                          *)
LEMMA SameOwners ==
  ASSUME IInv, UNCHANGED <<grants, spent>>,
         DOMAIN users' = DOMAIN users, \A u \in DOMAIN users : users'[u] \in Passwords,
         DOMAIN sessions' = DOMAIN sessions, DOMAIN resets' = DOMAIN resets,
         \A s \in DOMAIN sessions : sessions'[s] \in SessionRows
                                    /\ sessions'[s].user = sessions[s].user,
         \A t \in DOMAIN resets : resets'[t] \in ResetRows
                                  /\ resets'[t].user = resets[t].user
  PROVE  TablesOK'
<1>1. TablesOK
  BY IInvParts
<1>2. RowsNameSpentUsers' /\ AdminRemains'
  BY <1>1 DEF TablesOK, RowsNameSpentUsers, AdminRemains
<1> QED
  BY <1>1, <1>2 DEF TablesOK
----------------------------------------------------------------------------
(* A user is inserted, with a role list that contains Admin or next to an    *)
(* admin.                                                                    *)
LEMMA InsertsUser ==
  ASSUME IInv, NEW u \in UserIds \ spent, NEW pw \in Passwords, NEW roles \in SUBSET Roles,
         "Admin" \in roles \/ spent \cap UserIds # {},
         users' = With(users, u, pw), grants' = [grants EXCEPT ![u] = roles],
         spent' = spent \cup {u}, UNCHANGED <<sessions, resets>>
  PROVE  TablesOK'
<1>1. TablesOK
  BY IInvParts
<1>2. u \notin DOMAIN users
  BY <1>1 DEF TablesOK
<1>3. /\ DOMAIN users' = DOMAIN users \cup {u}
      /\ \A v \in DOMAIN users' : users'[v] = IF v = u THEN pw ELSE users[v]
  BY DEF With
<1>4. /\ grants' \in [UserIds -> SUBSET Roles]
      /\ \A v \in UserIds : grants'[v] = IF v = u THEN roles ELSE grants[v]
  BY <1>1 DEF TablesOK
<1>5. RowsNameSpentUsers'
  BY <1>1, <1>4 DEF TablesOK, RowsNameSpentUsers
<1>6. AdminRemains'
  <2>1. CASE "Admin" \in roles
    BY <2>1, <1>3, <1>4 DEF AdminRemains
  <2>2. CASE spent \cap UserIds # {}
    <3>1. PICK v \in DOMAIN users : "Admin" \in grants[v]
      BY <1>1, <2>2 DEF TablesOK, AdminRemains
    <3> QED
      BY <1>1, <1>2, <1>3, <1>4, <3>1 DEF TablesOK, AdminRemains
  <2> QED
    BY <2>1, <2>2
<1>8. spent' \subseteq UserIds \cup SessionIds \cup ResetIds
      /\ DOMAIN users' \cup DOMAIN sessions' \cup DOMAIN resets' \subseteq spent'
  BY <1>1, <1>3 DEF TablesOK
<1>9. DOMAIN users' \subseteq UserIds /\ \A v \in DOMAIN users' : users'[v] \in Passwords
  BY <1>1, <1>3 DEF TablesOK
<1> QED
  BY <1>1, <1>4, <1>5, <1>6, <1>8, <1>9 DEF TablesOK

(* A session or a reset request is inserted for a user that has existed.     *)
LEMMA InsertsRow ==
  ASSUME IInv, NEW u \in UserIds \cap spent,
         UNCHANGED <<users, grants>>,
         \/ \E s \in SessionIds, row \in SessionRows :
               /\ s \notin spent /\ row.user = u
               /\ sessions' = With(sessions, s, row)
               /\ spent' = spent \cup {s} /\ resets' = resets
         \/ \E t \in ResetIds, row \in ResetRows :
               /\ t \notin spent /\ row.user = u
               /\ resets' = With(resets, t, row)
               /\ spent' = spent \cup {t} /\ sessions' = sessions
  PROVE  TablesOK'
<1>1. TablesOK
  BY IInvParts
<1>2. CASE \E s \in SessionIds, row \in SessionRows :
               /\ s \notin spent /\ row.user = u
               /\ sessions' = With(sessions, s, row)
               /\ spent' = spent \cup {s} /\ resets' = resets
  <2>1. PICK s \in SessionIds, row \in SessionRows :
               /\ s \notin spent /\ row.user = u
               /\ sessions' = With(sessions, s, row)
               /\ spent' = spent \cup {s} /\ resets' = resets
    BY <1>2
  <2>2. /\ DOMAIN sessions' = DOMAIN sessions \cup {s}
        /\ \A x \in DOMAIN sessions' : sessions'[x] = IF x = s THEN row ELSE sessions[x]
    BY <2>1 DEF With
  <2>3. RowsNameSpentUsers'
    BY <1>1, <2>1, <2>2 DEF TablesOK, RowsNameSpentUsers
  <2>4. AdminRemains'
    BY <1>1, <2>1 DEF TablesOK, AdminRemains
  <2> QED
    BY <1>1, <2>1, <2>2, <2>3, <2>4 DEF TablesOK
<1>3. CASE \E t \in ResetIds, row \in ResetRows :
               /\ t \notin spent /\ row.user = u
               /\ resets' = With(resets, t, row)
               /\ spent' = spent \cup {t} /\ sessions' = sessions
  <2>1. PICK t \in ResetIds, row \in ResetRows :
               /\ t \notin spent /\ row.user = u
               /\ resets' = With(resets, t, row)
               /\ spent' = spent \cup {t} /\ sessions' = sessions
    BY <1>3
  <2>2. /\ DOMAIN resets' = DOMAIN resets \cup {t}
        /\ \A x \in DOMAIN resets' : resets'[x] = IF x = t THEN row ELSE resets[x]
    BY <2>1 DEF With
  <2>3. RowsNameSpentUsers'
    BY <1>1, <2>1, <2>2 DEF TablesOK, RowsNameSpentUsers
  <2>4. AdminRemains'
    BY <1>1, <2>1 DEF TablesOK, AdminRemains
  <2> QED
    BY <1>1, <2>1, <2>2, <2>3, <2>4 DEF TablesOK
<1> QED
  BY <1>2, <1>3

(* Taking a user's roles away, or the user, leaves another admin.            *)
LEMMA ChangesUser ==
  ASSUME IInv, NEW u \in DOMAIN users, NEW pw \in Passwords \cup {NoPassword},
         NEW roles \in SUBSET Roles, "Admin" \notin roles => AnotherAdmin(u),
         IF pw = NoPassword THEN UNCHANGED <<users, sessions>>
           ELSE /\ users' = [users EXCEPT ![u] = pw]
                /\ sessions' = Revoked(SessionsOf(u)),
         grants' = [grants EXCEPT ![u] = roles], UNCHANGED <<resets, spent>>
  PROVE  TablesOK'
<1>1. TablesOK
  BY IInvParts
<1>2. DOMAIN users' = DOMAIN users /\ \A v \in DOMAIN users : users'[v] \in Passwords
  BY <1>1 DEF TablesOK
<1>3. /\ DOMAIN sessions' = DOMAIN sessions
      /\ \A s \in DOMAIN sessions : sessions'[s] \in SessionRows
                                    /\ sessions'[s].user = sessions[s].user
  BY <1>1, RevokedRows DEF TablesOK
<1>4. /\ grants' \in [UserIds -> SUBSET Roles]
      /\ \A v \in UserIds : grants'[v] = IF v = u THEN roles ELSE grants[v]
  BY <1>1 DEF TablesOK
<1>5. RowsNameSpentUsers'
  BY <1>1, <1>3, <1>4 DEF TablesOK, RowsNameSpentUsers
<1>6. AdminRemains'
  BY <1>1, <1>2, <1>4 DEF TablesOK, AdminRemains, AnotherAdmin
<1>8. spent \cap UserIds # {}
  BY Started
<1> QED
  BY <1>1, <1>2, <1>3, <1>4, <1>5, <1>6, <1>8 DEF TablesOK

LEMMA DeletesUser ==
  ASSUME IInv, NEW u \in DOMAIN users, "Admin" \in grants[u] => AnotherAdmin(u),
         users' = Without(users, {u}), UNCHANGED <<grants, sessions, resets, spent>>
  PROVE  TablesOK'
<1>1. TablesOK
  BY IInvParts
<1>2. DOMAIN users' = DOMAIN users \ {u} /\ \A v \in DOMAIN users' : users'[v] = users[v]
  BY DEF Without
<1>3. RowsNameSpentUsers'
  BY <1>1 DEF TablesOK, RowsNameSpentUsers
<1>4. AdminRemains'
  BY <1>1, <1>2 DEF TablesOK, AdminRemains, AnotherAdmin
<1>5. spent \cap UserIds # {}
  BY Started
<1> QED
  BY <1>1, <1>2, <1>3, <1>4, <1>5 DEF TablesOK
----------------------------------------------------------------------------
(* Every step keeps the inductive invariant.                                 *)
LEMMA SetupKeeps == ASSUME IInv, NEW r \in Requests, Setup(r) PROVE IInv'
<1>1. CASE BeginSetup(r)
  <2> DEFINE q == [Idle EXCEPT !.op = "setup", !.pc = "write"]
  <2>1. q \in RequestStates /\ q.op = "setup" /\ ~KnowsUser(q)
    BY DEF Idle, RequestStates, Ops, PCs, KnowsUser
  <2>2. /\ req' = [req EXCEPT ![r] = q]
        /\ UNCHANGED <<users, grants, sessions, resets, spent>>
    BY <1>1 DEF BeginSetup
  <2> HIDE DEF q
  <2> QED
    BY <2>1, <2>2, OnlyRequestMoves
<1>2. ASSUME NEW u \in UserIds, NEW pw \in Passwords, CreateAdmin(r, u, pw) PROVE IInv'
  <2>1. TablesOK'
    BY <1>2, InsertsUser, "Admin" \in {"Admin", "Editor", "Viewer"},
       {"Admin", "Editor", "Viewer"} \in SUBSET Roles DEF CreateAdmin, Roles
  <2> QED
    BY <1>2, <2>1, Finishes DEF CreateAdmin
<1> QED
  BY <1>1, <1>2 DEF Setup

LEMMA LoginKeeps == ASSUME IInv, NEW r \in Requests, Login(r) PROVE IInv'
<1>1. ASSUME NEW u \in UserIds, BeginLogin(r, u) PROVE IInv'
  <2>1. u \in spent /\ users[u] \in Passwords
    BY <1>1 DEF BeginLogin, IInv, TypeOK
  <2> DEFINE q == [Idle EXCEPT !.op = "login", !.pc = "write", !.user = u, !.pw = users[u]]
  <2>2. q \in RequestStates /\ q.user = u /\ q.pw = users[u]
    BY <2>1 DEF Idle, RequestStates, Ops, PCs
  <2>3. /\ req' = [req EXCEPT ![r] = q]
        /\ UNCHANGED <<users, grants, sessions, resets, spent>>
    BY <1>1 DEF BeginLogin
  <2> HIDE DEF q
  <2> QED
    BY <2>1, <2>2, <2>3, OnlyRequestMoves
<1>2. ASSUME NEW s \in SessionIds, InsertSession(r, s) PROVE IInv'
  <2> DEFINE row == [user |-> req[r].user, pw |-> req[r].pw, live |-> TRUE]
  <2>1. req[r].user \in UserIds \cap spent /\ req[r].pw \in Passwords
    BY <1>2, Acting DEF InsertSession, KnowsUser
  <2>2. row \in SessionRows /\ row.user = req[r].user
    BY <2>1 DEF SessionRows
  <2>3. TablesOK'
    <3>1. /\ s \notin spent /\ sessions' = With(sessions, s, row)
          /\ spent' = spent \cup {s} /\ resets' = resets
          /\ UNCHANGED <<users, grants>>
      BY <1>2 DEF InsertSession
    <3> HIDE DEF row
    <3> QED
      BY <2>1, <2>2, <3>1, InsertsRow
  <2> QED
    BY <1>2, <2>3, Finishes DEF InsertSession
<1> QED
  BY <1>1, <1>2 DEF Login

LEMMA AuthorizeKeeps == ASSUME IInv, NEW r \in Requests, Authorize(r) PROVE IInv'
<1>1. ASSUME NEW s \in SessionIds, NEW op \in {"manage", "password"},
             BeginWithSession(r, s, op)
      PROVE  IInv'
  <2> DEFINE q == [Idle EXCEPT !.op = op, !.pc = "session", !.session = s]
  <2>1. q \in RequestStates /\ ~KnowsUser(q) /\ q.op # "login"
    BY DEF Idle, RequestStates, Ops, PCs, KnowsUser
  <2>2. /\ req' = [req EXCEPT ![r] = q]
        /\ UNCHANGED <<users, grants, sessions, resets, spent>>
    BY <1>1 DEF BeginWithSession
  <2>3. spent \cap UserIds # {}
    BY <1>1, Started DEF BeginWithSession, LiveSession
  <2> HIDE DEF q
  <2> QED
    BY <2>1, <2>2, <2>3, OnlyRequestMoves
<1>2. CASE ReadSession(r)
  <2> DEFINE u == sessions[req[r].session].user
             q == [req[r] EXCEPT !.pc = "roles", !.user = u]
  <2>1. u \in UserIds \cap spent
    BY <1>2 DEF ReadSession, LiveSession, IInv, TypeOK, RowsNameSpentUsers, SessionRows
  <2>2. q \in RequestStates /\ q.user = u /\ q.op = req[r].op /\ q.pw = req[r].pw
    BY <2>1, Acting DEF RequestStates, PCs
  <2>3. /\ req' = [req EXCEPT ![r] = q]
        /\ UNCHANGED <<users, grants, sessions, resets, spent>>
    BY <1>2 DEF ReadSession
  <2>4. q.op = "login" => q.pw \in Passwords
    BY <2>2, Acting
  <2>5. spent \cap UserIds # {}
    BY <2>1
  <2> HIDE DEF q, u
  <2> QED
    BY <2>1, <2>2, <2>3, <2>4, <2>5, OnlyRequestMoves
<1>3. CASE ReadRoles(r)
  <2> DEFINE q == [req[r] EXCEPT !.pc = "write"]
  <2>1. q \in RequestStates /\ q.user = req[r].user /\ q.op = req[r].op /\ q.pw = req[r].pw
    BY Acting DEF RequestStates, PCs
  <2>2. /\ req' = [req EXCEPT ![r] = q] /\ req[r].pc = "roles"
        /\ UNCHANGED <<users, grants, sessions, resets, spent>>
    BY <1>3 DEF ReadRoles
  <2> HIDE DEF q
  <2> QED
    BY <2>1, <2>2, Acting, OnlyRequestMoves DEF KnowsUser
<1> QED
  BY <1>1, <1>2, <1>3 DEF Authorize

LEMMA ManageKeeps == ASSUME IInv, NEW r \in Requests, Manage(r) PROVE IInv'
<1>0. RoleSets \subseteq SUBSET Roles
  BY RoleSetsAssumption
<1>1. ASSUME NEW u \in UserIds, NEW pw \in Passwords, NEW roles \in RoleSets,
             CreateUser(r, u, pw, roles)
      PROVE  IInv'
  <2>1. spent \cap UserIds # {}
    BY <1>1, Acting DEF CreateUser, Managing
  <2>2. TablesOK'
    BY <1>0, <1>1, <2>1, InsertsUser DEF CreateUser
  <2> QED
    BY <1>1, <2>2, Finishes DEF CreateUser
<1>2. ASSUME NEW u \in UserIds, NEW pw \in Passwords \cup {NoPassword},
             NEW roles \in RoleSets, UpdateUser(r, u, pw, roles)
      PROVE  IInv'
  <2>1. TablesOK'
    BY <1>0, <1>2, ChangesUser DEF UpdateUser
  <2> QED
    BY <1>2, <2>1, Finishes DEF UpdateUser
<1>3. ASSUME NEW u \in UserIds, DeleteUser(r, u) PROVE IInv'
  <2>1. TablesOK'
    BY <1>3, DeletesUser DEF DeleteUser
  <2> QED
    BY <1>3, <2>1, Finishes DEF DeleteUser
<1>4. ASSUME NEW s \in SessionIds, RevokeSession(r, s) PROVE IInv'
  <2>1. TablesOK'
    BY <1>4, SameOwners, RevokedRows DEF RevokeSession, LiveSession, IInv, TypeOK
  <2> QED
    BY <1>4, <2>1, Finishes DEF RevokeSession
<1> QED
  BY <1>1, <1>2, <1>3, <1>4 DEF Manage

LEMMA OwnPasswordKeeps == ASSUME IInv, NEW r \in Requests, OwnPassword(r) PROVE IInv'
<1>1. CASE VerifyPassword(r)
  <2> DEFINE q == [req[r] EXCEPT !.pc = "change"]
  <2>1. q \in RequestStates /\ q.user = req[r].user /\ q.op = req[r].op /\ q.pw = req[r].pw
    BY Acting DEF RequestStates, PCs
  <2>2. /\ req' = [req EXCEPT ![r] = q] /\ req[r].pc = "write" /\ req[r].op = "password"
        /\ UNCHANGED <<users, grants, sessions, resets, spent>>
    BY <1>1 DEF VerifyPassword
  <2> HIDE DEF q
  <2> QED
    BY <2>1, <2>2, Acting, OnlyRequestMoves DEF KnowsUser
<1>2. ASSUME NEW pw \in Passwords, ChangeOwnPassword(r, pw) PROVE IInv'
  <2>1. DOMAIN users' = DOMAIN users /\ \A v \in DOMAIN users : users'[v] \in Passwords
    BY <1>2 DEF ChangeOwnPassword, IInv, TypeOK
  <2>2. DOMAIN sessions' = DOMAIN sessions
    BY <1>2 DEF ChangeOwnPassword
  <2>3. ASSUME NEW s \in DOMAIN sessions
        PROVE  sessions'[s] \in SessionRows /\ sessions'[s].user = sessions[s].user
    <3>1. sessions[s] \in SessionRows
      BY DEF IInv, TypeOK
    <3>2. CASE s = req[r].session
      <4>1. sessions'[s] = [sessions[s] EXCEPT !.pw = pw]
        BY <1>2, <3>2 DEF ChangeOwnPassword
      <4> QED
        BY <3>1, <4>1 DEF SessionRows
    <3>3. CASE s # req[r].session
      <4>1. sessions'[s] = Revoked(SessionsOf(req[r].user))[s]
        BY <1>2, <3>3 DEF ChangeOwnPassword
      <4> QED
        BY <4>1, RevokedRows
    <3> QED
      BY <3>2, <3>3
  <2>4. UNCHANGED <<grants, resets, spent>>
    BY <1>2 DEF ChangeOwnPassword
  <2>5. \A t \in DOMAIN resets : resets[t] \in ResetRows
    BY DEF IInv, TypeOK
  <2>6. TablesOK'
    BY <2>1, <2>2, <2>3, <2>4, <2>5, SameOwners
  <2> QED
    BY <1>2, <2>4, <2>6, Finishes DEF ChangeOwnPassword
<1> QED
  BY <1>1, <1>2 DEF OwnPassword

LEMMA ResetKeeps == ASSUME IInv, NEW r \in Requests, Reset(r) PROVE IInv'
<1>1. ASSUME NEW u \in UserIds, BeginForgot(r, u) PROVE IInv'
  <2> DEFINE q == [Idle EXCEPT !.op = "forgot", !.pc = "close", !.user = u]
  <2>1. u \in spent
    BY <1>1 DEF BeginForgot, IInv, TypeOK
  <2>2. q \in RequestStates /\ q.user = u /\ q.op = "forgot"
    BY DEF Idle, RequestStates, Ops, PCs
  <2>3. /\ req' = [req EXCEPT ![r] = q]
        /\ UNCHANGED <<users, grants, sessions, resets, spent>>
    BY <1>1 DEF BeginForgot
  <2> HIDE DEF q
  <2> QED
    BY <2>1, <2>2, <2>3, OnlyRequestMoves
<1>2. CASE ClosePrevious(r)
  <2> DEFINE q == [req[r] EXCEPT !.pc = "insert"]
  <2>1. /\ q \in RequestStates /\ q.user = req[r].user /\ q.op = req[r].op
        /\ q.pw = req[r].pw
    BY Acting DEF RequestStates, PCs
  <2>2. /\ req' = [req EXCEPT ![r] = q] /\ req[r].pc = "close"
        /\ resets' = [t \in DOMAIN resets |-> Closed(req[r].user, t)]
        /\ UNCHANGED <<users, grants, sessions, spent>>
    BY <1>2 DEF ClosePrevious
  <2> HIDE DEF q
  <2>3. RequestsOK(req', spent')
    BY <2>1, <2>2, Acting, IInvParts, RequestMoves DEF KnowsUser
  <2>4. DOMAIN resets' = DOMAIN resets
    BY <2>2
  <2>5. \A t \in DOMAIN resets : resets'[t] \in ResetRows /\ resets'[t].user = resets[t].user
    BY <2>2, ClosedRows
  <2>6. /\ \A u \in DOMAIN users : users'[u] \in Passwords
        /\ \A s \in DOMAIN sessions : sessions[s] \in SessionRows
    BY <2>2 DEF IInv, TypeOK
  <2>7. TablesOK'
    BY <2>2, <2>4, <2>5, <2>6, SameOwners
  <2> QED
    BY <2>3, <2>7, IInvParts2
<1>3. ASSUME NEW t \in ResetIds, InsertReset(r, t) PROVE IInv'
  <2> DEFINE row == [user |-> req[r].user, status |-> "open"]
  <2>1. req[r].user \in UserIds \cap spent
    BY <1>3, Acting DEF InsertReset, KnowsUser
  <2>2. row \in ResetRows /\ row.user = req[r].user
    BY <2>1 DEF ResetRows
  <2>3. TablesOK'
    <3>1. /\ t \notin spent /\ resets' = With(resets, t, row)
          /\ spent' = spent \cup {t} /\ sessions' = sessions
          /\ UNCHANGED <<users, grants>>
      BY <1>3 DEF InsertReset
    <3> HIDE DEF row
    <3> QED
      BY <2>1, <2>2, <3>1, InsertsRow
  <2> QED
    BY <1>3, <2>3, Finishes DEF InsertReset
<1>4. ASSUME NEW t \in ResetIds, ReadToken(r, t) PROVE IInv'
  <2> DEFINE u == resets[t].user
             q == [Idle EXCEPT !.op = "confirm", !.pc = "write", !.reset = t, !.user = u]
  <2>1. u \in UserIds \cap spent
    BY <1>4 DEF ReadToken, IInv, TypeOK, ResetRows, RowsNameSpentUsers
  <2>2. q \in RequestStates /\ q.user = u /\ q.op = "confirm"
    BY <2>1 DEF Idle, RequestStates, Ops, PCs
  <2>3. /\ req' = [req EXCEPT ![r] = q]
        /\ UNCHANGED <<users, grants, sessions, resets, spent>>
    BY <1>4 DEF ReadToken
  <2> HIDE DEF q, u
  <2> QED
    BY <2>1, <2>2, <2>3, OnlyRequestMoves
<1>5. ASSUME NEW pw \in Passwords, ResetPassword(r, pw) PROVE IInv'
  <2>1. DOMAIN users' = DOMAIN users /\ \A v \in DOMAIN users : users'[v] \in Passwords
    BY <1>5 DEF ResetPassword, IInv, TypeOK
  <2>2. DOMAIN sessions' = DOMAIN sessions
        /\ \A s \in DOMAIN sessions : sessions'[s] \in SessionRows
                                      /\ sessions'[s].user = sessions[s].user
    BY <1>5, RevokedRows DEF ResetPassword
  <2>3. DOMAIN resets' = DOMAIN resets
    BY <1>5 DEF ResetPassword
  <2>4. ASSUME NEW t \in DOMAIN resets
        PROVE  resets'[t] \in ResetRows /\ resets'[t].user = resets[t].user
    <3>1. resets[t] \in ResetRows
      BY DEF IInv, TypeOK
    <3>2. CASE t = req[r].reset
      <4>1. resets'[t] = [resets[t] EXCEPT !.status = "used"]
        BY <1>5, <3>2 DEF ResetPassword
      <4> QED
        BY <3>1, <4>1 DEF ResetRows
    <3>3. CASE t # req[r].reset
      <4>1. resets'[t] = Closed(req[r].user, t)
        BY <1>5, <3>3 DEF ResetPassword
      <4> QED
        BY <4>1, ClosedRows
    <3> QED
      BY <3>2, <3>3
  <2>5. UNCHANGED <<grants, spent>>
    BY <1>5 DEF ResetPassword
  <2>6. TablesOK'
    BY <2>1, <2>2, <2>3, <2>4, <2>5, SameOwners
  <2> QED
    BY <1>5, <2>5, <2>6, Finishes DEF ResetPassword
<1> QED
  BY <1>1, <1>2, <1>3, <1>4, <1>5 DEF Reset

(* Steps of no request: a session or a link ends.                            *)
LEMMA EndingKeeps ==
  ASSUME IInv, req' = req,
         \/ \E s \in SessionIds : Logout(s) \/ ExpireSession(s)
         \/ \E t \in ResetIds : ExpireReset(t)
  PROVE  IInv'
<1>1. RequestsOK(req', spent')
  BY IInvParts DEF Logout, ExpireSession, ExpireReset
<1>2. /\ \A u \in DOMAIN users : users[u] \in Passwords
      /\ \A s \in DOMAIN sessions : sessions[s] \in SessionRows
      /\ \A t \in DOMAIN resets : resets[t] \in ResetRows
  BY DEF IInv, TypeOK
<1>3. ASSUME NEW s \in SessionIds, Logout(s) \/ ExpireSession(s) PROVE TablesOK'
  BY <1>2, <1>3, SameOwners, RevokedRows DEF Logout, ExpireSession
<1>4. ASSUME NEW t \in ResetIds, ExpireReset(t) PROVE TablesOK'
  <2>1. \A x \in DOMAIN resets : resets'[x] \in ResetRows /\ resets'[x].user = resets[x].user
    BY <1>2, <1>4 DEF ExpireReset, ResetRows
  <2> QED
    BY <1>2, <1>4, <2>1, SameOwners DEF ExpireReset
<1> QED
  BY <1>1, <1>3, <1>4, IInvParts2

THEOREM Invariant == Spec => []IInv
<1>1. Init => IInv
  BY DEF Init, IInv, TypeOK, NoRows, Idle, RequestStates, Ops, PCs, KnowsUser,
     NothingBeforeSetup, RowsNameSpentUsers, AdminRemains
<1>2. IInv /\ [Next]_vars => IInv'
  <2> SUFFICES ASSUME IInv, [Next]_vars PROVE IInv'
    OBVIOUS
  <2>1. ASSUME NEW r \in Requests, Abandon(r) PROVE IInv'
    BY <2>1, OnlyRequestMoves, IdleFits DEF Abandon, Finish
  <2>2. CASE UNCHANGED vars
    <3>1. TablesOK' <=> TablesOK
      BY <2>2 DEF vars, TablesOK, RowsNameSpentUsers, AdminRemains
    <3> QED
      BY <2>2, <3>1, IInvParts, IInvParts2 DEF vars
  <2>3. ASSUME NEW s \in SessionIds, Logout(s) \/ ExpireSession(s) PROVE IInv'
    BY <2>3, EndingKeeps DEF Logout, ExpireSession
  <2>4. ASSUME NEW t \in ResetIds, ExpireReset(t) PROVE IInv'
    BY <2>4, EndingKeeps DEF ExpireReset
  <2> QED
    BY <2>1, <2>2, <2>3, <2>4, SetupKeeps, LoginKeeps, AuthorizeKeeps, ManageKeeps,
       OwnPasswordKeeps, ResetKeeps DEF Next
<1> QED
  BY <1>1, <1>2, PTL DEF Spec

(* The tables and the requests keep their shape.                             *)
THEOREM TypeCorrect == Spec => []TypeOK
<1>1. IInv => TypeOK
  BY DEF IInv
<1> QED
  BY <1>1, Invariant, PTL

(* After setup an admin remains, whatever admins do to each other.           *)
THEOREM AnAdminRemains == Spec => []AdminRemains
<1>1. IInv => AdminRemains
  BY DEF IInv
<1> QED
  BY <1>1, Invariant, PTL

----------------------------------------------------------------------------
(* No step moves a session to another user, and new sessions have new ids.   *)
LEMMA OwnersKept ==
  ASSUME IInv, [Next]_vars, NEW s \in DOMAIN sessions', s \in spent
  PROVE  s \in DOMAIN sessions /\ sessions'[s].user = sessions[s].user
<1>1. CASE sessions' = sessions
  BY <1>1
<1>2. ASSUME NEW ids, sessions' = Revoked(ids)
      PROVE  s \in DOMAIN sessions /\ sessions'[s].user = sessions[s].user
  BY <1>2, RevokedRows
<1>3. ASSUME NEW r \in Requests, Login(r)
      PROVE  s \in DOMAIN sessions /\ sessions'[s].user = sessions[s].user
  BY <1>1, <1>3 DEF Login, BeginLogin, InsertSession, With
<1>4. ASSUME NEW r \in Requests, Manage(r)
      PROVE  s \in DOMAIN sessions /\ sessions'[s].user = sessions[s].user
  <2>1. ASSUME NEW u \in UserIds, DeleteUser(r, u)
        PROVE  s \in DOMAIN sessions /\ sessions'[s].user = sessions[s].user
    BY <1>1, <2>1 DEF DeleteUser
  <2>2. ASSUME NEW u \in UserIds, NEW pw \in Passwords \cup {NoPassword},
               NEW roles \in RoleSets, UpdateUser(r, u, pw, roles)
        PROVE  s \in DOMAIN sessions /\ sessions'[s].user = sessions[s].user
    BY <1>1, <1>2, <2>2 DEF UpdateUser
  <2>3. ASSUME NEW x \in SessionIds, RevokeSession(r, x)
        PROVE  s \in DOMAIN sessions /\ sessions'[s].user = sessions[s].user
    BY <1>2, <2>3 DEF RevokeSession
  <2> QED
    BY <1>1, <1>4, <2>1, <2>2, <2>3 DEF Manage, CreateUser
<1>5. ASSUME NEW r \in Requests, OwnPassword(r)
      PROVE  s \in DOMAIN sessions /\ sessions'[s].user = sessions[s].user
  <2>1. ASSUME NEW pw \in Passwords, ChangeOwnPassword(r, pw)
        PROVE  s \in DOMAIN sessions /\ sessions'[s].user = sessions[s].user
    <3>1. s \in DOMAIN sessions /\ sessions[s] \in SessionRows
      BY <2>1 DEF ChangeOwnPassword, IInv, TypeOK
    <3>2. CASE s = req[r].session
      <4>1. sessions'[s] = [sessions[s] EXCEPT !.pw = pw]
        BY <2>1, <3>1, <3>2 DEF ChangeOwnPassword
      <4> QED
        BY <3>1, <4>1 DEF SessionRows
    <3>3. CASE s # req[r].session
      <4>1. sessions'[s] = Revoked(SessionsOf(req[r].user))[s]
        BY <2>1, <3>1, <3>3 DEF ChangeOwnPassword
      <4> QED
        BY <3>1, <4>1, RevokedRows
    <3> QED
      BY <3>2, <3>3
  <2> QED
    BY <1>1, <1>5, <2>1 DEF OwnPassword, VerifyPassword
<1>6. ASSUME NEW r \in Requests, Reset(r)
      PROVE  s \in DOMAIN sessions /\ sessions'[s].user = sessions[s].user
  BY <1>1, <1>2, <1>6 DEF Reset, BeginForgot, ClosePrevious, InsertReset, ReadToken,
     ResetPassword
<1>7. ASSUME NEW r \in Requests, Setup(r) \/ Authorize(r) \/ Abandon(r)
      PROVE  s \in DOMAIN sessions /\ sessions'[s].user = sessions[s].user
  BY <1>1, <1>7 DEF Setup, BeginSetup, CreateAdmin, Authorize, BeginWithSession,
     ReadSession, ReadRoles, Abandon
<1>8. ASSUME NEW x \in SessionIds, Logout(x) \/ ExpireSession(x)
      PROVE  s \in DOMAIN sessions /\ sessions'[s].user = sessions[s].user
  BY <1>2, <1>8 DEF Logout, ExpireSession
<1> QED
  BY <1>1, <1>3, <1>4, <1>5, <1>6, <1>7, <1>8 DEF Next, ExpireReset, vars

LEMMA SpentGrows == ASSUME [Next]_vars PROVE spent \subseteq spent'
BY DEF Next, vars, Setup, BeginSetup, CreateAdmin, Login, BeginLogin, InsertSession,
   Authorize, BeginWithSession, ReadSession, ReadRoles, Manage, CreateUser, UpdateUser,
   DeleteUser, RevokeSession, OwnPassword, VerifyPassword, ChangeOwnPassword, Reset,
   BeginForgot, ClosePrevious, InsertReset, ReadToken, ResetPassword, Abandon, Logout,
   ExpireSession, ExpireReset

(* What a step does to a request: nothing, its end, a fresh start, or one    *)
(* read more.                                                                *)
LEMMA NextRequest ==
  ASSUME IInv, [Next]_vars, NEW r \in Requests,
         req'[r].op \in {"manage", "password"}
  PROVE  \/ req'[r] = req[r]
         \/ ~KnowsUser(req'[r]) /\ req'[r].session \in DOMAIN sessions
         \/ /\ req[r].op = req'[r].op /\ req[r].session = req'[r].session
            /\ \/ KnowsUser(req[r]) /\ req'[r].user = req[r].user
               \/ /\ req'[r].session \in DOMAIN sessions
                  /\ req'[r].user = sessions[req'[r].session].user
<1> DEFINE Goal == \/ req'[r] = req[r]
                   \/ ~KnowsUser(req'[r]) /\ req'[r].session \in DOMAIN sessions
                   \/ /\ req[r].op = req'[r].op /\ req[r].session = req'[r].session
                      /\ \/ KnowsUser(req[r]) /\ req'[r].user = req[r].user
                         \/ /\ req'[r].session \in DOMAIN sessions
                            /\ req'[r].user = sessions[req'[r].session].user
<1>0. req \in [Requests -> RequestStates]
  BY DEF IInv, TypeOK
<1>1. ASSUME NEW x \in Requests, NEW q, req' = [req EXCEPT ![x] = q],
             q.op \notin {"manage", "password"}
      PROVE  Goal
  BY <1>0, <1>1
<1>2. ASSUME NEW x \in Requests, Finish(x) PROVE Goal
  BY <1>1, <1>2, IdleFits DEF Finish
<1>3. ASSUME NEW x \in Requests, Setup(x) PROVE Goal
  BY <1>1, <1>2, <1>3 DEF Setup, BeginSetup, CreateAdmin, Idle
<1>4. ASSUME NEW x \in Requests, Login(x) PROVE Goal
  BY <1>1, <1>2, <1>4 DEF Login, BeginLogin, InsertSession, Idle
<1>5. ASSUME NEW x \in Requests, Manage(x) PROVE Goal
  BY <1>2, <1>5 DEF Manage, CreateUser, UpdateUser, DeleteUser, RevokeSession
<1>6. ASSUME NEW x \in Requests, OwnPassword(x) PROVE Goal
  <2>1. CASE VerifyPassword(x)
    BY <1>0, <2>1 DEF VerifyPassword, KnowsUser, RequestStates
  <2> QED
    BY <1>2, <1>6, <2>1 DEF OwnPassword, ChangeOwnPassword
<1>7. ASSUME NEW x \in Requests, Authorize(x) PROVE Goal
  <2>1. ASSUME NEW s \in SessionIds, NEW op \in {"manage", "password"},
               BeginWithSession(x, s, op)
        PROVE  Goal
    BY <1>0, <2>1 DEF BeginWithSession, LiveSession, Idle, KnowsUser
  <2>2. CASE ReadSession(x)
    BY <1>0, <2>2 DEF ReadSession, LiveSession, RequestStates
  <2>3. CASE ReadRoles(x)
    BY <1>0, <2>3 DEF ReadRoles, RequestStates, KnowsUser
  <2> QED
    BY <1>7, <2>1, <2>2, <2>3 DEF Authorize
<1>8. ASSUME NEW x \in Requests, Reset(x) PROVE Goal
  <2>1. CASE ClosePrevious(x)
    BY <1>0, <2>1 DEF ClosePrevious, RequestStates
  <2> QED
    BY <1>1, <1>2, <1>8, <2>1 DEF Reset, BeginForgot, InsertReset, ReadToken,
       ResetPassword, Idle
<1>9. CASE req' = req
  BY <1>9
<1> QED
  BY <1>2, <1>3, <1>4, <1>5, <1>6, <1>7, <1>8, <1>9
  DEF Next, Abandon, Logout, ExpireSession, ExpireReset, vars

(* A request acts for the user of the session it came with.                  *)
LEMMA OwnerInvariant == Spec => []ActsForOwner
<1>1. Init => ActsForOwner
  BY DEF Init, ActsForOwner, Idle
<1>2. IInv /\ ActsForOwner /\ [Next]_vars => ActsForOwner'
  <2> SUFFICES ASSUME IInv, ActsForOwner, [Next]_vars, NEW r \in Requests,
                      req'[r].op \in {"manage", "password"}
               PROVE  /\ req'[r].session \in spent'
                      /\ KnowsUser(req'[r]) /\ req'[r].session \in DOMAIN sessions' =>
                            sessions'[req'[r].session].user = req'[r].user
    BY DEF ActsForOwner, KnowsUser
  <2>1. DOMAIN sessions \subseteq spent
    BY DEF IInv, TypeOK
  <2>2. req'[r].session \in spent
    BY <2>1, NextRequest DEF ActsForOwner
  <2>3. ASSUME KnowsUser(req'[r]), req'[r].session \in DOMAIN sessions'
        PROVE  sessions'[req'[r].session].user = req'[r].user
    <3>1. /\ req'[r].session \in DOMAIN sessions
          /\ sessions'[req'[r].session].user = sessions[req'[r].session].user
      BY <2>2, <2>3, OwnersKept
    <3> QED
      BY <2>3, <3>1, NextRequest DEF ActsForOwner
  <2> QED
    BY <2>2, <2>3, SpentGrows
<1> QED
  BY <1>1, <1>2, Invariant, PTL DEF Spec

(* No session that was up to date is left alive behind a password change.    *)
THEOREM PasswordChangeEndsSessions == Spec => NoSessionSurvivesPasswordChange
<1> DEFINE P == \A s \in DOMAIN sessions : ~Stale(s) => ~Stale(s)'
<1>1. IInv /\ ActsForOwner /\ [Next]_vars => P
  <2> SUFFICES ASSUME IInv, ActsForOwner, [Next]_vars, NEW s \in DOMAIN sessions, ~Stale(s), Stale(s)'
               PROVE  FALSE
    OBVIOUS
  <2>0. /\ s \in spent /\ sessions[s].user \in spent /\ sessions[s] \in SessionRows
        /\ s \in DOMAIN sessions' /\ sessions'[s].live
        /\ sessions'[s].user \in DOMAIN users'
        /\ sessions'[s].pw # users'[sessions'[s].user]
    BY DEF IInv, TypeOK, RowsNameSpentUsers, Stale, LiveSession
  <2>1. ASSUME sessions'[s] = sessions[s],
               \A u \in DOMAIN users' \cap spent : u \in DOMAIN users /\ users'[u] = users[u]
        PROVE  FALSE
    BY <2>0, <2>1 DEF Stale, LiveSession
  <2>2. ASSUME NEW ids, sessions' = Revoked(ids), users' = users PROVE FALSE
    BY <2>0, <2>2, RevokedRows DEF Stale, LiveSession
  <2>3. CASE UNCHANGED <<users, sessions>>
    BY <2>1, <2>3, <2>0
  <2>4. ASSUME NEW r \in Requests, Setup(r) PROVE FALSE
    BY <2>1, <2>3, <2>4 DEF Setup, BeginSetup, CreateAdmin, With
  <2>5. ASSUME NEW r \in Requests, Login(r) PROVE FALSE
    BY <2>0, <2>1, <2>3, <2>5 DEF Login, BeginLogin, InsertSession, With
  <2>6. ASSUME NEW r \in Requests, Manage(r) PROVE FALSE
    <3>1. ASSUME NEW u \in UserIds, NEW pw \in Passwords, NEW roles \in RoleSets,
                 CreateUser(r, u, pw, roles)
          PROVE  FALSE
      BY <2>1, <3>1 DEF CreateUser, With
    <3>2. ASSUME NEW u \in UserIds, NEW pw \in Passwords \cup {NoPassword},
                 NEW roles \in RoleSets, UpdateUser(r, u, pw, roles)
          PROVE  FALSE
      <4>1. CASE pw = NoPassword
        BY <2>3, <3>2, <4>1 DEF UpdateUser
      <4>2. CASE pw # NoPassword
        <5>1. users' = [users EXCEPT ![u] = pw] /\ sessions' = Revoked(SessionsOf(u))
          BY <3>2, <4>2 DEF UpdateUser
        <5>2. sessions'[s].live = (sessions[s].live /\ s \notin SessionsOf(u))
              /\ sessions'[s].user = sessions[s].user /\ sessions'[s].pw = sessions[s].pw
          BY <5>1, RevokedRows
        <5>3. sessions[s].user # u
          BY <2>0, <5>2 DEF SessionsOf
        <5> QED
          BY <2>0, <5>1, <5>2, <5>3 DEF Stale, LiveSession
      <4> QED
        BY <4>1, <4>2
    <3>3. ASSUME NEW u \in UserIds, DeleteUser(r, u) PROVE FALSE
      <4>1. sessions'[s] = sessions[s]
        BY <2>0, <3>3 DEF DeleteUser, Without
      <4> QED
        BY <2>1, <3>3, <4>1 DEF DeleteUser, Without
    <3>4. ASSUME NEW x \in SessionIds, RevokeSession(r, x) PROVE FALSE
      BY <2>2, <3>4 DEF RevokeSession
    <3> QED
      BY <2>6, <3>1, <3>2, <3>3, <3>4 DEF Manage
  <2>7. ASSUME NEW r \in Requests, OwnPassword(r) PROVE FALSE
    <3>1. ASSUME NEW pw \in Passwords, ChangeOwnPassword(r, pw) PROVE FALSE
      <4> DEFINE u == req[r].user
      <4>1. CASE s = req[r].session
        <5>1. sessions'[s] = [sessions[s] EXCEPT !.pw = pw]
          BY <3>1, <4>1 DEF ChangeOwnPassword
        <5>2. sessions'[s].pw = pw /\ sessions'[s].user = sessions[s].user
          BY <2>0, <5>1 DEF SessionRows
        <5>3. sessions[s].user = u
          BY <2>0, <3>1, <4>1 DEF ChangeOwnPassword, ActsForOwner, KnowsUser
        <5> QED
          BY <2>0, <3>1, <5>2, <5>3 DEF ChangeOwnPassword
      <4>2. CASE s # req[r].session
        <5>1. sessions'[s] = Revoked(SessionsOf(u))[s]
          BY <2>0, <3>1, <4>2 DEF ChangeOwnPassword
        <5>2. sessions'[s].live = (sessions[s].live /\ s \notin SessionsOf(u))
              /\ sessions'[s].user = sessions[s].user /\ sessions'[s].pw = sessions[s].pw
          BY <5>1, RevokedRows
        <5>3. sessions[s].user # u
          BY <2>0, <5>2 DEF SessionsOf
        <5>4. sessions[s].user \in DOMAIN users
              /\ users'[sessions[s].user] = users[sessions[s].user]
          BY <2>0, <3>1, <5>2, <5>3 DEF ChangeOwnPassword
        <5> QED
          BY <2>0, <5>2, <5>4 DEF Stale, LiveSession
      <4> QED
        BY <4>1, <4>2
    <3> QED
      BY <2>3, <2>7, <3>1 DEF OwnPassword, VerifyPassword
  <2>8. ASSUME NEW r \in Requests, Reset(r) PROVE FALSE
    <3>1. ASSUME NEW pw \in Passwords, ResetPassword(r, pw) PROVE FALSE
      <4> DEFINE u == req[r].user
      <4>1. sessions'[s].live = (sessions[s].live /\ s \notin SessionsOf(u))
            /\ sessions'[s].user = sessions[s].user /\ sessions'[s].pw = sessions[s].pw
        BY <3>1, RevokedRows DEF ResetPassword
      <4>2. sessions[s].user # u
        BY <2>0, <4>1 DEF SessionsOf
      <4>3. sessions[s].user \in DOMAIN users
            /\ users'[sessions[s].user] = users[sessions[s].user]
        BY <2>0, <3>1, <4>1, <4>2 DEF ResetPassword
      <4> QED
        BY <2>0, <4>1, <4>3 DEF Stale, LiveSession
    <3> QED
      BY <2>3, <2>8, <3>1 DEF Reset, BeginForgot, ClosePrevious, InsertReset, ReadToken
  <2>9. ASSUME NEW x \in SessionIds, Logout(x) \/ ExpireSession(x) PROVE FALSE
    BY <2>2, <2>9 DEF Logout, ExpireSession
  <2> QED
    BY <2>3, <2>4, <2>5, <2>6, <2>7, <2>8, <2>9 DEF Next, Authorize, BeginWithSession,
       ReadSession, ReadRoles, Abandon, ExpireReset, vars
<1>2. Spec => [][P]_vars
  BY <1>1, Invariant, OwnerInvariant, PTL DEF Spec
<1> QED
  BY <1>2 DEF NoSessionSurvivesPasswordChange

----------------------------------------------------------------------------
(* Deleted users.                                                            *)

(* A session is live in the next state because it was, or because a login    *)
(* for its user has just ended with it.                                      *)
LEMMA LiveBefore ==
  ASSUME IInv, [Next]_vars, NEW s \in SessionIds, LiveSession(s)'
  PROVE  \/ LiveSession(s)
         \/ \E r \in Requests : /\ req[r].op = "login" /\ Finish(r)
                                /\ req[r].user = sessions'[s].user
<1> DEFINE Goal == \/ LiveSession(s)
                   \/ \E r \in Requests : /\ req[r].op = "login" /\ Finish(r)
                                          /\ req[r].user = sessions'[s].user
<1>0. s \in DOMAIN sessions' /\ sessions'[s].live
  BY DEF LiveSession
<1>1. CASE sessions' = sessions
  BY <1>0, <1>1 DEF LiveSession
<1>2. ASSUME NEW ids, sessions' = Revoked(ids) PROVE Goal
  BY <1>0, <1>2, RevokedRows DEF LiveSession
<1>3. ASSUME NEW r \in Requests, Login(r) PROVE Goal
  <2>1. ASSUME NEW x \in SessionIds, InsertSession(r, x) PROVE Goal
    <3>1. CASE s = x
      BY <2>1, <3>1 DEF InsertSession, With
    <3>2. CASE s # x
      BY <1>0, <2>1, <3>2 DEF InsertSession, With, LiveSession
    <3> QED
      BY <3>1, <3>2
  <2> QED
    BY <1>1, <1>3, <2>1 DEF Login, BeginLogin
<1>4. ASSUME NEW r \in Requests, Manage(r) PROVE Goal
  BY <1>1, <1>2, <1>4 DEF Manage, CreateUser, UpdateUser, DeleteUser, RevokeSession
<1>5. ASSUME NEW r \in Requests, OwnPassword(r) PROVE Goal
  <2>1. ASSUME NEW pw \in Passwords, ChangeOwnPassword(r, pw) PROVE Goal
    <3>1. s \in DOMAIN sessions /\ sessions[s] \in SessionRows
      BY <1>0, <2>1 DEF ChangeOwnPassword, IInv, TypeOK
    <3>2. CASE s = req[r].session
      <4>1. sessions'[s] = [sessions[s] EXCEPT !.pw = pw]
        BY <2>1, <3>1, <3>2 DEF ChangeOwnPassword
      <4> QED
        BY <1>0, <3>1, <4>1 DEF SessionRows, LiveSession
    <3>3. CASE s # req[r].session
      <4>1. sessions'[s] = Revoked(SessionsOf(req[r].user))[s]
        BY <2>1, <3>1, <3>3 DEF ChangeOwnPassword
      <4> QED
        BY <1>0, <3>1, <4>1, RevokedRows DEF LiveSession
    <3> QED
      BY <3>2, <3>3
  <2> QED
    BY <1>1, <1>5, <2>1 DEF OwnPassword, VerifyPassword
<1>6. ASSUME NEW r \in Requests, Reset(r) PROVE Goal
  BY <1>1, <1>2, <1>6 DEF Reset, BeginForgot, ClosePrevious, InsertReset, ReadToken,
     ResetPassword
<1>7. ASSUME NEW x \in SessionIds, Logout(x) \/ ExpireSession(x) PROVE Goal
  BY <1>2, <1>7 DEF Logout, ExpireSession
<1> QED
  BY <1>1, <1>3, <1>4, <1>5, <1>6, <1>7 DEF Next, Setup, BeginSetup, CreateAdmin,
     Authorize, BeginWithSession, ReadSession, ReadRoles, Abandon, ExpireReset, vars

(* A login is for a user that exists when it begins.                         *)
LEMMA LoginsBefore ==
  ASSUME IInv, [Next]_vars, NEW r \in Requests, req'[r].op = "login",
         req'[r].user \notin DOMAIN users
  PROVE  req'[r] = req[r]
<1> DEFINE Goal == req'[r] = req[r]
<1>0. req \in [Requests -> RequestStates]
  BY DEF IInv, TypeOK
<1>2. ASSUME NEW x \in Requests, Finish(x) PROVE Goal
  BY <1>0, <1>2, IdleFits DEF Finish
<1>3. ASSUME NEW x \in Requests, Setup(x) PROVE Goal
  <2>1. CASE BeginSetup(x)
    BY <1>0, <2>1 DEF BeginSetup, Idle
  <2> QED
    BY <1>2, <1>3, <2>1 DEF Setup, CreateAdmin
<1>4. ASSUME NEW x \in Requests, Login(x) PROVE Goal
  <2>1. ASSUME NEW u \in UserIds, BeginLogin(x, u) PROVE Goal
    <3> DEFINE q == [Idle EXCEPT !.op = "login", !.pc = "write", !.user = u, !.pw = users[u]]
    <3>1. q.user = u
      BY DEF Idle
    <3>2. req' = [req EXCEPT ![x] = q] /\ u \in DOMAIN users
      BY <2>1 DEF BeginLogin
    <3> HIDE DEF q
    <3> QED
      BY <1>0, <3>1, <3>2
  <2> QED
    BY <1>2, <1>4, <2>1 DEF Login, InsertSession
<1>5. ASSUME NEW x \in Requests, Manage(x) PROVE Goal
  BY <1>2, <1>5 DEF Manage, CreateUser, UpdateUser, DeleteUser, RevokeSession
<1>6. ASSUME NEW x \in Requests, OwnPassword(x) PROVE Goal
  <2>1. CASE VerifyPassword(x)
    BY <1>0, <2>1 DEF VerifyPassword, RequestStates
  <2> QED
    BY <1>2, <1>6, <2>1 DEF OwnPassword, ChangeOwnPassword
<1>7. ASSUME NEW x \in Requests, Authorize(x) PROVE Goal
  <2>1. ASSUME NEW s \in SessionIds, NEW op \in {"manage", "password"},
               BeginWithSession(x, s, op)
        PROVE  Goal
    BY <1>0, <2>1 DEF BeginWithSession, Idle
  <2>2. CASE ReadSession(x)
    BY <1>0, <2>2 DEF ReadSession, RequestStates
  <2>3. CASE ReadRoles(x)
    BY <1>0, <2>3 DEF ReadRoles, RequestStates
  <2> QED
    BY <1>7, <2>1, <2>2, <2>3 DEF Authorize
<1>8. ASSUME NEW x \in Requests, Reset(x) PROVE Goal
  <2>1. CASE ClosePrevious(x)
    BY <1>0, <2>1 DEF ClosePrevious, RequestStates
  <2>2. ASSUME NEW u \in UserIds, BeginForgot(x, u) PROVE Goal
    BY <1>0, <2>2 DEF BeginForgot, Idle
  <2>3. ASSUME NEW k \in ResetIds, ReadToken(x, k) PROVE Goal
    BY <1>0, <2>3 DEF ReadToken, Idle
  <2> QED
    BY <1>2, <1>8, <2>1, <2>2, <2>3 DEF Reset, InsertReset, ResetPassword
<1>9. CASE req' = req
  BY <1>9
<1> QED
  BY <1>2, <1>3, <1>4, <1>5, <1>6, <1>7, <1>8, <1>9
  DEF Next, Abandon, Logout, ExpireSession, ExpireReset, vars

(* No step creates a user under an id that was given out, or gives roles to  *)
(* an id that is no user's.                                                  *)
LEMMA UsersBefore ==
  ASSUME IInv, [Next]_vars, NEW u \in UserIds \cap spent, u \notin DOMAIN users
  PROVE  u \notin DOMAIN users' /\ grants'[u] = grants[u]
<1> DEFINE Goal == u \notin DOMAIN users' /\ grants'[u] = grants[u]
<1>0. grants \in [UserIds -> SUBSET Roles]
  BY DEF IInv, TypeOK
<1>1. ASSUME NEW r \in Requests, Setup(r) PROVE Goal
  BY <1>0, <1>1 DEF Setup, BeginSetup, CreateAdmin, With
<1>2. ASSUME NEW r \in Requests, Manage(r) PROVE Goal
  <2>1. ASSUME NEW v \in UserIds, NEW pw \in Passwords, NEW roles \in RoleSets,
               CreateUser(r, v, pw, roles)
        PROVE  Goal
    BY <1>0, <2>1 DEF CreateUser, With
  <2>2. ASSUME NEW v \in UserIds, NEW pw \in Passwords \cup {NoPassword},
               NEW roles \in RoleSets, UpdateUser(r, v, pw, roles)
        PROVE  Goal
    BY <1>0, <2>2 DEF UpdateUser
  <2> QED
    BY <1>2, <2>1, <2>2 DEF Manage, DeleteUser, Without, RevokeSession
<1>3. ASSUME NEW r \in Requests, OwnPassword(r) \/ Reset(r) PROVE Goal
  BY <1>3 DEF OwnPassword, VerifyPassword, ChangeOwnPassword, Reset, BeginForgot,
     ClosePrevious, InsertReset, ReadToken, ResetPassword
<1> QED
  BY <1>1, <1>2, <1>3 DEF Next, Login, BeginLogin, InsertSession, Authorize,
     BeginWithSession, ReadSession, ReadRoles, Abandon, Logout, ExpireSession,
     ExpireReset, vars

(* A deleted user does not come back, is given no role, and gets no session  *)
(* but by the logins that were under way (auth.go:543, 728).                 *)
THEOREM DeletedUsersGetNothing == Spec => DeletedUsersStayOut
<1> DEFINE P(u) == /\ Deleted(u)'
                   /\ grants'[u] \subseteq grants[u]
                   /\ LoggingIn(u)' \subseteq LoggingIn(u)
                   /\ \A s \in SessionIds : LiveSession(s)' /\ sessions'[s].user = u =>
                        LiveSession(s) \/ LoggingIn(u)' # LoggingIn(u)
<1>1. IInv /\ [Next]_vars => \A u \in UserIds : Deleted(u) => P(u)
  <2> SUFFICES ASSUME IInv, [Next]_vars, NEW u \in UserIds, Deleted(u) PROVE P(u)
    OBVIOUS
  <2>1. u \in UserIds \cap spent /\ u \notin DOMAIN users
    BY DEF Deleted
  <2>2. Deleted(u)' /\ grants'[u] \subseteq grants[u]
    BY <2>1, UsersBefore, SpentGrows DEF Deleted
  <2>3. LoggingIn(u)' \subseteq LoggingIn(u)
    BY <2>1, LoginsBefore DEF LoggingIn
  <2>4. ASSUME NEW s \in SessionIds, LiveSession(s)', sessions'[s].user = u, ~LiveSession(s)
        PROVE  LoggingIn(u)' # LoggingIn(u)
    <3>1. PICK r \in Requests : req[r].op = "login" /\ Finish(r) /\ req[r].user = u
      BY <2>4, LiveBefore
    <3>2. req'[r] = Idle
      BY <3>1 DEF Finish, IInv, TypeOK
    <3> QED
      BY <3>1, <3>2, IdleFits DEF LoggingIn
  <2> QED
    BY <2>2, <2>3, <2>4
<1>2. Spec => [][\A u \in UserIds : Deleted(u) => P(u)]_vars
  BY <1>1, Invariant, PTL DEF Spec
<1> QED
  BY <1>2 DEF DeletedUsersStayOut

----------------------------------------------------------------------------
(* Reset links, as long as requests come one at a time.                      *)

(* A request that is about to set a password with a reset link has found a   *)
(* link that has set none.                                                   *)
LinksUnused ==
  \A r \in Requests :
     req[r].op = "confirm" /\ req[r].reset \in DOMAIN resets =>
        resets[req[r].reset].status # "used"

OneAtATime ==
  \A r, s \in Requests : req[r] # Idle /\ req[s] # Idle => r = s

InTurn == overlapped \in BOOLEAN /\ (~overlapped => OneAtATime /\ LinksUnused)

(* Of finitely many requests, no two are under way.                          *)
LEMMA AtMostOne ==
  ASSUME NEW S, S \subseteq Requests, ~(Cardinality(S) > 1), NEW r \in S, NEW s \in S
  PROVE  r = s
<1>1. IsFiniteSet(S)
  BY RequestsAssumption, FS_Subset
<1>2. Cardinality(S) \in Nat /\ Cardinality(S) # 0
  BY <1>1, FS_CardinalityType, FS_EmptySet
<1>3. Cardinality(S) = 1
  BY <1>2
<1>4. PICK x : S = {x}
  BY <1>1, <1>3, FS_Singleton
<1> QED
  BY <1>4

LEMMA StaysInTurn ==
  ASSUME MCNext, InTurn, ~overlapped'
  PROVE  ~overlapped /\ OneAtATime /\ OneAtATime' /\ LinksUnused
<1>1. ~overlapped /\ ~(Cardinality(Busy') > 1)
  BY DEF MCNext, InTurn
<1>2. ASSUME NEW r \in Requests, NEW s \in Requests, req'[r] # Idle, req'[s] # Idle
      PROVE  r = s
  <2>1. Busy' \subseteq Requests /\ r \in Busy' /\ s \in Busy'
    BY <1>2 DEF Busy
  <2> HIDE DEF Busy
  <2> QED
    BY <1>1, <2>1, AtMostOne
<1> QED
  BY <1>1, <1>2 DEF InTurn, OneAtATime

(* A link becomes used by the one transaction that sets a password with it.  *)
LEMMA LinkUses ==
  ASSUME IInv, [Next]_vars, NEW t \in DOMAIN resets', resets'[t].status = "used"
  PROVE  \/ t \in DOMAIN resets /\ resets[t].status = "used"
         \/ \E r \in Requests : req[r].op = "confirm" /\ req[r].reset = t /\ Finish(r)
<1> DEFINE Goal == \/ t \in DOMAIN resets /\ resets[t].status = "used"
                   \/ \E r \in Requests : req[r].op = "confirm" /\ req[r].reset = t /\ Finish(r)
<1>0. \A x \in DOMAIN resets : resets[x] \in ResetRows
  BY DEF IInv, TypeOK
<1>1. CASE resets' = resets
  BY <1>1
<1>2. ASSUME NEW u, NEW x \in DOMAIN resets, Closed(u, x).status = "used"
      PROVE  resets[x].status = "used"
  BY <1>0, <1>2 DEF Closed, ResetRows
<1>3. ASSUME NEW r \in Requests, Manage(r) PROVE Goal
  BY <1>1, <1>3 DEF Manage, CreateUser, UpdateUser, DeleteUser, RevokeSession
<1>4. ASSUME NEW r \in Requests, Reset(r) PROVE Goal
  <2>1. CASE ClosePrevious(r)
    BY <1>2, <2>1 DEF ClosePrevious
  <2>2. ASSUME NEW x \in ResetIds, InsertReset(r, x) PROVE Goal
    BY <2>2 DEF InsertReset, With
  <2>3. ASSUME NEW pw \in Passwords, ResetPassword(r, pw) PROVE Goal
    <3>1. CASE t = req[r].reset
      BY <2>3, <3>1 DEF ResetPassword
    <3>2. CASE t # req[r].reset
      BY <1>2, <2>3, <3>2 DEF ResetPassword
    <3> QED
      BY <3>1, <3>2
  <2> QED
    BY <1>1, <1>4, <2>1, <2>2, <2>3 DEF Reset, BeginForgot, ReadToken
<1>5. ASSUME NEW x \in ResetIds, ExpireReset(x) PROVE Goal
  BY <1>0, <1>5 DEF ExpireReset, ResetRows
<1> QED
  BY <1>1, <1>3, <1>4, <1>5 DEF Next, Setup, BeginSetup, CreateAdmin, Login, BeginLogin,
     InsertSession, Authorize, BeginWithSession, ReadSession, ReadRoles, OwnPassword,
     VerifyPassword, ChangeOwnPassword, Abandon, Logout, ExpireSession, vars

(* A request comes to set a password with a link by finding the link open.   *)
LEMMA LinkFound ==
  ASSUME IInv, [Next]_vars, NEW r \in Requests, req'[r].op = "confirm"
  PROVE  \/ req[r].op = "confirm" /\ req'[r].reset = req[r].reset
         \/ resets' = resets /\ resets[req'[r].reset].status = "open"
<1> DEFINE Goal == \/ req[r].op = "confirm" /\ req'[r].reset = req[r].reset
                   \/ resets' = resets /\ resets[req'[r].reset].status = "open"
<1>0. req \in [Requests -> RequestStates]
  BY DEF IInv, TypeOK
<1>1. ASSUME NEW x \in Requests, Finish(x) PROVE Goal
  BY <1>0, <1>1, IdleFits DEF Finish
<1>2. ASSUME NEW x \in Requests, Setup(x) PROVE Goal
  <2>1. CASE BeginSetup(x)
    BY <1>0, <2>1 DEF BeginSetup, Idle
  <2> QED
    BY <1>1, <1>2, <2>1 DEF Setup, CreateAdmin
<1>3. ASSUME NEW x \in Requests, Login(x) PROVE Goal
  <2>1. ASSUME NEW u \in UserIds, BeginLogin(x, u) PROVE Goal
    BY <1>0, <2>1 DEF BeginLogin, Idle
  <2> QED
    BY <1>1, <1>3, <2>1 DEF Login, InsertSession
<1>4. ASSUME NEW x \in Requests, Manage(x) PROVE Goal
  BY <1>1, <1>4 DEF Manage, CreateUser, UpdateUser, DeleteUser, RevokeSession
<1>5. ASSUME NEW x \in Requests, OwnPassword(x) PROVE Goal
  <2>1. CASE VerifyPassword(x)
    BY <1>0, <2>1 DEF VerifyPassword, RequestStates
  <2> QED
    BY <1>1, <1>5, <2>1 DEF OwnPassword, ChangeOwnPassword
<1>6. ASSUME NEW x \in Requests, Authorize(x) PROVE Goal
  <2>1. ASSUME NEW s \in SessionIds, NEW op \in {"manage", "password"},
               BeginWithSession(x, s, op)
        PROVE  Goal
    BY <1>0, <2>1 DEF BeginWithSession, Idle
  <2>2. CASE ReadSession(x)
    BY <1>0, <2>2 DEF ReadSession, RequestStates
  <2>3. CASE ReadRoles(x)
    BY <1>0, <2>3 DEF ReadRoles, RequestStates
  <2> QED
    BY <1>6, <2>1, <2>2, <2>3 DEF Authorize
<1>7. ASSUME NEW x \in Requests, Reset(x) PROVE Goal
  <2>1. CASE ClosePrevious(x)
    BY <1>0, <2>1 DEF ClosePrevious, RequestStates
  <2>2. ASSUME NEW t \in ResetIds, ReadToken(x, t) PROVE Goal
    <3> DEFINE q == [Idle EXCEPT !.op = "confirm", !.pc = "write", !.reset = t,
                                 !.user = resets[t].user]
    <3>1. q.reset = t
      BY DEF Idle
    <3>2. /\ req' = [req EXCEPT ![x] = q]
          /\ resets' = resets /\ resets[t].status = "open"
      BY <2>2 DEF ReadToken
    <3> HIDE DEF q
    <3> QED
      BY <1>0, <3>1, <3>2
  <2>3. ASSUME NEW u \in UserIds, BeginForgot(x, u) PROVE Goal
    BY <1>0, <2>3 DEF BeginForgot, Idle
  <2> QED
    BY <1>1, <1>7, <2>1, <2>2, <2>3 DEF Reset, InsertReset, ResetPassword
<1>8. CASE req' = req
  BY <1>8
<1> QED
  BY <1>1, <1>2, <1>3, <1>4, <1>5, <1>6, <1>7, <1>8
  DEF Next, Abandon, Logout, ExpireSession, ExpireReset, vars

LEMMA InTurnStep ==
  IInv /\ InTurn /\ [MCNext]_<<vars, overlapped>>
    => InTurn' /\ [~overlapped' => UsedLinksSetNothing]_vars
<1> SUFFICES ASSUME IInv, InTurn, [MCNext]_<<vars, overlapped>>
             PROVE  InTurn' /\ [~overlapped' => UsedLinksSetNothing]_vars
  OBVIOUS
<1>1. CASE UNCHANGED <<vars, overlapped>>
  BY <1>1 DEF vars, InTurn, OneAtATime, LinksUnused
<1>2. CASE MCNext
  <2>1. overlapped' \in BOOLEAN
    BY <1>2 DEF MCNext
  <2>2. ASSUME ~overlapped' PROVE OneAtATime' /\ LinksUnused' /\ UsedLinksSetNothing
    <3>1. OneAtATime /\ OneAtATime' /\ LinksUnused
      BY <1>2, <2>2, StaysInTurn
    <3>2. [Next]_vars
      BY <1>2 DEF MCNext
    <3>3. UsedLinksSetNothing
      BY <3>1 DEF UsedLinksSetNothing, LinksUnused
    <3>4. ASSUME NEW r \in Requests, req'[r].op = "confirm", req'[r].reset \in DOMAIN resets',
                 resets'[req'[r].reset].status = "used"
          PROVE  FALSE
      <4>1. req[r].op = "confirm" /\ req'[r].reset = req[r].reset
        BY <3>2, <3>4, LinkFound
      <4>2. \/ req[r].reset \in DOMAIN resets /\ resets[req[r].reset].status = "used"
            \/ \E s \in Requests : req[s].op = "confirm" /\ Finish(s)
        BY <3>2, <3>4, <4>1, LinkUses
      <4>3. PICK s \in Requests : req[s].op = "confirm" /\ Finish(s)
        BY <3>1, <4>1, <4>2 DEF LinksUnused
      <4>4. s = r
        BY <3>1, <4>1, <4>3, IdleFits DEF OneAtATime
      <4>5. req'[r] = Idle
        BY <4>3, <4>4 DEF Finish, IInv, TypeOK
      <4> QED
        BY <3>4, <4>5, IdleFits
    <3> QED
      BY <3>1, <3>3, <3>4 DEF LinksUnused
  <2> QED
    BY <2>1, <2>2 DEF InTurn
<1> QED
  BY <1>1, <1>2

(* Handled one at a time, a reset link that has set a password sets no other *)
(* (auth.go:640, auth_test.go: TestPasswordResetChangesPasswordOnce).        *)
THEOREM ResetLinksWorkOnce == MCSpec => ResetLinkWorksOnceInTurn
<1>1. MCSpec => Spec
  <2>1. MCInit => Init
    BY DEF MCInit
  <2>2. [MCNext]_<<vars, overlapped>> => [Next]_vars
    BY DEF MCNext, vars
  <2> QED
    BY <2>1, <2>2, PTL DEF MCSpec, Spec
<1>2. MCInit => InTurn
  BY IdleFits DEF MCInit, Init, NoRows, InTurn, OneAtATime, LinksUnused
<1> QED
  BY <1>1, <1>2, Invariant, InTurnStep, PTL DEF MCSpec, ResetLinkWorksOnceInTurn
=============================================================================
