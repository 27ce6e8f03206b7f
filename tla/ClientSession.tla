--------------------------- MODULE ClientSession ---------------------------
(***************************************************************************)
(* The client from its start to its logout: which page and which view a    *)
(* browser tab shows and in whose name it acts (frontend/src/app/App.tsx,  *)
(* app/Shell.tsx, features/auth/LoginView.tsx, features/setup/             *)
(* SetupView.tsx and the requests of shared/api.ts).                       *)
(*                                                                         *)
(* The tabs of a browser share its cookies and its local storage; each has *)
(* a copy of the CSRF token in its memory (api.ts:744), for which the      *)
(* number of the session stands.  The server handles a request when it is  *)
(* sent and its answer comes later, or never.  Links of the navigation     *)
(* load the page anew (Shell.tsx:150).                                     *)
(***************************************************************************)
EXTENDS Integers, FiniteSets

CONSTANTS Tabs, Users,
          RolesOf,      \* the roles of a user
          Hidden,       \* views hidden from the navigation
          MaxSessions,  \* bound: logins
          MaxSteps      \* bound: steps of users

NoSession == 0
Nobody == "nobody"
Views == {"overview", "vehicles", "exhibition", "importExport", "settings"}
Roles == {"Admin", "Editor", "Viewer", "Messe"}

\* What an instance assumes of the constants.
ConstantsFit == Nobody \notin Users /\ RolesOf \in [Users -> SUBSET Roles] /\ Hidden \subseteq Views \ {"settings"}

VARIABLES ready,    \* the first administrator was made
          owner,    \* the user of each session
          live,     \* sessions neither revoked nor expired
          cookie,   \* the session of the browser
          start,    \* the view to start with
          tabs,
          asked,    \* answers on the way to each tab
          change,   \* the last change: who was shown and who made it
          steps
sessionVars == <<ready, owner, live, cookie, start, tabs, asked, change, steps>>
serverVars == <<ready, owner, live, cookie, start, change>>

----------------------------------------------------------------------------
(* Views and paths.                                                        *)

CanAccessView(view, roles) ==
    \/ "Admin" \in roles
    \/ IF view = "exhibition" THEN "Messe" \in roles ELSE roles \cap {"Editor", "Viewer"} # {}

FirstAllowedView(roles) ==
    IF "Messe" \in roles /\ roles \cap {"Admin", "Editor", "Viewer"} = {} THEN "exhibition" ELSE "overview"

EffectiveView(view, roles) ==
    IF CanAccessView(view, roles) THEN view ELSE FirstAllowedView(roles)

CurrentView(path) == IF path \in Views THEN path ELSE start

NavItems(roles) == {view \in Views : CanAccessView(view, roles)} \ Hidden

\* A view the user may not see is replaced, in the address too.
Rendered(tab) ==
    IF tab.app = "shell" /\ ~CanAccessView(tab.view, RolesOf[tab.user])
    THEN [tab EXCEPT !.path = FirstAllowedView(RolesOf[tab.user])]
    ELSE tab

----------------------------------------------------------------------------
Loaded(path) == [app |-> "start", view |-> CurrentView(path), path |-> path,
                 user |-> Nobody, csrf |-> NoSession, reset |-> FALSE]
Answer(do, session) == [do |-> do, session |-> session]

SessionInit ==
    /\ ready \in BOOLEAN
    /\ owner = <<>> /\ live = {} /\ cookie = NoSession /\ start \in {"overview", "vehicles"}
    /\ tabs = [t \in Tabs |-> Loaded("root")]
    /\ asked = [t \in Tabs |-> {Answer("status", NoSession)}]
    /\ change = [shown |-> Nobody, as |-> Nobody]
    /\ steps = 0

Step == steps < MaxSteps /\ steps' = steps + 1
Ask(t, do, session) == asked' = [asked EXCEPT ![t] = @ \cup {Answer(do, session)}]
Saving(t) == \E answer \in asked[t] : answer.do = "login"

\* The session a request with the cookie belongs to.
Cookied == IF cookie \in live THEN cookie ELSE NoSession
UserOf(session) == IF session = NoSession THEN Nobody ELSE owner[session]

\* The page is loaded: the address is typed in, a link followed, a mail's link opened.
Load(t, path) ==
    /\ Step
    /\ tabs' = [tabs EXCEPT ![t] = Loaded(path)]
    /\ asked' = [asked EXCEPT ![t] = {Answer("status", NoSession)}]
    /\ UNCHANGED serverVars

----------------------------------------------------------------------------
(* The start.                                                              *)

SetupStatus(t) ==
    /\ Answer("status", NoSession) \in asked[t]
    /\ \/ /\ ~ready
          /\ tabs' = [tabs EXCEPT ![t].app = "setup"]
          /\ asked' = [asked EXCEPT ![t] = {}]
       \/ /\ ready
          /\ tabs' = [tabs EXCEPT ![t].app = "session"]
          /\ asked' = [asked EXCEPT ![t] = {Answer("session", Cookied)}]
       \/ /\ tabs' = [tabs EXCEPT ![t].app = "failed"]
          /\ asked' = [asked EXCEPT ![t] = {}]
    /\ UNCHANGED <<serverVars, steps>>

\* fault: the session that was shown stays
LoginOverSession(tab) ==
    [tab EXCEPT !.app = "login", !.reset = (tab.path = "token"),
                !.path = IF @ = "token" THEN "reset" ELSE @]

\* LoginView takes the token of a reset from the address and removes it there.
Login(tab) ==
    [tab EXCEPT !.app = "login", !.user = Nobody, !.reset = (tab.path = "token"),
                !.path = IF @ = "token" THEN "reset" ELSE @]

\* fault: nothing is done when the server refuses
SessionAnsweredOnly(t, answer) ==
    /\ answer.do = "session"
    /\ tabs' = IF answer.session = NoSession THEN tabs
               ELSE [tabs EXCEPT ![t] = Rendered([@ EXCEPT !.app = "shell", !.csrf = answer.session,
                                                             !.user = UserOf(answer.session)])]
    /\ asked' = [asked EXCEPT ![t] = @ \ {answer}]
    /\ UNCHANGED <<serverVars, steps>>

SessionAnswered(t, answer) ==
    /\ answer.do = "session"
    /\ \/ /\ answer.session # NoSession
          /\ tabs' = [tabs EXCEPT ![t] = Rendered([@ EXCEPT !.app = "shell", !.csrf = answer.session,
                                                              !.user = UserOf(answer.session)])]
       \/ tabs' = [tabs EXCEPT ![t] = Login(@)]
    /\ asked' = [asked EXCEPT ![t] = @ \ {answer}]
    /\ UNCHANGED <<serverVars, steps>>

\* The first administrator is made in one tab; another one is refused.
CreateAdmin(t) ==
    /\ Step /\ tabs[t].app = "setup"
    /\ ready' = TRUE
    /\ tabs' = [tabs EXCEPT ![t] = IF ready THEN @ ELSE Login(@)]
    /\ UNCHANGED <<owner, live, cookie, start, asked, change>>

----------------------------------------------------------------------------
(* Login and reset.                                                        *)

Submit(t, user) ==
    /\ Step /\ tabs[t].app = "login" /\ ~tabs[t].reset /\ ~Saving(t)
    /\ Cardinality(DOMAIN owner) < MaxSessions
    /\ LET session == Cardinality(DOMAIN owner) + 1
       IN  /\ owner' = [s \in DOMAIN owner \cup {session} |-> IF s = session THEN user ELSE owner[s]]
           /\ live' = live \cup {session}
           /\ Ask(t, "login", session)
    /\ UNCHANGED <<ready, cookie, start, tabs, change>>

\* fault: the address stays as it is
HandleLoginHere(t, answer) ==
    /\ answer.do = "login"
    /\ cookie' = answer.session
    /\ tabs' = [tabs EXCEPT ![t].app = "shell", ![t].user = owner[answer.session],
                            ![t].csrf = answer.session,
                            ![t].view = FirstAllowedView(RolesOf[owner[answer.session]])]
    /\ asked' = [asked EXCEPT ![t] = @ \ {answer}]
    /\ UNCHANGED <<ready, owner, live, start, change, steps>>

HandleLogin(t, answer) ==
    LET user == UserOf(answer.session)
        view == FirstAllowedView(RolesOf[user])
    IN  /\ answer.do = "login"
        /\ cookie' = answer.session
        /\ tabs' = [tabs EXCEPT ![t] = [@ EXCEPT !.app = "shell", !.user = user, !.view = view,
                                                 !.path = view, !.csrf = answer.session]]
        /\ asked' = [asked EXCEPT ![t] = @ \ {answer}]
        /\ UNCHANGED <<ready, owner, live, start, change, steps>>

\* The sessions of the user whose password is reset end.
ConfirmReset(t, user) ==
    /\ Step /\ tabs[t].app = "login" /\ tabs[t].reset
    /\ live' = {s \in live : owner[s] # user}
    /\ tabs' = [tabs EXCEPT ![t].reset = FALSE, ![t].path = "root"]
    /\ UNCHANGED <<ready, owner, cookie, start, asked, change>>

BackToLogin(t) ==
    /\ tabs[t].app = "login" /\ tabs[t].reset
    /\ tabs' = [tabs EXCEPT ![t].reset = FALSE, ![t].path = "root"]
    /\ UNCHANGED <<serverVars, asked, steps>>

----------------------------------------------------------------------------
(* The shell.                                                              *)

InShell(t) == tabs[t].app = "shell"
RolesIn(t) == RolesOf[tabs[t].user]

\* The footer's link to the settings is there for everybody.
FollowLink(t) == InShell(t) /\ \E view \in NavItems(RolesIn(t)) \cup {"settings"} : Load(t, view)

\* The ECoS import and the vehicle draft change views without loading the page.
SyncView(t, path) ==
    /\ Step /\ InShell(t)
    /\ EffectiveView(tabs[t].view, RolesIn(t)) \in {"vehicles", "importExport"} \ {path}
    /\ tabs' = [tabs EXCEPT ![t] = Rendered([@ EXCEPT !.path = path, !.view = CurrentView(path)])]
    /\ UNCHANGED <<serverVars, asked>>

\* The settings ask whose session it is.
LoadCurrentSession(t) ==
    /\ Step /\ InShell(t) /\ EffectiveView(tabs[t].view, RolesIn(t)) = "settings"
    /\ Ask(t, "who", Cookied)
    /\ UNCHANGED <<serverVars, tabs>>

CurrentSessionLoaded(t, answer) ==
    /\ answer.do = "who"
    /\ tabs' = [tabs EXCEPT ![t].csrf = IF answer.session = NoSession THEN @ ELSE answer.session]
    /\ asked' = [asked EXCEPT ![t] = @ \ {answer}]
    /\ UNCHANGED <<serverVars, steps>>

ChooseStart(t, view) ==
    /\ Step /\ InShell(t) /\ EffectiveView(tabs[t].view, RolesIn(t)) = "settings"
    /\ start' = view
    /\ UNCHANGED <<ready, owner, live, cookie, tabs, asked, change>>

\* fault: the token is not compared with that of the session
ChangeUnchecked(t) ==
    /\ Step /\ InShell(t) /\ cookie \in live
    /\ change' = [shown |-> tabs[t].user, as |-> owner[cookie]]
    /\ UNCHANGED <<ready, owner, live, cookie, start, tabs, asked>>

\* A request that changes something, with the token of the tab or else of the cookie.
Change(t) ==
    /\ Step /\ InShell(t) /\ cookie \in live /\ tabs[t].csrf \in {cookie, NoSession}
    /\ change' = [shown |-> tabs[t].user, as |-> owner[cookie]]
    /\ UNCHANGED <<ready, owner, live, cookie, start, tabs, asked>>

\* The server revokes the session of the cookie when the request reaches it; the tab goes
\* on until it is answered.
Logout(t) ==
    /\ Step /\ InShell(t)
    /\ live' \in {live \ {cookie}, live}
    /\ Ask(t, "logout", NoSession)
    /\ UNCHANGED <<ready, owner, cookie, start, tabs, change>>

SignedOut(tab) == IF tab.app = "shell" THEN Login(tab) ELSE tab

\* The answer clears the cookie, whichever the browser has by then; a logout that fails
\* shows the login, too.
LoggedOut(t, answer) ==
    /\ answer.do = "logout"
    /\ \/ cookie' = NoSession /\ tabs' = [tabs EXCEPT ![t] = SignedOut([@ EXCEPT !.csrf = NoSession])]
       \/ tabs' = [tabs EXCEPT ![t] = SignedOut(@)] /\ UNCHANGED cookie
    /\ asked' = [asked EXCEPT ![t] = @ \ {answer}]
    /\ UNCHANGED <<ready, owner, live, start, change, steps>>

\* An answer is lost, or the request took too long (api.ts:769).
AnswerLost(t, answer) ==
    /\ answer.do \in {"login", "who"}
    /\ asked' = [asked EXCEPT ![t] = @ \ {answer}]
    /\ UNCHANGED <<serverVars, tabs, steps>>

\* A session expires, or another administrator revokes it.
Revoked(session) ==
    /\ Step
    /\ live' = live \ {session}
    /\ UNCHANGED <<ready, owner, cookie, start, tabs, asked, change>>

Answered(t) ==
    \/ SetupStatus(t)
    \/ \E answer \in asked[t] :
         SessionAnswered(t, answer) \/ HandleLogin(t, answer) \/ CurrentSessionLoaded(t, answer)
         \/ LoggedOut(t, answer) \/ AnswerLost(t, answer)

SessionNext ==
    \/ \E t \in Tabs :
         \/ \E path \in {"root", "token", "settings"} : Load(t, path)
         \/ Answered(t) \/ CreateAdmin(t)
         \/ \E user \in Users : Submit(t, user) \/ ConfirmReset(t, user)
         \/ BackToLogin(t) \/ FollowLink(t)
         \/ \E path \in {"vehicles", "importExport"} : SyncView(t, path)
         \/ LoadCurrentSession(t) \/ Change(t) \/ Logout(t)
         \/ \E view \in {"overview", "vehicles"} : ChooseStart(t, view)
    \/ \E session \in live : Revoked(session)

----------------------------------------------------------------------------
(* A history of the behavior, which no action looks at.                    *)

VARIABLE mixed    \* a tab took the token of another user's session

Mixes ==
    \E t \in Tabs : \E answer \in asked[t] :
      CurrentSessionLoaded(t, answer) /\ UserOf(answer.session) \notin {Nobody, tabs[t].user}

MixedInit == SessionInit /\ mixed = FALSE
MixedNext == SessionNext /\ mixed' = (mixed \/ Mixes)
MixedSpec == MixedInit /\ [][MixedNext]_<<sessionVars, mixed>>

----------------------------------------------------------------------------
SessionTypeOK ==
    /\ live \subseteq DOMAIN owner /\ cookie \in DOMAIN owner \cup {NoSession}
    /\ \A t \in Tabs :
         /\ tabs[t].app \in {"start", "setup", "session", "login", "shell", "failed"}
         /\ tabs[t].app = "shell" => tabs[t].user \in Users /\ tabs[t].csrf \in DOMAIN owner
         /\ tabs[t].app \in {"setup", "login"} => tabs[t].user = Nobody

\* What a tab changes is changed in the name of the user it shows, although another tab
\* may have logged in as someone else: the token of the tab is then refused.  The
\* settings page gives it up: it takes the token of whatever session it finds
\* (api.ts:846).
ActsAsShown == ~mixed => change.shown = change.as
=============================================================================
