---------------------------- MODULE ClientProofs ----------------------------
(***************************************************************************)
(* Theorems about the pages of the client, for any number of tabs, users,  *)
(* logins, lists, entries, types, files and categories.                    *)
(*                                                                         *)
(* The session: every tab shows the user of the session whose token it     *)
(* has, so that what it changes is changed in the name of that user.       *)
(*                                                                         *)
(* The other pages, one invariant each (ExhibitionPage, DataPage,          *)
(* GeneralPage, FormsPage): a user who waits finds nothing under way at    *)
(* the next step, an answer brings what the server has, and what the page  *)
(* shows is what the server has but for what an answer will bring.         *)
(***************************************************************************)
EXTENDS MCClient, FiniteSetTheorems, TLAPS

Sessions == DOMAIN owner
Paths == Views \cup {"root", "token", "reset"}
Tab == [app : {"start", "setup", "session", "login", "shell", "failed"}, view : Views,
        path : Paths, user : Users \cup {Nobody}, csrf : Nat, reset : BOOLEAN]
AnswerSet == [do : {"status", "session", "login", "who", "logout"}, session : Nat]

\* The sessions are numbered and each has a user.
SessionsOK ==
    /\ \E n \in Nat : Sessions = 1 .. n
    /\ owner \in [Sessions -> Users]
    /\ live \subseteq Sessions /\ cookie \in Sessions \cup {NoSession}
    /\ start \in Views

\* A tab in the shell has a user and the token of a session; who is at the setup or at the
\* login is nobody yet.
TabOK(x) ==
    /\ x \in Tab
    /\ x.app = "shell" => x.user \in Users /\ x.csrf \in Sessions
    /\ x.app \in {"start", "setup", "login"} => x.user = Nobody

\* The answers on the way to a tab name sessions there are.
AnswersOK(answers, x) ==
    /\ answers \subseteq AnswerSet
    /\ \A answer \in answers : answer.session \in Sessions \cup {NoSession}
                               /\ (answer.do = "login" => answer.session \in Sessions)
    /\ Answer("status", NoSession) \in answers =>
         x.app = "start" /\ answers = {Answer("status", NoSession)}

\* A tab in the shell has the token of a session of the user it shows.
Fits(x) == x.app = "shell" => owner[x.csrf] = x.user

TabsOK ==
    /\ tabs \in [Tabs -> Tab] /\ asked \in [Tabs -> SUBSET AnswerSet]
    /\ \A t \in Tabs : TabOK(tabs[t]) /\ AnswersOK(asked[t], tabs[t])
    /\ mixed \in BOOLEAN
    /\ ~mixed => \A t \in Tabs : Fits(tabs[t])

IInv == SessionsOK /\ TabsOK /\ ActsAsShown

----------------------------------------------------------------------------
(* Steps of one tab.                                                       *)

\* A tab and the answers on the way to it change, the sessions do not.
LEMMA TabChanges ==
    ASSUME TabsOK, NEW t \in Tabs, NEW x, NEW answers, owner' = owner,
           tabs' = [tabs EXCEPT ![t] = x], asked' = [asked EXCEPT ![t] = answers],
           TabOK(x), AnswersOK(answers, x), mixed' \in BOOLEAN, mixed => mixed', ~mixed' => Fits(x)
    PROVE  TabsOK'
<1>1. TabOK(x)' /\ AnswersOK(answers, x)' /\ (~mixed' => Fits(x)')
  BY DEF TabOK, AnswersOK, Fits, Sessions
<1>2. \A s \in Tabs : TabOK(tabs[s])' /\ AnswersOK(asked[s], tabs[s])'
  <2> TAKE s \in Tabs
  <2>1. CASE s = t
    <3>1. tabs'[s] = x /\ asked'[s] = answers
      BY <2>1 DEF TabsOK
    <3> QED
      BY <1>1, <3>1
  <2>2. CASE s # t
    <3>1. tabs'[s] = tabs[s] /\ asked'[s] = asked[s]
      BY <2>2 DEF TabsOK
    <3> QED
      BY <3>1 DEF TabsOK, TabOK, AnswersOK, Sessions
  <2> QED
    BY <2>1, <2>2
<1>3. ~mixed' => \A s \in Tabs : Fits(tabs[s])'
  BY DEF TabsOK, Fits
<1>4. tabs' \in [Tabs -> Tab] /\ asked' \in [Tabs -> SUBSET AnswerSet]
  BY DEF TabsOK, TabOK, AnswersOK
<1> QED
  BY <1>2, <1>3, <1>4 DEF TabsOK

\* The path is what Rendered may change.
LEMMA RenderedKeeps ==
    ASSUME NEW x \in Tab
    PROVE  /\ Rendered(x) \in Tab /\ Rendered(x).app = x.app
           /\ Rendered(x).user = x.user /\ Rendered(x).csrf = x.csrf
BY DEF Rendered, FirstAllowedView, Tab, Paths, Views

\* The login forgets the user.
LEMMA LoginForgets ==
    ASSUME NEW x \in Tab
    PROVE  Login(x) \in Tab /\ Login(x).app = "login" /\ Login(x).user = Nobody
BY DEF Login, Tab, Paths

\* A loaded page is at its start.
LEMMA LoadedStarts ==
    ASSUME start \in Views, NEW path \in Paths
    PROVE  Loaded(path) \in Tab /\ Loaded(path).app = "start" /\ Loaded(path).user = Nobody
BY DEF Loaded, Tab, CurrentView, NoSession, Paths

----------------------------------------------------------------------------
LEMMA InitOK == MixedInit => IInv
<1> SUFFICES ASSUME MixedInit PROVE IInv
  OBVIOUS
<1>1. SessionsOK
  <2>1. DOMAIN owner = {}
    BY DEF MixedInit, SessionInit
  <2>2. 1 .. 0 = {}
    OBVIOUS
  <2>3. owner \in [Sessions -> Users]
    BY <2>1 DEF MixedInit, SessionInit, Sessions
  <2> QED
    BY <2>1, <2>2, <2>3 DEF SessionsOK, Sessions, MixedInit, SessionInit, Views
<1>2. Loaded("root") \in Tab /\ Loaded("root").app = "start" /\ Loaded("root").user = Nobody
  BY LoadedStarts, <1>1 DEF SessionsOK, Paths
<1>3. Answer("status", NoSession) \in AnswerSet
      /\ Answer("status", NoSession).do = "status" /\ Answer("status", NoSession).session = NoSession
  BY DEF Answer, AnswerSet, NoSession
<1>4. TabsOK
  BY <1>2, <1>3 DEF TabsOK, TabOK, AnswersOK, Fits, MixedInit, SessionInit
<1> QED
  BY <1>1, <1>4 DEF IInv, ActsAsShown, MixedInit, SessionInit

----------------------------------------------------------------------------
(* Steps that keep the sessions: what is asked and what a tab shows.       *)

\* A step that keeps the sessions and the last change.
LEMMA SessionsStay ==
    ASSUME IInv, TabsOK', mixed => mixed', UNCHANGED <<owner, live, cookie, start, change>>
    PROVE  IInv'
BY DEF IInv, SessionsOK, ActsAsShown, Sessions

\* An answer other than the first has come: none of the first kind is on the way.
LEMMA AnswersDrop ==
    ASSUME NEW answers, NEW x, AnswersOK(answers, x), NEW answer \in answers,
           answer.do # "status", NEW y
    PROVE  AnswersOK(answers \ {answer}, y)
BY DEF AnswersOK, Answer

\* The page is loaded anew.
LEMMA LoadOK ==
    ASSUME IInv, NEW t \in Tabs, NEW path \in Paths, Load(t, path),
           mixed' \in BOOLEAN, mixed => mixed'
    PROVE  IInv'
<1> DEFINE asks == {Answer("status", NoSession)}
<1>1. Loaded(path) \in Tab /\ Loaded(path).app = "start" /\ Loaded(path).user = Nobody
  BY LoadedStarts DEF IInv, SessionsOK
<1>2. TabOK(Loaded(path)) /\ Fits(Loaded(path)) /\ AnswersOK(asks, Loaded(path))
  BY <1>1 DEF TabOK, Fits, AnswersOK, Answer, AnswerSet, NoSession
<1>3. TabsOK'
  <2>1. /\ tabs' = [tabs EXCEPT ![t] = Loaded(path)] /\ asked' = [asked EXCEPT ![t] = asks]
        /\ owner' = owner
    BY DEF Load, serverVars
  <2> HIDE DEF asks
  <2> QED
    BY <1>2, <2>1, TabChanges DEF IInv
<1> QED
  BY <1>3, SessionsStay DEF Load, serverVars

\* The setup's status is answered.
LEMMA SetupStatusOK ==
    ASSUME IInv, NEW t \in Tabs, SetupStatus(t), mixed' \in BOOLEAN, mixed => mixed'
    PROVE  IInv'
<1>1. tabs[t] \in Tab /\ tabs[t].app = "start" /\ tabs[t].user = Nobody
      /\ UNCHANGED <<owner, live, cookie, start, change>>
  BY DEF IInv, TabsOK, TabOK, AnswersOK, SetupStatus, serverVars
<1>2. Cookied \in Sessions \cup {NoSession} /\ Cookied \in Nat
  BY DEF Cookied, IInv, SessionsOK, NoSession
<1>3. PICK app \in {"setup", "session", "failed"}, asks \in {{}, {Answer("session", Cookied)}} :
        tabs' = [tabs EXCEPT ![t] = [@ EXCEPT !.app = app]] /\ asked' = [asked EXCEPT ![t] = asks]
  BY DEF SetupStatus
<1> DEFINE x == [tabs[t] EXCEPT !.app = app]
<1>4. x \in Tab /\ x.app = app /\ x.user = Nobody
  BY <1>1 DEF Tab
<1>5. TabOK(x) /\ Fits(x)
  BY <1>4 DEF TabOK, Fits
<1>6. AnswersOK(asks, x)
  BY <1>2, <1>4 DEF AnswersOK, Answer, AnswerSet
<1>7. TabsOK'
  <2>1. tabs' = [tabs EXCEPT ![t] = x]
    BY <1>3
  <2> HIDE DEF x
  <2> QED
    BY <1>1, <1>3, <1>5, <1>6, <2>1, TabChanges DEF IInv
<1> QED
  BY <1>1, <1>7, SessionsStay

\* The session's answer opens the shell with its user and its token.
LEMMA SessionAnsweredOK ==
    ASSUME IInv, NEW t \in Tabs, NEW answer \in asked[t], SessionAnswered(t, answer),
           mixed' \in BOOLEAN, mixed => mixed'
    PROVE  IInv'
<1>1. /\ tabs[t] \in Tab /\ AnswersOK(asked[t], tabs[t])
      /\ UNCHANGED <<owner, live, cookie, start, change>>
      /\ asked' = [asked EXCEPT ![t] = asked[t] \ {answer}] /\ answer.do = "session"
  BY DEF IInv, TabsOK, SessionAnswered, serverVars
<1>2. \A y : AnswersOK(asked[t] \ {answer}, y)
  BY <1>1, AnswersDrop
<1>3. ASSUME answer.session # NoSession,
             tabs' = [tabs EXCEPT ![t] = Rendered([@ EXCEPT !.app = "shell", !.csrf = answer.session,
                                                              !.user = UserOf(answer.session)])]
      PROVE  TabsOK'
  <2>1. answer.session \in Sessions /\ answer.session \in Nat /\ UserOf(answer.session) = owner[answer.session]
    BY <1>1, <1>3 DEF AnswersOK, AnswerSet, UserOf
  <2>2. owner[answer.session] \in Users
    BY <2>1 DEF IInv, SessionsOK
  <2> DEFINE shell == [tabs[t] EXCEPT !.app = "shell", !.csrf = answer.session,
                                      !.user = UserOf(answer.session)]
  <2>3. shell \in Tab /\ shell.app = "shell" /\ shell.csrf = answer.session
        /\ shell.user = owner[answer.session]
    BY <1>1, <2>1, <2>2 DEF Tab
  <2>4. TabOK(Rendered(shell)) /\ Fits(Rendered(shell))
    BY <2>1, <2>2, <2>3, RenderedKeeps DEF TabOK, Fits
  <2>5. tabs' = [tabs EXCEPT ![t] = Rendered(shell)]
    BY <1>3
  <2> HIDE DEF shell
  <2> QED
    BY <1>1, <1>2, <2>4, <2>5, TabChanges DEF IInv
<1>4. ASSUME tabs' = [tabs EXCEPT ![t] = Login(@)] PROVE TabsOK'
  <2>1. TabOK(Login(tabs[t])) /\ Fits(Login(tabs[t]))
    BY <1>1, LoginForgets DEF TabOK, Fits
  <2>2. tabs' = [tabs EXCEPT ![t] = Login(tabs[t])]
    BY <1>4
  <2> QED
    BY <1>1, <1>2, <2>1, <2>2, TabChanges DEF IInv
<1>5. TabsOK'
  BY <1>3, <1>4 DEF SessionAnswered
<1> QED
  BY <1>1, <1>5, SessionsStay

\* A login's answer shows the user of the new session.
LEMMA HandleLoginOK ==
    ASSUME IInv, NEW t \in Tabs, NEW answer \in asked[t], HandleLogin(t, answer),
           mixed' \in BOOLEAN, mixed => mixed'
    PROVE  IInv'
<1>1. /\ tabs[t] \in Tab /\ AnswersOK(asked[t], tabs[t])
      /\ UNCHANGED <<owner, live, start, change>> /\ cookie' = answer.session
      /\ asked' = [asked EXCEPT ![t] = asked[t] \ {answer}] /\ answer.do = "login"
  BY DEF IInv, TabsOK, HandleLogin
<1>2. /\ answer.session \in Sessions /\ answer.session \in Nat /\ answer.session # NoSession
      /\ UserOf(answer.session) = owner[answer.session] /\ owner[answer.session] \in Users
  BY <1>1 DEF AnswersOK, AnswerSet, UserOf, IInv, SessionsOK, NoSession
<1> DEFINE user == UserOf(answer.session)
           first == FirstAllowedView(RolesOf[user])
           shell == [tabs[t] EXCEPT !.app = "shell", !.user = user, !.view = first,
                                    !.path = first, !.csrf = answer.session]
<1>3. first \in Views
  BY DEF FirstAllowedView, Views
<1>4. shell \in Tab /\ shell.app = "shell" /\ shell.csrf = answer.session
      /\ shell.user = owner[answer.session]
  BY <1>1, <1>2, <1>3 DEF Tab, Paths
<1>5. TabOK(shell) /\ Fits(shell) /\ AnswersOK(asked[t] \ {answer}, shell)
  BY <1>1, <1>2, <1>4, AnswersDrop DEF TabOK, Fits
<1>6. TabsOK'
  <2>1. tabs' = [tabs EXCEPT ![t] = shell]
    BY DEF HandleLogin
  <2> HIDE DEF shell
  <2> QED
    BY <1>1, <1>5, <2>1, TabChanges DEF IInv
<1>7. SessionsOK' /\ ActsAsShown'
  BY <1>1, <1>2 DEF IInv, SessionsOK, Sessions, ActsAsShown
<1> QED
  BY <1>6, <1>7 DEF IInv

\* The settings take the token of the session they find; if it is another user's, the
\* behavior is mixed from then on.
LEMMA CurrentSessionLoadedOK ==
    ASSUME IInv, NEW t \in Tabs, NEW answer \in asked[t], CurrentSessionLoaded(t, answer),
           mixed' \in BOOLEAN, mixed => mixed',
           ~mixed' => UserOf(answer.session) \in {Nobody, tabs[t].user}, Nobody \notin Users
    PROVE  IInv'
<1> DEFINE csrf == IF answer.session = NoSession THEN tabs[t].csrf ELSE answer.session
           x == [tabs[t] EXCEPT !.csrf = csrf]
<1>1. /\ tabs[t] \in Tab /\ AnswersOK(asked[t], tabs[t]) /\ TabOK(tabs[t])
      /\ UNCHANGED <<owner, live, cookie, start, change>>
      /\ asked' = [asked EXCEPT ![t] = asked[t] \ {answer}] /\ answer.do = "who"
      /\ (~mixed' => Fits(tabs[t]))
  BY DEF IInv, TabsOK, CurrentSessionLoaded, serverVars
<1>2. answer.session \in Sessions \cup {NoSession} /\ answer.session \in Nat
  BY <1>1 DEF AnswersOK, AnswerSet
<1>3. /\ x \in Tab /\ x.app = tabs[t].app /\ x.user = tabs[t].user /\ x.csrf = csrf
  BY <1>1, <1>2 DEF Tab
<1>4. TabOK(x) /\ AnswersOK(asked[t] \ {answer}, x)
  BY <1>1, <1>2, <1>3, AnswersDrop DEF TabOK
<1>5. ~mixed' => Fits(x)
  <2> SUFFICES ASSUME ~mixed', x.app = "shell" PROVE owner[csrf] = tabs[t].user
    BY <1>3 DEF Fits
  <2>1. CASE answer.session = NoSession
    BY <1>1, <1>3, <2>1 DEF Fits
  <2>2. CASE answer.session # NoSession
    <3>1. UserOf(answer.session) = owner[answer.session] /\ owner[answer.session] \in Users
      BY <1>2, <2>2 DEF UserOf, IInv, SessionsOK
    <3> QED
      BY <2>2, <3>1
  <2> QED
    BY <2>1, <2>2
<1>6. TabsOK'
  <2>1. tabs' = [tabs EXCEPT ![t] = x]
    BY DEF CurrentSessionLoaded
  <2> HIDE DEF x
  <2> QED
    BY <1>1, <1>4, <1>5, <2>1, TabChanges DEF IInv
<1> QED
  BY <1>1, <1>6, SessionsStay

\* A step of a tab that is or was at the login.
LEMMA LoginStepOK ==
    ASSUME IInv, NEW t \in Tabs, mixed' \in BOOLEAN, mixed => mixed',
           CreateAdmin(t) \/ BackToLogin(t) \/ (\E user \in Users : ConfirmReset(t, user))
    PROVE  IInv'
<1>1. /\ tabs[t] \in Tab /\ TabOK(tabs[t]) /\ AnswersOK(asked[t], tabs[t])
      /\ UNCHANGED <<owner, cookie, start, change, asked>> /\ live' \subseteq live
      /\ tabs[t].app \in {"setup", "login"}
  BY DEF IInv, TabsOK, CreateAdmin, BackToLogin, ConfirmReset, serverVars
<1>2. PICK x : x \in {tabs[t], Login(tabs[t]), [tabs[t] EXCEPT !.reset = FALSE, !.path = "root"]}
               /\ tabs' = [tabs EXCEPT ![t] = x]
  <2>1. CASE CreateAdmin(t)
    BY <2>1 DEF CreateAdmin
  <2>2. CASE BackToLogin(t) \/ \E user \in Users : ConfirmReset(t, user)
    BY <2>2 DEF BackToLogin, ConfirmReset
  <2> QED
    BY <2>1, <2>2
<1>3. x \in Tab /\ x.user = Nobody /\ x.app \in {"setup", "login"}
  <2>1. CASE x = [tabs[t] EXCEPT !.reset = FALSE, !.path = "root"]
    BY <1>1, <2>1 DEF TabOK, Tab, Paths
  <2> QED
    BY <1>1, <1>2, <2>1, LoginForgets DEF TabOK
<1>4. TabOK(x) /\ Fits(x) /\ AnswersOK(asked[t], x)
  BY <1>1, <1>3 DEF TabOK, Fits, AnswersOK
<1>5. asked' = [asked EXCEPT ![t] = asked[t]]
  BY <1>1 DEF IInv, TabsOK
<1>6. TabsOK'
  BY <1>1, <1>2, <1>4, <1>5, TabChanges DEF IInv
<1> QED
  BY <1>1, <1>6 DEF IInv, SessionsOK, Sessions, ActsAsShown

\* A login makes a session whose number was not given before.
LEMMA SubmitOK ==
    ASSUME IInv, NEW t \in Tabs, NEW user \in Users, Submit(t, user),
           mixed' \in BOOLEAN, mixed => mixed'
    PROVE  IInv'
<1> DEFINE session == Cardinality(DOMAIN owner) + 1
<1>1. PICK n \in Nat : DOMAIN owner = 1 .. n
  BY DEF IInv, SessionsOK, Sessions
<1>2. session = n + 1 /\ session \notin DOMAIN owner
  BY <1>1, FS_Interval
<1> HIDE DEF session
<1>3. /\ owner' = [s \in DOMAIN owner \cup {session} |-> IF s = session THEN user ELSE owner[s]]
      /\ live' = live \cup {session} /\ asked' = [asked EXCEPT ![t] = @ \cup {Answer("login", session)}]
      /\ UNCHANGED <<cookie, start, tabs, change>> /\ tabs[t].app = "login"
  BY DEF Submit, Ask, session
<1>4. DOMAIN owner' = 1 .. (n + 1) /\ n + 1 \in Nat
  BY <1>1, <1>2, <1>3
<1>5. owner' \in [DOMAIN owner' -> Users] /\ \A s \in DOMAIN owner : owner'[s] = owner[s]
  BY <1>2, <1>3 DEF IInv, SessionsOK, Sessions
<1>6. SessionsOK'
  BY <1>3, <1>4, <1>5 DEF IInv, SessionsOK, Sessions
<1>7. \A x : TabOK(x) => TabOK(x)' /\ (Fits(x) => Fits(x)')
  BY <1>3, <1>5 DEF TabOK, Fits, Sessions
<1>8. \A answers, x : AnswersOK(answers, x) => AnswersOK(answers, x)'
  BY <1>3 DEF AnswersOK, Sessions
<1>9. AnswersOK(asked[t], tabs[t])'
  <2>1. AnswersOK(asked[t], tabs[t]) /\ tabs[t].app = "login"
    BY <1>3 DEF IInv, TabsOK
  <2>2. Answer("login", session) \in AnswerSet /\ Answer("login", session).do = "login"
        /\ Answer("login", session).session = session /\ Answer("status", NoSession).do = "status"
    BY <1>2 DEF Answer, AnswerSet
  <2>3. Answer("status", NoSession) \notin asked[t] \cup {Answer("login", session)}
    BY <2>1, <2>2 DEF AnswersOK
  <2>4. session \in DOMAIN owner'
    BY <1>3
  <2> HIDE DEF session
  <2>5. \A answer \in asked[t] \cup {Answer("login", session)} :
          answer \in AnswerSet /\ answer.session \in DOMAIN owner' \cup {NoSession}
          /\ (answer.do = "login" => answer.session \in DOMAIN owner')
    BY <1>3, <2>1, <2>2, <2>4 DEF AnswersOK, Sessions
  <2>6. asked'[t] = asked[t] \cup {Answer("login", session)}
    BY <1>3 DEF IInv, TabsOK
  <2> QED
    BY <2>3, <2>5, <2>6 DEF AnswersOK, Sessions
<1>10. TabsOK'
  <2>1. asked' \in [Tabs -> SUBSET AnswerSet] /\ tabs' \in [Tabs -> Tab]
    BY <1>2, <1>3 DEF IInv, TabsOK, Answer, AnswerSet
  <2>2. ASSUME NEW s \in Tabs PROVE TabOK(tabs[s])' /\ AnswersOK(asked[s], tabs[s])'
                                   /\ (~mixed' => Fits(tabs[s])')
    <3>1. TabOK(tabs[s]) /\ AnswersOK(asked[s], tabs[s]) /\ (~mixed' => Fits(tabs[s]))
      BY DEF IInv, TabsOK
    <3>2. CASE s = t
      BY <1>3, <1>7, <1>9, <3>1, <3>2 DEF IInv, TabsOK
    <3>3. CASE s # t
      BY <1>3, <1>7, <1>8, <3>1, <3>3 DEF IInv, TabsOK
    <3> QED
      BY <3>2, <3>3
  <2> QED
    BY <2>1, <2>2 DEF TabsOK
<1> QED
  BY <1>3, <1>6, <1>10 DEF IInv, ActsAsShown

----------------------------------------------------------------------------
(* Steps of the shell and of the server.                                   *)

\* Another view is shown without loading the page.
LEMMA SyncViewOK ==
    ASSUME IInv, NEW t \in Tabs, NEW path \in Paths, SyncView(t, path),
           mixed' \in BOOLEAN, mixed => mixed'
    PROVE  IInv'
<1> DEFINE moved == [tabs[t] EXCEPT !.path = path, !.view = CurrentView(path)]
<1>1. /\ tabs[t] \in Tab /\ TabOK(tabs[t]) /\ AnswersOK(asked[t], tabs[t])
      /\ (~mixed' => Fits(tabs[t])) /\ tabs[t].app = "shell"
      /\ UNCHANGED <<owner, live, cookie, start, change, asked>>
  BY DEF IInv, TabsOK, SyncView, InShell, serverVars
<1>2. CurrentView(path) \in Views
  BY DEF CurrentView, IInv, SessionsOK
<1>3. /\ moved \in Tab /\ moved.app = tabs[t].app /\ moved.user = tabs[t].user
      /\ moved.csrf = tabs[t].csrf
  BY <1>1, <1>2 DEF Tab
<1>4. TabOK(Rendered(moved)) /\ (~mixed' => Fits(Rendered(moved)))
  BY <1>1, <1>3, RenderedKeeps DEF TabOK, Fits
<1>5. AnswersOK(asked[t], Rendered(moved))
  BY <1>1 DEF AnswersOK
<1>6. tabs' = [tabs EXCEPT ![t] = Rendered(moved)] /\ asked' = [asked EXCEPT ![t] = asked[t]]
  BY <1>1 DEF SyncView, IInv, TabsOK
<1>7. TabsOK'
  <2> HIDE DEF moved
  <2> QED
    BY <1>1, <1>4, <1>5, <1>6, TabChanges DEF IInv
<1> QED
  BY <1>1, <1>7, SessionsStay

\* The settings ask for the session, or an answer is lost.
LEMMA AskingOK ==
    ASSUME IInv, NEW t \in Tabs, mixed' \in BOOLEAN, mixed => mixed',
           LoadCurrentSession(t) \/ (\E answer \in asked[t] : AnswerLost(t, answer))
    PROVE  IInv'
<1>1. /\ tabs[t] \in Tab /\ TabOK(tabs[t]) /\ AnswersOK(asked[t], tabs[t])
      /\ (~mixed' => Fits(tabs[t])) /\ tabs' = [tabs EXCEPT ![t] = tabs[t]]
      /\ UNCHANGED <<owner, live, cookie, start, change>>
  BY DEF IInv, TabsOK, LoadCurrentSession, AnswerLost, serverVars
<1>2. CASE LoadCurrentSession(t)
  <2>1. Cookied \in Sessions \cup {NoSession} /\ Cookied \in Nat
    BY DEF Cookied, IInv, SessionsOK, NoSession
  <2>2. tabs[t].app = "shell" /\ asked' = [asked EXCEPT ![t] = asked[t] \cup {Answer("who", Cookied)}]
    BY <1>2 DEF LoadCurrentSession, InShell, Ask
  <2>3. AnswersOK(asked[t] \cup {Answer("who", Cookied)}, tabs[t])
    BY <1>1, <2>1, <2>2 DEF AnswersOK, Answer, AnswerSet
  <2>4. TabsOK'
    BY <1>1, <2>2, <2>3, TabChanges DEF IInv
  <2> QED
    BY <1>1, <2>4, SessionsStay
<1>3. ASSUME NEW answer \in asked[t], AnswerLost(t, answer) PROVE IInv'
  <2>1. answer.do # "status" /\ asked' = [asked EXCEPT ![t] = asked[t] \ {answer}]
    BY <1>3 DEF AnswerLost
  <2>2. AnswersOK(asked[t] \ {answer}, tabs[t])
    BY <1>1, <2>1, AnswersDrop
  <2>3. TabsOK'
    BY <1>1, <2>1, <2>2, TabChanges DEF IInv
  <2> QED
    BY <1>1, <2>3, SessionsStay
<1> QED
  BY <1>2, <1>3

\* A change is made with the cookie, which is the token of the tab.
LEMMA ChangeOK ==
    ASSUME IInv, NEW t \in Tabs, Change(t), mixed' \in BOOLEAN, mixed => mixed'
    PROVE  IInv'
<1>1. /\ TabOK(tabs[t]) /\ (~mixed' => Fits(tabs[t])) /\ tabs[t].app = "shell"
      /\ UNCHANGED <<owner, live, cookie, start, tabs, asked>>
      /\ tabs[t].csrf \in {cookie, NoSession}
      /\ change' = [shown |-> tabs[t].user, as |-> owner[cookie]]
  BY DEF IInv, TabsOK, Change, InShell
<1>2. tabs[t].csrf \in Sessions /\ NoSession \notin Sessions
  BY <1>1 DEF TabOK, IInv, SessionsOK, NoSession
<1>3. ActsAsShown'
  BY <1>1, <1>2 DEF ActsAsShown, Fits
<1>4. TabsOK'
  BY <1>1 DEF IInv, TabsOK, TabOK, AnswersOK, Fits, Sessions
<1> QED
  BY <1>1, <1>3, <1>4 DEF IInv, SessionsOK, Sessions

\* A tab asks to log out; the server may revoke the session.
LEMMA LogoutOK ==
    ASSUME IInv, NEW t \in Tabs, Logout(t), mixed' \in BOOLEAN, mixed => mixed'
    PROVE  IInv'
<1> PICK more : more = asked[t] \cup {Answer("logout", NoSession)}
  OBVIOUS
<1>1. /\ tabs[t] \in Tab /\ TabOK(tabs[t]) /\ AnswersOK(asked[t], tabs[t]) /\ tabs[t].app = "shell"
      /\ (~mixed' => Fits(tabs[t])) /\ tabs' = [tabs EXCEPT ![t] = tabs[t]]
      /\ UNCHANGED <<owner, start, change, cookie>> /\ live' \subseteq live
      /\ asked' = [asked EXCEPT ![t] = more]
  BY DEF IInv, TabsOK, Logout, InShell, Ask
<1>2. AnswersOK(more, tabs[t])
  BY <1>1 DEF AnswersOK, Answer, AnswerSet, NoSession
<1>3. TabsOK'
  BY <1>1, <1>2, TabChanges DEF IInv
<1> QED
  BY <1>1, <1>3 DEF IInv, SessionsOK, Sessions, ActsAsShown

LEMMA SignedOutIs ==
    ASSUME NEW x \in Tab
    PROVE  /\ SignedOut(x) \in Tab /\ SignedOut(x).app # "shell"
           /\ TabOK(x) => TabOK(SignedOut(x))
BY LoginForgets DEF SignedOut, TabOK

\* The answer to it signs the tab out, whether the browser still has its cookie or not.
LEMMA LoggedOutOK ==
    ASSUME IInv, NEW t \in Tabs, NEW answer \in asked[t], LoggedOut(t, answer),
           mixed' \in BOOLEAN, mixed => mixed'
    PROVE  IInv'
<1> PICK rest : rest = asked[t] \ {answer}
  OBVIOUS
<1>1. /\ tabs[t] \in Tab /\ TabOK(tabs[t]) /\ AnswersOK(asked[t], tabs[t]) /\ answer.do = "logout"
      /\ UNCHANGED <<owner, live, start, change>> /\ cookie' \in {cookie, NoSession}
      /\ asked' = [asked EXCEPT ![t] = rest]
  BY DEF IInv, TabsOK, LoggedOut
<1> DEFINE free == [tabs[t] EXCEPT !.csrf = NoSession]
<1>2. PICK x \in {SignedOut(tabs[t]), SignedOut(free)} : tabs' = [tabs EXCEPT ![t] = x]
  BY DEF LoggedOut
<1>3. /\ free \in Tab /\ free.app = tabs[t].app /\ free.user = tabs[t].user
  BY <1>1 DEF Tab, NoSession
<1> HIDE DEF free
<1>4. x \in Tab /\ x.app # "shell" /\ TabOK(x)
  <2>1. CASE x = SignedOut(tabs[t])
    BY <1>1, <2>1, SignedOutIs
  <2>2. CASE x = SignedOut(free)
    <3>1. CASE free.app = "shell"
      BY <1>3, <2>2, <3>1, LoginForgets DEF SignedOut, TabOK
    <3>2. CASE free.app # "shell"
      BY <1>1, <1>3, <2>2, <3>2 DEF SignedOut, TabOK
    <3> QED
      BY <3>1, <3>2
  <2> QED
    BY <1>2, <2>1, <2>2
<1>5. Fits(x) /\ AnswersOK(rest, x)
  BY <1>1, <1>4, AnswersDrop DEF Fits
<1>6. TabsOK'
  BY <1>1, <1>2, <1>4, <1>5, TabChanges DEF IInv
<1> QED
  BY <1>1, <1>6 DEF IInv, SessionsOK, Sessions, ActsAsShown

\* A session ends, or another view is chosen to start with.
LEMMA SessionEndsOK ==
    ASSUME IInv, mixed' \in BOOLEAN, mixed => mixed', UNCHANGED <<owner, cookie, tabs, asked, change>>,
           live' \subseteq live, start' \in Views
    PROVE  IInv'
<1>1. TabsOK'
  BY DEF IInv, TabsOK, TabOK, AnswersOK, Fits, Sessions
<1> QED
  BY <1>1 DEF IInv, SessionsOK, Sessions, ActsAsShown

----------------------------------------------------------------------------
LEMMA StepOK ==
    ASSUME ConstantsFit, IInv, [MixedNext]_<<sessionVars, mixed>>
    PROVE  IInv'
<1>1. CASE UNCHANGED <<sessionVars, mixed>>
  BY <1>1, SessionEndsOK DEF IInv, SessionsOK, TabsOK, sessionVars
<1>2. ASSUME MixedNext PROVE IInv'
  <2>1. mixed' \in BOOLEAN /\ (mixed => mixed') /\ (~mixed' => ~Mixes)
    BY <1>2 DEF MixedNext, IInv, TabsOK
  <2>2. ASSUME NEW t \in Tabs, NEW path \in {"root", "token", "settings"}, Load(t, path) PROVE IInv'
    BY <2>1, <2>2, LoadOK DEF Paths, Views
  <2>3. ASSUME NEW t \in Tabs, SetupStatus(t) PROVE IInv'
    BY <2>1, <2>3, SetupStatusOK
  <2>4. ASSUME NEW t \in Tabs, NEW answer \in asked[t], SessionAnswered(t, answer) PROVE IInv'
    BY <2>1, <2>4, SessionAnsweredOK
  <2>5. ASSUME NEW t \in Tabs, NEW answer \in asked[t], HandleLogin(t, answer) PROVE IInv'
    BY <2>1, <2>5, HandleLoginOK
  <2>6. ASSUME NEW t \in Tabs, NEW answer \in asked[t], CurrentSessionLoaded(t, answer) PROVE IInv'
    <3>1. ~mixed' => UserOf(answer.session) \in {Nobody, tabs[t].user}
      BY <2>1, <2>6 DEF Mixes
    <3> QED
      BY <2>1, <2>6, <3>1, CurrentSessionLoadedOK DEF ConstantsFit
  <2>7. ASSUME NEW t \in Tabs, (\E answer \in asked[t] : AnswerLost(t, answer)) \/ LoadCurrentSession(t)
        PROVE IInv'
    BY <2>1, <2>7, AskingOK
  <2>8. ASSUME NEW t \in Tabs, CreateAdmin(t) \/ BackToLogin(t) \/ \E user \in Users : ConfirmReset(t, user)
        PROVE IInv'
    BY <2>1, <2>8, LoginStepOK
  <2>9. ASSUME NEW t \in Tabs, NEW user \in Users, Submit(t, user) PROVE IInv'
    BY <2>1, <2>9, SubmitOK
  <2>10. ASSUME NEW t \in Tabs, FollowLink(t) PROVE IInv'
    <3>1. PICK next \in Views : Load(t, next)
      BY <2>10 DEF FollowLink, NavItems, Views
    <3> QED
      BY <2>1, <3>1, LoadOK DEF Paths
  <2>11. ASSUME NEW t \in Tabs, NEW path \in {"vehicles", "importExport"}, SyncView(t, path) PROVE IInv'
    BY <2>1, <2>11, SyncViewOK DEF Paths, Views
  <2>12. ASSUME NEW t \in Tabs, Change(t) PROVE IInv'
    BY <2>1, <2>12, ChangeOK
  <2>13. ASSUME NEW t \in Tabs, Logout(t) PROVE IInv'
    BY <2>1, <2>13, LogoutOK
  <2>16. ASSUME NEW t \in Tabs, NEW answer \in asked[t], LoggedOut(t, answer) PROVE IInv'
    BY <2>1, <2>16, LoggedOutOK
  <2>14. ASSUME NEW t \in Tabs, NEW next \in {"overview", "vehicles"}, ChooseStart(t, next) PROVE IInv'
    BY <2>1, <2>14, SessionEndsOK DEF ChooseStart, Views
  <2>15. ASSUME NEW session \in live, Revoked(session) PROVE IInv'
    <3>1. UNCHANGED <<owner, cookie, start, tabs, asked, change>> /\ live' \subseteq live /\ start \in Views
      BY <2>15 DEF Revoked, IInv, SessionsOK
    <3> QED
      BY <2>1, <3>1, SessionEndsOK
  <2> QED
    BY <1>2, <2>2, <2>3, <2>4, <2>5, <2>6, <2>7, <2>8, <2>9, <2>10, <2>11, <2>12, <2>13, <2>14, <2>15,
       <2>16 DEF MixedNext, SessionNext, Answered
<1> QED
  BY <1>1, <1>2

\* Every tab that shows the shell shows the user of the session whose token it has, in every
\* behavior, until the settings take the token of another one (App.tsx:97-116, api.ts:744).
THEOREM TokensFit == ASSUME ConstantsFit PROVE MixedSpec => []IInv
<1>1. IInv /\ [MixedNext]_<<sessionVars, mixed>> => IInv'
  BY StepOK
<1> QED
  BY <1>1, InitOK, PTL DEF MixedSpec

\* A tab in the shell shows a user, a tab at the setup or at the login nobody (App.tsx:97).
THEOREM SessionTypeCorrect == ASSUME ConstantsFit PROVE MixedSpec => []SessionTypeOK
<1>1. IInv => SessionTypeOK
  BY DEF IInv, SessionsOK, TabsOK, TabOK, Tab, Sessions, SessionTypeOK
<1> QED
  BY <1>1, TokensFit, PTL

\* What a tab changes is changed in the name of the user it shows, unless a tab took the
\* token of another user's session, whatever tabs log in, log out or are loaded anew
\* (router.go:2560, api.ts:846).
THEOREM ChangesActAsShown == ASSUME ConstantsFit PROVE MixedSpec => []ActsAsShown
<1>1. IInv => ActsAsShown
  BY DEF IInv
<1> QED
  BY <1>1, TokensFit, PTL

----------------------------------------------------------------------------
(* The address of a tab and the view it shows.                             *)

\* Loading the page anew shows what is shown; before there is a user, the view is that of
\* the address.
PathFits(x) ==
    x.path \in Views =>
      /\ x.app \in {"start", "session"} => x.view = x.path
      /\ x.app = "shell" =>
           EffectiveView(x.path, RolesOf[x.user]) = EffectiveView(x.view, RolesOf[x.user])

\* Who waits for the session waits for nothing else.
WaitsForSession(answers, x) ==
    (\E answer \in answers : answer.do = "session") =>
      x.app = "session" /\ \A answer, other \in answers : answer = other

PathsFit == \A t \in Tabs : PathFits(tabs[t]) /\ WaitsForSession(asked[t], tabs[t])

LEMMA PathsChange ==
    ASSUME IInv, PathsFit, NEW t \in Tabs, NEW x, NEW answers,
           tabs' = [tabs EXCEPT ![t] = x], asked' = [asked EXCEPT ![t] = answers],
           PathFits(x), WaitsForSession(answers, x)
    PROVE  PathsFit'
<1> SUFFICES ASSUME NEW s \in Tabs PROVE PathFits(tabs'[s]) /\ WaitsForSession(asked'[s], tabs'[s])
  BY DEF PathsFit, PathFits, WaitsForSession
<1>1. CASE s = t
  <2>1. tabs'[s] = x /\ asked'[s] = answers
    BY <1>1 DEF IInv, TabsOK
  <2> QED
    BY <2>1
<1>2. CASE s # t
  <2>1. tabs'[s] = tabs[s] /\ asked'[s] = asked[s]
    BY <1>2 DEF IInv, TabsOK
  <2> QED
    BY <2>1 DEF PathsFit
<1> QED
  BY <1>1, <1>2

\* The first allowed view is what is shown in place of a view that is not.
LEMMA RenderedFits ==
    ASSUME NEW x \in Tab, x.app = "shell", x.path \in Views => x.view = x.path
    PROVE  PathFits(Rendered(x)) /\ Rendered(x).app = "shell"
<1>1. CASE CanAccessView(x.view, RolesOf[x.user])
  BY <1>1 DEF Rendered, PathFits
<1>2. CASE ~CanAccessView(x.view, RolesOf[x.user])
  <2> DEFINE y == [x EXCEPT !.path = FirstAllowedView(RolesOf[x.user])]
  <2>1. Rendered(x) = y
    BY <1>2 DEF Rendered
  <2>2. /\ y.path = FirstAllowedView(RolesOf[x.user]) /\ y.view = x.view
        /\ y.user = x.user /\ y.app = "shell"
    BY DEF Tab
  <2> HIDE DEF y
  <2>3. EffectiveView(y.view, RolesOf[y.user]) = FirstAllowedView(RolesOf[y.user])
    BY <1>2, <2>2 DEF EffectiveView
  <2>4. EffectiveView(y.path, RolesOf[y.user]) = FirstAllowedView(RolesOf[y.user])
    BY <2>2 DEF EffectiveView
  <2> QED
    BY <2>1, <2>2, <2>3, <2>4 DEF PathFits
<1> QED
  BY <1>1, <1>2

LEMMA LoginFits ==
    ASSUME NEW x \in Tab
    PROVE  PathFits(Login(x))
BY LoginForgets DEF PathFits

LEMMA LoadFits ==
    ASSUME IInv, PathsFit, NEW t \in Tabs, NEW path \in Paths, Load(t, path)
    PROVE  PathsFit'
<1>1. PathFits(Loaded(path))
  BY DEF PathFits, Loaded, CurrentView
<1>2. WaitsForSession({Answer("status", NoSession)}, Loaded(path))
  BY DEF WaitsForSession, Answer
<1> QED
  BY <1>1, <1>2, PathsChange DEF Load

LEMMA SetupStatusFits ==
    ASSUME IInv, PathsFit, NEW t \in Tabs, SetupStatus(t)
    PROVE  PathsFit'
<1>1. tabs[t] \in Tab /\ tabs[t].app = "start" /\ PathFits(tabs[t])
  BY DEF IInv, TabsOK, AnswersOK, SetupStatus, PathsFit
<1>2. PICK app \in {"setup", "session", "failed"}, asks \in {{}, {Answer("session", Cookied)}} :
        /\ tabs' = [tabs EXCEPT ![t] = [@ EXCEPT !.app = app]] /\ asked' = [asked EXCEPT ![t] = asks]
        /\ asks = {} \/ app = "session"
  BY DEF SetupStatus
<1> DEFINE x == [tabs[t] EXCEPT !.app = app]
<1>3. x.app = app /\ x.path = tabs[t].path /\ x.view = tabs[t].view
  BY <1>1 DEF Tab
<1>4. tabs' = [tabs EXCEPT ![t] = x]
  BY <1>2
<1> HIDE DEF x
<1>5. PathFits(x) /\ WaitsForSession(asks, x)
  BY <1>1, <1>2, <1>3 DEF PathFits, WaitsForSession, Answer
<1> QED
  BY <1>2, <1>4, <1>5, PathsChange

LEMMA SessionAnsweredFits ==
    ASSUME IInv, PathsFit, NEW t \in Tabs, NEW answer \in asked[t], SessionAnswered(t, answer)
    PROVE  PathsFit'
<1> DEFINE rest == asked[t] \ {answer}
           shell == [tabs[t] EXCEPT !.app = "shell", !.csrf = answer.session,
                                    !.user = UserOf(answer.session)]
<1>1. /\ tabs[t] \in Tab /\ AnswersOK(asked[t], tabs[t]) /\ PathFits(tabs[t])
      /\ asked' = [asked EXCEPT ![t] = rest] /\ answer.do = "session"
      /\ WaitsForSession(asked[t], tabs[t])
  BY DEF IInv, TabsOK, SessionAnswered, PathsFit
<1>2. /\ tabs[t].path \in Views => tabs[t].view = tabs[t].path
      /\ rest = {}
  BY <1>1 DEF WaitsForSession, PathFits
<1>3. shell \in Tab /\ shell.app = "shell" /\ shell.path = tabs[t].path /\ shell.view = tabs[t].view
  <2>1. answer.session \in Nat /\ UserOf(answer.session) \in Users \cup {Nobody}
    BY <1>1 DEF AnswersOK, AnswerSet, UserOf, IInv, SessionsOK
  <2> QED
    BY <1>1, <2>1 DEF Tab
<1>4. PathFits(Rendered(shell)) /\ PathFits(Login(tabs[t]))
  BY <1>1, <1>2, <1>3, RenderedFits, LoginFits
<1>5. tabs' = [tabs EXCEPT ![t] = Rendered(shell)] \/ tabs' = [tabs EXCEPT ![t] = Login(tabs[t])]
  BY DEF SessionAnswered
<1> HIDE DEF shell, rest
<1>6. \A x : WaitsForSession(rest, x)
  BY <1>2 DEF WaitsForSession
<1> QED
  BY <1>1, <1>4, <1>5, <1>6, PathsChange

LEMMA HandleLoginFits ==
    ASSUME IInv, PathsFit, NEW t \in Tabs, NEW answer \in asked[t], HandleLogin(t, answer)
    PROVE  PathsFit'
<1> DEFINE user == UserOf(answer.session)
           first == FirstAllowedView(RolesOf[user])
           shell == [tabs[t] EXCEPT !.app = "shell", !.user = user, !.view = first,
                                    !.path = first, !.csrf = answer.session]
           rest == asked[t] \ {answer}
<1>1. /\ tabs[t] \in Tab /\ WaitsForSession(asked[t], tabs[t]) /\ answer.do = "login"
      /\ asked' = [asked EXCEPT ![t] = rest] /\ tabs' = [tabs EXCEPT ![t] = shell]
  BY DEF IInv, TabsOK, HandleLogin, PathsFit
<1>2. shell.view = first /\ shell.path = first /\ shell.app = "shell"
  BY <1>1 DEF Tab
<1> HIDE DEF shell
<1>3. PathFits(shell)
  BY <1>2 DEF PathFits
<1>4. WaitsForSession(rest, shell)
  BY <1>1 DEF WaitsForSession
<1> QED
  BY <1>1, <1>3, <1>4, PathsChange

LEMMA CurrentSessionLoadedFits ==
    ASSUME IInv, PathsFit, NEW t \in Tabs, NEW answer \in asked[t], CurrentSessionLoaded(t, answer)
    PROVE  PathsFit'
<1> DEFINE csrf == IF answer.session = NoSession THEN tabs[t].csrf ELSE answer.session
           x == [tabs[t] EXCEPT !.csrf = csrf]
           rest == asked[t] \ {answer}
<1>1. /\ tabs[t] \in Tab /\ WaitsForSession(asked[t], tabs[t]) /\ PathFits(tabs[t])
      /\ asked' = [asked EXCEPT ![t] = rest] /\ tabs' = [tabs EXCEPT ![t] = x]
  BY DEF IInv, TabsOK, CurrentSessionLoaded, PathsFit
<1>2. x.view = tabs[t].view /\ x.path = tabs[t].path /\ x.app = tabs[t].app /\ x.user = tabs[t].user
  BY <1>1 DEF Tab
<1> HIDE DEF x
<1>3. PathFits(x) /\ WaitsForSession(rest, x)
  BY <1>1, <1>2 DEF PathFits, WaitsForSession
<1> QED
  BY <1>1, <1>3, PathsChange

\* What a tab asks for, and answers that are lost.
LEMMA AskingFits ==
    ASSUME IInv, PathsFit, NEW t \in Tabs,
           \/ \E answer \in asked[t] : AnswerLost(t, answer)
           \/ LoadCurrentSession(t) \/ Logout(t)
           \/ \E user \in Users : Submit(t, user)
    PROVE  PathsFit'
<1>1. /\ tabs[t] \in Tab /\ WaitsForSession(asked[t], tabs[t]) /\ PathFits(tabs[t])
      /\ tabs' = [tabs EXCEPT ![t] = tabs[t]]
  BY DEF IInv, TabsOK, AnswerLost, LoadCurrentSession, Submit, Logout, serverVars, PathsFit
<1>2. ASSUME NEW answer \in asked[t], AnswerLost(t, answer) PROVE PathsFit'
  <2>1. WaitsForSession(asked[t] \ {answer}, tabs[t])
    BY <1>1 DEF WaitsForSession
  <2> QED
    BY <1>1, <1>2, <2>1, PathsChange DEF AnswerLost
<1>3. ASSUME NEW do \in {"who", "login", "logout"}, NEW session, Ask(t, do, session),
             tabs[t].app \in {"shell", "login"}
      PROVE  PathsFit'
  <2>1. WaitsForSession(asked[t] \cup {Answer(do, session)}, tabs[t])
    BY <1>1, <1>3 DEF WaitsForSession, Answer
  <2> QED
    BY <1>1, <1>3, <2>1, PathsChange DEF Ask
<1> QED
  BY <1>2, <1>3 DEF LoadCurrentSession, Submit, Logout, InShell

LEMMA LoginStepFits ==
    ASSUME IInv, PathsFit, NEW t \in Tabs,
           CreateAdmin(t) \/ BackToLogin(t) \/ (\E user \in Users : ConfirmReset(t, user))
    PROVE  PathsFit'
<1>1. /\ tabs[t] \in Tab /\ WaitsForSession(asked[t], tabs[t]) /\ PathFits(tabs[t])
      /\ asked' = [asked EXCEPT ![t] = asked[t]] /\ tabs[t].app \in {"setup", "login"}
  BY DEF IInv, TabsOK, PathsFit, CreateAdmin, BackToLogin, ConfirmReset
<1>2. \A x : WaitsForSession(asked[t], x)
  BY <1>1 DEF WaitsForSession
<1>3. CASE CreateAdmin(t)
  <2>1. tabs' = [tabs EXCEPT ![t] = tabs[t]] \/ tabs' = [tabs EXCEPT ![t] = Login(tabs[t])]
    BY <1>3 DEF CreateAdmin
  <2> QED
    BY <1>1, <1>2, <2>1, LoginFits, PathsChange
<1>4. CASE BackToLogin(t) \/ \E user \in Users : ConfirmReset(t, user)
  <2> DEFINE x == [tabs[t] EXCEPT !.reset = FALSE, !.path = "root"]
  <2>1. tabs' = [tabs EXCEPT ![t] = x] /\ x.path = "root"
    BY <1>1, <1>4 DEF BackToLogin, ConfirmReset, Tab
  <2> HIDE DEF x
  <2>2. PathFits(x)
    BY <2>1 DEF PathFits, Views
  <2> QED
    BY <1>1, <1>2, <2>1, <2>2, PathsChange
<1> QED
  BY <1>3, <1>4

LEMMA LoggedOutFits ==
    ASSUME IInv, PathsFit, NEW t \in Tabs, NEW answer \in asked[t], LoggedOut(t, answer)
    PROVE  PathsFit'
<1> PICK rest : rest = asked[t] \ {answer}
  OBVIOUS
<1> DEFINE free == [tabs[t] EXCEPT !.csrf = NoSession]
<1>1. /\ tabs[t] \in Tab /\ WaitsForSession(asked[t], tabs[t]) /\ PathFits(tabs[t])
      /\ asked' = [asked EXCEPT ![t] = rest] /\ answer.do = "logout"
  BY DEF IInv, TabsOK, LoggedOut, PathsFit
<1>2. PICK y \in {tabs[t], free} : tabs' = [tabs EXCEPT ![t] = SignedOut(y)]
  BY DEF LoggedOut
<1>3. free \in Tab /\ free.app = tabs[t].app /\ free.view = tabs[t].view /\ free.path = tabs[t].path
      /\ free.user = tabs[t].user
  BY <1>1 DEF Tab, NoSession
<1> HIDE DEF free
<1>4. y \in Tab /\ PathFits(y)
  BY <1>1, <1>2, <1>3 DEF PathFits
<1>5. PathFits(SignedOut(y))
  BY <1>4, LoginFits DEF SignedOut
<1>6. WaitsForSession(rest, SignedOut(y))
  BY <1>1 DEF WaitsForSession
<1> QED
  BY <1>1, <1>2, <1>5, <1>6, PathsChange

LEMMA SyncViewFits ==
    ASSUME IInv, PathsFit, NEW t \in Tabs, NEW path \in {"vehicles", "importExport"},
           SyncView(t, path)
    PROVE  PathsFit'
<1> DEFINE x == [tabs[t] EXCEPT !.path = path, !.view = CurrentView(path)]
<1>1. /\ tabs[t] \in Tab /\ WaitsForSession(asked[t], tabs[t])
      /\ asked' = [asked EXCEPT ![t] = asked[t]] /\ tabs' = [tabs EXCEPT ![t] = Rendered(x)]
      /\ tabs[t].app = "shell"
  BY DEF IInv, TabsOK, PathsFit, SyncView, InShell
<1>2. path \in Views /\ CurrentView(path) = path
  BY DEF Views, CurrentView
<1>3. x \in Tab /\ x.app = "shell" /\ x.path = path /\ x.view = path
  BY <1>1, <1>2 DEF Tab, Paths
<1> HIDE DEF x
<1>4. PathFits(Rendered(x)) /\ WaitsForSession(asked[t], Rendered(x))
  BY <1>1, <1>3, RenderedFits DEF WaitsForSession
<1> QED
  BY <1>1, <1>4, PathsChange

LEMMA FitsStep ==
    ASSUME IInv, PathsFit, [MixedNext]_<<sessionVars, mixed>>
    PROVE  PathsFit'
<1>1. CASE UNCHANGED <<tabs, asked>>
  BY <1>1 DEF PathsFit, PathFits, WaitsForSession
<1>2. CASE MixedNext
  <2>1. ASSUME NEW t \in Tabs, NEW path \in {"root", "token", "settings"}, Load(t, path) PROVE PathsFit'
    BY <2>1, LoadFits DEF Paths, Views
  <2>2. ASSUME NEW t \in Tabs, NEW answer \in asked[t],
               \/ SessionAnswered(t, answer) \/ HandleLogin(t, answer)
               \/ CurrentSessionLoaded(t, answer) \/ LoggedOut(t, answer) \/ AnswerLost(t, answer)
        PROVE  PathsFit'
    BY <2>2, SessionAnsweredFits, HandleLoginFits, CurrentSessionLoadedFits, LoggedOutFits, AskingFits
  <2>3. ASSUME NEW t \in Tabs, FollowLink(t) PROVE PathsFit'
    <3>1. PICK next \in Views : Load(t, next)
      BY <2>3 DEF FollowLink, NavItems, Views
    <3> QED
      BY <3>1, LoadFits DEF Paths
  <2>4. ASSUME NEW t \in Tabs,
               \/ Change(t) \/ \E next \in {"overview", "vehicles"} : ChooseStart(t, next)
        PROVE  UNCHANGED <<tabs, asked>>
    BY <2>4 DEF Change, ChooseStart
  <2>5. ASSUME NEW session \in live, Revoked(session) PROVE UNCHANGED <<tabs, asked>>
    BY <2>5 DEF Revoked
  <2> QED
    BY <1>1, <1>2, <2>1, <2>2, <2>3, <2>4, <2>5, SetupStatusFits, AskingFits, LoginStepFits,
       SyncViewFits DEF MixedNext, SessionNext, Answered
<1> QED
  BY <1>1, <1>2 DEF sessionVars

LEMMA FitsInit == MixedInit => PathsFit
<1> SUFFICES ASSUME MixedInit PROVE PathsFit
  OBVIOUS
<1>1. \A t \in Tabs : tabs[t] = Loaded("root") /\ asked[t] = {Answer("status", NoSession)}
  BY DEF MixedInit, SessionInit
<1>2. Loaded("root").path = "root" /\ Answer("status", NoSession).do = "status"
  BY DEF Loaded, Answer
<1> QED
  BY <1>1, <1>2 DEF PathsFit, PathFits, WaitsForSession, Views

----------------------------------------------------------------------------
(* The pages, one in a behavior.                                           *)

SessionPage == page = "session" => IInv /\ PathsFit

LEMMA SessionPageInit == Init => SessionPage
BY InitOK, FitsInit DEF Init, SessionPage

LEMMA SessionPageStep == SessionPage /\ [Next]_vars => SessionPage'
<1> SUFFICES ASSUME SessionPage, [Next]_vars, page' = "session" PROVE (IInv /\ PathsFit)'
  BY DEF SessionPage
<1>1. page = "session" /\ [MixedNext]_<<sessionVars, mixed>>
  BY DEF Next, vars, mixedVars, OnlySession, OnlyExhibition, OnlyData, OnlyForms, OnlyGeneral
<1> QED
  BY <1>1, StepOK, FitsStep, SessionAssumptions DEF SessionPage

LEMMA SessionPageAlways == Spec => []SessionPage
BY SessionPageInit, SessionPageStep, PTL DEF Spec

\* A tab in the shell shows a user, a tab at the setup or at the login nobody (App.tsx:97).
THEOREM SessionTypesAreKept == Spec => []SessionTypes
<1>1. SessionPage => SessionTypes
  BY DEF SessionPage, IInv, SessionsOK, TabsOK, TabOK, Tab, Sessions, SessionTypeOK, SessionTypes
<1> QED
  BY <1>1, SessionPageAlways, PTL

\* Loading the page anew shows the view that is shown, whatever links, logins and answers
\* brought the tab there (App.tsx:111-116 and 164-167).
THEOREM ReloadShowsTheSame == Spec => []ReloadShowsSame
<1>1. SessionPage => ReloadShowsSame
  BY DEF SessionPage, PathsFit, PathFits, ReloadShowsSame, InShell, RolesIn, CurrentView
<1> QED
  BY <1>1, SessionPageAlways, PTL

----------------------------------------------------------------------------
(* The exhibition page: what is shown, awaited and stored.                 *)

Scopes == {{"all"}} \cup ((SUBSET Days) \ {{}, Days})
Items == [name : {"", "Horn", "Fahrlicht"}, type : {"standard", "licht"}, symbol : {"", "light"}]
AnyAddress == Addresses \cup {Exhibition!None, CHOOSE a \in Addresses : TRUE}
FormRows == [address : AnyAddress, days : Scopes, functions : [Exhibition!FunctionKeys -> Items]]
EntryRows == [address : AnyAddress, days : Scopes,
              functions : UNION {[K -> Items] : K \in SUBSET Exhibition!FunctionKeys}]

\* The entries of list l, as a table.
Tables(l) == UNION {[K -> EntryRows] : K \in SUBSET Exhibition!EntryIDs(l)}
AnyTable == UNION {Tables(l) : l \in Lists \cup {Exhibition!None}}
LockTables == UNION {[K -> BOOLEAN] : K \in SUBSET Lists}
ListedEntries == UNION {Exhibition!EntryIDs(l) : l \in Lists \cup {Exhibition!None}}
AnyEntry == ListedEntries \cup {Exhibition!NoEntry, Exhibition!NewEntry}
ListOrNone == Lists \cup {Exhibition!None}
ListDialogs == [list : ListOrNone, entries : AnyTable]

StoredOK ==
    /\ DOMAIN stored \subseteq Lists
    /\ \A l \in DOMAIN stored : stored[l] \in [locked : BOOLEAN, entries : Tables(l)]

ViewOK == view \in [lists : LockTables, selected : ListOrNone, entries : AnyTable, saving : BOOLEAN]

DialogsOK ==
    dialogs \in [list : ListOrNone \cup {Exhibition!New}, entry : AnyEntry, form : FormRows,
                 view : ListDialogs, print : ListDialogs]

Loads == {"entries", "saved entries", "deleted entries", "view", "print"}
Writes == {"list", "deleted list", "saved", "deleted", "lock", "refused"}

\* The entries of a list, none if it is not there.
EntriesOf(l) == IF l \in DOMAIN stored THEN stored[l].entries ELSE Exhibition!NoEntries

ReplyOK(reply) ==
    /\ reply.do \in {"lists"} \cup Loads \cup Writes
    /\ reply.do \in Loads => reply.list \in Lists /\ reply.content \in Tables(reply.list)
    /\ reply.do \in {"list", "saved", "deleted", "deleted list"} => reply.list \in Lists
    /\ reply.do = "lists" => reply.content \in LockTables
    /\ reply.do = "lock" => reply.content \in [{reply.list} -> BOOLEAN]
AwaitedOK == \A reply \in awaited : ReplyOK(reply)

\* An answer that will change the entries that are shown.
Brings(reply) ==
    \/ reply.do \in {"entries", "saved entries", "deleted entries", "saved", "deleted"}
    \/ reply.do = "deleted list" /\ reply.content[reply.list]

\* What is brought is brought for the selected list; a change is the only thing awaited.
InOrder ==
    \A reply \in awaited :
       /\ Brings(reply) => reply.list = view.selected
       /\ reply.do \in Writes => awaited = {reply}

ShownBelong == (\A reply \in awaited : ~Brings(reply)) => view.entries \in Tables(view.selected)
DialogsBelong ==
    /\ dialogs.view.entries \in Tables(dialogs.view.list)
    /\ dialogs.print.entries \in Tables(dialogs.print.list)

\* While nobody else is at work, what is awaited and what is shown is what is stored.
ShownAsStored ==
    /\ \A reply \in awaited : reply.do \in Loads => reply.content = EntriesOf(reply.list)
    /\ (\A reply \in awaited : ~Brings(reply)) => view.entries = EntriesOf(view.selected)

NoneTwice(t) ==
    \A d, e \in DOMAIN t : t[d].address = t[e].address => d = e \/ t[d].address = Exhibition!None
AddressesDiffer == \A l \in DOMAIN stored : NoneTwice(stored[l].entries)

ExhibitionTypes == StoredOK /\ ViewOK /\ DialogsOK /\ AwaitedOK
Agree ==
    /\ InOrder /\ ShownBelong /\ DialogsBelong
    /\ ~others => ShownAsStored /\ AddressesDiffer
ExhibitionCalm == Calm => Agree

ExhibitionPage == page = "exhibition" => ExhibitionTypes /\ ExhibitionCalm

----------------------------------------------------------------------------
(* Tables, days and function keys.                                         *)

LEMMA TablesAre ==
    ASSUME NEW l
    PROVE  /\ \A t \in Tables(l) : /\ DOMAIN t \subseteq Exhibition!EntryIDs(l)
                                   /\ \A e \in DOMAIN t : t[e] \in EntryRows
           /\ \A K \in SUBSET Exhibition!EntryIDs(l) : [K -> EntryRows] \subseteq Tables(l)
           /\ l \in ListOrNone => Tables(l) \subseteq AnyTable
BY DEF Tables, AnyTable, ListOrNone

LEMMA NoEntriesFit == ASSUME NEW l PROVE Exhibition!NoEntries \in Tables(l)
<1>1. <<>> \in [{} -> EntryRows]
  OBVIOUS
<1> QED
  BY <1>1 DEF Tables, Exhibition!NoEntries

\* An entry is put into a table, or taken out.
LEMMA PutFits ==
    ASSUME NEW l, NEW t \in Tables(l), NEW e \in Exhibition!EntryIDs(l), NEW x \in EntryRows
    PROVE  Exhibition!Put(t, e, x) \in Tables(l)
<1>1. Exhibition!Put(t, e, x) \in [DOMAIN t \cup {e} -> EntryRows]
  BY TablesAre DEF Exhibition!Put
<1> QED
  BY <1>1, TablesAre

LEMMA RestrictFits ==
    ASSUME NEW l, NEW t \in Tables(l), NEW S
    PROVE  Exhibition!Restrict(t, DOMAIN t \ S) \in Tables(l)
<1>1. Exhibition!Restrict(t, DOMAIN t \ S) \in [DOMAIN t \ S -> EntryRows]
  BY TablesAre DEF Exhibition!Restrict
<1> QED
  BY <1>1, TablesAre

\* Days are normalized once.
LEMMA ScopesNormal ==
    /\ \A s : Exhibition!NormalizeDayScopeSelection(s) \in Scopes
    /\ \A s \in Scopes : /\ Exhibition!SelectedDayScopes(s) = s
                         /\ Exhibition!NormalizeDayScopeSelection(s) = s
    /\ \A s, d : Exhibition!ToggleDayScope(s, d) \in Scopes
<1>1. \A s : Exhibition!NormalizeDayScopeSelection(s) \in Scopes
  BY DEF Exhibition!NormalizeDayScopeSelection, Scopes
<1>2. \A s \in Scopes : /\ Exhibition!SelectedDayScopes(s) = s
                        /\ Exhibition!NormalizeDayScopeSelection(s) = s
  BY ExhibitionAssumptions
     DEF Exhibition!NormalizeDayScopeSelection, Scopes, Exhibition!SelectedDayScopes,
         Exhibition!ConstantsFit
<1>3. \A s, d : Exhibition!ToggleDayScope(s, d) \in Scopes
  BY <1>1 DEF Exhibition!ToggleDayScope, Scopes
<1> QED
  BY <1>1, <1>2, <1>3

LEMMA DefaultsFit ==
    ASSUME NEW key
    PROVE  Exhibition!DefaultFunction(key) \in Items
BY DEF Exhibition!DefaultFunction, Items

\* The form of an entry, and the entry a form is saved as.
LEMMA FormFits ==
    /\ Exhibition!EmptyForm \in FormRows
    /\ \A x \in EntryRows : Exhibition!FormOf(x) \in FormRows
    /\ \A f \in FormRows : Exhibition!Payload(f) \in EntryRows
<1>1. Exhibition!EmptyForm \in FormRows
  <2>1. Exhibition!EmptyFunctions \in [Exhibition!FunctionKeys -> Items]
    BY DefaultsFit DEF Exhibition!EmptyFunctions
  <2> QED
    BY <2>1 DEF Exhibition!EmptyForm, FormRows, AnyAddress, Scopes
<1>2. ASSUME NEW x \in EntryRows PROVE Exhibition!FormOf(x) \in FormRows
  <2>1. PICK K \in SUBSET Exhibition!FunctionKeys : x.functions \in [K -> Items]
    BY DEF EntryRows
  <2>2. Exhibition!ParseFunctions(x.functions) \in [Exhibition!FunctionKeys -> Items]
    BY <2>1, DefaultsFit DEF Exhibition!ParseFunctions
  <2> QED
    BY <2>2 DEF Exhibition!FormOf, FormRows, EntryRows
<1>3. ASSUME NEW f \in FormRows PROVE Exhibition!Payload(f) \in EntryRows
  <2> DEFINE K == {key \in DOMAIN f.functions : Exhibition!IsConfiguredFunction(key, f.functions[key])}
  <2>1. K \in SUBSET Exhibition!FunctionKeys
    BY DEF FormRows
  <2>2. Exhibition!SerializeFunctions(f.functions) = [key \in K |-> f.functions[key]]
    BY DEF Exhibition!SerializeFunctions, Exhibition!Restrict
  <2> HIDE DEF K
  <2>3. Exhibition!SerializeFunctions(f.functions) \in [K -> Items]
    BY <2>1, <2>2 DEF FormRows
  <2> QED
    BY <2>1, <2>3, ScopesNormal DEF Exhibition!Payload, FormRows, EntryRows
<1> QED
  BY <1>1, <1>2, <1>3

\* What is not configured is the default, but for the light.
LEMMA FormReopens ==
    ASSUME NEW f \in FormRows, Exhibition!IsConfiguredFunction("F0", f.functions["F0"])
    PROVE  Exhibition!FormOf(Exhibition!Payload(f)) = f
<1> DEFINE K == {key \in DOMAIN f.functions : Exhibition!IsConfiguredFunction(key, f.functions[key])}
<1>1. f.functions \in [Exhibition!FunctionKeys -> Items]
  BY DEF FormRows
<1>2. Exhibition!SerializeFunctions(f.functions) = [key \in K |-> f.functions[key]]
  BY DEF Exhibition!SerializeFunctions, Exhibition!Restrict
<1>3. ASSUME NEW key \in Exhibition!FunctionKeys, key \notin K
      PROVE  Exhibition!DefaultFunction(key) = f.functions[key]
  <2>1. key = "F1"
    BY <1>1, <1>3 DEF Exhibition!FunctionKeys
  <2>2. Exhibition!DefaultFunction(key) = [name |-> "", type |-> "standard", symbol |-> ""]
    BY <2>1 DEF Exhibition!DefaultFunction
  <2>3. ~Exhibition!IsConfiguredFunction(key, f.functions[key]) /\ f.functions[key] \in Items
    BY <1>1, <1>3
  <2>4. Exhibition!DefaultFunction(key).type = "standard"
    BY <2>1 DEF Exhibition!DefaultFunction
  <2>5. f.functions[key].name = "" /\ f.functions[key].symbol = ""
        /\ f.functions[key].type = "standard"
    BY <2>3, <2>4 DEF Exhibition!IsConfiguredFunction
  <2> QED
    BY <2>2, <2>3, <2>5 DEF Items
<1> HIDE DEF K
<1>4. Exhibition!ParseFunctions([key \in K |-> f.functions[key]]) = f.functions
  BY <1>1, <1>3 DEF Exhibition!ParseFunctions
<1>5. Exhibition!NormalizeDayScopeSelection(Exhibition!SelectedDayScopes(f.days)) = f.days
  BY ScopesNormal DEF FormRows
<1> QED
  BY <1>2, <1>4, <1>5 DEF Exhibition!FormOf, Exhibition!Payload, FormRows

----------------------------------------------------------------------------
(* Steps of the user, who waited for every answer as long as all is calm.  *)

AtRest ==
    /\ awaited = {}
    /\ view.entries \in Tables(view.selected) /\ DialogsBelong
    /\ ~others => view.entries = EntriesOf(view.selected) /\ AddressesDiffer

LEMMA TurnAtRest ==
    ASSUME ExhibitionCalm, Exhibition!Turn, Calm'
    PROVE  Calm /\ others' = others /\ AtRest
<1>1. Calm /\ others' = others /\ awaited = {}
  BY DEF Exhibition!Turn, Calm
<1> QED
  BY <1>1 DEF ExhibitionCalm, Agree, ShownBelong, ShownAsStored, AtRest

LEMMA TypesGive ==
    ASSUME ExhibitionTypes
    PROVE  /\ view.selected \in ListOrNone /\ view.entries \in AnyTable /\ view.lists \in LockTables
           /\ dialogs.form \in FormRows /\ dialogs.view \in ListDialogs /\ dialogs.print \in ListDialogs
           /\ dialogs.entry \in AnyEntry /\ dialogs.list \in ListOrNone \cup {Exhibition!New}
           /\ \A l \in DOMAIN stored : stored[l].entries \in Tables(l) /\ stored[l].locked \in BOOLEAN
           /\ \A l : EntriesOf(l) \in Tables(l)
BY NoEntriesFit DEF ExhibitionTypes, ViewOK, DialogsOK, StoredOK, EntriesOf

LEMMA Tabled ==
    /\ \A t \in AnyTable : \A e \in DOMAIN t : t[e] \in EntryRows /\ e \in AnyEntry
    /\ Exhibition!NoEntries \in AnyTable
<1>1. Exhibition!NoEntries \in AnyTable
  BY NoEntriesFit, TablesAre DEF ListOrNone
<1> QED
  BY <1>1, TablesAre DEF AnyTable, AnyEntry, ListedEntries

LEMMA NoEntryFits ==
    /\ Exhibition!NoEntry \in AnyEntry /\ Exhibition!NewEntry \in AnyEntry
    /\ Exhibition!None \in ListOrNone \cup {Exhibition!New}
BY Zenon DEF AnyEntry, ListOrNone

\* What the server answers.
LEMMA ReplyFits ==
    ASSUME ExhibitionTypes, NEW do \in Loads, NEW l \in Lists
    PROVE  /\ Exhibition!EntriesReply(do, l).do = do
           /\ Exhibition!EntriesReply(do, l).list = l
           /\ Exhibition!EntriesReply(do, l).content = EntriesOf(l)
           /\ ReplyOK(Exhibition!EntriesReply(do, l))
<1>1. EntriesOf(l) \in Tables(l)
  BY TypesGive
<1>2. /\ Exhibition!EntriesReply(do, l).do = do
      /\ Exhibition!EntriesReply(do, l).list = l
      /\ Exhibition!EntriesReply(do, l).content = EntriesOf(l)
  BY DEF Exhibition!EntriesReply, Exhibition!Reply, EntriesOf
<1> QED
  BY <1>1, <1>2 DEF ReplyOK, Loads

LEMMA ListsReplyFits ==
    ASSUME ExhibitionTypes
    PROVE  Exhibition!ListsReply.do = "lists" /\ ReplyOK(Exhibition!ListsReply)
<1>1. Exhibition!LockOf \in [DOMAIN stored -> BOOLEAN]
  BY TypesGive DEF Exhibition!LockOf
<1>2. Exhibition!ListsReply.do = "lists" /\ Exhibition!ListsReply.content \in LockTables
  BY <1>1 DEF Exhibition!ListsReply, Exhibition!Reply, LockTables, ExhibitionTypes, StoredOK
<1> QED
  BY <1>2 DEF ReplyOK, Loads

LEMMA DoneFits ==
    ASSUME NEW do \in {"list", "saved", "deleted", "refused"}, NEW l \in Lists
    PROVE  /\ Exhibition!Done(do, l).do = do /\ Exhibition!Done(do, l).list = l
           /\ ReplyOK(Exhibition!Done(do, l))
<1>1. Exhibition!Done(do, l).do = do /\ Exhibition!Done(do, l).list = l
  BY DEF Exhibition!Done, Exhibition!Reply
<1> QED
  BY <1>1 DEF ReplyOK, Loads, Writes

LEMMA ContentFits ==
    ASSUME NEW do \in {"deleted list", "lock"}, NEW l \in Lists, NEW content \in [{l} -> BOOLEAN]
    PROVE  /\ Exhibition!Reply(do, l, content).do = do /\ Exhibition!Reply(do, l, content).list = l
           /\ Exhibition!Reply(do, l, content).content = content
           /\ ReplyOK(Exhibition!Reply(do, l, content))
BY DEF Exhibition!Reply, ReplyOK, Loads, Writes

\* The user opens, fills in or closes a dialog.
LEMMA DialogTurn ==
    ASSUME ExhibitionTypes, ExhibitionCalm, Exhibition!Turn, UNCHANGED <<stored, view, awaited>>,
           DialogsOK', AtRest => DialogsBelong'
    PROVE  ExhibitionTypes' /\ ExhibitionCalm'
<1>1. ExhibitionTypes'
  BY DEF ExhibitionTypes, StoredOK, ViewOK, AwaitedOK
<1>2. ASSUME Calm' PROVE Agree'
  <2>1. AtRest /\ others' = others
    BY <1>2, TurnAtRest
  <2> QED
    BY <2>1 DEF Agree, AtRest, InOrder, ShownBelong, ShownAsStored, AddressesDiffer, EntriesOf
<1> QED
  BY <1>1, <1>2 DEF ExhibitionCalm

LEMMA ListDialogKeeps ==
    ASSUME ExhibitionTypes, ExhibitionCalm, NEW l \in Lists \cup {Exhibition!New},
           Exhibition!OpenListDialog(l)
    PROVE  ExhibitionTypes' /\ ExhibitionCalm'
<1>1. dialogs' = [dialogs EXCEPT !.list = l] /\ UNCHANGED <<stored, view, awaited>> /\ Exhibition!Turn
  BY DEF Exhibition!OpenListDialog
<1>2. DialogsOK'
  BY <1>1 DEF ExhibitionTypes, DialogsOK, ListOrNone
<1>3. AtRest => DialogsBelong'
  BY <1>1 DEF ExhibitionTypes, DialogsOK, AtRest, DialogsBelong
<1> QED
  BY <1>1, <1>2, <1>3, DialogTurn

LEMMA CloseDialogKeeps ==
    ASSUME ExhibitionTypes, ExhibitionCalm, NEW kind \in {"list", "entry", "view", "print"},
           Exhibition!CloseDialog(kind)
    PROVE  ExhibitionTypes' /\ ExhibitionCalm'
<1>1. /\ dialogs' = [dialogs EXCEPT ![kind] = Exhibition!Closed[kind]]
      /\ UNCHANGED <<stored, view, awaited>> /\ Exhibition!Turn
  BY DEF Exhibition!CloseDialog
<1>2. Exhibition!NoList \in ListDialogs /\ Exhibition!NoList.entries \in Tables(Exhibition!NoList.list)
  BY NoEntriesFit, Tabled DEF Exhibition!NoList, ListDialogs, ListOrNone
<1>3. /\ Exhibition!Closed["list"] = Exhibition!None /\ Exhibition!Closed["entry"] = Exhibition!NoEntry
      /\ Exhibition!Closed["view"] = Exhibition!NoList /\ Exhibition!Closed["print"] = Exhibition!NoList
  BY DEF Exhibition!Closed
<1>4. DialogsOK'
  <2>1. /\ Exhibition!None \in ListOrNone \cup {Exhibition!New}
        /\ Exhibition!NoEntry \in AnyEntry
    BY NoEntryFits
  <2>2. CASE kind = "list"
    BY <1>1, <1>3, <2>1, <2>2 DEF ExhibitionTypes, DialogsOK
  <2>3. CASE kind = "entry"
    BY <1>1, <1>3, <2>1, <2>3 DEF ExhibitionTypes, DialogsOK
  <2>4. CASE kind = "view"
    BY <1>1, <1>2, <1>3, <2>4 DEF ExhibitionTypes, DialogsOK
  <2>5. CASE kind = "print"
    BY <1>1, <1>2, <1>3, <2>5 DEF ExhibitionTypes, DialogsOK
  <2> QED
    BY <2>2, <2>3, <2>4, <2>5
<1>5. AtRest => DialogsBelong'
  BY <1>1, <1>2, <1>3 DEF ExhibitionTypes, DialogsOK, AtRest, DialogsBelong
<1> QED
  BY <1>1, <1>4, <1>5, DialogTurn

LEMMA OpenPrintDialogKeeps ==
    ASSUME ExhibitionTypes, ExhibitionCalm, Exhibition!OpenPrintDialog
    PROVE  ExhibitionTypes' /\ ExhibitionCalm'
<1>1. UNCHANGED <<stored, view, awaited>> /\ Exhibition!Turn
  BY DEF Exhibition!OpenPrintDialog
<1>2. PICK d : /\ dialogs' = [dialogs EXCEPT !.print = d]
               /\ d \in {[list |-> view.selected, entries |-> view.entries], dialogs.view}
  BY DEF Exhibition!OpenPrintDialog, Exhibition!Opened
<1>3. d \in ListDialogs
  BY <1>2, TypesGive DEF ListDialogs
<1>4. DialogsOK'
  BY <1>2, <1>3 DEF ExhibitionTypes, DialogsOK
<1>5. AtRest => DialogsBelong'
  <2>1. AtRest => d.entries \in Tables(d.list)
    BY <1>2 DEF AtRest, DialogsBelong
  <2>2. dialogs'.print = d /\ dialogs'.view = dialogs.view
    BY <1>2 DEF ExhibitionTypes, DialogsOK
  <2> QED
    BY <2>1, <2>2 DEF AtRest, DialogsBelong
<1> QED
  BY <1>1, <1>4, <1>5, DialogTurn

LEMMA OpenEntryDialogKeeps ==
    ASSUME ExhibitionTypes, ExhibitionCalm, NEW e, Exhibition!OpenEntryDialog(e)
    PROVE  ExhibitionTypes' /\ ExhibitionCalm'
<1> DEFINE f == IF e = Exhibition!NewEntry THEN Exhibition!EmptyForm
                ELSE Exhibition!FormOf(view.entries[e])
<1>1. /\ UNCHANGED <<stored, view, awaited>> /\ Exhibition!Turn
      /\ dialogs' = [dialogs EXCEPT !.entry = e, !.form = f]
      /\ e \in DOMAIN view.entries \cup {Exhibition!NewEntry}
  BY DEF Exhibition!OpenEntryDialog
<1>2. f \in FormRows /\ e \in AnyEntry
  <2>1. CASE e = Exhibition!NewEntry
    BY <2>1, FormFits, NoEntryFits
  <2>2. CASE e # Exhibition!NewEntry
    <3>1. e \in DOMAIN view.entries /\ f = Exhibition!FormOf(view.entries[e])
      BY <1>1, <2>2
    <3>2. view.entries[e] \in EntryRows /\ e \in AnyEntry
      BY <3>1, TypesGive, Tabled
    <3> QED
      BY <3>1, <3>2, FormFits
  <2> QED
    BY <2>1, <2>2
<1> HIDE DEF f
<1>3. DialogsOK'
  BY <1>1, <1>2 DEF ExhibitionTypes, DialogsOK
<1>4. AtRest => DialogsBelong'
  BY <1>1 DEF ExhibitionTypes, DialogsOK, AtRest, DialogsBelong
<1> QED
  BY <1>1, <1>3, <1>4, DialogTurn

LEMMA EditKeeps ==
    ASSUME ExhibitionTypes, ExhibitionCalm,
           \/ Exhibition!EditAddress \/ Exhibition!EditDays
           \/ \E key \in Exhibition!FunctionKeys : Exhibition!UpdateEntryFunction(key)
    PROVE  ExhibitionTypes' /\ ExhibitionCalm'
<1>1. dialogs.form \in FormRows
  BY TypesGive
<1>2. PICK f \in FormRows : Exhibition!Edit(f)
  <2>1. CASE Exhibition!EditAddress
    BY <1>1, <2>1 DEF Exhibition!EditAddress, FormRows, AnyAddress
  <2>2. CASE Exhibition!EditDays
    BY <1>1, <2>2, ScopesNormal DEF Exhibition!EditDays, FormRows
  <2>3. ASSUME NEW key \in Exhibition!FunctionKeys, Exhibition!UpdateEntryFunction(key)
        PROVE  \E f \in FormRows : Exhibition!Edit(f)
    <3>1. dialogs.form.functions \in [Exhibition!FunctionKeys -> Items]
      BY <1>1 DEF FormRows
    <3>2. PICK item \in Items : Exhibition!Edit([dialogs.form EXCEPT !.functions[key] = item])
      <4>1. dialogs.form.functions[key] \in Items
        BY <3>1
      <4>2. \A name \in {"", "Horn"} : [dialogs.form.functions[key] EXCEPT !.name = name] \in Items
        BY <4>1 DEF Items
      <4>3. \A type \in {"standard", "licht"} : [dialogs.form.functions[key] EXCEPT !.type = type] \in Items
        BY <4>1 DEF Items
      <4>4. \A symbol \in {"", "light"} : [dialogs.form.functions[key] EXCEPT !.symbol = symbol] \in Items
        BY <4>1 DEF Items
      <4> QED
        BY <2>3, <4>2, <4>3, <4>4 DEF Exhibition!UpdateEntryFunction
    <3>3. [dialogs.form EXCEPT !.functions[key] = item] \in FormRows
      BY <1>1, <3>1 DEF FormRows
    <3> QED
      BY <3>2, <3>3
  <2> QED
    BY <2>1, <2>2, <2>3
<1>3. /\ UNCHANGED <<stored, view, awaited>> /\ Exhibition!Turn
      /\ dialogs' = [dialogs EXCEPT !.form = f]
  BY <1>2 DEF Exhibition!Edit
<1>4. DialogsOK'
  BY <1>3 DEF ExhibitionTypes, DialogsOK
<1>5. AtRest => DialogsBelong'
  BY <1>3 DEF ExhibitionTypes, DialogsOK, AtRest, DialogsBelong
<1> QED
  BY <1>3, <1>4, <1>5, DialogTurn

LEMMA NoneIsNoList == Exhibition!None \notin Lists /\ Exhibition!New \notin Lists
BY ExhibitionAssumptions DEF Exhibition!ConstantsFit

\* A list is selected, or its entries are asked for: nothing is changed at the server.
LEMMA AskKeeps ==
    ASSUME ExhibitionTypes, ExhibitionCalm, Exhibition!Turn, UNCHANGED <<stored, dialogs>>,
           NEW l \in Lists, NEW asks, ViewOK',
           awaited' = awaited \cup asks,
           \A reply \in asks : /\ ReplyOK(reply) /\ reply.do \in Loads
                               /\ reply.list = l /\ reply.content = EntriesOf(l)
                               /\ Brings(reply) => view'.selected = l,
           \/ view' = view
           \/ view'.selected = l /\ \E reply \in asks : Brings(reply)
    PROVE  ExhibitionTypes' /\ ExhibitionCalm'
<1>1. ExhibitionTypes'
  BY DEF ExhibitionTypes, StoredOK, DialogsOK, AwaitedOK
<1>2. ASSUME Calm' PROVE Agree'
  <2>1. AtRest /\ others' = others /\ awaited' = asks
    BY <1>2, TurnAtRest DEF AtRest
  <2>2. InOrder'
    BY <2>1 DEF InOrder, Brings, Loads, Writes
  <2>3. \A k : EntriesOf(k)' = EntriesOf(k)
    BY DEF EntriesOf
  <2>4. ShownBelong' /\ DialogsBelong'
    BY <2>1 DEF ShownBelong, DialogsBelong, AtRest, Brings
  <2>5. ~others' => ShownAsStored'
    BY <2>1, <2>3 DEF ShownAsStored, AtRest, Brings, EntriesOf
  <2>6. ~others' => AddressesDiffer'
    BY <2>1 DEF AddressesDiffer, AtRest
  <2> QED
    BY <2>2, <2>4, <2>5, <2>6 DEF Agree
<1> QED
  BY <1>1, <1>2 DEF ExhibitionCalm

LEMMA SelectKeeps ==
    ASSUME ExhibitionTypes, ExhibitionCalm, Exhibition!Turn, UNCHANGED <<stored, dialogs>>,
           NEW l \in Lists, NEW asks, l # view.selected,
           view' = [view EXCEPT !.selected = l, !.entries = view.entries],
           awaited' = (awaited \cup asks) \cup {Exhibition!EntriesReply("entries", l)},
           \A reply \in asks : /\ ReplyOK(reply) /\ reply.do \in Loads
                               /\ reply.list = l /\ reply.content = EntriesOf(l)
    PROVE  ExhibitionTypes' /\ ExhibitionCalm'
<1> DEFINE more == asks \cup {Exhibition!EntriesReply("entries", l)}
<1>1. awaited' = awaited \cup more
  OBVIOUS
<1>2. ViewOK' /\ view'.selected = l
  BY DEF ExhibitionTypes, ViewOK, ListOrNone
<1>3. LET r == Exhibition!EntriesReply("entries", l)
      IN  ReplyOK(r) /\ r.do = "entries" /\ r.list = l /\ r.content = EntriesOf(l)
  BY ReplyFits DEF Loads
<1>4. Brings(Exhibition!EntriesReply("entries", l))
  BY <1>3 DEF Brings
<1>5. \A reply \in more : /\ ReplyOK(reply) /\ reply.do \in Loads
                          /\ reply.list = l /\ reply.content = EntriesOf(l)
  BY <1>3 DEF Loads
<1>6. \E reply \in more : Brings(reply)
  BY <1>4
<1> HIDE DEF more
<1> QED
  BY <1>1, <1>2, <1>5, <1>6, AskKeeps

LEMMA SelectListKeeps ==
    ASSUME ExhibitionTypes, ExhibitionCalm, NEW l \in Lists, Exhibition!SelectList(l)
    PROVE  ExhibitionTypes' /\ ExhibitionCalm'
<1>1. Exhibition!Turn /\ UNCHANGED <<stored, dialogs>> /\ Exhibition!Select(l, awaited)
  BY DEF Exhibition!SelectList
<1>2. CASE l = view.selected
  <2>1. UNCHANGED <<stored, view, awaited, dialogs>>
    BY <1>1, <1>2 DEF Exhibition!Select
  <2>2. DialogsOK' /\ (AtRest => DialogsBelong')
    BY <2>1 DEF ExhibitionTypes, DialogsOK, AtRest, DialogsBelong
  <2> QED
    BY <1>1, <2>1, <2>2, DialogTurn
<1>3. CASE l # view.selected
  <2> DEFINE asks == {}
  <2>1. /\ view' = [view EXCEPT !.selected = l, !.entries = view.entries]
        /\ awaited' = (awaited \cup asks) \cup {Exhibition!EntriesReply("entries", l)}
    BY <1>1, <1>3, NoneIsNoList DEF Exhibition!Select
  <2>2. \A reply \in asks : /\ ReplyOK(reply) /\ reply.do \in Loads
                            /\ reply.list = l /\ reply.content = EntriesOf(l)
    OBVIOUS
  <2> HIDE DEF asks
  <2> QED
    BY <1>1, <1>3, <2>1, <2>2, SelectKeeps
<1> QED
  BY <1>2, <1>3

\* The entries shown are opened in the view or the print.
LEMMA OpenedKeeps ==
    ASSUME ExhibitionTypes, ExhibitionCalm, Exhibition!Turn, UNCHANGED <<stored, view, awaited>>,
           NEW kind \in {"view", "print"},
           dialogs' = [dialogs EXCEPT ![kind] = [list |-> view.selected, entries |-> view.entries]]
    PROVE  ExhibitionTypes' /\ ExhibitionCalm'
<1> DEFINE d == [list |-> view.selected, entries |-> view.entries]
<1>1. d \in ListDialogs /\ d.list = view.selected /\ d.entries = view.entries
  BY TypesGive DEF ListDialogs
<1>2. dialogs' = [dialogs EXCEPT ![kind] = d]
  OBVIOUS
<1> HIDE DEF d
<1>3. DialogsOK'
  BY <1>1, <1>2 DEF ExhibitionTypes, DialogsOK
<1>4. AtRest => DialogsBelong'
  BY <1>1, <1>2 DEF ExhibitionTypes, DialogsOK, AtRest, DialogsBelong
<1> QED
  BY <1>3, <1>4, DialogTurn

LEMMA PrintListByIDKeeps ==
    ASSUME ExhibitionTypes, ExhibitionCalm, NEW l \in Lists, Exhibition!PrintListByID(l)
    PROVE  ExhibitionTypes' /\ ExhibitionCalm'
<1>1. Exhibition!Turn /\ UNCHANGED <<stored, view>> /\ Exhibition!EntriesForList("print", l)
  BY DEF Exhibition!PrintListByID
<1>2. CASE l = view.selected
  <2>1. /\ dialogs' = [dialogs EXCEPT !["print"] = [list |-> view.selected, entries |-> view.entries]]
        /\ UNCHANGED <<stored, view, awaited>>
    BY <1>1, <1>2 DEF Exhibition!EntriesForList, Exhibition!Opened, Exhibition!PrintListByID
  <2> QED
    BY <1>1, <2>1, OpenedKeeps
<1>3. CASE l # view.selected
  <2> DEFINE r == Exhibition!EntriesReply("print", l)
  <2>1. ReplyOK(r) /\ r.do = "print" /\ r.list = l /\ r.content = EntriesOf(l)
    BY ReplyFits DEF Loads
  <2>2. awaited' = awaited \cup {r} /\ UNCHANGED dialogs
    BY <1>1, <1>3 DEF Exhibition!EntriesForList
  <2>3. ~Brings(r) /\ r.do \in Loads
    BY <2>1 DEF Brings, Loads
  <2>4. ViewOK'
    BY <1>1 DEF ExhibitionTypes, ViewOK
  <2> DEFINE asks == {r}
  <2>5. awaited' = awaited \cup asks /\ view' = view
    BY <1>1, <2>2
  <2>6. \A reply \in asks : /\ ReplyOK(reply) /\ reply.do \in Loads
                            /\ reply.list = l /\ reply.content = EntriesOf(l)
                            /\ Brings(reply) => view'.selected = l
    BY <2>1, <2>3
  <2> HIDE DEF asks, r
  <2> QED
    BY <1>1, <2>2, <2>4, <2>5, <2>6, AskKeeps
<1> QED
  BY <1>2, <1>3

LEMMA OpenListViewKeeps ==
    ASSUME ExhibitionTypes, ExhibitionCalm, NEW l \in Lists, Exhibition!OpenListView(l)
    PROVE  ExhibitionTypes' /\ ExhibitionCalm'
<1>1. Exhibition!Turn /\ UNCHANGED stored
  BY DEF Exhibition!OpenListView
<1>2. CASE l = view.selected
  <2>1. /\ dialogs' = [dialogs EXCEPT !["view"] = [list |-> view.selected, entries |-> view.entries]]
        /\ UNCHANGED <<stored, view, awaited>>
    BY <1>1, <1>2 DEF Exhibition!OpenListView, Exhibition!EntriesForList, Exhibition!Opened
  <2> QED
    BY <1>1, <2>1, OpenedKeeps
<1>3. CASE l # view.selected
  <2> DEFINE r == Exhibition!EntriesReply("view", l)
  <2>1. ReplyOK(r) /\ r.do \in Loads /\ r.list = l /\ r.content = EntriesOf(l)
    BY ReplyFits DEF Loads
  <2>2. /\ view' = [view EXCEPT !.selected = l, !.entries = view.entries]
        /\ awaited' = (awaited \cup {r}) \cup {Exhibition!EntriesReply("entries", l)}
        /\ UNCHANGED dialogs
    BY <1>3, NoneIsNoList DEF Exhibition!OpenListView, Exhibition!Select
  <2> DEFINE asks == {r}
  <2>3. /\ awaited' = (awaited \cup asks) \cup {Exhibition!EntriesReply("entries", l)}
        /\ \A reply \in asks : /\ ReplyOK(reply) /\ reply.do \in Loads
                               /\ reply.list = l /\ reply.content = EntriesOf(l)
    BY <2>1, <2>2
  <2> HIDE DEF asks, r
  <2> QED
    BY <1>1, <1>3, <2>2, <2>3, SelectKeeps
<1> QED
  BY <1>2, <1>3

----------------------------------------------------------------------------
(* What the user changes.                                                  *)

LEMMA WriteKeeps ==
    ASSUME ExhibitionTypes, ExhibitionCalm, Exhibition!Turn, UNCHANGED dialogs, StoredOK', ViewOK',
           view'.selected = view.selected, view'.entries = view.entries,
           NEW reply, awaited' = awaited \cup {reply}, ReplyOK(reply), reply.do \in Writes,
           Brings(reply) => reply.list = view.selected,
           ~Brings(reply) => \A l : l = view.selected => EntriesOf(l)' = EntriesOf(l),
           AtRest /\ ~others => AddressesDiffer'
    PROVE  ExhibitionTypes' /\ ExhibitionCalm'
<1>1. ExhibitionTypes'
  BY DEF ExhibitionTypes, DialogsOK, AwaitedOK
<1>2. ASSUME Calm' PROVE Agree'
  <2>1. AtRest /\ others' = others /\ awaited' = {reply}
    BY <1>2, TurnAtRest DEF AtRest
  <2>2. InOrder'
    BY <2>1 DEF InOrder, Brings
  <2>3. ShownBelong' /\ DialogsBelong'
    BY <2>1 DEF ShownBelong, DialogsBelong, AtRest
  <2>4. ASSUME ~others' PROVE ShownAsStored'
    <3>1. reply.do \notin Loads
      BY DEF Loads, Writes
    <3>2. ASSUME ~Brings(reply) PROVE view'.entries = EntriesOf(view.selected)'
      <4>1. PICK l : l = view.selected
        OBVIOUS
      <4>2. EntriesOf(l)' = EntriesOf(l) /\ view.entries = EntriesOf(l)
        BY <2>1, <2>4, <3>2, <4>1 DEF AtRest
      <4> QED
        BY <4>1, <4>2 DEF EntriesOf
    <3> QED
      BY <2>1, <3>1, <3>2 DEF ShownAsStored, Brings
  <2> QED
    BY <2>1, <2>2, <2>3, <2>4 DEF Agree
<1> QED
  BY <1>1, <1>2 DEF ExhibitionCalm

LEMMA SaveListKeeps ==
    ASSUME ExhibitionTypes, ExhibitionCalm, Exhibition!SaveList
    PROVE  ExhibitionTypes' /\ ExhibitionCalm'
<1>1. /\ Exhibition!Turn /\ UNCHANGED dialogs /\ dialogs.list # Exhibition!None
      /\ view' = [view EXCEPT !.saving = TRUE]
  BY DEF Exhibition!SaveList
<1>2. ViewOK' /\ view'.selected = view.selected /\ view'.entries = view.entries
  BY <1>1 DEF ExhibitionTypes, ViewOK
<1>3. CASE dialogs.list = Exhibition!New
  <2> DEFINE row == [locked |-> FALSE, entries |-> Exhibition!NoEntries]
  <2>1. PICK l \in Lists \ DOMAIN stored :
          /\ stored' = Exhibition!Put(stored, l, row)
          /\ awaited' = awaited \cup {Exhibition!Done("list", l)}
    BY <1>3 DEF Exhibition!SaveList
  <2>2. row \in [locked : BOOLEAN, entries : Tables(l)] /\ row.entries = Exhibition!NoEntries
    BY NoEntriesFit
  <2> HIDE DEF row
  <2>3. /\ DOMAIN stored' = DOMAIN stored \cup {l} /\ stored'[l] = row
        /\ \A k \in DOMAIN stored : stored'[k] = stored[k]
    BY <2>1 DEF Exhibition!Put
  <2>4. StoredOK'
    BY <2>2, <2>3 DEF ExhibitionTypes, StoredOK
  <2>5. \A k : EntriesOf(k)' = EntriesOf(k)
    BY <2>2, <2>3 DEF EntriesOf
  <2>6. AtRest /\ ~others => AddressesDiffer'
    BY <2>2, <2>3 DEF AtRest, AddressesDiffer, NoneTwice, Exhibition!NoEntries
  <2> DEFINE reply == Exhibition!Done("list", l)
  <2>7. ReplyOK(reply) /\ reply.do \in Writes /\ ~Brings(reply)
    BY DoneFits DEF Writes, Brings
  <2>8. awaited' = awaited \cup {reply}
    BY <2>1
  <2> HIDE DEF reply
  <2> QED
    BY <1>1, <1>2, <2>4, <2>5, <2>6, <2>7, <2>8, WriteKeeps
<1>4. CASE dialogs.list # Exhibition!New
  <2>1. dialogs.list \in Lists
    BY <1>1, <1>4, TypesGive DEF ListOrNone
  <2>2. PICK do \in {"list", "refused"} : awaited' = awaited \cup {Exhibition!Done(do, dialogs.list)}
    BY <1>4 DEF Exhibition!SaveList
  <2> DEFINE reply == Exhibition!Done(do, dialogs.list)
  <2>3. ReplyOK(reply) /\ reply.do \in Writes /\ ~Brings(reply)
    <3>1. ReplyOK(reply) /\ reply.do = do
      BY <2>1, <2>2, DoneFits
    <3> QED
      BY <3>1 DEF Writes, Brings
  <2>4. awaited' = awaited \cup {reply}
    BY <2>2
  <2> HIDE DEF reply
  <2>5. stored' = stored
    BY <1>4 DEF Exhibition!SaveList
  <2>6. /\ StoredOK' /\ \A k : EntriesOf(k)' = EntriesOf(k)
        /\ AtRest /\ ~others => AddressesDiffer'
    BY <2>5 DEF ExhibitionTypes, StoredOK, EntriesOf, AtRest, AddressesDiffer
  <2> QED
    BY <1>1, <1>2, <2>3, <2>4, <2>6, WriteKeeps
<1> QED
  BY <1>3, <1>4

LEMMA DeleteListKeeps ==
    ASSUME ExhibitionTypes, ExhibitionCalm, NEW l \in Lists, Exhibition!DeleteList(l)
    PROVE  ExhibitionTypes' /\ ExhibitionCalm'
<1> DEFINE content == [x \in {l} |-> x = view.selected]
           reply == Exhibition!Reply("deleted list", l, content)
<1>1. /\ Exhibition!Turn /\ UNCHANGED <<view, dialogs>> /\ awaited' = awaited \cup {reply}
      /\ stored' = Exhibition!Restrict(stored, DOMAIN stored \ {l})
  BY DEF Exhibition!DeleteList
<1>2. content \in [{l} -> BOOLEAN] /\ (content[l] <=> l = view.selected)
  OBVIOUS
<1> HIDE DEF content
<1>3. ReplyOK(reply) /\ reply.do = "deleted list" /\ reply.list = l /\ reply.content = content
  BY <1>2 DEF Exhibition!Reply, ReplyOK, Loads, Writes
<1> HIDE DEF reply
<1>4. /\ DOMAIN stored' = DOMAIN stored \ {l}
      /\ \A k \in DOMAIN stored' : stored'[k] = stored[k]
  BY <1>1 DEF Exhibition!Restrict
<1>5. StoredOK' /\ ViewOK'
  BY <1>1, <1>4 DEF ExhibitionTypes, StoredOK, ViewOK
<1>6. Brings(reply) <=> l = view.selected
  BY <1>2, <1>3 DEF Brings
<1>7. ~Brings(reply) => \A k : k = view.selected => EntriesOf(k)' = EntriesOf(k)
  BY <1>4, <1>6 DEF EntriesOf
<1>8. AtRest /\ ~others => AddressesDiffer'
  BY <1>4 DEF AtRest, AddressesDiffer
<1>9. reply.do \in Writes
  BY <1>3 DEF Writes
<1> QED
  BY <1>1, <1>3, <1>5, <1>6, <1>7, <1>8, <1>9, WriteKeeps

LEMMA ToggleLockKeeps ==
    ASSUME ExhibitionTypes, ExhibitionCalm, NEW l \in Lists, Exhibition!ToggleLock(l)
    PROVE  ExhibitionTypes' /\ ExhibitionCalm'
<1> DEFINE content == [x \in {l} |-> ~view.lists[x]]
           reply == Exhibition!Reply("lock", l, content)
<1>1. /\ Exhibition!Turn /\ UNCHANGED <<view, dialogs>> /\ awaited' = awaited \cup {reply}
      /\ stored' = [stored EXCEPT ![l].locked = ~view.lists[l]] /\ l \in DOMAIN stored
  BY DEF Exhibition!ToggleLock
<1>2. content \in [{l} -> BOOLEAN]
  OBVIOUS
<1> HIDE DEF content
<1>3. ReplyOK(reply) /\ reply.do = "lock"
  BY <1>2 DEF Exhibition!Reply, ReplyOK, Loads, Writes
<1> HIDE DEF reply
<1> DEFINE row == [stored[l] EXCEPT !.locked = ~view.lists[l]]
<1>4. row \in [locked : BOOLEAN, entries : Tables(l)] /\ row.entries = stored[l].entries
  BY <1>1 DEF ExhibitionTypes, StoredOK
<1>5. stored' = [stored EXCEPT ![l] = row]
  BY <1>1
<1> HIDE DEF row
<1>6. /\ DOMAIN stored' = DOMAIN stored
      /\ \A k \in DOMAIN stored : stored'[k] = IF k = l THEN row ELSE stored[k]
  BY <1>5
<1>7. StoredOK' /\ ViewOK'
  BY <1>1, <1>4, <1>6 DEF ExhibitionTypes, StoredOK, ViewOK
<1>8. \A k : EntriesOf(k)' = EntriesOf(k)
  BY <1>4, <1>6 DEF EntriesOf
<1>9. AtRest /\ ~others => AddressesDiffer'
  <2>1. \A k \in DOMAIN stored' : stored'[k].entries = stored[k].entries
    BY <1>4, <1>6
  <2> QED
    BY <1>6, <2>1 DEF AtRest, AddressesDiffer
<1>10. reply.do \in Writes /\ ~Brings(reply)
  BY <1>3 DEF Writes, Brings
<1> QED
  BY <1>1, <1>3, <1>7, <1>8, <1>9, <1>10, WriteKeeps

\* The entries of one list are changed.
LEMMA EntriesChange ==
    ASSUME ExhibitionTypes, NEW l \in DOMAIN stored, NEW t \in Tables(l),
           stored' = [stored EXCEPT ![l].entries = t]
    PROVE  /\ StoredOK' /\ DOMAIN stored' = DOMAIN stored
           /\ \A k \in DOMAIN stored :
                stored'[k].entries = IF k = l THEN t ELSE stored[k].entries
           /\ NoneTwice(t) /\ AddressesDiffer => AddressesDiffer'
<1> DEFINE row == [stored[l] EXCEPT !.entries = t]
<1>1. row \in [locked : BOOLEAN, entries : Tables(l)] /\ row.entries = t
  BY DEF ExhibitionTypes, StoredOK
<1>2. stored' = [stored EXCEPT ![l] = row]
  OBVIOUS
<1> HIDE DEF row
<1>3. /\ DOMAIN stored' = DOMAIN stored
      /\ \A k \in DOMAIN stored : stored'[k] = IF k = l THEN row ELSE stored[k]
  BY <1>2
<1>4. StoredOK'
  BY <1>1, <1>3 DEF ExhibitionTypes, StoredOK
<1>5. \A k \in DOMAIN stored : stored'[k].entries = IF k = l THEN t ELSE stored[k].entries
  BY <1>1, <1>3
<1> QED
  BY <1>3, <1>4, <1>5 DEF AddressesDiffer

LEMMA DeleteEntryKeeps ==
    ASSUME ExhibitionTypes, ExhibitionCalm, NEW e, Exhibition!DeleteEntry(e)
    PROVE  ExhibitionTypes' /\ ExhibitionCalm'
<1> PICK l : l = view.selected
  OBVIOUS
<1> PICK t : t = Exhibition!Restrict(stored[l].entries, DOMAIN stored[l].entries \ {e})
  OBVIOUS
<1> DEFINE reply == Exhibition!Done("deleted", l)
<1>1. /\ Exhibition!Turn /\ UNCHANGED <<view, dialogs>> /\ awaited' = awaited \cup {reply}
      /\ stored' = [stored EXCEPT ![l].entries = t] /\ l \in DOMAIN stored
  BY DEF Exhibition!DeleteEntry, Exhibition!Writable
<1>2. stored[l].entries \in Tables(l) /\ l \in Lists
  BY <1>1, TypesGive DEF ExhibitionTypes, StoredOK
<1>3. t \in Tables(l)
  BY <1>2, RestrictFits
<1>4. /\ DOMAIN t = DOMAIN stored[l].entries \ {e}
      /\ \A d \in DOMAIN t : t[d] = stored[l].entries[d]
  BY DEF Exhibition!Restrict
<1>5. StoredOK' /\ (NoneTwice(t) /\ AddressesDiffer => AddressesDiffer')
  BY <1>1, <1>3, EntriesChange
<1>6. AtRest /\ ~others => AddressesDiffer'
  <2>1. NoneTwice(stored[l].entries) => NoneTwice(t)
    BY <1>4 DEF NoneTwice
  <2>2. AtRest /\ ~others => AddressesDiffer /\ NoneTwice(stored[l].entries)
    BY <1>1 DEF AtRest, AddressesDiffer
  <2> QED
    BY <1>5, <2>1, <2>2
<1>7. ReplyOK(reply) /\ reply.do = "deleted" /\ reply.list = l
  BY <1>2, DoneFits
<1> HIDE DEF reply
<1>8. reply.do \in Writes /\ Brings(reply)
  BY <1>7 DEF Writes, Brings
<1>9. ViewOK'
  BY <1>1 DEF ExhibitionTypes, ViewOK
<1> QED
  BY <1>1, <1>5, <1>6, <1>7, <1>8, <1>9, WriteKeeps

\* The page looks for the address among the entries shown, which are those of the list.
LEMMA SaveEntryKeeps ==
    ASSUME ExhibitionTypes, ExhibitionCalm, Exhibition!SaveEntry
    PROVE  ExhibitionTypes' /\ ExhibitionCalm'
<1> PICK l : l = view.selected
  OBVIOUS
<1> DEFINE x == Exhibition!Payload(dialogs.form)
<1>1. /\ Exhibition!Turn /\ UNCHANGED dialogs /\ view' = [view EXCEPT !.saving = TRUE]
      /\ l \in DOMAIN view.lists
      /\ ~Exhibition!DuplicateAddress(dialogs.form.address, dialogs.entry)
  BY DEF Exhibition!SaveEntry, Exhibition!CanEditEntries
<1>2. ViewOK' /\ view'.selected = l /\ view'.entries = view.entries
  BY <1>1 DEF ExhibitionTypes, ViewOK
<1>3. l \in Lists
  BY <1>1, TypesGive DEF LockTables
<1>4. CASE ~(Exhibition!Writable(l) /\ dialogs.entry \in DOMAIN stored[l].entries \cup {Exhibition!NewEntry})
  <2> DEFINE reply == Exhibition!Done("refused", l)
  <2>1. awaited' = awaited \cup {reply} /\ UNCHANGED stored
    BY <1>4 DEF Exhibition!SaveEntry
  <2>2. ReplyOK(reply) /\ reply.do \in Writes /\ ~Brings(reply)
    BY <1>3, DoneFits DEF Writes, Brings
  <2> HIDE DEF reply
  <2>3. /\ StoredOK' /\ \A k : EntriesOf(k)' = EntriesOf(k)
        /\ AtRest /\ ~others => AddressesDiffer'
    BY <2>1 DEF ExhibitionTypes, StoredOK, EntriesOf, AtRest, AddressesDiffer
  <2> QED
    BY <1>1, <1>2, <2>1, <2>2, <2>3, WriteKeeps
<1>5. CASE Exhibition!Writable(l) /\ dialogs.entry \in DOMAIN stored[l].entries \cup {Exhibition!NewEntry}
  <2> DEFINE reply == Exhibition!Done("saved", l)
  <2>1. PICK e \in IF dialogs.entry = Exhibition!NewEntry THEN Exhibition!FreeIDs(l) ELSE {dialogs.entry} :
          stored' = [stored EXCEPT ![l].entries = Exhibition!Put(@, e, x)]
    BY <1>5 DEF Exhibition!SaveEntry
  <2>2. awaited' = awaited \cup {reply}
    BY <1>5 DEF Exhibition!SaveEntry
  <2>3. ReplyOK(reply) /\ reply.do = "saved" /\ reply.list = l
    BY <1>3, DoneFits
  <2> HIDE DEF reply
  <2>4. reply.do \in Writes /\ Brings(reply)
    BY <2>3 DEF Writes, Brings
  <2>5. l \in DOMAIN stored /\ stored[l].entries \in Tables(l)
    BY <1>5, TypesGive DEF Exhibition!Writable
  <2>6. /\ e \in Exhibition!EntryIDs(l)
        /\ \A d \in DOMAIN stored[l].entries : d # e => d # dialogs.entry
    <3>1. \A d \in DOMAIN stored[l].entries : d \in Exhibition!EntryIDs(l) /\ d # Exhibition!NewEntry
      BY <1>3, <2>5, TablesAre, NoneIsNoList DEF Exhibition!EntryIDs, Exhibition!NewEntry
    <3>2. CASE dialogs.entry = Exhibition!NewEntry
      BY <2>1, <3>1, <3>2 DEF Exhibition!FreeIDs
    <3>3. CASE dialogs.entry # Exhibition!NewEntry
      BY <1>5, <2>1, <3>1, <3>3
    <3> QED
      BY <3>2, <3>3
  <2>7. x \in EntryRows /\ x.address = dialogs.form.address
    BY TypesGive, FormFits DEF Exhibition!Payload
  <2> HIDE DEF x
  <2> PICK t : t = Exhibition!Put(stored[l].entries, e, x)
    OBVIOUS
  <2>8. t \in Tables(l)
    BY <2>5, <2>6, <2>7, PutFits
  <2>9. /\ DOMAIN t = DOMAIN stored[l].entries \cup {e}
        /\ \A d \in DOMAIN t : t[d] = IF d = e THEN x ELSE stored[l].entries[d]
    BY DEF Exhibition!Put
  <2>10. stored' = [stored EXCEPT ![l].entries = t]
    BY <2>1
  <2>11. StoredOK' /\ (NoneTwice(t) /\ AddressesDiffer => AddressesDiffer')
    BY <2>5, <2>8, <2>10, EntriesChange
  <2>12. ASSUME AtRest, ~others PROVE AddressesDiffer'
    <3>1. view.entries = stored[l].entries /\ AddressesDiffer
      BY <2>5, <2>12 DEF AtRest, EntriesOf
    <3>2. \A d \in DOMAIN t \ {e} : t[d].address = x.address => x.address = Exhibition!None
      BY <1>1, <2>6, <2>7, <2>9, <3>1 DEF Exhibition!DuplicateAddress
    <3>3. \A d, c \in DOMAIN t \ {e} : t[d].address = t[c].address => d = c \/ t[d].address = Exhibition!None
      BY <2>5, <2>9, <3>1 DEF AddressesDiffer, NoneTwice
    <3>4. NoneTwice(t)
      <4> SUFFICES ASSUME NEW d \in DOMAIN t, NEW c \in DOMAIN t, t[d].address = t[c].address, d # c
                   PROVE  t[d].address = Exhibition!None
        BY DEF NoneTwice
      <4>1. e \in DOMAIN t /\ t[e] = x
        BY <2>9
      <4>2. CASE d = e
        BY <3>2, <4>1, <4>2
      <4>3. CASE c = e
        BY <3>2, <4>1, <4>3
      <4> QED
        BY <3>3, <4>2, <4>3
    <3> QED
      BY <2>11, <3>1, <3>4
  <2> QED
    BY <1>1, <1>2, <2>2, <2>3, <2>4, <2>11, <2>12, WriteKeeps
<1> QED
  BY <1>4, <1>5

----------------------------------------------------------------------------
(* Answers.                                                                *)

\* What an answer leaves alone: nothing is changed at the server.
LEMMA AnswerKeeps ==
    ASSUME ExhibitionTypes, ExhibitionCalm, UNCHANGED <<stored, hasty, failed, others>>,
           ViewOK', DialogsOK', NEW reply \in awaited, NEW more,
           awaited' = (awaited \ {reply}) \cup more,
           \A other \in more : ReplyOK(other),
           Agree => InOrder' /\ ShownBelong' /\ DialogsBelong',
           Agree /\ ~others => ShownAsStored'
    PROVE  ExhibitionTypes' /\ ExhibitionCalm'
<1>1. ExhibitionTypes'
  BY DEF ExhibitionTypes, StoredOK, AwaitedOK
<1>2. ASSUME Calm' PROVE Agree'
  <2>1. Agree
    BY <1>2 DEF ExhibitionCalm, Calm
  <2>2. ~others => AddressesDiffer'
    BY <2>1 DEF Agree, AddressesDiffer
  <2> QED
    BY <2>1, <2>2 DEF Agree
<1> QED
  BY <1>1, <1>2 DEF ExhibitionCalm

LEMMA EntriesStay == stored' = stored => \A l : EntriesOf(l)' = EntriesOf(l)
BY DEF EntriesOf

\* The answer changes neither the entries shown nor which are awaited.
LEMMA PlainAnswerKeeps ==
    ASSUME ExhibitionTypes, ExhibitionCalm, UNCHANGED <<stored, hasty, failed, others>>,
           ViewOK', DialogsOK', NEW reply \in awaited,
           awaited' = awaited \ {reply}, ~Brings(reply),
           view'.selected = view.selected, view'.entries = view.entries,
           Agree => DialogsBelong'
    PROVE  ExhibitionTypes' /\ ExhibitionCalm'
<1>1. awaited' = (awaited \ {reply}) \cup {}
  OBVIOUS
<1>2. Agree => InOrder' /\ ShownBelong' /\ DialogsBelong'
  BY DEF Agree, InOrder, ShownBelong, Brings
<1>3. Agree /\ ~others => ShownAsStored'
  BY EntriesStay DEF Agree, ShownAsStored, Brings, EntriesOf
<1>4. PICK more : more = {}
  OBVIOUS
<1>5. awaited' = (awaited \ {reply}) \cup more /\ \A other \in more : ReplyOK(other)
  BY <1>1, <1>4
<1> QED
  BY <1>2, <1>3, <1>5, AnswerKeeps

LEMMA EntriesLoadedKeeps ==
    ASSUME ExhibitionTypes, ExhibitionCalm, NEW reply \in awaited, Exhibition!EntriesLoaded(reply)
    PROVE  ExhibitionTypes' /\ ExhibitionCalm'
<1>1. /\ UNCHANGED <<stored, dialogs, hasty, failed, others>>
      /\ awaited' = awaited \ {reply} /\ Brings(reply) /\ reply.do \in Loads
  BY DEF Exhibition!EntriesLoaded, Exhibition!history, Brings, Loads
<1>2. PICK saving \in BOOLEAN :
        view' = [view EXCEPT !.entries = reply.content, !.saving = saving]
  BY DEF Exhibition!EntriesLoaded, ExhibitionTypes, ViewOK
<1>3. reply.list \in Lists /\ reply.content \in Tables(reply.list)
  BY <1>1 DEF ExhibitionTypes, AwaitedOK, ReplyOK
<1>4. ViewOK' /\ view'.entries = reply.content /\ view'.selected = view.selected
  <2>1. reply.content \in AnyTable
    BY <1>3, TablesAre DEF ListOrNone
  <2> QED
    BY <1>2, <2>1 DEF ExhibitionTypes, ViewOK
<1>5. DialogsOK' /\ (Agree => DialogsBelong')
  BY <1>1 DEF ExhibitionTypes, DialogsOK, Agree, DialogsBelong
<1>6. Agree => InOrder' /\ ShownBelong'
  BY <1>1, <1>3, <1>4 DEF Agree, InOrder, ShownBelong, Brings
<1>7. Agree /\ ~others => ShownAsStored'
  <2> SUFFICES ASSUME Agree, ~others PROVE ShownAsStored'
    OBVIOUS
  <2>1. reply.content = EntriesOf(view.selected)
    BY <1>1 DEF Agree, InOrder, ShownAsStored
  <2> QED
    BY <1>1, <1>4, <2>1 DEF Agree, ShownAsStored, EntriesOf
<1>8. PICK more : more = {}
  OBVIOUS
<1>9. awaited' = (awaited \ {reply}) \cup more /\ \A other \in more : ReplyOK(other)
  BY <1>1, <1>8
<1> QED
  BY <1>1, <1>4, <1>5, <1>6, <1>7, <1>9, AnswerKeeps

LEMMA DialogLoadedKeeps ==
    ASSUME ExhibitionTypes, ExhibitionCalm, NEW reply \in awaited, Exhibition!DialogLoaded(reply)
    PROVE  ExhibitionTypes' /\ ExhibitionCalm'
<1>1. /\ UNCHANGED <<stored, view, hasty, failed, others>> /\ awaited' = awaited \ {reply}
      /\ reply.do \in {"view", "print"}
      /\ dialogs' = [dialogs EXCEPT ![reply.do] = [list |-> reply.list, entries |-> reply.content]]
  BY DEF Exhibition!DialogLoaded, Exhibition!Opened, Exhibition!history
<1>2. reply.list \in Lists /\ reply.content \in Tables(reply.list)
  BY <1>1 DEF ExhibitionTypes, AwaitedOK, ReplyOK, Loads
<1>3. [list |-> reply.list, entries |-> reply.content] \in ListDialogs
  BY <1>2, TablesAre DEF ListDialogs, ListOrNone
<1>4. DialogsOK' /\ (Agree => DialogsBelong')
  <2>1. CASE reply.do = "view"
    BY <1>1, <1>2, <1>3, <2>1 DEF ExhibitionTypes, DialogsOK, Agree, DialogsBelong
  <2>2. CASE reply.do = "print"
    BY <1>1, <1>2, <1>3, <2>2 DEF ExhibitionTypes, DialogsOK, Agree, DialogsBelong
  <2> QED
    BY <1>1, <2>1, <2>2
<1>5. ~Brings(reply) /\ ViewOK' /\ view'.selected = view.selected /\ view'.entries = view.entries
  BY <1>1 DEF Brings, ExhibitionTypes, ViewOK
<1> QED
  BY <1>1, <1>4, <1>5, PlainAnswerKeeps

\* A lock was set, or the server refused.
LEMMA LockOrRefusalKeeps ==
    ASSUME ExhibitionTypes, ExhibitionCalm, NEW reply \in awaited,
           Exhibition!LockToggled(reply) \/ Exhibition!Refused(reply)
    PROVE  ExhibitionTypes' /\ ExhibitionCalm'
<1>1. /\ UNCHANGED <<stored, dialogs, hasty, failed, others>> /\ awaited' = awaited \ {reply}
      /\ reply.do \in {"lock", "refused"}
  BY DEF Exhibition!LockToggled, Exhibition!Refused, Exhibition!history
<1>2. ViewOK' /\ view'.selected = view.selected /\ view'.entries = view.entries
  <2>1. CASE Exhibition!LockToggled(reply)
    <3> DEFINE locks == [l \in DOMAIN view.lists |->
                           IF l = reply.list THEN reply.content[l] ELSE view.lists[l]]
    <3>1. view' = [view EXCEPT !.lists = locks]
      BY <2>1 DEF Exhibition!LockToggled
    <3>2. reply.content \in [{reply.list} -> BOOLEAN]
      BY <2>1 DEF Exhibition!LockToggled, ExhibitionTypes, AwaitedOK, ReplyOK
    <3>3. locks \in LockTables
      <4>1. PICK K \in SUBSET Lists : view.lists \in [K -> BOOLEAN]
        BY TypesGive DEF LockTables
      <4>2. locks \in [K -> BOOLEAN]
        BY <3>2, <4>1
      <4> QED
        BY <4>2 DEF LockTables
    <3> HIDE DEF locks
    <3> QED
      BY <3>1, <3>3 DEF ExhibitionTypes, ViewOK
  <2>2. CASE Exhibition!Refused(reply)
    BY <2>2 DEF Exhibition!Refused, ExhibitionTypes, ViewOK
  <2> QED
    BY <2>1, <2>2
<1>3. ~Brings(reply)
  BY <1>1 DEF Brings
<1>4. DialogsOK' /\ (Agree => DialogsBelong')
  BY <1>1 DEF ExhibitionTypes, DialogsOK, Agree, DialogsBelong
<1> QED
  BY <1>1, <1>2, <1>3, <1>4, PlainAnswerKeeps

\* The answer to a change is the only one awaited.
LEMMA OnlyAwaited ==
    ASSUME InOrder, NEW reply \in awaited, reply.do \in Writes
    PROVE  awaited = {reply} /\ (Brings(reply) => reply.list = view.selected)
BY DEF InOrder

\* A change of an entry was answered: the entries are loaded.
LEMMA EntryChangedKeeps ==
    ASSUME ExhibitionTypes, ExhibitionCalm, NEW reply \in awaited,
           Exhibition!EntrySaved(reply) \/ Exhibition!EntryDeleted(reply)
    PROVE  ExhibitionTypes' /\ ExhibitionCalm'
<1>1. PICK do \in {"saved entries", "deleted entries"} :
        /\ awaited' = (awaited \ {reply}) \cup {Exhibition!EntriesReply(do, reply.list)}
        /\ UNCHANGED <<stored, view, hasty, failed, others>> /\ reply.do \in {"saved", "deleted"}
        /\ \/ UNCHANGED dialogs
           \/ dialogs' = [dialogs EXCEPT !.entry = Exhibition!NoEntry]
  BY DEF Exhibition!EntrySaved, Exhibition!EntryDeleted, Exhibition!history
<1>2. reply.list \in Lists /\ Brings(reply) /\ reply.do \in Writes /\ do \in Loads
  BY <1>1 DEF ExhibitionTypes, AwaitedOK, ReplyOK, Brings, Writes, Loads
<1>3. PICK l \in Lists : l = reply.list
  BY <1>2
<1>4. PICK r : r = Exhibition!EntriesReply(do, l)
  OBVIOUS
<1>5. ReplyOK(r) /\ r.do = do /\ r.list = l /\ r.content = EntriesOf(l)
  BY <1>2, <1>4, ReplyFits
<1>6. Brings(r)
  BY <1>1, <1>5 DEF Brings
<1>7. awaited' = (awaited \ {reply}) \cup {r}
  BY <1>1, <1>3, <1>4
<1>8. ViewOK' /\ DialogsOK' /\ (Agree => DialogsBelong')
  <2>1. Exhibition!NoEntry \in AnyEntry
    BY NoEntryFits
  <2> QED
    BY <1>1, <2>1 DEF ExhibitionTypes, ViewOK, DialogsOK, Agree, DialogsBelong
<1>9. Agree => awaited' = {r} /\ l = view.selected
  BY <1>2, <1>3, <1>7, OnlyAwaited DEF Agree
<1>10. Agree => InOrder' /\ ShownBelong'
  <2>1. r.do \notin Writes
    BY <1>1, <1>5 DEF Writes
  <2> QED
    BY <1>1, <1>5, <1>6, <1>9, <2>1 DEF InOrder, ShownBelong, Brings
<1>11. Agree /\ ~others => ShownAsStored'
  <2>1. EntriesOf(l)' = EntriesOf(l)
    BY <1>1, EntriesStay
  <2> QED
    BY <1>1, <1>5, <1>6, <1>9, <2>1 DEF ShownAsStored, EntriesOf, Brings
<1>12. PICK more : more = {r}
  OBVIOUS
<1>13. awaited' = (awaited \ {reply}) \cup more /\ \A other \in more : ReplyOK(other)
  BY <1>5, <1>7, <1>12
<1> QED
  BY <1>1, <1>8, <1>10, <1>11, <1>13, AnswerKeeps

\* A list is selected after its answer, so that its entries are awaited.
LEMMA ListSelectedKeeps ==
    ASSUME ExhibitionTypes, ExhibitionCalm, UNCHANGED <<stored, hasty, failed, others>>,
           ViewOK', DialogsOK', NEW reply \in awaited, NEW l \in Lists, NEW more,
           awaited' = (awaited \ {reply}) \cup (more \cup {Exhibition!EntriesReply("entries", l)}),
           \A other \in more : ReplyOK(other) /\ other.do = "lists",
           Agree => \A other \in awaited \ {reply} : ~Brings(other) /\ other.do \notin Writes,
           Agree => DialogsBelong', view'.selected = l
    PROVE  ExhibitionTypes' /\ ExhibitionCalm'
<1>1. PICK r : r = Exhibition!EntriesReply("entries", l)
  OBVIOUS
<1>2. ReplyOK(r) /\ r.do = "entries" /\ r.list = l /\ r.content = EntriesOf(l) /\ Brings(r)
  BY <1>1, ReplyFits DEF Loads, Brings
<1>3. PICK m : m = more \cup {r}
  OBVIOUS
<1>4. awaited' = (awaited \ {reply}) \cup m /\ \A other \in m : ReplyOK(other)
  BY <1>1, <1>2, <1>3
<1>5. ASSUME Agree PROVE InOrder' /\ ShownBelong'
  <2>1. \A other \in awaited' : other # r => ~Brings(other) /\ other.do \notin Writes
    BY <1>3, <1>4, <1>5 DEF Brings, Writes
  <2>2. r \in awaited' /\ r.do \notin Writes
    BY <1>2, <1>3, <1>4 DEF Writes
  <2>3. InOrder'
    BY <1>2, <2>1, <2>2 DEF InOrder, Brings
  <2>4. ShownBelong'
    BY <1>2, <2>2 DEF ShownBelong, Brings
  <2> QED
    BY <2>3, <2>4
<1>6. Agree /\ ~others => ShownAsStored'
  <2>1. \A k : EntriesOf(k)' = EntriesOf(k)
    BY EntriesStay
  <2>2. r \in awaited' /\ \A other \in more : other.do \notin Loads
    BY <1>3, <1>4 DEF Loads
  <2> QED
    BY <1>2, <1>3, <1>4, <2>1, <2>2 DEF Agree, ShownAsStored, Brings
<1> QED
  BY <1>4, <1>5, <1>6, AnswerKeeps

LEMMA ListsLoadedKeeps ==
    ASSUME ExhibitionTypes, ExhibitionCalm, NEW reply \in awaited, Exhibition!ListsLoaded(reply)
    PROVE  ExhibitionTypes' /\ ExhibitionCalm'
<1>1. UNCHANGED <<stored, dialogs, hasty, failed, others>> /\ reply.do = "lists"
  BY DEF Exhibition!ListsLoaded, Exhibition!history
<1>2. DialogsOK' /\ (Agree => DialogsBelong') /\ ~Brings(reply) /\ reply.content \in LockTables
  BY <1>1 DEF ExhibitionTypes, DialogsOK, Agree, DialogsBelong, Brings, AwaitedOK, ReplyOK
<1>3. CASE view.selected # Exhibition!None \/ DOMAIN reply.content = {}
  <2>1. view' = [view EXCEPT !.lists = reply.content] /\ awaited' = awaited \ {reply}
    BY <1>3 DEF Exhibition!ListsLoaded
  <2>2. ViewOK' /\ view'.selected = view.selected /\ view'.entries = view.entries
    BY <1>2, <2>1 DEF ExhibitionTypes, ViewOK
  <2> QED
    BY <1>1, <1>2, <2>1, <2>2, PlainAnswerKeeps
<1>4. CASE ~(view.selected # Exhibition!None \/ DOMAIN reply.content = {})
  <2>1. PICK l \in DOMAIN reply.content :
          /\ view' = [[view EXCEPT !.lists = reply.content] EXCEPT !.selected = l]
          /\ awaited' = (awaited \ {reply}) \cup {Exhibition!EntriesReply("entries", l)}
    BY <1>4 DEF Exhibition!ListsLoaded
  <2>2. l \in Lists
    BY <1>2, <2>1 DEF LockTables
  <2>3. ViewOK' /\ view'.selected = l
    BY <1>2, <2>1, <2>2 DEF ExhibitionTypes, ViewOK, ListOrNone
  <2>4. ASSUME Agree, NEW other \in awaited \ {reply} PROVE ~Brings(other) /\ other.do \notin Writes
    <3>1. other.do \notin Writes
      BY <2>4 DEF Agree, InOrder
    <3>2. ReplyOK(other)
      BY DEF ExhibitionTypes, AwaitedOK
    <3>3. Brings(other) => other.list \in Lists /\ other.list = view.selected
      BY <2>4, <3>2 DEF ReplyOK, Brings, Loads, Agree, InOrder
    <3> QED
      BY <1>4, <3>1, <3>3, NoneIsNoList
  <2>5. PICK more : more = {}
    OBVIOUS
  <2>6. /\ awaited' = (awaited \ {reply}) \cup (more \cup {Exhibition!EntriesReply("entries", l)})
        /\ \A other \in more : ReplyOK(other) /\ other.do = "lists"
    BY <2>1, <2>5
  <2> QED
    BY <1>1, <1>2, <2>2, <2>3, <2>4, <2>6, ListSelectedKeeps
<1> QED
  BY <1>3, <1>4

LEMMA ListSavedKeeps ==
    ASSUME ExhibitionTypes, ExhibitionCalm, NEW reply \in awaited, Exhibition!ListSaved(reply)
    PROVE  ExhibitionTypes' /\ ExhibitionCalm'
<1>1. /\ UNCHANGED <<stored, hasty, failed, others>> /\ reply.do = "list"
      /\ dialogs' = [dialogs EXCEPT !.list = Exhibition!None]
  BY DEF Exhibition!ListSaved, Exhibition!history
<1>2. DialogsOK' /\ (Agree => DialogsBelong') /\ ~Brings(reply) /\ reply.do \in Writes
  BY <1>1, NoEntryFits DEF ExhibitionTypes, DialogsOK, Agree, DialogsBelong, Brings, Writes
<1>3. PICK l \in Lists : l = reply.list
  BY <1>1 DEF ExhibitionTypes, AwaitedOK, ReplyOK
<1>4. PICK more : more = {Exhibition!ListsReply}
  OBVIOUS
<1>5. \A other \in more : ReplyOK(other) /\ other.do = "lists"
  BY <1>4, ListsReplyFits
<1>6. Agree => awaited \ {reply} = {}
  BY <1>2, OnlyAwaited DEF Agree
<1>7. CASE l = view.selected
  <2>1. view' = [view EXCEPT !.saving = FALSE] /\ awaited' = (awaited \ {reply}) \cup more
    BY <1>3, <1>4, <1>7 DEF Exhibition!ListSaved
  <2>2. ViewOK' /\ view'.selected = view.selected /\ view'.entries = view.entries
    BY <2>1 DEF ExhibitionTypes, ViewOK
  <2>3. \A other \in more : ~Brings(other) /\ other.do \notin Writes /\ other.do \notin Loads
    BY <1>5 DEF Brings, Writes, Loads
  <2>4. ASSUME Agree PROVE InOrder' /\ ShownBelong'
    <3>1. awaited' = more /\ view.entries \in Tables(view.selected)
      BY <1>2, <1>6, <2>1, <2>4, OnlyAwaited DEF Agree, ShownBelong
    <3> QED
      BY <2>2, <2>3, <3>1 DEF InOrder, ShownBelong, Brings
  <2>5. ASSUME Agree, ~others PROVE ShownAsStored'
    <3>1. awaited' = more /\ view.entries = EntriesOf(view.selected)
      BY <1>2, <1>6, <2>1, <2>5, OnlyAwaited DEF Agree, ShownAsStored
    <3> QED
      BY <1>1, <2>2, <2>3, <3>1 DEF ShownAsStored, Brings, EntriesOf
  <2> QED
    BY <1>1, <1>2, <1>5, <2>1, <2>2, <2>4, <2>5, AnswerKeeps
<1>8. CASE l # view.selected
  <2>1. /\ view' = [view EXCEPT !.selected = l, !.saving = FALSE]
        /\ awaited' = (awaited \ {reply}) \cup (more \cup {Exhibition!EntriesReply("entries", l)})
    BY <1>3, <1>4, <1>8 DEF Exhibition!ListSaved
  <2>2. ViewOK' /\ view'.selected = l
    BY <2>1 DEF ExhibitionTypes, ViewOK, ListOrNone
  <2>3. Agree => \A other \in awaited \ {reply} : ~Brings(other) /\ other.do \notin Writes
    BY <1>6
  <2> QED
    BY <1>1, <1>2, <1>5, <2>1, <2>2, <2>3, ListSelectedKeeps
<1> QED
  BY <1>7, <1>8

LEMMA ListDeletedKeeps ==
    ASSUME ExhibitionTypes, ExhibitionCalm, NEW reply \in awaited, Exhibition!ListDeleted(reply)
    PROVE  ExhibitionTypes' /\ ExhibitionCalm'
<1>1. UNCHANGED <<stored, dialogs, hasty, failed, others>> /\ reply.do = "deleted list"
  BY DEF Exhibition!ListDeleted, Exhibition!history
<1>2. /\ DialogsOK' /\ (Agree => DialogsBelong') /\ reply.do \in Writes /\ reply.list \in Lists
      /\ Brings(reply) <=> reply.content[reply.list]
  BY <1>1 DEF ExhibitionTypes, DialogsOK, Agree, DialogsBelong, Brings, Writes, AwaitedOK, ReplyOK
<1>3. PICK more : more = {Exhibition!ListsReply}
  OBVIOUS
<1>4. /\ \A other \in more : ReplyOK(other)
      /\ \A other \in more : ~Brings(other) /\ other.do \notin Writes /\ other.do \notin Loads
  <2>1. \A other \in more : ReplyOK(other) /\ other.do = "lists"
    BY <1>3, ListsReplyFits
  <2> QED
    BY <2>1 DEF Brings, Writes, Loads
<1>5. Agree => awaited \ {reply} = {} /\ (Brings(reply) => view.selected # Exhibition!None)
  BY <1>2, OnlyAwaited, NoneIsNoList DEF Agree
<1>6. CASE Brings(reply) /\ view.selected # Exhibition!None
  <2>1. /\ view' = [view EXCEPT !.selected = Exhibition!None, !.entries = Exhibition!NoEntries]
        /\ awaited' = (awaited \ {reply}) \cup more
    BY <1>2, <1>3, <1>6 DEF Exhibition!ListDeleted, Exhibition!Select
  <2>2. ViewOK' /\ view'.selected = Exhibition!None /\ view'.entries = Exhibition!NoEntries
    BY <2>1, Tabled DEF ExhibitionTypes, ViewOK, ListOrNone
  <2>3. Agree => InOrder' /\ ShownBelong'
    BY <1>4, <1>5, <2>1, <2>2, NoEntriesFit DEF InOrder, ShownBelong, Brings
  <2>4. EntriesOf(Exhibition!None)' = Exhibition!NoEntries
    BY <1>1, NoneIsNoList DEF EntriesOf, ExhibitionTypes, StoredOK
  <2>5. Agree => ShownAsStored'
    BY <1>4, <1>5, <2>1, <2>2, <2>4 DEF ShownAsStored, EntriesOf
  <2> QED
    BY <1>1, <1>2, <1>4, <2>1, <2>2, <2>3, <2>5, AnswerKeeps
<1>7. CASE ~(Brings(reply) /\ view.selected # Exhibition!None)
  <2>1. view' = view /\ awaited' = (awaited \ {reply}) \cup more
    BY <1>2, <1>3, <1>7 DEF Exhibition!ListDeleted, Exhibition!Select
  <2>2. ViewOK'
    BY <2>1 DEF ExhibitionTypes, ViewOK
  <2>3. ASSUME Agree
        PROVE  awaited = {reply} /\ ~Brings(reply) /\ awaited' = more
    BY <1>2, <1>5, <1>7, <2>1, <2>3, OnlyAwaited DEF Agree
  <2>4. Agree => InOrder' /\ ShownBelong'
    BY <1>4, <2>1, <2>3 DEF Agree, InOrder, ShownBelong, Brings
  <2>5. Agree /\ ~others => ShownAsStored'
    BY <1>1, <1>4, <2>1, <2>3 DEF Agree, ShownAsStored, Brings, EntriesOf
  <2> QED
    BY <1>1, <1>2, <1>4, <2>1, <2>2, <2>4, <2>5, AnswerKeeps
<1> QED
  BY <1>6, <1>7

LEMMA FailsKeeps ==
    ASSUME ExhibitionTypes, NEW reply \in awaited, Exhibition!Fails(reply)
    PROVE  ExhibitionTypes' /\ ExhibitionCalm'
<1>1. /\ UNCHANGED <<stored, dialogs>> /\ awaited' = awaited \ {reply} /\ failed' = TRUE
      /\ \E saving \in BOOLEAN : view' = [view EXCEPT !.saving = saving]
  BY DEF Exhibition!Fails, ExhibitionTypes, ViewOK
<1>2. ViewOK'
  BY <1>1 DEF ExhibitionTypes, ViewOK
<1> QED
  BY <1>1, <1>2 DEF ExhibitionTypes, StoredOK, DialogsOK, AwaitedOK, ExhibitionCalm, Calm

LEMMA RunPrintDialogKeeps ==
    ASSUME ExhibitionTypes, ExhibitionCalm, Exhibition!RunPrintDialog
    PROVE  ExhibitionTypes' /\ ExhibitionCalm'
<1>1. /\ UNCHANGED <<stored, view, awaited, hasty, failed, others>>
      /\ dialogs' = [dialogs EXCEPT !.print = Exhibition!NoList]
  BY DEF Exhibition!RunPrintDialog, Exhibition!history
<1>2. Exhibition!NoList \in ListDialogs /\ Exhibition!NoList.entries \in Tables(Exhibition!NoList.list)
  BY NoEntriesFit, Tabled DEF Exhibition!NoList, ListDialogs, ListOrNone
<1>3. DialogsOK' /\ (DialogsBelong => DialogsBelong')
  BY <1>1, <1>2 DEF ExhibitionTypes, DialogsOK, DialogsBelong
<1>4. Agree => Agree'
  BY <1>1, <1>3 DEF Agree, InOrder, ShownBelong, ShownAsStored, AddressesDiffer, EntriesOf
<1> QED
  BY <1>1, <1>3, <1>4
     DEF ExhibitionTypes, StoredOK, ViewOK, AwaitedOK, ExhibitionCalm, Calm

\* From now on another user is at work.
LEMMA OtherUserKeeps ==
    ASSUME ExhibitionTypes, ExhibitionCalm, NEW l \in Lists, Exhibition!OtherUser(l)
    PROVE  ExhibitionTypes' /\ ExhibitionCalm'
<1>1. /\ UNCHANGED <<view, dialogs, awaited, hasty, failed>> /\ others' = TRUE
      /\ l \in DOMAIN stored
  BY DEF Exhibition!OtherUser, Exhibition!Writable
<1>2. StoredOK'
  <2>1. CASE stored' = [stored EXCEPT ![l].locked = TRUE]
    BY <1>1, <2>1 DEF ExhibitionTypes, StoredOK
  <2>2. ASSUME NEW e \in Exhibition!FreeIDs(l), NEW address \in Addresses,
               stored' = [stored EXCEPT ![l].entries =
                            Exhibition!Put(@, e, [address |-> address, days |-> {"all"},
                                                  functions |-> Exhibition!NoEntries])]
        PROVE  StoredOK'
    <3>1. PICK x : x = [address |-> address, days |-> {"all"}, functions |-> Exhibition!NoEntries]
      OBVIOUS
    <3>2. x \in EntryRows
      <4>1. Exhibition!NoEntries \in [{} -> Items] /\ {} \in SUBSET Exhibition!FunctionKeys
        BY DEF Exhibition!NoEntries
      <4> QED
        BY <3>1, <4>1 DEF EntryRows, AnyAddress, Scopes
    <3>3. e \in Exhibition!EntryIDs(l) /\ stored[l].entries \in Tables(l)
      BY <1>1, TypesGive DEF Exhibition!FreeIDs
    <3>4. PICK t \in Tables(l) : t = Exhibition!Put(stored[l].entries, e, x)
      BY <3>2, <3>3, PutFits
    <3>5. stored' = [stored EXCEPT ![l].entries = t]
      BY <2>2, <3>1, <3>4
    <3> QED
      BY <1>1, <3>5, EntriesChange
  <2> QED
    BY <2>1, <2>2 DEF Exhibition!OtherUser
<1>3. Agree => InOrder' /\ ShownBelong' /\ DialogsBelong'
  BY <1>1 DEF Agree, InOrder, ShownBelong, DialogsBelong
<1> QED
  BY <1>1, <1>2, <1>3
     DEF ExhibitionTypes, ViewOK, DialogsOK, AwaitedOK, ExhibitionCalm, Agree, Calm

----------------------------------------------------------------------------
LEMMA ExhibitionStepOK ==
    ASSUME ExhibitionTypes, ExhibitionCalm, Exhibition!ExhibitionNext
    PROVE  ExhibitionTypes' /\ ExhibitionCalm'
<1>1. ASSUME NEW reply \in awaited,
             \/ Exhibition!ListsLoaded(reply) \/ Exhibition!EntriesLoaded(reply)
             \/ Exhibition!ListSaved(reply) \/ Exhibition!ListDeleted(reply)
             \/ Exhibition!LockToggled(reply) \/ Exhibition!DialogLoaded(reply)
             \/ Exhibition!EntrySaved(reply) \/ Exhibition!Refused(reply)
             \/ Exhibition!EntryDeleted(reply) \/ Exhibition!Fails(reply)
      PROVE  ExhibitionTypes' /\ ExhibitionCalm'
  BY <1>1, ListsLoadedKeeps, EntriesLoadedKeeps, ListSavedKeeps, ListDeletedKeeps,
     LockOrRefusalKeeps, DialogLoadedKeeps, EntryChangedKeeps, FailsKeeps
<1>2. ASSUME NEW l \in Lists,
             \/ Exhibition!SelectList(l) \/ Exhibition!DeleteList(l) \/ Exhibition!ToggleLock(l)
             \/ Exhibition!PrintListByID(l) \/ Exhibition!OpenListView(l) \/ Exhibition!OtherUser(l)
      PROVE  ExhibitionTypes' /\ ExhibitionCalm'
  BY <1>2, SelectListKeeps, DeleteListKeeps, ToggleLockKeeps, PrintListByIDKeeps,
     OpenListViewKeeps, OtherUserKeeps
<1>3. ASSUME NEW l \in Lists \cup {Exhibition!New}, Exhibition!OpenListDialog(l)
      PROVE  ExhibitionTypes' /\ ExhibitionCalm'
  BY <1>3, ListDialogKeeps
<1>4. ASSUME NEW kind \in {"list", "entry", "view", "print"}, Exhibition!CloseDialog(kind)
      PROVE  ExhibitionTypes' /\ ExhibitionCalm'
  BY <1>4, CloseDialogKeeps
<1>5. ASSUME NEW e, Exhibition!OpenEntryDialog(e) \/ Exhibition!DeleteEntry(e)
      PROVE  ExhibitionTypes' /\ ExhibitionCalm'
  BY <1>5, OpenEntryDialogKeeps, DeleteEntryKeeps
<1>6. ASSUME \/ Exhibition!SaveList \/ Exhibition!OpenPrintDialog \/ Exhibition!RunPrintDialog
             \/ Exhibition!SaveEntry \/ Exhibition!EditAddress \/ Exhibition!EditDays
             \/ \E key \in Exhibition!FunctionKeys : Exhibition!UpdateEntryFunction(key)
      PROVE  ExhibitionTypes' /\ ExhibitionCalm'
  BY <1>6, SaveListKeeps, OpenPrintDialogKeeps, RunPrintDialogKeeps, SaveEntryKeeps, EditKeeps
<1> QED
  BY <1>1, <1>2, <1>3, <1>4, <1>5, <1>6
     DEF Exhibition!ExhibitionNext, Exhibition!ExhibitionAnswered

LEMMA ExhibitionInitOK == Exhibition!ExhibitionInit => ExhibitionTypes /\ ExhibitionCalm
<1> SUFFICES ASSUME Exhibition!ExhibitionInit PROVE ExhibitionTypes /\ ExhibitionCalm
  OBVIOUS
<1> DEFINE x == [address |-> CHOOSE a \in Addresses : TRUE, days |-> {"all"},
                 functions |-> Exhibition!NoEntries]
           row(l) == [locked |-> FALSE, entries |-> Exhibition!Put(Exhibition!NoEntries, <<l, 1>>, x)]
<1>1. /\ view = [lists |-> Exhibition!NoEntries, selected |-> Exhibition!None,
                 entries |-> Exhibition!NoEntries, saving |-> FALSE]
      /\ dialogs = Exhibition!Closed /\ awaited = {Exhibition!ListsReply}
  BY DEF Exhibition!ExhibitionInit
<1>2. PICK initial \in SUBSET Lists : stored = [l \in initial |-> row(l)]
  BY DEF Exhibition!ExhibitionInit
<1>3. x \in EntryRows
  <2>1. Exhibition!NoEntries \in [{} -> Items] /\ {} \in SUBSET Exhibition!FunctionKeys
    BY DEF Exhibition!NoEntries
  <2> QED
    BY <2>1 DEF EntryRows, AnyAddress, Scopes
<1> HIDE DEF x
<1>4. ASSUME NEW l
      PROVE  /\ row(l) \in [locked : BOOLEAN, entries : Tables(l)] /\ NoneTwice(row(l).entries)
             /\ row(l).locked = FALSE
  <2>1. Exhibition!Put(Exhibition!NoEntries, <<l, 1>>, x) = [e \in {<<l, 1>>} |-> x]
    BY DEF Exhibition!Put, Exhibition!NoEntries
  <2>2. <<l, 1>> \in Exhibition!EntryIDs(l)
    BY ExhibitionAssumptions DEF Exhibition!EntryIDs, Exhibition!ConstantsFit
  <2>3. Exhibition!Put(Exhibition!NoEntries, <<l, 1>>, x) \in Tables(l)
    BY <1>3, <2>2, NoEntriesFit, PutFits
  <2> QED
    BY <2>1, <2>3 DEF NoneTwice
<1> HIDE DEF row
<1>5. StoredOK /\ AddressesDiffer
  BY <1>2, <1>4 DEF StoredOK, AddressesDiffer
<1>6. ViewOK /\ view.selected = Exhibition!None /\ view.entries = Exhibition!NoEntries
  <2>1. Exhibition!NoEntries \in LockTables
    <3>1. Exhibition!NoEntries \in [{} -> BOOLEAN] /\ {} \in SUBSET Lists
      BY DEF Exhibition!NoEntries
    <3> QED
      BY <3>1 DEF LockTables
  <2> QED
    BY <1>1, <2>1, Tabled DEF ViewOK, ListOrNone
<1>7. DialogsOK /\ DialogsBelong
  <2>1. Exhibition!NoList \in ListDialogs /\ Exhibition!NoList.entries \in Tables(Exhibition!NoList.list)
    BY NoEntriesFit, Tabled DEF Exhibition!NoList, ListDialogs, ListOrNone
  <2> QED
    BY <1>1, <2>1, NoEntryFits, FormFits DEF DialogsOK, DialogsBelong, Exhibition!Closed
<1>8. ReplyOK(Exhibition!ListsReply) /\ Exhibition!ListsReply.do = "lists"
  <2>1. Exhibition!LockOf \in [DOMAIN stored -> BOOLEAN]
    BY <1>5 DEF Exhibition!LockOf, StoredOK
  <2>2. Exhibition!ListsReply.do = "lists" /\ Exhibition!ListsReply.content \in LockTables
    BY <1>5, <2>1 DEF Exhibition!ListsReply, Exhibition!Reply, LockTables, StoredOK
  <2> QED
    BY <2>2 DEF ReplyOK, Loads
<1>9. AwaitedOK /\ InOrder
  BY <1>1, <1>8 DEF AwaitedOK, InOrder, Brings, Writes
<1>10. ShownBelong /\ ShownAsStored
  <2>1. Exhibition!None \notin DOMAIN stored
    BY <1>5, NoneIsNoList DEF StoredOK
  <2> QED
    BY <1>1, <1>6, <1>8, <2>1, NoEntriesFit DEF ShownBelong, ShownAsStored, EntriesOf, Loads
<1> QED
  BY <1>5, <1>6, <1>7, <1>9, <1>10 DEF ExhibitionTypes, ExhibitionCalm, Agree

LEMMA ExhibitionPageInit == Init => ExhibitionPage
BY ExhibitionInitOK DEF Init, ExhibitionPage

LEMMA ExhibitionPageStep == ExhibitionPage /\ [Next]_vars => ExhibitionPage'
<1> SUFFICES ASSUME ExhibitionPage, [Next]_vars, page' = "exhibition"
             PROVE  ExhibitionTypes' /\ ExhibitionCalm'
  BY DEF ExhibitionPage
<1>1. /\ page = "exhibition"
      /\ Exhibition!ExhibitionNext \/ UNCHANGED exhibitionVars
  BY DEF Next, vars, mixedVars, OnlySession, OnlyExhibition, OnlyData, OnlyForms, OnlyGeneral
<1>2. ExhibitionTypes /\ ExhibitionCalm
  BY <1>1 DEF ExhibitionPage
<1>3. CASE UNCHANGED exhibitionVars
  <2>1. ExhibitionTypes'
    BY <1>2, <1>3 DEF exhibitionVars, ExhibitionTypes, StoredOK, ViewOK, DialogsOK, AwaitedOK
  <2>2. Agree => Agree'
    BY <1>3 DEF exhibitionVars, Agree, InOrder, ShownBelong, DialogsBelong, ShownAsStored,
                AddressesDiffer, EntriesOf
  <2> QED
    BY <1>2, <1>3, <2>1, <2>2 DEF exhibitionVars, ExhibitionCalm, Calm
<1> QED
  BY <1>1, <1>2, <1>3, ExhibitionStepOK

LEMMA ExhibitionPageAlways == Spec => []ExhibitionPage
BY ExhibitionPageInit, ExhibitionPageStep, PTL DEF Spec

\* Entries appear under their own list, in the table, the view and the print, and as they
\* were saved, to a user who waits for the answers (ExhibitionView.tsx:453-507).
THEOREM EntriesAppearInTheirList == Spec => []EntriesBelong
<1>1. ExhibitionPage => EntriesBelong
  <2> SUFFICES ASSUME ExhibitionTypes, ExhibitionCalm
               PROVE  ShownAreSelected /\ PrintedBelong /\ ReopensAsSaved
    BY DEF EntriesBelong, ExhibitionPage
  <2>1. ShownAreSelected
    BY DEF ShownAreSelected, ExhibitionCalm, Agree, ShownAsStored, EntriesOf
  <2>2. PrintedBelong
    <3> SUFFICES ASSUME Calm, NEW kind \in {"view", "print"}, NEW e \in DOMAIN dialogs[kind].entries
                 PROVE  e[1] = dialogs[kind].list
      BY DEF PrintedBelong
    <3>1. dialogs[kind].entries \in Tables(dialogs[kind].list)
      BY DEF ExhibitionCalm, Agree, DialogsBelong
    <3>2. e \in Exhibition!EntryIDs(dialogs[kind].list)
      BY <3>1, TablesAre
    <3> QED
      BY <3>2 DEF Exhibition!EntryIDs
  <2>3. ReopensAsSaved
    BY TypesGive, FormReopens DEF ReopensAsSaved
  <2> QED
    BY <2>1, <2>2, <2>3
<1> QED
  BY <1>1, ExhibitionPageAlways, PTL

\* While nobody else enters locomotives no two entries of a list have one address, although
\* the page compares the entries it shows only (ExhibitionView.tsx:415-424).
THEOREM AddressesStayUnique == Spec => []AddressesUnique
<1>1. ExhibitionPage => AddressesUnique
  BY DEF ExhibitionPage, ExhibitionCalm, Agree, AddressesDiffer, NoneTwice, AddressesUnique
<1> QED
  BY <1>1, ExhibitionPageAlways, PTL
----------------------------------------------------------------------------
(* The data of the settings: the table, the form and the files.            *)

\* Entries of a type: their content by key.
Contents == UNION {[K -> Nat] : K \in SUBSET Keys}
TypeTables == [Types -> Contents]
DataForms == [type : Types, key : Keys, content : Nat] \cup {Data!NoForm}
DataTables ==
    [tab : Data!DataTabs, type : Types, loaded : SUBSET Types, loading : SUBSET Types,
     items : TypeTables, saving : BOOLEAN]
Backups ==
    [file : Files \cup {Data!None}, check : [file : Files \cup {Data!None}, compatible : BOOLEAN],
     validating : BOOLEAN, confirmed : BOOLEAN, saving : BOOLEAN]

\* The file validated is the one chosen, as long as no file was chosen meanwhile.
BackupFits ==
    /\ backup \in Backups
    /\ restored \in [file : Files \cup {Data!None}, checked : Files \cup {Data!None}, overtaken : BOOLEAN]
    /\ \A call \in calls : call.do = "checked" => call.about \in SUBSET Files
    /\ ~restored.overtaken =>
         /\ backup.check.compatible => backup.check.file = backup.file
         /\ \A call \in calls : call.do = "checked" => call.about = {backup.file}
         /\ restored.file = restored.checked

\* A user who waits awaits one answer at a time.
OneCall == \A call, other \in calls : call = other

\* What is under way brings what the server has.
CallsFit ==
    \A call \in calls :
       /\ call.do = "all" => call.content = entries
       /\ call.do = "one" => call.about = {table.type} /\ call.content = entries[table.type]
       /\ call.do \in {"deleted", "deleted shown"} => call.about = {table.type}
       /\ call.do = "saved" =>
            /\ call.about = {table.type}
            /\ \E key \in DOMAIN entries[table.type] :
                 DOMAIN call.content = {key} /\ call.content[key] = entries[table.type][key]
       /\ call.do = "deleted shown" => form.key \notin DOMAIN entries[table.type]

Changes == {"one", "saved", "deleted", "deleted shown"}

\* The types that will be loaded again, or forgotten.
Pending(type) ==
    \E call \in calls : \/ call.do \in Changes /\ type \in call.about
                        \/ call.do \in {"imported", "restored"}

TableFits ==
    \A type \in Types :
       IF type \in table.loaded THEN Pending(type) \/ table.items[type] = entries[type]
       ELSE DOMAIN table.items[type] = {}

\* The form is of the type shown and holds what the server has, unless a file replaced it.
FormFitsTable ==
    form # Data!NoForm =>
      /\ form.type = table.type
      /\ ~replaced /\ form.key \in DOMAIN entries[form.type] =>
           \/ entries[form.type][form.key] = form.content
           \/ \E call \in calls : call.do = "saved"

WrittenFits ==
    written.type \in {Data!None, written.form.type} /\ written.over = written.form.content

DataTypes ==
    /\ entries \in TypeTables /\ table \in DataTables /\ form \in DataForms /\ dataTurns \in Nat
DataCalm ==
    /\ DataTypes /\ OneCall /\ CallsFit /\ TableFits /\ FormFitsTable /\ WrittenFits

DataPage == page = "data" => BackupFits /\ (~rash => DataCalm)

LEMMA CallIs ==
    \A do, about, content :
       /\ Data!Call(do, about, content).do = do /\ Data!Call(do, about, content).about = about
       /\ Data!Call(do, about, content).content = content
BY DEF Data!Call

\* Files and their validation.
LEMMA BackupStays ==
    ASSUME BackupFits, UNCHANGED <<backup, restored>>,
           \A call \in calls' : call.do = "checked" => call \in calls
    PROVE  BackupFits'
BY DEF BackupFits

LEMMA SelectBackupFileFits ==
    ASSUME BackupFits, NEW file \in Files, Data!SelectBackupFile(file)
    PROVE  BackupFits'
<1>1. /\ backup' = [backup EXCEPT !.file = file, !.check = Data!NoCheck, !.validating = TRUE,
                                  !.confirmed = FALSE]
      /\ calls' = calls \cup {Data!Call("checked", {file}, <<>>)}
      /\ restored' = [restored EXCEPT !.overtaken = restored.overtaken \/ Data!Calls({"checked"}) # {}]
  BY DEF Data!SelectBackupFile
<1>2. Data!NoCheck \in [file : Files \cup {Data!None}, compatible : BOOLEAN] /\ ~Data!NoCheck.compatible
  BY DEF Data!NoCheck
<1>3. backup' \in Backups /\ backup'.file = file /\ ~backup'.check.compatible
  BY <1>1, <1>2 DEF BackupFits, Backups
<1>4. /\ restored' \in [file : Files \cup {Data!None}, checked : Files \cup {Data!None}, overtaken : BOOLEAN]
      /\ restored'.file = restored.file /\ restored'.checked = restored.checked
      /\ ~restored'.overtaken => ~restored.overtaken /\ \A call \in calls : call.do # "checked"
  BY <1>1 DEF BackupFits, Data!Calls
<1>5. PICK call : call = Data!Call("checked", {file}, <<>>)
  OBVIOUS
<1>6. call.about = {file} /\ calls' = calls \cup {call}
  BY <1>1, <1>5 DEF Data!Call
<1> QED
  BY <1>3, <1>4, <1>6 DEF BackupFits

LEMMA CheckedFits ==
    ASSUME BackupFits, NEW call \in calls, Data!Checked(call)
    PROVE  BackupFits'
<1>1. PICK file \in call.about :
        backup' = [backup EXCEPT !.check = [file |-> file, compatible |-> file \in Compatible],
                                 !.validating = FALSE]
  BY DEF Data!Checked
<1>2. call.do = "checked" /\ calls' = calls \ {call} /\ restored' = restored
  BY DEF Data!Checked
<1>3. file \in Files
  BY <1>1, <1>2 DEF BackupFits
<1>4. /\ backup' \in Backups /\ backup'.file = backup.file /\ backup'.check.file = file
  <2>1. PICK check : check = [file |-> file, compatible |-> file \in Compatible]
    OBVIOUS
  <2>2. check \in [file : Files \cup {Data!None}, compatible : BOOLEAN] /\ check.file = file
    BY <1>3, <2>1
  <2>3. backup' = [backup EXCEPT !.check = check, !.validating = FALSE]
    BY <1>1, <2>1
  <2> QED
    BY <2>2, <2>3 DEF BackupFits, Backups
<1>5. ~restored.overtaken => file = backup.file
  BY <1>1, <1>2 DEF BackupFits
<1> QED
  BY <1>2, <1>4, <1>5 DEF BackupFits

\* The file and its validation stay; it is confirmed, or its restore is over.
LEMMA BackupMoves ==
    ASSUME BackupFits, NEW b \in Backups, backup' = b,
           b.file = backup.file, b.check = backup.check, restored' = restored,
           \A call \in calls' : call.do = "checked" => call \in calls
    PROVE  BackupFits'
BY DEF BackupFits

LEMMA RestoreBackupFits ==
    ASSUME BackupFits, Data!RestoreBackup
    PROVE  BackupFits'
<1>1. /\ backup.check.compatible /\ backup' = [backup EXCEPT !.saving = TRUE]
      /\ restored' = [restored EXCEPT !.file = backup.file, !.checked = backup.check.file]
  BY DEF Data!RestoreBackup
<1>2. \A call \in calls' : call.do = "checked" => call \in calls
  <2>1. PICK do \in {"restored", "not restored"} : calls' = calls \cup {Data!Call(do, {}, <<>>)}
    BY DEF Data!RestoreBackup
  <2>2. do # "checked"
    OBVIOUS
  <2>3. Data!Call(do, {}, <<>>).do = do
    BY DEF Data!Call
  <2> QED
    BY <2>1, <2>2, <2>3
<1>3. /\ backup' \in Backups /\ backup'.file = backup.file /\ backup'.check = backup.check
      /\ backup.file \in Files \cup {Data!None} /\ backup.check.file \in Files \cup {Data!None}
  BY <1>1 DEF BackupFits, Backups
<1>4. /\ restored' \in [file : Files \cup {Data!None}, checked : Files \cup {Data!None}, overtaken : BOOLEAN]
      /\ restored'.file = backup.file /\ restored'.checked = backup.check.file
      /\ restored'.overtaken = restored.overtaken
  BY <1>1, <1>3 DEF BackupFits
<1> QED
  BY <1>1, <1>2, <1>3, <1>4 DEF BackupFits

LEMMA BackupStep ==
    ASSUME BackupFits, Data!DataNext
    PROVE  BackupFits'
<1>1. ASSUME NEW call \in calls,
             \/ Data!AllLoaded(call) \/ Data!OneLoaded(call) \/ Data!Saved(call) \/ Data!Deleted(call)
      PROVE  BackupFits'
  <2>1. UNCHANGED <<backup, restored>>
    BY <1>1 DEF Data!AllLoaded, Data!OneLoaded, Data!Saved, Data!Deleted
  <2>2. calls' \subseteq calls \/ \E about, content : calls' \subseteq calls \cup {Data!Call("one", about, content)}
    <3>1. ASSUME Data!AllLoaded(call) \/ Data!OneLoaded(call) PROVE calls' \subseteq calls
      BY <3>1 DEF Data!AllLoaded, Data!OneLoaded
    <3>2. ASSUME Data!Saved(call)
          PROVE  \E about, content : calls' \subseteq calls \cup {Data!Call("one", about, content)}
      <4>1. PICK type : calls' = (calls \ {call}) \cup {Data!Call("one", call.about, entries[type])}
        BY <3>2 DEF Data!Saved
      <4> QED
        BY <4>1
    <3>3. ASSUME Data!Deleted(call)
          PROVE  \E about, content : calls' \subseteq calls \cup {Data!Call("one", about, content)}
      <4>1. PICK type : calls' = (calls \ {call}) \cup {Data!Call("one", {type}, entries[type])}
        BY <3>3 DEF Data!Deleted, Data!Reload
      <4> QED
        BY <4>1
    <3> QED
      BY <1>1, <3>1, <3>2, <3>3
  <2>3. \A other \in calls' : other.do = "checked" => other \in calls
    BY <2>2, CallIs
  <2> QED
    BY <2>1, <2>3, BackupStays
<1>2. ASSUME NEW call \in calls, Data!Replaced(call) \/ Data!Fails(call)
      PROVE  BackupFits'
  <2>1. restored' = restored /\ \A other \in calls' : other \in calls
    BY <1>2 DEF Data!Replaced, Data!Fails
  <2>2. PICK b : backup' = b
    OBVIOUS
  <2>3. b \in Backups /\ b.file = backup.file /\ b.check = backup.check
    BY <1>2, <2>2 DEF Data!Replaced, Data!Fails, BackupFits, Backups
  <2> QED
    BY <2>1, <2>2, <2>3, BackupMoves
<1>3. ASSUME Data!Confirm PROVE BackupFits'
  <2>1. /\ restored' = restored /\ calls' = calls
        /\ backup' = [backup EXCEPT !.confirmed = TRUE]
    BY <1>3 DEF Data!Confirm
  <2>2. PICK b : backup' = b
    OBVIOUS
  <2>3. b \in Backups /\ b.file = backup.file /\ b.check = backup.check
    BY <2>1, <2>2 DEF BackupFits, Backups
  <2> QED
    BY <2>1, <2>2, <2>3, BackupMoves
<1>4. ASSUME \/ \E next \in Data!DataTabs : Data!SelectTab(next)
             \/ \E type \in Types : Data!SelectType(type)
             \/ \E key \in Keys : Data!StartEdit(key) \/ Data!Submit(key) \/ Data!DeleteEntry(key)
             \/ Data!ReloadActiveType \/ Data!StartCreate \/ Data!ImportMasterData
      PROVE  BackupFits'
  <2>1. UNCHANGED <<backup, restored>>
    BY <1>4 DEF Data!SelectTab, Data!SelectType, Data!StartEdit, Data!Submit, Data!DeleteEntry,
                Data!ReloadActiveType, Data!StartCreate, Data!ImportMasterData
  <2>2. \A other \in calls' : other.do = "checked" => other \in calls
    <3>1. ASSUME NEW key \in Keys, Data!StartEdit(key) \/ Data!Submit(key) \/ Data!DeleteEntry(key)
          PROVE  \A other \in calls' : other.do = "checked" => other \in calls
      <4>1. CASE Data!StartEdit(key)
        BY <4>1 DEF Data!StartEdit
      <4>2. CASE Data!Submit(key)
        <5>1. PICK do \in {"saved", "refused"} :
                \E about, content : calls' = calls \cup {Data!Call(do, about, content)}
          BY <4>2 DEF Data!Submit
        <5>2. do # "checked" /\ \A about, content : Data!Call(do, about, content).do = do
          BY DEF Data!Call
        <5> QED
          BY <5>1, <5>2
      <4>3. CASE Data!DeleteEntry(key)
        <5>1. PICK do \in {"deleted", "deleted shown"} :
                \E about, content : calls' = calls \cup {Data!Call(do, about, content)}
          BY <4>3 DEF Data!DeleteEntry
        <5>2. do # "checked" /\ \A about, content : Data!Call(do, about, content).do = do
          BY DEF Data!Call
        <5> QED
          BY <5>1, <5>2
      <4> QED
        BY <3>1, <4>1, <4>2, <4>3
    <3>2. ASSUME NEW next \in Data!DataTabs, Data!SelectTab(next)
          PROVE  \A other \in calls' : other.do = "checked" => other \in calls
      BY <3>2 DEF Data!SelectTab, Data!Ask, Data!Call
    <3>3. ASSUME NEW type \in Types, Data!SelectType(type)
          PROVE  \A other \in calls' : other.do = "checked" => other \in calls
      BY <3>3 DEF Data!SelectType, Data!Ask, Data!Call
    <3>4. ASSUME Data!ReloadActiveType \/ Data!StartCreate \/ Data!ImportMasterData
          PROVE  \A other \in calls' : other.do = "checked" => other \in calls
      BY <3>4 DEF Data!ReloadActiveType, Data!StartCreate, Data!ImportMasterData, Data!Reload, Data!Call
    <3> QED
      BY <1>4, <3>1, <3>2, <3>3, <3>4
  <2> QED
    BY <2>1, <2>2, BackupStays
<1> QED
  BY <1>1, <1>2, <1>3, <1>4, SelectBackupFileFits, CheckedFits, RestoreBackupFits
     DEF Data!DataNext, Data!DataAnswered

----------------------------------------------------------------------------
(* Steps of the user, who waited for the answer.                           *)

LEMMA ContentsFit ==
    /\ \A t \in Contents, key \in Keys, n \in Nat : Data!Put(t, key, n) \in Contents
    /\ \A t \in Contents : \A S : Data!Restrict(t, DOMAIN t \ S) \in Contents
    /\ Data!NoItems \in TypeTables /\ \A type \in Types : DOMAIN Data!NoItems[type] = {}
<1>1. ASSUME NEW t \in Contents, NEW key \in Keys, NEW n \in Nat PROVE Data!Put(t, key, n) \in Contents
  <2>1. PICK K \in SUBSET Keys : t \in [K -> Nat]
    BY DEF Contents
  <2>2. Data!Put(t, key, n) \in [K \cup {key} -> Nat]
    BY <2>1 DEF Data!Put
  <2> QED
    BY <2>2 DEF Contents
<1>2. ASSUME NEW t \in Contents, NEW S PROVE Data!Restrict(t, DOMAIN t \ S) \in Contents
  <2>1. PICK K \in SUBSET Keys : t \in [K -> Nat]
    BY DEF Contents
  <2>2. Data!Restrict(t, DOMAIN t \ S) \in [K \ S -> Nat]
    BY <2>1 DEF Data!Restrict
  <2> QED
    BY <2>2 DEF Contents
<1>3. /\ Data!NoItems \in TypeTables
      /\ \A type \in Types : DOMAIN Data!NoItems[type] = {}
  <2>1. <<>> \in [{} -> Nat] /\ DOMAIN <<>> = {}
    OBVIOUS
  <2>2. <<>> \in Contents
    BY <2>1 DEF Contents
  <2> QED
    BY <2>1, <2>2 DEF Data!NoItems, TypeTables
<1> QED
  BY <1>1, <1>2, <1>3

LEMMA DataTurn ==
    ASSUME DataPage, page = "data", Data!Turn, ~rash'
    PROVE  DataCalm /\ calls = {} /\ dataTurns' \in Nat
<1>1. ~rash /\ calls = {} /\ dataTurns' = dataTurns + 1
  BY DEF Data!Turn
<1>2. DataCalm
  BY <1>1 DEF DataPage
<1> QED
  BY <1>1, <1>2 DEF DataCalm, DataTypes

\* At most one answer is awaited now.
AwaitsOnly(call) == calls' = {} \/ calls' = {call}

\* The user shows another tab or type, or has a type loaded again.
LEMMA AskFits ==
    ASSUME DataCalm, calls = {}, UNCHANGED <<entries, replaced, written>>, dataTurns' \in Nat,
           table' \in DataTables, table'.items = table.items, table'.loaded = table.loaded,
           \/ form' = Data!NoForm
           \/ form' = form /\ table'.type = table.type,
           NEW call, AwaitsOnly(call),
           \/ call.do = "all" /\ call.content = entries
           \/ call.do = "one" /\ call.about = {table'.type} /\ call.content = entries[table'.type]
           \/ call.do = "checked"
    PROVE  DataCalm'
<1>1. DataTypes'
  BY DEF DataCalm, DataTypes, DataForms
<1>2. OneCall' /\ CallsFit'
  BY DEF OneCall, CallsFit, AwaitsOnly
<1>3. TableFits'
  BY DEF DataCalm, TableFits, Pending
<1>4. FormFitsTable'
  BY DEF DataCalm, FormFitsTable
<1>5. WrittenFits'
  BY DEF DataCalm, WrittenFits
<1> QED
  BY <1>1, <1>2, <1>3, <1>4, <1>5 DEF DataCalm

\* The request for all types, or none.
LEMMA AskIs ==
    ASSUME NEW next \in Data!DataTabs, NEW type \in Types, Data!Ask(next, type, calls \ Data!Calls({"all"})),
           calls = {}, table \in DataTables
    PROVE  /\ table' \in DataTables /\ table'.items = table.items /\ table'.loaded = table.loaded
           /\ table'.type = type
           /\ \E call : AwaitsOnly(call) /\ call.do = "all" /\ call.content = entries
<1>1. calls \ Data!Calls({"all"}) = {}
  OBVIOUS
<1>2. PICK loading \in SUBSET Types :
        table' = [table EXCEPT !.tab = next, !.type = type, !.loading = loading]
  <2>1. table.loading \in SUBSET Types
    BY DEF DataTables
  <2>2. CASE next # "data" \/ type \in table.loaded
    <3>1. table' = [table EXCEPT !.tab = next, !.type = type]
      BY <2>2 DEF Data!Ask
    <3> QED
      BY <2>1, <3>1 DEF DataTables
  <2>3. CASE ~(next # "data" \/ type \in table.loaded)
    BY <2>1, <2>3 DEF Data!Ask
  <2> QED
    BY <2>2, <2>3
<1>3. PICK call : call = Data!Call("all", Types \ table.loaded, entries)
  OBVIOUS
<1>4. call.do = "all" /\ call.content = entries
  BY <1>3 DEF Data!Call
<1>5. AwaitsOnly(call)
  BY <1>1, <1>3 DEF Data!Ask, AwaitsOnly
<1>6. /\ table' \in DataTables /\ table'.items = table.items /\ table'.loaded = table.loaded
      /\ table'.type = type
  BY <1>2 DEF DataTables
<1> QED
  BY <1>4, <1>5, <1>6

LEMMA ShowKeeps ==
    ASSUME DataCalm, calls = {}, dataTurns' \in Nat,
           \/ \E next \in Data!DataTabs : Data!SelectTab(next)
           \/ \E type \in Types : Data!SelectType(type)
    PROVE  DataCalm'
<1>1. table \in DataTables /\ table.type \in Types /\ "data" \in Data!DataTabs
  BY DEF DataCalm, DataTypes, DataTables, Data!DataTabs
<1>2. ASSUME NEW next \in Data!DataTabs, Data!SelectTab(next) PROVE DataCalm'
  <2>1. /\ UNCHANGED <<entries, form, replaced, written>>
        /\ Data!Ask(next, table.type, calls \ Data!Calls({"all"}))
    BY <1>2 DEF Data!SelectTab
  <2>2. /\ table' \in DataTables /\ table'.items = table.items /\ table'.loaded = table.loaded
        /\ table'.type = table.type
        /\ \E call : AwaitsOnly(call) /\ call.do = "all" /\ call.content = entries
    BY <1>1, <2>1, AskIs
  <2> QED
    BY <2>1, <2>2, AskFits
<1>3. ASSUME NEW type \in Types, Data!SelectType(type) PROVE DataCalm'
  <2>1. /\ UNCHANGED <<entries, replaced, written>> /\ form' = Data!NoForm
        /\ Data!Ask("data", type, calls \ Data!Calls({"all"}))
    BY <1>3 DEF Data!SelectType
  <2>2. /\ table' \in DataTables /\ table'.items = table.items /\ table'.loaded = table.loaded
        /\ \E call : AwaitsOnly(call) /\ call.do = "all" /\ call.content = entries
    BY <1>1, <2>1, AskIs
  <2> QED
    BY <2>1, <2>2, AskFits
<1> QED
  BY <1>2, <1>3

LEMMA ReloadActiveTypeKeeps ==
    ASSUME DataCalm, calls = {}, dataTurns' \in Nat, Data!ReloadActiveType
    PROVE  DataCalm'
<1>1. /\ UNCHANGED <<entries, form, replaced, written>>
      /\ table' = [table EXCEPT !.loading = table.loading \cup {table.type}]
      /\ calls' = calls \cup {Data!Call("one", {table.type}, entries[table.type])}
  BY DEF Data!ReloadActiveType, Data!Reload
<1>2. /\ table' \in DataTables /\ table'.items = table.items /\ table'.loaded = table.loaded
      /\ table'.type = table.type
  BY <1>1 DEF DataCalm, DataTypes, DataTables
<1>3. PICK call : call = Data!Call("one", {table.type}, entries[table.type])
  OBVIOUS
<1>4. call.do = "one" /\ call.about = {table'.type} /\ call.content = entries[table'.type]
  BY <1>2, <1>3 DEF Data!Call
<1>5. AwaitsOnly(call)
  BY <1>1, <1>3 DEF AwaitsOnly
<1> QED
  BY <1>1, <1>2, <1>4, <1>5, AskFits

LEMMA StartCreateKeeps ==
    ASSUME DataCalm, calls = {}, dataTurns' \in Nat, Data!StartCreate
    PROVE  DataCalm'
<1>1. /\ UNCHANGED <<entries, table, calls, replaced, written>> /\ form' = Data!NoForm
  BY DEF Data!StartCreate
<1>2. table' \in DataTables
  BY <1>1 DEF DataCalm, DataTypes
<1>3. PICK call : call = Data!Call("all", {}, entries)
  OBVIOUS
<1>4. call.do = "all" /\ call.content = entries
  BY <1>3 DEF Data!Call
<1>5. AwaitsOnly(call)
  BY <1>1 DEF AwaitsOnly
<1> QED
  BY <1>1, <1>2, <1>4, <1>5, AskFits

\* The tab of the files: a file is chosen or confirmed.
LEMMA FilesKeep ==
    ASSUME DataCalm, calls = {}, dataTurns' \in Nat,
           Data!Confirm \/ \E file \in Files : Data!SelectBackupFile(file)
    PROVE  DataCalm'
<1>1. UNCHANGED <<entries, table, form, replaced, written>>
  BY DEF Data!Confirm, Data!SelectBackupFile
<1>2. PICK call : AwaitsOnly(call) /\ call.do = "checked"
  <2>1. CASE Data!Confirm
    <3>1. PICK call : call = Data!Call("checked", {}, <<>>)
      OBVIOUS
    <3>2. call.do = "checked"
      BY <3>1 DEF Data!Call
    <3> QED
      BY <2>1, <3>2 DEF Data!Confirm, AwaitsOnly
  <2>2. ASSUME NEW file \in Files, Data!SelectBackupFile(file)
        PROVE  \E call : AwaitsOnly(call) /\ call.do = "checked"
    <3>1. PICK call : call = Data!Call("checked", {file}, <<>>)
      OBVIOUS
    <3>2. call.do = "checked"
      BY <3>1 DEF Data!Call
    <3> QED
      BY <2>2, <3>1, <3>2 DEF Data!SelectBackupFile, AwaitsOnly
  <2> QED
    BY <2>1, <2>2
<1>3. table' \in DataTables
  BY <1>1 DEF DataCalm, DataTypes
<1> QED
  BY <1>1, <1>2, <1>3, AskFits

\* A file replaces all entries.
LEMMA FileReplacesKeeps ==
    ASSUME DataCalm, calls = {}, dataTurns' \in Nat, UNCHANGED <<table, form, written>>,
           \/ /\ entries' = Data!FileContent /\ replaced' = TRUE
              /\ \E call : AwaitsOnly(call) /\ call.do \in {"imported", "restored"}
                           /\ calls' # {}
           \/ /\ UNCHANGED <<entries, replaced>>
              /\ \E call : AwaitsOnly(call) /\ call.do = "not restored"
    PROVE  DataCalm'
<1>1. entries' \in TypeTables
  <2>1. CASE entries' = Data!FileContent
    <3>1. [key \in Keys |-> dataTurns'] \in Contents
      <4>1. [key \in Keys |-> dataTurns'] \in [Keys -> Nat]
        OBVIOUS
      <4> QED
        BY <4>1 DEF Contents
    <3> QED
      BY <2>1, <3>1 DEF Data!FileContent, TypeTables
  <2> QED
    BY <2>1 DEF DataCalm, DataTypes
<1>2. DataTypes'
  BY <1>1 DEF DataCalm, DataTypes
<1>3. PICK call : AwaitsOnly(call) /\ call.do \in {"imported", "restored", "not restored"}
  OBVIOUS
<1>4. OneCall' /\ CallsFit'
  BY <1>3 DEF OneCall, CallsFit, AwaitsOnly
<1>5. TableFits'
  BY DEF DataCalm, TableFits, Pending, AwaitsOnly
<1>6. FormFitsTable'
  BY DEF DataCalm, FormFitsTable
<1>7. WrittenFits'
  BY DEF DataCalm, WrittenFits
<1> QED
  BY <1>2, <1>4, <1>5, <1>6, <1>7 DEF DataCalm

LEMMA FilesReplaceKeep ==
    ASSUME DataCalm, calls = {}, dataTurns' \in Nat, Data!ImportMasterData \/ Data!RestoreBackup
    PROVE  DataCalm'
<1>1. UNCHANGED <<table, form, written>>
  BY DEF Data!ImportMasterData, Data!RestoreBackup
<1>2. PICK do \in {"imported", "restored", "not restored"} :
        /\ calls' = calls \cup {Data!Call(do, {}, <<>>)}
        /\ IF do = "not restored" THEN UNCHANGED <<entries, replaced>>
           ELSE entries' = Data!FileContent /\ replaced' = TRUE
  BY DEF Data!ImportMasterData, Data!RestoreBackup
<1>3. PICK call : call = Data!Call(do, {}, <<>>)
  OBVIOUS
<1>4. call.do = do /\ AwaitsOnly(call) /\ calls' # {}
  BY <1>2, <1>3 DEF Data!Call, AwaitsOnly
<1> QED
  BY <1>1, <1>2, <1>4, FileReplacesKeeps

\* The form is filled with what the table shows, which is what the server has.
LEMMA StartEditKeeps ==
    ASSUME DataCalm, calls = {}, dataTurns' \in Nat, NEW key \in Keys, Data!StartEdit(key)
    PROVE  DataCalm'
<1>1. /\ UNCHANGED <<entries, table, calls, written>> /\ replaced' = FALSE
      /\ form' = [type |-> table.type, key |-> key, content |-> table.items[table.type][key]]
      /\ key \in DOMAIN table.items[table.type]
  BY DEF Data!StartEdit
<1>2. table.type \in Types /\ table.items \in TypeTables
  BY DEF DataCalm, DataTypes, DataTables
<1>3. table.items[table.type] = entries[table.type]
  BY <1>1, <1>2 DEF DataCalm, TableFits, Pending
<1>4. table.items[table.type][key] \in Nat
  BY <1>1, <1>2 DEF TypeTables, Contents
<1>5. DataTypes'
  BY <1>1, <1>2, <1>4 DEF DataCalm, DataTypes, DataForms
<1>6. OneCall' /\ CallsFit'
  BY <1>1 DEF OneCall, CallsFit
<1>7. TableFits'
  BY <1>1 DEF DataCalm, TableFits, Pending
<1>8. FormFitsTable'
  BY <1>1, <1>3 DEF FormFitsTable
<1>9. WrittenFits'
  BY <1>1 DEF DataCalm, WrittenFits
<1> QED
  BY <1>5, <1>6, <1>7, <1>8, <1>9 DEF DataCalm

LEMMA SubmitKeeps ==
    ASSUME DataCalm, calls = {}, dataTurns' \in Nat, NEW key \in Keys, Data!Submit(key)
    PROVE  DataCalm'
<1> PICK type : type = table.type
  OBVIOUS
<1> PICK target : target = IF form = Data!NoForm THEN key ELSE form.key
  OBVIOUS
<1> DEFINE done == (target \in DOMAIN entries[type]) # (form = Data!NoForm)
<1>1. /\ UNCHANGED <<form, replaced>>
      /\ table' = [table EXCEPT !.saving = TRUE]
      /\ entries' = IF done THEN [entries EXCEPT ![type] = Data!Put(@, target, dataTurns')] ELSE entries
      /\ written' = IF form = Data!NoForm THEN written
                    ELSE [form |-> form, type |-> type,
                          over |-> IF done /\ ~replaced THEN entries[type][target] ELSE form.content]
      /\ calls' = {IF done THEN Data!Call("saved", {type}, [k \in {target} |-> dataTurns'])
                   ELSE Data!Call("refused", {type}, <<>>)}
  BY DEF Data!Submit
<1>2. type \in Types /\ target \in Keys
  BY DEF DataCalm, DataTypes, DataTables, DataForms
<1>3. PICK t : t = Data!Put(entries[type], target, dataTurns')
  OBVIOUS
<1>4. t \in Contents /\ target \in DOMAIN t /\ t[target] = dataTurns'
  <2>1. entries[type] \in Contents
    BY <1>2 DEF DataCalm, DataTypes, TypeTables
  <2>2. t \in Contents
    BY <1>2, <1>3, <2>1, ContentsFit
  <2> QED
    BY <1>3, <2>2 DEF Data!Put
<1>5. /\ done => entries' = [entries EXCEPT ![type] = t]
      /\ ~done => entries' = entries
  BY <1>1, <1>3
<1>6. /\ entries' \in TypeTables /\ (done => entries'[type] = t)
      /\ \A other \in Types \ {type} : entries'[other] = entries[other]
  BY <1>2, <1>4, <1>5 DEF DataCalm, DataTypes, TypeTables
<1>7. /\ table' \in DataTables /\ table'.items = table.items /\ table'.loaded = table.loaded
      /\ table'.type = type
  BY <1>1 DEF DataCalm, DataTypes, DataTables
<1>8. DataTypes'
  BY <1>1, <1>6, <1>7 DEF DataCalm, DataTypes
<1>9. PICK call : call = IF done THEN Data!Call("saved", {type}, [k \in {target} |-> dataTurns'])
                         ELSE Data!Call("refused", {type}, <<>>)
  OBVIOUS
<1>10. /\ calls' = {call}
       /\ done => /\ call.do = "saved" /\ call.about = {type}
                  /\ call.content = [k \in {target} |-> dataTurns']
       /\ ~done => call.do = "refused"
  BY <1>1, <1>9 DEF Data!Call
<1>11. WrittenFits'
  <2>1. CASE form = Data!NoForm
    BY <1>1, <2>1 DEF DataCalm, WrittenFits
  <2>2. CASE form # Data!NoForm
    <3>1. form.type = type /\ target = form.key
      BY <2>2 DEF DataCalm, FormFitsTable
    <3>2. done <=> target \in DOMAIN entries[type]
      BY <2>2
    <3>3. done /\ ~replaced => entries[type][target] = form.content
      BY <2>2, <3>1, <3>2 DEF DataCalm, FormFitsTable
    <3> HIDE DEF done
    <3>4. /\ written'.form = form /\ written'.type = type
          /\ written'.over = IF done /\ ~replaced THEN entries[type][target] ELSE form.content
      BY <1>1, <2>2
    <3> QED
      BY <3>1, <3>3, <3>4 DEF WrittenFits
  <2> QED
    BY <2>1, <2>2
<1> HIDE DEF done
<1>12. OneCall' /\ CallsFit'
  <2>1. OneCall'
    BY <1>10 DEF OneCall
  <2>2. CASE done
    <3>1. call.content = [k \in {target} |-> entries'[type][target]] /\ target \in DOMAIN entries'[type]
      BY <1>4, <1>6, <1>10, <2>2
    <3>2. /\ target \in DOMAIN entries'[table'.type]
          /\ DOMAIN call.content = {target} /\ call.content[target] = entries'[table'.type][target]
      BY <1>7, <3>1
    <3>3. call.about = {table'.type} /\ call.do = "saved"
      BY <1>7, <1>10, <2>2
    <3>4. CallsFit'
      BY <1>10, <3>2, <3>3 DEF CallsFit
    <3> QED
      BY <2>1, <3>4
  <2>3. CASE ~done
    BY <1>10, <2>1, <2>3 DEF CallsFit
  <2> QED
    BY <2>2, <2>3
<1>13. TableFits'
  <2> SUFFICES ASSUME NEW other \in Types
               PROVE  IF other \in table.loaded THEN Pending(other)' \/ table.items[other] = entries'[other]
                      ELSE DOMAIN table.items[other] = {}
    BY <1>7 DEF TableFits
  <2>1. IF other \in table.loaded THEN table.items[other] = entries[other] ELSE DOMAIN table.items[other] = {}
    BY DEF DataCalm, TableFits, Pending
  <2>2. CASE done /\ other = type
    BY <1>10, <2>1, <2>2 DEF Pending, Changes
  <2>3. CASE ~(done /\ other = type)
    BY <1>5, <1>6, <2>1, <2>3
  <2> QED
    BY <2>2, <2>3
<1>14. FormFitsTable'
  <2>1. CASE done
    BY <1>1, <1>7, <1>10, <2>1 DEF DataCalm, FormFitsTable
  <2>2. CASE ~done
    BY <1>1, <1>5, <1>7, <2>2 DEF DataCalm, FormFitsTable
  <2> QED
    BY <2>1, <2>2
<1> QED
  BY <1>8, <1>11, <1>12, <1>13, <1>14 DEF DataCalm

LEMMA DataDeleteKeeps ==
    ASSUME DataCalm, calls = {}, dataTurns' \in Nat, NEW key \in Keys, Data!DeleteEntry(key)
    PROVE  DataCalm'
<1> PICK type : type = table.type
  OBVIOUS
<1> PICK t : t = Data!Restrict(entries[type], DOMAIN entries[type] \ {key})
  OBVIOUS
<1> PICK do \in {"deleted", "deleted shown"} : do = IF form.key = key THEN "deleted shown" ELSE "deleted"
  OBVIOUS
<1>1. /\ UNCHANGED <<table, form, replaced, written>>
      /\ entries' = [entries EXCEPT ![type] = t]
      /\ calls' = {Data!Call(do, {type}, <<>>)}
  BY DEF Data!DeleteEntry
<1>2. type \in Types
  BY DEF DataCalm, DataTypes, DataTables
<1>3. /\ t \in Contents /\ DOMAIN t = DOMAIN entries[type] \ {key}
      /\ \A k \in DOMAIN t : t[k] = entries[type][k]
  <2>1. entries[type] \in Contents
    BY <1>2 DEF DataCalm, DataTypes, TypeTables
  <2> QED
    BY <2>1, ContentsFit DEF Data!Restrict
<1>4. /\ entries' \in TypeTables /\ entries'[type] = t
      /\ \A other \in Types \ {type} : entries'[other] = entries[other]
  BY <1>1, <1>2, <1>3 DEF DataCalm, DataTypes, TypeTables
<1>5. DataTypes'
  BY <1>1, <1>4 DEF DataCalm, DataTypes
<1>6. PICK call : call = Data!Call(do, {type}, <<>>)
  OBVIOUS
<1>7. calls' = {call} /\ call.do = do /\ call.about = {type}
  BY <1>1, <1>6 DEF Data!Call
<1>8. OneCall' /\ CallsFit'
  <2>1. OneCall'
    BY <1>7 DEF OneCall
  <2>2. do = "deleted shown" => form.key \notin DOMAIN entries'[type]
    BY <1>3, <1>4
  <2> QED
    BY <1>1, <1>7, <2>1, <2>2 DEF CallsFit
<1>9. TableFits'
  BY <1>1, <1>4, <1>7 DEF DataCalm, TableFits, Pending, Changes
<1>10. FormFitsTable'
  BY <1>1, <1>3, <1>4 DEF DataCalm, FormFitsTable
<1>11. WrittenFits'
  BY <1>1 DEF DataCalm, WrittenFits
<1> QED
  BY <1>5, <1>8, <1>9, <1>10, <1>11 DEF DataCalm

----------------------------------------------------------------------------
(* Answers.                                                                *)

\* The answer is the only one awaited.
LEMMA OnlyCall ==
    ASSUME DataCalm, NEW call \in calls
    PROVE  calls = {call}
BY DEF DataCalm, OneCall

LEMMA LoadedKeeps ==
    ASSUME DataCalm, NEW call \in calls, Data!AllLoaded(call) \/ Data!OneLoaded(call)
    PROVE  DataCalm'
<1>1. /\ UNCHANGED <<entries, form, replaced, written, dataTurns>>
      /\ calls' = {}
  BY OnlyCall DEF Data!AllLoaded, Data!OneLoaded
<1>2. /\ table' \in DataTables /\ table'.type = table.type
      /\ \A type \in Types : IF type \in table'.loaded THEN table'.items[type] = entries[type]
                             ELSE DOMAIN table'.items[type] = {}
  <2>1. CASE Data!AllLoaded(call)
    <3>1. call.content = entries
      BY <2>1 DEF Data!AllLoaded, DataCalm, CallsFit
    <3>2. table' = [table EXCEPT !.items = entries, !.loaded = Types, !.loading = table.loading \ call.about]
      BY <2>1, <3>1 DEF Data!AllLoaded
    <3> QED
      BY <3>2 DEF DataCalm, DataTypes, DataTables
  <2>2. CASE Data!OneLoaded(call)
    <3> PICK items : items = [type \in Types |-> IF type \in call.about THEN call.content
                                                 ELSE table.items[type]]
      OBVIOUS
    <3>1. call.do = "one" /\ call.about = {table.type} /\ call.content = entries[table.type]
      BY <2>2 DEF Data!OneLoaded, DataCalm, CallsFit
    <3>2. table' = [table EXCEPT !.items = items, !.loaded = table.loaded \cup {table.type},
                                 !.loading = table.loading \ {table.type}]
      BY <2>2, <3>1 DEF Data!OneLoaded
    <3>3. items \in TypeTables
      BY <3>1 DEF DataCalm, DataTypes, DataTables, TypeTables
    <3>4. \A type \in Types : type # table.type =>
            IF type \in table.loaded THEN table.items[type] = entries[type]
            ELSE DOMAIN table.items[type] = {}
      BY <3>1, OnlyCall DEF DataCalm, TableFits, Pending
    <3>5. table' \in DataTables /\ table'.items = items /\ table'.loaded = table.loaded \cup {table.type}
          /\ table'.type = table.type
      BY <3>2, <3>3 DEF DataCalm, DataTypes, DataTables
    <3> QED
      BY <3>1, <3>4, <3>5
  <2> QED
    BY <2>1, <2>2
<1>3. DataTypes'
  BY <1>1, <1>2 DEF DataCalm, DataTypes
<1>4. OneCall' /\ CallsFit'
  BY <1>1 DEF OneCall, CallsFit
<1>5. TableFits'
  BY <1>1, <1>2 DEF TableFits
<1>6. FormFitsTable'
  <2>1. call.do # "saved"
    BY DEF Data!AllLoaded, Data!OneLoaded
  <2> QED
    BY <1>1, <1>2, <2>1, OnlyCall DEF DataCalm, FormFitsTable
<1>7. WrittenFits'
  BY <1>1 DEF DataCalm, WrittenFits
<1> QED
  BY <1>3, <1>4, <1>5, <1>6, <1>7 DEF DataCalm

\* The type is loaded again.
LEMMA LoadsAgain ==
    ASSUME DataCalm, NEW call \in calls, call.do \in Changes, call.about = {table.type},
           UNCHANGED <<entries, replaced, written, dataTurns>>,
           table' \in DataTables, table'.items = table.items, table'.loaded = table.loaded,
           table'.type = table.type, form' \in DataForms,
           form' # Data!NoForm =>
             /\ form'.type = table.type
             /\ ~replaced /\ form'.key \in DOMAIN entries[form'.type] =>
                  entries[form'.type][form'.key] = form'.content,
           NEW next, calls' = (calls \ {call}) \cup {next},
           next.do = "one", next.about = {table.type}, next.content = entries[table.type]
    PROVE  DataCalm'
<1>1. calls' = {next}
  BY OnlyCall
<1>2. DataTypes'
  BY DEF DataCalm, DataTypes
<1>3. OneCall' /\ CallsFit'
  BY <1>1 DEF OneCall, CallsFit
<1>4. TableFits'
  BY <1>1, OnlyCall DEF DataCalm, TableFits, Pending, Changes
<1>5. FormFitsTable'
  BY DEF FormFitsTable
<1>6. WrittenFits'
  BY DEF DataCalm, WrittenFits
<1> QED
  BY <1>2, <1>3, <1>4, <1>5, <1>6 DEF DataCalm

\* The form shows the saved entry.
LEMMA SavedKeeps ==
    ASSUME DataCalm, NEW call \in calls, Data!Saved(call)
    PROVE  DataCalm'
<1>1. PICK type \in call.about, key \in DOMAIN call.content :
        /\ form' = [type |-> type, key |-> key, content |-> call.content[key]]
        /\ table' = [table EXCEPT !.saving = FALSE, !.loading = table.loading \cup call.about]
        /\ calls' = (calls \ {call}) \cup {Data!Call("one", call.about, entries[type])}
  BY DEF Data!Saved
<1>2. call.do = "saved" /\ UNCHANGED <<entries, replaced, written, dataTurns>>
  BY DEF Data!Saved
<1>3. /\ call.about = {table.type} /\ type = table.type /\ key \in DOMAIN entries[table.type]
      /\ call.content[key] = entries[table.type][key]
  <2>1. PICK k \in DOMAIN entries[table.type] :
          DOMAIN call.content = {k} /\ call.content[k] = entries[table.type][k]
    BY <1>2 DEF DataCalm, CallsFit
  <2>2. call.about = {table.type} /\ key = k
    BY <1>1, <1>2, <2>1 DEF DataCalm, CallsFit
  <2> QED
    BY <1>1, <2>1, <2>2
<1>4. /\ table' \in DataTables /\ table'.items = table.items /\ table'.loaded = table.loaded
      /\ table'.type = table.type /\ table.type \in Types
  BY <1>1, <1>3 DEF DataCalm, DataTypes, DataTables
<1>5. entries[table.type] \in Contents
  BY <1>4 DEF DataCalm, DataTypes, TypeTables
<1>6. key \in Keys /\ entries[table.type][key] \in Nat
  BY <1>3, <1>5 DEF Contents
<1>7. form' \in DataForms /\ form'.type = table.type /\ form'.key = key
      /\ form'.content = entries[table.type][key]
  BY <1>1, <1>3, <1>4, <1>6 DEF DataForms
<1>8. PICK next : next = Data!Call("one", call.about, entries[type])
  OBVIOUS
<1>9. /\ next.do = "one" /\ next.about = {table.type} /\ next.content = entries[table.type]
      /\ calls' = (calls \ {call}) \cup {next} /\ call.do \in Changes
  BY <1>1, <1>2, <1>3, <1>8 DEF Data!Call, Changes
<1> QED
  BY <1>2, <1>3, <1>4, <1>7, <1>9, LoadsAgain

LEMMA DeletedKeeps ==
    ASSUME DataCalm, NEW call \in calls, Data!Deleted(call)
    PROVE  DataCalm'
<1>1. PICK type \in call.about :
        /\ table' = [table EXCEPT !.loading = table.loading \cup {type}]
        /\ calls' = (calls \ {call}) \cup {Data!Call("one", {type}, entries[type])}
  BY DEF Data!Deleted, Data!Reload
<1>2. /\ call.do \in {"deleted", "deleted shown"} /\ UNCHANGED <<entries, replaced, written, dataTurns>>
      /\ form' = IF call.do = "deleted shown" THEN Data!NoForm ELSE form
  BY DEF Data!Deleted
<1>3. call.about = {table.type} /\ type = table.type
  BY <1>1, <1>2 DEF DataCalm, CallsFit
<1>4. /\ table' \in DataTables /\ table'.items = table.items /\ table'.loaded = table.loaded
      /\ table'.type = table.type
  BY <1>1, <1>3 DEF DataCalm, DataTypes, DataTables
<1>5. form' \in DataForms
  BY <1>2 DEF DataCalm, DataTypes, DataForms
<1>6. form' # Data!NoForm =>
        /\ form'.type = table.type
        /\ ~replaced /\ form'.key \in DOMAIN entries[form'.type] =>
             entries[form'.type][form'.key] = form'.content
  BY <1>2, OnlyCall DEF DataCalm, FormFitsTable
<1>7. PICK next : next = Data!Call("one", {type}, entries[type])
  OBVIOUS
<1>8. /\ next.do = "one" /\ next.about = {table.type} /\ next.content = entries[table.type]
      /\ calls' = (calls \ {call}) \cup {next} /\ call.do \in Changes
  BY <1>1, <1>2, <1>3, <1>7 DEF Data!Call, Changes
<1> QED
  BY <1>2, <1>3, <1>4, <1>5, <1>6, <1>8, LoadsAgain

\* Nothing counts as loaded after a file replaced the entries.
LEMMA ReplacedKeeps ==
    ASSUME DataCalm, NEW call \in calls, Data!Replaced(call)
    PROVE  DataCalm'
<1>1. /\ UNCHANGED <<entries, form, replaced, written, dataTurns>> /\ calls' = {}
      /\ table' = [table EXCEPT !.loaded = {}, !.items = Data!NoItems]
      /\ call.do \in {"imported", "restored"}
  BY OnlyCall DEF Data!Replaced
<1>2. /\ table' \in DataTables /\ table'.type = table.type
      /\ \A type \in Types : type \notin table'.loaded /\ DOMAIN table'.items[type] = {}
  BY <1>1, ContentsFit DEF DataCalm, DataTypes, DataTables
<1>3. DataTypes'
  BY <1>1, <1>2 DEF DataCalm, DataTypes
<1>4. OneCall' /\ CallsFit'
  BY <1>1 DEF OneCall, CallsFit
<1>5. TableFits'
  BY <1>1, <1>2 DEF TableFits
<1>6. FormFitsTable'
  BY <1>1, <1>2, OnlyCall DEF DataCalm, FormFitsTable
<1>7. WrittenFits'
  BY <1>1 DEF DataCalm, WrittenFits
<1> QED
  BY <1>3, <1>4, <1>5, <1>6, <1>7 DEF DataCalm

\* What is validated or refused changes nothing the table shows.
LEMMA NothingChangesKeeps ==
    ASSUME DataCalm, NEW call \in calls, ~rash',
           Data!Checked(call) \/ Data!Fails(call)
    PROVE  DataCalm'
<1>1. /\ UNCHANGED <<entries, form, replaced, written, dataTurns>> /\ calls' = {}
      /\ call.do \in {"checked", "refused", "not restored"}
  BY OnlyCall DEF Data!Checked, Data!Fails
<1>2. /\ table' \in DataTables /\ table'.type = table.type /\ table'.loaded = table.loaded
      /\ table'.items = table.items
  BY <1>1 DEF Data!Checked, Data!Fails, DataCalm, DataTypes, DataTables
<1>3. DataTypes'
  BY <1>1, <1>2 DEF DataCalm, DataTypes
<1>4. OneCall' /\ CallsFit'
  BY <1>1 DEF OneCall, CallsFit
<1>5. TableFits'
  <2>1. \A type : ~Pending(type)
    BY <1>1, OnlyCall DEF Pending, Changes
  <2> QED
    BY <1>1, <1>2, <2>1 DEF DataCalm, TableFits
<1>6. FormFitsTable'
  BY <1>1, <1>2, OnlyCall DEF DataCalm, FormFitsTable
<1>7. WrittenFits'
  BY <1>1 DEF DataCalm, WrittenFits
<1> QED
  BY <1>3, <1>4, <1>5, <1>6, <1>7 DEF DataCalm

----------------------------------------------------------------------------
LEMMA DataStepOK ==
    ASSUME DataPage, page = "data", Data!DataNext, ~rash'
    PROVE  DataCalm'
<1>1. ASSUME NEW call \in calls,
             \/ Data!AllLoaded(call) \/ Data!OneLoaded(call) \/ Data!Saved(call) \/ Data!Deleted(call)
             \/ Data!Checked(call) \/ Data!Replaced(call) \/ Data!Fails(call)
      PROVE  DataCalm'
  <2>1. ~rash
    BY <1>1 DEF Data!AllLoaded, Data!OneLoaded, Data!Saved, Data!Deleted, Data!Checked,
                Data!Replaced, Data!Fails
  <2>2. DataCalm
    BY <2>1 DEF DataPage
  <2> QED
    BY <1>1, <2>2, LoadedKeeps, SavedKeeps, DeletedKeeps, ReplacedKeeps, NothingChangesKeeps
<1>2. ASSUME \/ \E next \in Data!DataTabs : Data!SelectTab(next)
             \/ \E type \in Types : Data!SelectType(type)
             \/ \E key \in Keys : Data!StartEdit(key) \/ Data!Submit(key) \/ Data!DeleteEntry(key)
             \/ Data!ReloadActiveType \/ Data!StartCreate
             \/ Data!Confirm \/ \E file \in Files : Data!SelectBackupFile(file)
             \/ Data!ImportMasterData \/ Data!RestoreBackup
      PROVE  DataCalm'
  <2>1. Data!Turn
    BY <1>2 DEF Data!SelectTab, Data!SelectType, Data!StartEdit, Data!Submit, Data!DeleteEntry,
                Data!ReloadActiveType, Data!StartCreate, Data!Confirm, Data!SelectBackupFile,
                Data!ImportMasterData, Data!RestoreBackup
  <2>2. DataCalm /\ calls = {} /\ dataTurns' \in Nat
    BY <2>1, DataTurn
  <2> QED
    BY <1>2, <2>2, ShowKeeps, StartEditKeeps, SubmitKeeps, DataDeleteKeeps, ReloadActiveTypeKeeps,
       StartCreateKeeps, FilesKeep, FilesReplaceKeep
<1> QED
  BY <1>1, <1>2 DEF Data!DataNext, Data!DataAnswered

LEMMA DataInitOK == Data!DataInit => BackupFits /\ DataCalm
<1> SUFFICES ASSUME Data!DataInit PROVE BackupFits /\ DataCalm
  OBVIOUS
<1>1. PICK type \in Types :
        table = [tab |-> "general", type |-> type, loaded |-> {}, loading |-> {}, items |-> Data!NoItems,
                 saving |-> FALSE]
  BY DEF Data!DataInit
<1>2. /\ entries = [t \in Types |-> [key \in Keys |-> 0]] /\ form = Data!NoForm /\ calls = {}
      /\ backup = [file |-> Data!None, check |-> Data!NoCheck, validating |-> FALSE,
                   confirmed |-> FALSE, saving |-> FALSE]
      /\ written = [form |-> Data!NoForm, type |-> Data!None, over |-> 0]
      /\ restored = [file |-> Data!None, checked |-> Data!None, overtaken |-> FALSE]
      /\ dataTurns = 0
  BY DEF Data!DataInit
<1>3. BackupFits
  <2>1. Data!NoCheck \in [file : Files \cup {Data!None}, compatible : BOOLEAN] /\ ~Data!NoCheck.compatible
    BY DEF Data!NoCheck
  <2>2. backup \in Backups /\ ~backup.check.compatible
    BY <1>2, <2>1 DEF Backups
  <2> QED
    BY <1>2, <2>2 DEF BackupFits
<1>4. entries \in TypeTables
  <2>1. [key \in Keys |-> 0] \in [Keys -> Nat]
    OBVIOUS
  <2>2. [key \in Keys |-> 0] \in Contents
    BY <2>1 DEF Contents
  <2> QED
    BY <1>2, <2>2 DEF TypeTables
<1>5. table \in DataTables /\ TableFits
  BY <1>1, ContentsFit DEF DataTables, Data!DataTabs, TableFits
<1>6. DataTypes
  BY <1>2, <1>4, <1>5 DEF DataTypes, DataForms
<1>7. WrittenFits
  BY <1>2 DEF WrittenFits, Data!NoForm
<1> QED
  BY <1>2, <1>3, <1>5, <1>6, <1>7 DEF DataCalm, OneCall, CallsFit, FormFitsTable

LEMMA DataPageInit == Init => DataPage
BY DataInitOK DEF Init, DataPage

LEMMA DataPageStep == DataPage /\ [Next]_vars => DataPage'
<1> SUFFICES ASSUME DataPage, [Next]_vars, page' = "data"
             PROVE  BackupFits' /\ (~rash' => DataCalm')
  BY DEF DataPage
<1>1. page = "data" /\ (Data!DataNext \/ UNCHANGED dataVars)
  BY DEF Next, vars, settingsVars, OnlySession, OnlyExhibition, OnlyData, OnlyForms, OnlyGeneral
<1>2. BackupFits /\ (~rash => DataCalm)
  BY <1>1 DEF DataPage
<1>3. CASE UNCHANGED dataVars
  <2>1. BackupFits'
    BY <1>2, <1>3 DEF dataVars, BackupFits
  <2>2. DataCalm => DataCalm'
    <3>1. UNCHANGED <<entries, table, form, calls, replaced, written, dataTurns>>
      BY <1>3 DEF dataVars
    <3>2. (DataTypes => DataTypes') /\ (OneCall => OneCall') /\ (WrittenFits => WrittenFits')
      BY <3>1 DEF DataTypes, OneCall, WrittenFits
    <3>3. CallsFit => CallsFit'
      BY <3>1 DEF CallsFit
    <3>4. TableFits => TableFits'
      BY <3>1 DEF TableFits, Pending
    <3>5. FormFitsTable => FormFitsTable'
      BY <3>1 DEF FormFitsTable
    <3> QED
      BY <3>2, <3>3, <3>4, <3>5 DEF DataCalm
  <2>3. rash' = rash
    BY <1>3 DEF dataVars
  <2> QED
    BY <1>2, <2>1, <2>2, <2>3
<1> QED
  BY <1>1, <1>2, <1>3, DataStepOK, BackupStep

LEMMA DataPageAlways == Spec => []DataPage
BY DataPageInit, DataPageStep, PTL DEF Spec
----------------------------------------------------------------------------
(* The general tab of the settings: the number schemes.                    *)

NumberSchemes == [next : Nat, text : Nat]
RowTables == {General!NoRows} \cup [Categories -> NumberSchemes]

GeneralTypes ==
    /\ schemes \in [Categories -> NumberSchemes] /\ rows \in RowTables /\ came \in RowTables
    /\ DOMAIN came = DOMAIN rows /\ typed \in [Categories -> Nat] /\ generalTurns \in Nat

SchemeLoads == {"schemes", "no schemes"}

ComingFits ==
    \A reply \in coming :
       /\ reply.do \in {"saved", "not saved"} => coming = {reply}
       /\ reply.do \in SchemeLoads => "schemes" \in waiting
       /\ reply.do \in SchemeLoads => \A other \in coming : other.do \in SchemeLoads => reply = other
       /\ reply.do = "schemes" =>
            /\ reply.about = typed /\ reply.content \in [Categories -> NumberSchemes]
            /\ \A c \in Categories \ counted : reply.content[c] = schemes[c]
       /\ reply.do = "saved" =>
            \E c \in DOMAIN rows :
              /\ DOMAIN reply.about = {c} /\ reply.about[c] = typed[c]
              /\ reply.content[c] \in NumberSchemes
              /\ c \notin counted => schemes[c] = reply.content[c]

SavedFor(c) == \E reply \in coming : reply.do = "saved" /\ c \in DOMAIN reply.about

RowsFit ==
    \A c \in DOMAIN rows :
       /\ typed[c] = 0 => rows[c] = came[c]
       /\ c \notin counted => came[c] = schemes[c] \/ SavedFor(c)

SchemeSavesFit == ~taken /\ (~overwritten.counted => overwritten.was = overwritten.shown)

GeneralCalm == GeneralTypes /\ ComingFits /\ RowsFit /\ SchemeSavesFit

GeneralPage == page = "general" /\ ~impatient => GeneralCalm

LEMMA GeneralTurn ==
    ASSUME GeneralPage, page = "general", General!Turn, ~impatient'
    PROVE  GeneralCalm /\ coming = {} /\ generalTurns' \in Nat \ {0}
<1>1. ~impatient /\ coming = {} /\ generalTurns' = generalTurns + 1
  BY DEF General!Turn
<1>2. GeneralCalm
  BY <1>1 DEF GeneralPage
<1> QED
  BY <1>1, <1>2 DEF GeneralCalm, GeneralTypes

LEMMA RowsAre ==
    ASSUME GeneralTypes
    PROVE  /\ DOMAIN rows \in {{}, Categories} /\ DOMAIN came = DOMAIN rows
           /\ \A c \in DOMAIN rows : /\ rows \in [Categories -> NumberSchemes] /\ rows[c] \in NumberSchemes
                                     /\ came \in [Categories -> NumberSchemes]
<1>1. DOMAIN General!NoRows = {}
  BY DEF General!NoRows
<1>2. rows = General!NoRows \/ rows \in [Categories -> NumberSchemes]
  BY DEF GeneralTypes, RowTables
<1>3. came = General!NoRows \/ came \in [Categories -> NumberSchemes]
  BY DEF GeneralTypes, RowTables
<1>4. DOMAIN came = DOMAIN rows
  BY DEF GeneralTypes
<1> QED
  BY <1>1, <1>2, <1>3, <1>4

\* What is asked for is what there is, and what was typed.
LEMMA AskedAre ==
    ASSUME NEW wanted, NEW at, NEW reply \in General!Asked(wanted, at)
    PROVE  /\ reply.do \in SchemeLoads \cup {"storage", "no storage"}
           /\ reply.do \in SchemeLoads =>
                /\ "schemes" \in wanted
                /\ \A other \in General!Asked(wanted, at) : other.do \in SchemeLoads => reply = other
           /\ reply.do = "schemes" => reply.about = typed /\ reply.content = schemes
<1>1. PICK r : General!AskSchemes(at) = {r} /\ r.do \in SchemeLoads
               /\ (r.do = "schemes" => r.about = typed /\ r.content = schemes)
  <2>1. CASE role \in General!Readers
    <3>1. PICK r : r = General!Reply("schemes", at, typed, schemes)
      OBVIOUS
    <3>2. r.do = "schemes" /\ r.about = typed /\ r.content = schemes
      BY <3>1 DEF General!Reply
    <3>3. General!AskSchemes(at) = {r}
      BY <2>1, <3>1 DEF General!AskSchemes
    <3> QED
      BY <3>2, <3>3 DEF SchemeLoads
  <2>2. CASE role \notin General!Readers
    <3>1. PICK r : r = General!Reply("no schemes", at, typed, General!NoRows)
      OBVIOUS
    <3>2. r.do = "no schemes"
      BY <3>1 DEF General!Reply
    <3>3. General!AskSchemes(at) = {r}
      BY <2>2, <3>1 DEF General!AskSchemes
    <3> QED
      BY <3>2, <3>3 DEF SchemeLoads
  <2> QED
    BY <2>1, <2>2
<1>2. \A r2 \in General!AskStorage(at) : r2.do \in {"storage", "no storage"}
  <2>1. CASE role = "Admin"
    <3> PICK ask : ask = General!Reply("storage", at, General!NoRows, General!NoRows)
      OBVIOUS
    <3>1. ask.do = "storage"
      BY DEF General!Reply
    <3> QED
      BY <2>1, <3>1 DEF General!AskStorage
  <2>2. CASE role # "Admin"
    <3> PICK ask : ask = General!Reply("no storage", at, General!NoRows, General!NoRows)
      OBVIOUS
    <3>1. ask.do = "no storage"
      BY DEF General!Reply
    <3> QED
      BY <2>2, <3>1 DEF General!AskStorage
  <2> QED
    BY <2>1, <2>2
<1>3. \A r2 \in General!AskStorage(at) : r2.do \notin SchemeLoads
  BY <1>2 DEF SchemeLoads
<1> QED
  BY <1>1, <1>2, <1>3 DEF General!Asked

\* Requests and answers that leave rows and schemes alone.
LEMMA LoadsKeep ==
    ASSUME GeneralCalm, UNCHANGED <<schemes, rows, typed, taken, counted, overwritten, came>>,
           generalTurns' \in Nat,
           NEW rest \in SUBSET coming, NEW asks, coming' = rest \cup asks,
           \A reply \in coming : reply.do \notin {"saved", "not saved"},
           \A reply \in rest : reply.do \in SchemeLoads => "schemes" \in waiting',
           \A reply \in asks :
              /\ reply.do \notin {"saved", "not saved"}
              /\ reply.do \in SchemeLoads =>
                   /\ "schemes" \in waiting' /\ \A other \in rest : other.do \notin SchemeLoads
                   /\ \A other \in asks : other.do \in SchemeLoads => reply = other
              /\ reply.do = "schemes" => reply.about = typed /\ reply.content = schemes
    PROVE  GeneralCalm'
<1>1. GeneralTypes'
  BY DEF GeneralCalm, GeneralTypes
<1>2. ComingFits'
  <2> SUFFICES ASSUME NEW reply \in coming'
               PROVE  /\ reply.do \notin {"saved", "not saved"}
                      /\ reply.do \in SchemeLoads => "schemes" \in waiting'
                      /\ reply.do \in SchemeLoads =>
                           \A other \in coming' : other.do \in SchemeLoads => reply = other
                      /\ reply.do = "schemes" =>
                           /\ reply.about = typed /\ reply.content \in [Categories -> NumberSchemes]
                           /\ \A c \in Categories \ counted : reply.content[c] = schemes[c]
    BY DEF ComingFits
  <2>1. CASE reply \in rest
    BY <2>1 DEF GeneralCalm, ComingFits
  <2>2. CASE reply \in asks
    BY <2>2 DEF GeneralCalm, GeneralTypes, SchemeLoads
  <2> QED
    BY <2>1, <2>2
<1>3. RowsFit'
  <2>1. \A c : ~SavedFor(c)
    BY DEF SavedFor
  <2> QED
    BY <2>1 DEF GeneralCalm, RowsFit
<1>4. SchemeSavesFit'
  BY DEF GeneralCalm, SchemeSavesFit
<1> QED
  BY <1>1, <1>2, <1>3, <1>4 DEF GeneralCalm

LEMMA RequestKeeps ==
    ASSUME GeneralCalm, coming = {}, generalTurns' \in Nat,
           \/ \E next \in {"general", "data"} : General!OpenTab(next)
           \/ \E what \in {"schemes", "storage"} : General!Refresh(what)
    PROVE  GeneralCalm'
<1>1. UNCHANGED <<schemes, rows, typed, taken, counted, overwritten, came>>
  BY DEF General!OpenTab, General!Refresh, General!serverSide, General!tableVars
<1>2. PICK wanted, at : waiting' = waiting \cup wanted /\ coming' = coming \cup General!Asked(wanted, at)
  BY DEF General!OpenTab, General!Refresh
<1>3. PICK asks : asks = General!Asked(wanted, at)
  OBVIOUS
<1>4. PICK rest \in SUBSET coming : rest = {}
  OBVIOUS
<1>5. coming' = rest \cup asks
  BY <1>2, <1>3, <1>4
<1>6. \A reply \in asks :
        /\ reply.do \notin {"saved", "not saved"}
        /\ reply.do \in SchemeLoads =>
             /\ "schemes" \in waiting' /\ \A other \in rest : other.do \notin SchemeLoads
             /\ \A other \in asks : other.do \in SchemeLoads => reply = other
        /\ reply.do = "schemes" => reply.about = typed /\ reply.content = schemes
  BY <1>2, <1>3, <1>4, AskedAre DEF SchemeLoads
<1> QED
  BY <1>1, <1>4, <1>5, <1>6, LoadsKeep

\* While an answer to a load is awaited nothing is being saved.
LEMMA NoSaves ==
    ASSUME ComingFits, NEW reply \in coming, reply.do \notin {"saved", "not saved"}
    PROVE  \A other \in coming : other.do \notin {"saved", "not saved"}
BY DEF ComingFits

LEMMA LoadRefusedKeeps ==
    ASSUME GeneralCalm, NEW reply \in coming, General!LoadRefused(reply)
    PROVE  GeneralCalm'
<1>1. /\ UNCHANGED <<schemes, rows, typed, taken, counted, overwritten, came, generalTurns>>
      /\ reply.do \in {"no schemes", "no storage"}
  BY DEF General!LoadRefused, General!serverSide, General!tableVars
<1> PICK over : over = waiting \ {General!LoadOf(reply)}
  OBVIOUS
<1> PICK wanted : wanted = General!Wanted(openTab, rows, known, over)
  OBVIOUS
<1> PICK asks : asks = General!Asked(wanted, reply.at)
  OBVIOUS
<1> PICK rest \in SUBSET coming : rest = coming \ {reply}
  OBVIOUS
<1>2. waiting' = over \cup wanted /\ coming' = rest \cup asks
  BY DEF General!LoadRefused, General!LoadEnds
<1>3. "schemes" \in wanted => "schemes" \notin over
  BY DEF General!Wanted
<1>4. General!LoadOf(reply) = "schemes" <=> reply.do \in SchemeLoads
  BY DEF General!LoadOf, SchemeLoads
<1>5. \A other \in rest : other.do \in SchemeLoads => "schemes" \in over
  BY <1>4 DEF GeneralCalm, ComingFits
<1>6. \A other \in coming : other.do \notin {"saved", "not saved"}
  BY <1>1, NoSaves DEF GeneralCalm
<1>7. \A other \in asks :
        /\ other.do \notin {"saved", "not saved"}
        /\ other.do \in SchemeLoads =>
             /\ "schemes" \in waiting' /\ \A third \in rest : third.do \notin SchemeLoads
             /\ \A third \in asks : third.do \in SchemeLoads => other = third
        /\ other.do = "schemes" => other.about = typed /\ other.content = schemes
  BY <1>2, <1>3, <1>5, AskedAre DEF SchemeLoads
<1>8. generalTurns' \in Nat
  BY <1>1 DEF GeneralCalm, GeneralTypes
<1> QED
  BY <1>1, <1>2, <1>5, <1>6, <1>7, <1>8, LoadsKeep

LEMMA StorageLoadedKeeps ==
    ASSUME GeneralCalm, NEW reply \in coming, General!StorageLoaded(reply)
    PROVE  GeneralCalm'
<1>1. /\ UNCHANGED <<schemes, rows, typed, taken, counted, overwritten, came, generalTurns>>
      /\ reply.do = "storage" /\ waiting' = waiting \ {"storage"} /\ coming' = coming \ {reply}
  BY DEF General!StorageLoaded, General!serverSide, General!tableVars
<1> PICK rest \in SUBSET coming : rest = coming \ {reply}
  OBVIOUS
<1> PICK asks : asks = {}
  OBVIOUS
<1>2. coming' = rest \cup asks /\ generalTurns' \in Nat
  BY <1>1 DEF GeneralCalm, GeneralTypes
<1>3. \A other \in coming : other.do \notin {"saved", "not saved"}
  BY <1>1, NoSaves DEF GeneralCalm
<1>4. \A other \in rest : other.do \in SchemeLoads => "schemes" \in waiting'
  BY <1>1 DEF GeneralCalm, ComingFits
<1>5. \A other \in asks :
        /\ other.do \notin {"saved", "not saved"}
        /\ other.do \in SchemeLoads =>
             /\ "schemes" \in waiting' /\ \A third \in rest : third.do \notin SchemeLoads
             /\ \A third \in asks : third.do \in SchemeLoads => other = third
        /\ other.do = "schemes" => other.about = typed /\ other.content = schemes
  OBVIOUS
<1> QED
  BY <1>1, <1>2, <1>3, <1>4, <1>5, LoadsKeep

\* What came takes the place of the rows.
LEMMA SchemesLoadedKeeps ==
    ASSUME GeneralCalm, NEW reply \in coming, General!SchemesLoaded(reply)
    PROVE  GeneralCalm'
<1>1. /\ reply.do = "schemes" /\ rows' = reply.content /\ came' = reply.content
      /\ typed' = [c \in Categories |-> 0]
      /\ taken' = (taken \/ \E c \in Categories : typed[c] \notin {0, reply.about[c]})
      /\ counted' = {c \in counted : reply.content[c] # schemes[c]}
      /\ coming' = coming \ {reply}
      /\ UNCHANGED <<schemes, overwritten, generalTurns>>
  BY DEF General!SchemesLoaded, General!serverSide
<1>2. /\ reply.about = typed /\ reply.content \in [Categories -> NumberSchemes]
      /\ \A c \in Categories \ counted : reply.content[c] = schemes[c]
  BY <1>1 DEF GeneralCalm, ComingFits
<1>3. GeneralTypes'
  BY <1>1, <1>2 DEF GeneralCalm, GeneralTypes, RowTables
<1>4. \A other \in coming' : other.do \notin {"saved", "not saved"} /\ other.do \notin SchemeLoads
  BY <1>1, NoSaves DEF GeneralCalm, ComingFits, SchemeLoads
<1>5. ComingFits'
  BY <1>4 DEF ComingFits, SchemeLoads
<1>6. RowsFit'
  BY <1>1, <1>2 DEF RowsFit
<1>7. SchemeSavesFit'
  BY <1>1, <1>2 DEF GeneralCalm, SchemeSavesFit
<1> QED
  BY <1>3, <1>5, <1>6, <1>7 DEF GeneralCalm

LEMMA TypeSchemeKeeps ==
    ASSUME GeneralCalm, coming = {}, generalTurns' \in Nat \ {0}, NEW c \in Categories,
           General!TypeScheme(c)
    PROVE  GeneralCalm'
<1>1. /\ c \in DOMAIN rows /\ typed' = [typed EXCEPT ![c] = generalTurns']
      /\ UNCHANGED <<schemes, coming, taken, counted, overwritten, came>>
  BY DEF General!TypeScheme, General!serverSide
<1>2. rows \in [Categories -> NumberSchemes] /\ came \in [Categories -> NumberSchemes]
  BY <1>1, RowsAre DEF GeneralCalm
<1>3. PICK row \in NumberSchemes : rows' = [rows EXCEPT ![c] = row]
  <2>1. ASSUME NEW next \in {0, 3}, rows' = [rows EXCEPT ![c].next = next]
        PROVE  \E row \in NumberSchemes : rows' = [rows EXCEPT ![c] = row]
    <3>1. [rows[c] EXCEPT !.next = next] \in NumberSchemes
      BY <1>2 DEF NumberSchemes
    <3> QED
      BY <2>1, <3>1
  <2>2. ASSUME NEW text \in {0, generalTurns'}, rows' = [rows EXCEPT ![c].text = text]
        PROVE  \E row \in NumberSchemes : rows' = [rows EXCEPT ![c] = row]
    <3>1. [rows[c] EXCEPT !.text = text] \in NumberSchemes
      BY <1>2 DEF NumberSchemes
    <3> QED
      BY <2>2, <3>1
  <2> QED
    BY <2>1, <2>2 DEF General!TypeScheme
<1>4. GeneralTypes'
  BY <1>1, <1>2, <1>3 DEF GeneralCalm, GeneralTypes, RowTables
<1>5. ComingFits'
  BY <1>1 DEF ComingFits
<1>6. RowsFit'
  <2>1. \A d : ~SavedFor(d)
    BY DEF SavedFor
  <2>2. \A d \in Categories : d # c => rows'[d] = rows[d] /\ typed'[d] = typed[d]
    BY <1>1, <1>2, <1>3 DEF GeneralCalm, GeneralTypes
  <2>3. typed'[c] # 0 /\ DOMAIN rows' = Categories /\ DOMAIN rows = Categories
    BY <1>1, <1>2, <1>3 DEF GeneralCalm, GeneralTypes
  <2> QED
    BY <1>1, <2>1, <2>2, <2>3 DEF GeneralCalm, RowsFit
<1>7. SchemeSavesFit'
  BY <1>1 DEF GeneralCalm, SchemeSavesFit
<1> QED
  BY <1>4, <1>5, <1>6, <1>7 DEF GeneralCalm

\* A save writes over the scheme as it came, but where others made vehicles.
LEMMA SaveSchemeKeeps ==
    ASSUME GeneralCalm, coming = {}, generalTurns' \in Nat, NEW c \in Categories,
           General!SaveScheme(c)
    PROVE  GeneralCalm'
<1>1. c \in DOMAIN rows /\ UNCHANGED <<rows, typed, taken, came>>
  BY DEF General!SaveScheme
<1>2. /\ rows \in [Categories -> NumberSchemes] /\ came \in [Categories -> NumberSchemes]
      /\ \A d : ~SavedFor(d)
  BY <1>1, RowsAre DEF GeneralCalm, SavedFor
<1>3. CASE General!Accepted(rows[c])
  <2> PICK row : row = General!Input(rows[c])
    OBVIOUS
  <2>1. row \in NumberSchemes
    <3>1. rows[c] \in NumberSchemes
      BY <1>2
    <3> QED
      BY <3>1 DEF General!Input, NumberSchemes
  <2> PICK about : about = [x \in {c} |-> typed[x]]
    OBVIOUS
  <2> PICK content : content = [x \in {c} |-> General!Input(rows[x])]
    OBVIOUS
  <2> PICK reply : reply = General!Reply("saved", generalTurns', about, content)
    OBVIOUS
  <2>2. /\ schemes' = [schemes EXCEPT ![c] = row]
        /\ overwritten' = [was |-> schemes[c], shown |-> came[c], counted |-> c \in counted]
        /\ counted' = counted \ {c} /\ coming' = {reply}
    BY <1>3 DEF General!SaveScheme
  <2>3. /\ reply.do = "saved" /\ reply.about = about /\ reply.content = content
        /\ DOMAIN about = {c} /\ about[c] = typed[c] /\ content[c] = row
    BY DEF General!Reply
  <2>4. /\ schemes' \in [Categories -> NumberSchemes] /\ schemes'[c] = row
        /\ \A d \in Categories : d # c => schemes'[d] = schemes[d]
    BY <2>1, <2>2 DEF GeneralCalm, GeneralTypes
  <2>5. GeneralTypes'
    BY <1>1, <2>4 DEF GeneralCalm, GeneralTypes
  <2>6. ComingFits'
    <3>1. /\ coming' = {reply} /\ reply.do = "saved" /\ reply.do \notin SchemeLoads /\ c \in DOMAIN rows'
      BY <1>1, <2>2, <2>3 DEF SchemeLoads
    <3>2. /\ DOMAIN reply.about = {c} /\ reply.about[c] = typed'[c]
          /\ reply.content[c] \in NumberSchemes /\ schemes'[c] = reply.content[c]
      BY <1>1, <2>1, <2>3, <2>4
    <3> QED
      BY <3>1, <3>2 DEF ComingFits, SchemeLoads
  <2>7. RowsFit'
    <3>1. SavedFor(c)'
      BY <2>2, <2>3 DEF SavedFor
    <3>2. \A d \in DOMAIN rows \ {c} : /\ typed[d] = 0 => rows[d] = came[d]
                                       /\ d \notin counted' => came[d] = schemes'[d]
      BY <1>2, <2>2, <2>4 DEF GeneralCalm, RowsFit
    <3> QED
      BY <1>1, <3>1, <3>2 DEF GeneralCalm, RowsFit
  <2>8. SchemeSavesFit'
    <3>1. c \notin counted => came[c] = schemes[c]
      BY <1>1, <1>2 DEF GeneralCalm, RowsFit
    <3>2. overwritten'.was = schemes[c] /\ overwritten'.shown = came[c] /\ (overwritten'.counted <=> c \in counted)
      BY <2>2
    <3> QED
      BY <1>1, <3>1, <3>2 DEF GeneralCalm, SchemeSavesFit
  <2> QED
    BY <2>5, <2>6, <2>7, <2>8 DEF GeneralCalm
<1>4. CASE ~General!Accepted(rows[c])
  <2> PICK reply : reply = General!Reply("not saved", generalTurns', General!NoRows, General!NoRows)
    OBVIOUS
  <2>1. UNCHANGED <<schemes, overwritten, counted>> /\ coming' = {reply} /\ reply.do = "not saved"
    BY <1>4 DEF General!SaveScheme, General!Reply
  <2>2. GeneralTypes'
    BY <1>1, <2>1 DEF GeneralCalm, GeneralTypes
  <2>3. ComingFits'
    BY <2>1 DEF ComingFits, SchemeLoads
  <2>4. RowsFit' /\ SchemeSavesFit'
    BY <1>1, <1>2, <2>1 DEF GeneralCalm, RowsFit, SchemeSavesFit
  <2> QED
    BY <2>2, <2>3, <2>4 DEF GeneralCalm
<1> QED
  BY <1>3, <1>4

\* The row that was saved shows what the server made of it.
LEMMA SchemeSavedKeeps ==
    ASSUME GeneralCalm, NEW reply \in coming, General!SchemeSaved(reply)
    PROVE  GeneralCalm'
<1>1. PICK c \in DOMAIN reply.about :
        /\ rows' = [rows EXCEPT ![c] = reply.content[c]] /\ came' = [came EXCEPT ![c] = reply.content[c]]
        /\ typed' = [typed EXCEPT ![c] = 0]
        /\ taken' = (taken \/ typed[c] \notin {0, reply.about[c]})
  BY DEF General!SchemeSaved
<1>2. /\ reply.do = "saved" /\ coming' = coming \ {reply}
      /\ UNCHANGED <<schemes, counted, overwritten, generalTurns>>
  BY DEF General!SchemeSaved, General!serverSide
<1>3. /\ c \in DOMAIN rows /\ DOMAIN reply.about = {c} /\ reply.about[c] = typed[c]
      /\ reply.content[c] \in NumberSchemes /\ (c \notin counted => schemes[c] = reply.content[c])
      /\ coming = {reply}
  BY <1>1, <1>2 DEF GeneralCalm, ComingFits
<1>4. rows \in [Categories -> NumberSchemes] /\ came \in [Categories -> NumberSchemes]
  BY <1>3, RowsAre DEF GeneralCalm
<1>5. GeneralTypes'
  BY <1>1, <1>2, <1>3, <1>4 DEF GeneralCalm, GeneralTypes, RowTables
<1>6. ComingFits'
  BY <1>2, <1>3 DEF ComingFits
<1>7. RowsFit'
  <2>1. \A d : d # c => ~SavedFor(d)
    BY <1>3 DEF SavedFor
  <2>2. rows'[c] = reply.content[c] /\ came'[c] = reply.content[c]
    BY <1>1, <1>3, <1>4
  <2>3. \A d \in Categories : d # c => rows'[d] = rows[d] /\ came'[d] = came[d] /\ typed'[d] = typed[d]
    BY <1>1, <1>4 DEF GeneralCalm, GeneralTypes
  <2>4. DOMAIN rows' = Categories /\ DOMAIN rows = Categories
    BY <1>1, <1>4
  <2> QED
    BY <1>2, <1>3, <2>1, <2>2, <2>3, <2>4 DEF GeneralCalm, RowsFit
<1>8. SchemeSavesFit'
  BY <1>1, <1>2, <1>3 DEF GeneralCalm, SchemeSavesFit
<1> QED
  BY <1>5, <1>6, <1>7, <1>8 DEF GeneralCalm

LEMMA NotSavedKeeps ==
    ASSUME GeneralCalm, NEW reply \in coming, General!NotSaved(reply), ~impatient'
    PROVE  GeneralCalm'
<1>1. /\ reply.do = "not saved" /\ coming' = coming \ {reply}
      /\ UNCHANGED <<schemes, rows, typed, taken, counted, overwritten, came, generalTurns>>
  BY DEF General!NotSaved, General!serverSide, General!tableVars
<1>2. coming = {reply}
  BY <1>1 DEF GeneralCalm, ComingFits
<1>3. GeneralTypes'
  BY <1>1 DEF GeneralCalm, GeneralTypes
<1>4. ComingFits'
  BY <1>1, <1>2 DEF ComingFits
<1>5. RowsFit'
  <2>1. \A c : ~SavedFor(c)
    BY <1>1, <1>2 DEF SavedFor
  <2> QED
    BY <1>1, <2>1 DEF GeneralCalm, RowsFit
<1>6. SchemeSavesFit'
  BY <1>1 DEF GeneralCalm, SchemeSavesFit
<1> QED
  BY <1>3, <1>4, <1>5, <1>6 DEF GeneralCalm

\* Others make a vehicle, or the session ends.
LEMMA OthersKeep ==
    ASSUME GeneralCalm, General!SessionEnds \/ \E c \in Categories : General!VehicleMade(c)
    PROVE  GeneralCalm'
<1>1. /\ UNCHANGED <<rows, typed, waiting, coming, taken, overwritten, came>>
      /\ generalTurns' = generalTurns + 1
  BY DEF General!SessionEnds, General!VehicleMade, General!tableVars
<1>2. /\ schemes' \in [Categories -> NumberSchemes] /\ counted \subseteq counted'
      /\ \A c \in Categories \ counted' : schemes'[c] = schemes[c]
  <2>1. CASE General!SessionEnds
    BY <2>1 DEF General!SessionEnds, General!tableVars, GeneralCalm, GeneralTypes
  <2>2. ASSUME NEW c \in Categories, General!VehicleMade(c)
        PROVE  /\ schemes' \in [Categories -> NumberSchemes] /\ counted \subseteq counted'
               /\ \A d \in Categories \ counted' : schemes'[d] = schemes[d]
    <3>1. [schemes[c] EXCEPT !.next = schemes[c].next + 1] \in NumberSchemes
      BY DEF GeneralCalm, GeneralTypes, NumberSchemes
    <3> QED
      BY <2>2, <3>1 DEF General!VehicleMade, GeneralCalm, GeneralTypes
  <2> QED
    BY <2>1, <2>2
<1>3. DOMAIN rows \subseteq Categories
  BY RowsAre DEF GeneralCalm
<1>4. GeneralTypes'
  BY <1>1, <1>2 DEF GeneralCalm, GeneralTypes
<1>5. ComingFits'
  <2> SUFFICES ASSUME NEW reply \in coming
               PROVE  /\ reply.do \in {"saved", "not saved"} => coming = {reply}
                      /\ reply.do \in SchemeLoads => "schemes" \in waiting
                      /\ reply.do \in SchemeLoads =>
                           \A other \in coming : other.do \in SchemeLoads => reply = other
                      /\ reply.do = "schemes" =>
                           /\ reply.about = typed /\ reply.content \in [Categories -> NumberSchemes]
                           /\ \A c \in Categories \ counted' : reply.content[c] = schemes'[c]
                      /\ reply.do = "saved" =>
                           \E c \in DOMAIN rows :
                             /\ DOMAIN reply.about = {c} /\ reply.about[c] = typed[c]
                             /\ reply.content[c] \in NumberSchemes
                             /\ c \notin counted' => schemes'[c] = reply.content[c]
    BY <1>1 DEF ComingFits
  <2>1. reply.do = "schemes" =>
          /\ reply.about = typed /\ reply.content \in [Categories -> NumberSchemes]
          /\ \A c \in Categories \ counted' : reply.content[c] = schemes'[c]
    BY <1>2 DEF GeneralCalm, ComingFits
  <2>2. ASSUME reply.do = "saved"
        PROVE  \E c \in DOMAIN rows :
                 /\ DOMAIN reply.about = {c} /\ reply.about[c] = typed[c]
                 /\ reply.content[c] \in NumberSchemes
                 /\ c \notin counted' => schemes'[c] = reply.content[c]
    <3>1. PICK c \in DOMAIN rows :
             /\ DOMAIN reply.about = {c} /\ reply.about[c] = typed[c]
             /\ reply.content[c] \in NumberSchemes
             /\ c \notin counted => schemes[c] = reply.content[c]
      BY <2>2 DEF GeneralCalm, ComingFits
    <3>2. c \notin counted' => schemes'[c] = reply.content[c]
      BY <1>2, <1>3, <3>1
    <3> QED
      BY <3>1, <3>2
  <2> QED
    BY <2>1, <2>2 DEF GeneralCalm, ComingFits
<1>6. RowsFit'
  BY <1>1, <1>2, <1>3 DEF GeneralCalm, RowsFit, SavedFor
<1>7. SchemeSavesFit'
  BY <1>1 DEF GeneralCalm, SchemeSavesFit
<1> QED
  BY <1>4, <1>5, <1>6, <1>7 DEF GeneralCalm

----------------------------------------------------------------------------
LEMMA GeneralStepOK ==
    ASSUME GeneralPage, page = "general", General!GeneralNext, ~impatient'
    PROVE  GeneralCalm'
<1>1. ASSUME NEW reply \in coming,
             \/ General!SchemesLoaded(reply) \/ General!StorageLoaded(reply)
             \/ General!LoadRefused(reply) \/ General!LoadLost(reply)
             \/ General!SchemeSaved(reply) \/ General!NotSaved(reply)
      PROVE  GeneralCalm'
  <2>1. ~General!LoadLost(reply)
    BY DEF General!LoadLost
  <2>3. ~impatient
    <3>1. ASSUME General!SchemesLoaded(reply) PROVE ~impatient
      BY <3>1 DEF General!SchemesLoaded
    <3>2. ASSUME General!StorageLoaded(reply) PROVE ~impatient
      BY <3>2 DEF General!StorageLoaded
    <3>3. ASSUME General!LoadRefused(reply) PROVE ~impatient
      BY <3>3 DEF General!LoadRefused
    <3>4. ASSUME General!SchemeSaved(reply) PROVE ~impatient
      BY <3>4 DEF General!SchemeSaved
    <3>5. ASSUME General!NotSaved(reply) PROVE ~impatient
      BY <3>5 DEF General!NotSaved
    <3> QED
      BY <1>1, <2>1, <3>1, <3>2, <3>3, <3>4, <3>5
  <2>2. GeneralCalm
    BY <2>3 DEF GeneralPage
  <2> QED
    BY <1>1, <2>1, <2>2, SchemesLoadedKeeps, StorageLoadedKeeps, LoadRefusedKeeps,
       SchemeSavedKeeps, NotSavedKeeps
<1>2. ASSUME \/ \E next \in {"general", "data"} : General!OpenTab(next)
             \/ \E what \in {"schemes", "storage"} : General!Refresh(what)
             \/ \E c \in Categories : General!TypeScheme(c) \/ General!SaveScheme(c)
      PROVE  GeneralCalm'
  <2>1. General!Turn
    BY <1>2 DEF General!OpenTab, General!Refresh, General!TypeScheme, General!SaveScheme
  <2>2. GeneralCalm /\ coming = {} /\ generalTurns' \in Nat \ {0} /\ generalTurns' \in Nat
    BY <2>1, GeneralTurn
  <2> QED
    BY <1>2, <2>2, RequestKeeps, TypeSchemeKeeps, SaveSchemeKeeps
<1>3. ASSUME General!SessionEnds \/ \E c \in Categories : General!VehicleMade(c)
      PROVE  GeneralCalm'
  <2>1. ~impatient
    BY <1>3 DEF General!SessionEnds, General!VehicleMade
  <2> QED
    BY <1>3, <2>1, OthersKeep DEF GeneralPage
<1> QED
  BY <1>1, <1>2, <1>3 DEF General!GeneralNext, General!GeneralAnswered

LEMMA GeneralInitOK == General!GeneralInit => GeneralCalm
<1> SUFFICES ASSUME General!GeneralInit PROVE GeneralCalm
  OBVIOUS
<1>1. /\ schemes = [c \in Categories |-> General!Scheme(1, 1)] /\ rows = General!NoRows
      /\ typed = [c \in Categories |-> 0] /\ waiting = {"schemes", "storage"}
      /\ coming = General!AskSchemes(0) \cup General!AskStorage(0)
      /\ taken = FALSE /\ counted = {} /\ came = General!NoRows /\ generalTurns = 0
      /\ overwritten = [was |-> General!Scheme(1, 1), shown |-> General!Scheme(1, 1), counted |-> FALSE]
  BY DEF General!GeneralInit
<1>2. General!Scheme(1, 1) \in NumberSchemes
  BY DEF General!Scheme, NumberSchemes
<1>3. GeneralTypes
  BY <1>1, <1>2 DEF GeneralTypes, RowTables
<1>4. coming = General!Asked({"schemes", "storage"}, 0)
  BY <1>1 DEF General!Asked
<1>5. \A reply \in coming : reply.do \notin {"saved", "not saved"}
  BY <1>4, AskedAre DEF SchemeLoads
<1>6. ComingFits
  BY <1>1, <1>3, <1>4, <1>5, AskedAre DEF ComingFits, GeneralTypes
<1>7. RowsFit
  BY <1>1 DEF RowsFit, General!NoRows
<1>8. SchemeSavesFit
  BY <1>1 DEF SchemeSavesFit
<1> QED
  BY <1>3, <1>6, <1>7, <1>8 DEF GeneralCalm

LEMMA GeneralPageInit == Init => GeneralPage
BY GeneralInitOK DEF Init, GeneralPage

LEMMA GeneralPageStep == GeneralPage /\ [Next]_vars => GeneralPage'
<1> SUFFICES ASSUME GeneralPage, [Next]_vars, page' = "general", ~impatient'
             PROVE  GeneralCalm'
  BY DEF GeneralPage
<1>1. page = "general" /\ (General!GeneralNext \/ UNCHANGED generalVars)
  BY DEF Next, vars, settingsVars, OnlySession, OnlyExhibition, OnlyData, OnlyForms, OnlyGeneral
<1>2. CASE UNCHANGED generalVars
  <2>1. UNCHANGED <<schemes, rows, typed, waiting, coming, taken, counted, overwritten, came,
                    generalTurns, impatient>>
    BY <1>2 DEF generalVars
  <2>2. GeneralCalm
    BY <1>1, <2>1 DEF GeneralPage
  <2>3. GeneralTypes' /\ RowsFit' /\ SchemeSavesFit'
    BY <2>1, <2>2 DEF GeneralCalm, GeneralTypes, RowsFit, SavedFor, SchemeSavesFit
  <2>4. ComingFits'
    BY <2>1, <2>2 DEF GeneralCalm, ComingFits
  <2> QED
    BY <2>3, <2>4 DEF GeneralCalm
<1> QED
  BY <1>1, <1>2, GeneralStepOK

LEMMA GeneralPageAlways == Spec => []GeneralPage
BY GeneralPageInit, GeneralPageStep, PTL DEF Spec
----------------------------------------------------------------------------
(* The forms of the settings.                                              *)

FormSessions == UNION {[group -> BOOLEAN] : group \in SUBSET {Self}}
UserTables == UNION {[group -> BOOLEAN] : group \in SUBSET Users}

FormsTypes ==
    /\ accounts \in UserTables
    /\ alive \in BOOLEAN /\ (alive => Self \in DOMAIN accounts)
    /\ shown \in [session : FormSessions,
                  users : UserTables]
    /\ userForm \in [for : Users \cup {Forms!None}, admin : BOOLEAN, password : BOOLEAN]
    /\ drafts \in [user : Nat, smtp : Nat, password : Nat]
    /\ formTurns \in Nat

UserChanges == {"user saved", "edited deleted", "deleted"}

\* The user asked for the SMTP settings, by opening the tab or with the button.
Wanted == {"tab", "button"}

RepliesFit ==
    \A reply \in replies :
       /\ reply.do = "printers" =>
            reply.about = printer /\ \A other \in replies : other.do = "printers" => reply = other
       /\ reply.do = "smtp" => drafts.smtp = 0 \/ reply.about \in Wanted
       /\ reply.do = "form saved" => /\ reply.about \in {"smtp", "password"}
                                     /\ drafts[reply.about] \in {0, reply.draft}
       /\ reply.do \in {"user saved", "edited deleted"} => drafts.user \in {0, reply.draft}
       /\ reply.do \in UserChanges => replies = {reply}
       /\ reply.do = "users" => reply.content = accounts
       /\ reply.do = "session" =>
            /\ reply.content \in FormSessions
            /\ alive => Forms!ManagesAs(reply.content) = accounts[Self]
       /\ reply.do \in {"edited deleted", "deleted"} => (alive => accounts[Self])
       /\ reply.do = "user saved" =>
            reply.about \in DOMAIN accounts /\ reply.content \in [{reply.about} -> BOOLEAN]

Awaits(kinds) == \E reply \in replies : reply.do \in kinds

UsersFit == DOMAIN shown.users \subseteq DOMAIN accounts \/ Awaits({"users", "edited deleted", "deleted"})
UserFormFits == userForm.for \in DOMAIN accounts \cup {Forms!None} \/ Awaits({"edited deleted"})
RightsFit ==
    tab = "auth" => Forms!CanManageUsers = accounts[Self] \/ Awaits({"session", "user saved"})

\* What was typed as an administrator is left when the rights are lost, and these do not
\* come back.
TypedAsAdmin == alive /\ accounts[Self] => Forms!CanManageUsers \/ drafts.smtp = 0

FormsCalm ==
    /\ FormsTypes /\ RepliesFit /\ TypedAsAdmin /\ dropped \subseteq Wanted
    /\ chosen \in {Forms!None, "system-dialog", printer}
    /\ alive => UsersFit /\ UserFormFits /\ RightsFit

FormsPage == page = "forms" /\ ~eager => FormsCalm

LEMMA UserTablesAre ==
    ASSUME NEW users \in UserTables
    PROVE  /\ DOMAIN users \subseteq Users /\ users \in [DOMAIN users -> BOOLEAN]
           /\ \A user \in DOMAIN users : users[user] \in BOOLEAN
BY DEF UserTables

LEMMA SelfIsUser == Self \in Users /\ Forms!None \notin Users
BY FormsAssumptions DEF Forms!ConstantsFit

LEMMA FormsTurn ==
    ASSUME FormsPage, page = "forms", Forms!Turn, ~eager'
    PROVE  FormsCalm /\ replies = {} /\ formTurns' \in Nat
<1>1. ~eager /\ replies = {} /\ formTurns' = formTurns + 1
  BY DEF Forms!Turn
<1>2. FormsCalm
  BY <1>1 DEF FormsPage
<1> QED
  BY <1>1, <1>2 DEF FormsCalm, FormsTypes

\* What is asked for is what the server has.
LEMMA SessionAsked ==
    ASSUME FormsTypes
    PROVE  \E r : /\ Forms!AskSession = {r} /\ r.do \in {"session", "refused"}
                  /\ alive => r.do = "session"
                  /\ r.do = "session" => /\ r.content \in FormSessions
                                         /\ alive => Forms!ManagesAs(r.content) = accounts[Self]
<1>1. CASE alive
  <2> PICK rights : rights = Forms!Rights
    OBVIOUS
  <2> PICK r : r = Forms!Answer("session", "session", Forms!None, 0, Forms!Rights)
    OBVIOUS
  <2>1. r.do = "session" /\ r.content = rights
    BY DEF Forms!Answer
  <2>2. Forms!AskSession = {r}
    BY <1>1 DEF Forms!AskSession
  <2>3. Self \in DOMAIN accounts /\ accounts[Self] \in BOOLEAN
    BY <1>1, UserTablesAre DEF FormsTypes, UserTables
  <2>4. DOMAIN rights = {Self} /\ rights[Self] = accounts[Self] /\ rights \in [{Self} -> BOOLEAN]
    BY <2>3 DEF Forms!Rights
  <2>5. rights \in FormSessions
    BY <2>4 DEF FormSessions
  <2>6. Forms!ManagesAs(rights) = accounts[Self]
    BY <2>3, <2>4 DEF Forms!ManagesAs
  <2> QED
    BY <2>1, <2>2, <2>5, <2>6
<1>2. CASE ~alive
  <2> PICK r : r = Forms!Refused("session")
    OBVIOUS
  <2>1. r.do = "refused"
    BY DEF Forms!Refused, Forms!Answer
  <2>2. Forms!AskSession = {r}
    BY <1>2 DEF Forms!AskSession
  <2> QED
    BY <1>2, <2>1, <2>2
<1> QED
  BY <1>1, <1>2

LEMMA UsersAsked ==
    \E r : /\ Forms!AskUsers = {r} /\ r.do \in {"users", "refused"}
           /\ Forms!AsAdmin => r.do = "users"
           /\ r.do = "users" => r.content = accounts
<1>1. CASE Forms!AsAdmin
  <2> PICK r : r = Forms!Answer("users", "users", Forms!None, 0, accounts)
    OBVIOUS
  <2>1. r.do = "users" /\ r.content = accounts
    BY DEF Forms!Answer
  <2> QED
    BY <1>1, <2>1 DEF Forms!AskUsers
<1>2. CASE ~Forms!AsAdmin
  <2> PICK r : r = Forms!Refused("users")
    OBVIOUS
  <2>1. r.do = "refused"
    BY DEF Forms!Refused, Forms!Answer
  <2> QED
    BY <1>2, <2>1 DEF Forms!AskUsers
<1> QED
  BY <1>1, <1>2

LEMMA SMTPAsked ==
    ASSUME NEW cause
    PROVE  \E r : /\ Forms!AskSMTP(cause) = {r} /\ r.do \in {"smtp", "refused"}
                  /\ r.do = "smtp" => r.about = cause /\ alive /\ accounts[Self]
<1>1. CASE Forms!AsAdmin
  <2> PICK r : r = Forms!Answer("smtp", "smtp settings", cause, 0, <<>>)
    OBVIOUS
  <2>1. r.do = "smtp" /\ r.about = cause
    BY DEF Forms!Answer
  <2> QED
    BY <1>1, <2>1 DEF Forms!AskSMTP, Forms!AsAdmin
<1>2. CASE ~Forms!AsAdmin
  <2> PICK r : r = Forms!Refused("smtp settings")
    OBVIOUS
  <2>1. r.do = "refused"
    BY DEF Forms!Refused, Forms!Answer
  <2> QED
    BY <1>2, <2>1 DEF Forms!AskSMTP
<1> QED
  BY <1>1, <1>2

LEMMA PrintersAsked ==
    \E r : Forms!AskPrinters(printer) = {r} /\ r.do = "printers" /\ r.about = printer
<1> PICK r : r = Forms!Answer("printers", "printers", printer, 0, <<>>)
  OBVIOUS
<1>1. r.do = "printers" /\ r.about = printer
  BY DEF Forms!Answer
<1> QED
  BY <1>1 DEF Forms!AskPrinters

\* An answer that fits among others, when no change of a user is under way.
FitsIn(reply) ==
    /\ reply.do \in {"session", "users", "smtp", "refused"}
    /\ reply.do = "smtp" => drafts.smtp = 0 \/ reply.about \in Wanted
    /\ reply.do = "users" => reply.content = accounts
    /\ reply.do = "session" => /\ reply.content \in FormSessions
                               /\ alive => Forms!ManagesAs(reply.content) = accounts[Self]

LEMMA AskedFit ==
    ASSUME FormsTypes, NEW cause, cause \in Wanted \/ (alive /\ accounts[Self] => drafts.smtp = 0)
    PROVE  \A r \in Forms!AskSession \cup Forms!AskUsers \cup Forms!AskSMTP(cause) : FitsIn(r)
<1>1. \A r \in Forms!AskSession : FitsIn(r)
  BY SessionAsked DEF FitsIn
<1>2. \A r \in Forms!AskUsers : FitsIn(r)
  BY UsersAsked DEF FitsIn
<1>3. \A r \in Forms!AskSMTP(cause) : FitsIn(r)
  BY SMTPAsked DEF FitsIn
<1> QED
  BY <1>1, <1>2, <1>3

LEMMA RepliesKeep ==
    ASSUME RepliesFit, UNCHANGED <<accounts, alive>>,
           NEW rest \in SUBSET replies, NEW asks, replies' = rest \cup asks,
           \A reply \in rest : reply.do \notin UserChanges,
           printer' = printer \/ \A reply \in rest : reply.do # "printers",
           drafts'.user \in {0, drafts.user}, drafts'.smtp \in {0, drafts.smtp},
           drafts'.password \in {0, drafts.password},
           \A reply \in asks : FitsIn(reply)
    PROVE  RepliesFit'
<1> SUFFICES ASSUME NEW reply \in replies'
             PROVE  /\ reply.do = "printers" =>
                         reply.about = printer' /\ \A other \in replies' : other.do = "printers" => reply = other
                    /\ reply.do = "smtp" => drafts'.smtp = 0 \/ reply.about \in Wanted
                    /\ reply.do = "form saved" => /\ reply.about \in {"smtp", "password"}
                                                  /\ drafts'[reply.about] \in {0, reply.draft}
                    /\ reply.do \notin UserChanges
                    /\ reply.do = "users" => reply.content = accounts
                    /\ reply.do = "session" =>
                         /\ reply.content \in FormSessions
                         /\ alive => Forms!ManagesAs(reply.content) = accounts[Self]
  BY DEF RepliesFit, FormSessions, UserChanges
<1>1. CASE reply \in rest
  <2>1. reply.do \notin UserChanges /\ reply \in replies
    BY <1>1
  <2>2. reply.do = "printers" =>
          reply.about = printer' /\ \A other \in replies' : other.do = "printers" => reply = other
    BY <1>1 DEF RepliesFit, FitsIn
  <2>3. reply.do = "smtp" => drafts'.smtp = 0 \/ reply.about \in Wanted
    BY <2>1 DEF RepliesFit
  <2>4. reply.do = "form saved" => /\ reply.about \in {"smtp", "password"}
                                   /\ drafts'[reply.about] \in {0, reply.draft}
    BY <2>1 DEF RepliesFit
  <2>5. /\ reply.do = "users" => reply.content = accounts
        /\ reply.do = "session" =>
             /\ reply.content \in FormSessions
             /\ alive => Forms!ManagesAs(reply.content) = accounts[Self]
    BY <2>1 DEF RepliesFit, FormSessions
  <2> QED
    BY <2>1, <2>2, <2>3, <2>4, <2>5
<1>2. CASE reply \in asks
  BY <1>2 DEF FitsIn, UserChanges
<1> QED
  BY <1>1, <1>2

LEMMA StillAwaited ==
    ASSUME NEW kinds, NEW reply \in replies, reply.do \notin kinds, Awaits(kinds),
           replies \ {reply} \subseteq replies'
    PROVE  Awaits(kinds)'
BY DEF Awaits

LEMMA NoneAwaited ==
    ASSUME NEW kinds, replies = {}
    PROVE  ~Awaits(kinds)
BY DEF Awaits

LEMMA OtherAwaited ==
    ASSUME NEW kinds, NEW reply, replies = {reply}, reply.do \notin kinds
    PROVE  ~Awaits(kinds)
BY DEF Awaits

----------------------------------------------------------------------------
(* What the user does, with nothing under way.                             *)

\* The page reads again, or another tab of it is shown.
LEMMA FormsRequestKeeps ==
    ASSUME FormsCalm, replies = {}, formTurns' \in Nat,
           \/ \E next \in {"general", "auth"} : Forms!SelectTab(next)
           \/ Forms!LoadCurrentSession \/ Forms!LoadSMTPSettings
    PROVE  FormsCalm'
<1>1. UNCHANGED <<accounts, alive, shown, userForm, drafts, printer, chosen, dropped>>
  BY DEF Forms!SelectTab, Forms!LoadCurrentSession, Forms!LoadSMTPSettings, Forms!serverVars
<1>2. FormsTypes'
  BY <1>1 DEF FormsCalm, FormsTypes
<1>3. RepliesFit' /\ (tab' = "auth" => tab = "auth" \/ (alive => \E r \in replies' : r.do = "session"))
  <2>1. CASE \E r : replies' = {r} /\ r.do = "printers" /\ r.about = printer' /\ tab' # "auth"
    BY <2>1 DEF RepliesFit, UserChanges
  <2>2. ASSUME NEW cause \in Wanted, NEW asks, replies' = asks,
               asks \subseteq Forms!AskSession \cup Forms!AskUsers \cup Forms!AskSMTP(cause)
        PROVE  RepliesFit'
    <3> PICK rest \in SUBSET replies : rest = {}
      OBVIOUS
    <3>1. \A r \in asks : FitsIn(r)
      <4>1. \A r \in Forms!AskSession \cup Forms!AskUsers \cup Forms!AskSMTP(cause) : FitsIn(r)
        BY <2>2, AskedFit DEF FormsCalm
      <4> QED
        BY <2>2, <4>1
    <3>2. replies' = rest \cup asks
      BY <2>2
    <3>3. \A reply \in rest : reply.do \notin UserChanges
      OBVIOUS
    <3> QED
      BY <1>1, <3>1, <3>2, <3>3, RepliesKeep DEF FormsCalm
  <2>3. CASE Forms!SelectTab("general")
    <3>1. replies' = Forms!AskPrinters(printer) /\ tab' = "general"
      BY <2>3 DEF Forms!SelectTab
    <3> QED
      BY <1>1, <2>1, <3>1, PrintersAsked
  <2>4. CASE Forms!SelectTab("auth")
    <3>1. PICK more \in SUBSET (Forms!AskUsers \cup Forms!AskSMTP("tab")) : replies' = Forms!AskSession \cup more
      BY <2>4 DEF Forms!SelectTab
    <3>2. alive => \E r \in replies' : r.do = "session"
      BY <3>1, SessionAsked DEF FormsCalm
    <3> QED
      BY <2>2, <3>1, <3>2 DEF Wanted
  <2>5. CASE Forms!LoadCurrentSession
    <3>1. replies' = Forms!AskSession /\ tab = "auth"
      BY <2>5 DEF Forms!LoadCurrentSession
    <3> QED
      BY <2>2, <3>1 DEF Wanted
  <2>6. CASE Forms!LoadSMTPSettings
    <3>1. replies' = Forms!AskSMTP("button") /\ tab = "auth"
      BY <2>6 DEF Forms!LoadSMTPSettings, Forms!Managing
    <3> QED
      BY <2>2, <3>1 DEF Wanted
  <2> QED
    BY <2>3, <2>4, <2>5, <2>6
<1>4. ASSUME alive PROVE UsersFit' /\ UserFormFits'
  BY <1>1, <1>4, NoneAwaited DEF FormsCalm, UsersFit, UserFormFits
<1>5. ASSUME alive PROVE RightsFit'
  <2> SUFFICES ASSUME tab' = "auth"
               PROVE  Forms!CanManageUsers' = accounts'[Self] \/ Awaits({"session", "user saved"})'
    BY DEF RightsFit
  <2>1. CASE tab = "auth"
    <3>1. Forms!CanManageUsers = accounts[Self]
      BY <1>5, <2>1, NoneAwaited DEF FormsCalm, RightsFit
    <3> QED
      BY <1>1, <3>1 DEF Forms!CanManageUsers, Forms!ManagesAs
  <2>2. CASE \E r \in replies' : r.do = "session"
    BY <2>2 DEF Awaits
  <2> QED
    BY <1>3, <1>5, <2>1, <2>2
<1>6. TypedAsAdmin'
  BY <1>1 DEF FormsCalm, TypedAsAdmin, Forms!CanManageUsers, Forms!ManagesAs
<1> QED
  BY <1>1, <1>2, <1>3, <1>4, <1>5, <1>6 DEF FormsCalm

\* What stays while the user types or chooses: nothing is asked for.
LEMMA TypingKeeps ==
    ASSUME FormsCalm, replies = {}, UNCHANGED <<accounts, tab, shown, replies, dropped>>,
           alive' => alive, FormsTypes', chosen' \in {Forms!None, "system-dialog", printer'},
           alive => userForm'.for \in DOMAIN accounts \cup {Forms!None},
           drafts'.smtp = drafts.smtp \/ Forms!CanManageUsers
    PROVE  FormsCalm'
<1>1. RepliesFit'
  BY DEF RepliesFit
<1>2. alive => UsersFit' /\ UserFormFits'
  BY NoneAwaited DEF FormsCalm, UsersFit, UserFormFits
<1>3. ASSUME alive PROVE RightsFit'
  <2>1. tab = "auth" => Forms!CanManageUsers = accounts[Self]
    BY <1>3, NoneAwaited DEF FormsCalm, RightsFit
  <2>2. tab' = "auth" => Forms!CanManageUsers' = accounts'[Self]
    BY <2>1 DEF Forms!CanManageUsers, Forms!ManagesAs
  <2> QED
    BY <2>2 DEF RightsFit
<1>4. TypedAsAdmin'
  BY DEF FormsCalm, TypedAsAdmin, Forms!CanManageUsers, Forms!ManagesAs
<1> QED
  BY <1>1, <1>2, <1>3, <1>4 DEF FormsCalm

LEMMA EditedExists ==
    ASSUME FormsCalm, replies = {}, alive
    PROVE  /\ userForm.for \in DOMAIN accounts \cup {Forms!None}
           /\ DOMAIN shown.users \subseteq DOMAIN accounts
BY NoneAwaited DEF FormsCalm, UserFormFits, UsersFit

LEMMA FormsTypingKeeps ==
    ASSUME FormsCalm, replies = {}, formTurns' \in Nat,
           \/ \E choice \in Forms!Printers : Forms!ChoosePrinter(choice)
           \/ Forms!StartUserCreate \/ Forms!TypeUser \/ Forms!RevokeOwnSession
           \/ \E user \in Users : Forms!StartUserEdit(user)
           \/ \E which \in {"smtp", "password"} : Forms!Type(which)
    PROVE  FormsCalm'
<1>1. ASSUME NEW choice \in Forms!Printers, Forms!ChoosePrinter(choice) PROVE FormsCalm'
  <2>1. /\ UNCHANGED <<accounts, alive, tab, shown, userForm, drafts, replies, dropped>>
        /\ printer' = choice /\ chosen' = choice
    BY <1>1 DEF Forms!ChoosePrinter, Forms!serverVars
  <2>2. FormsTypes'
    BY <2>1 DEF FormsCalm, FormsTypes
  <2> QED
    BY <2>1, <2>2, TypingKeeps, EditedExists
<1>2. ASSUME Forms!StartUserCreate PROVE FormsCalm'
  <2>1. /\ UNCHANGED <<accounts, alive, tab, shown, printer, chosen, replies, dropped>>
        /\ userForm' = [for |-> Forms!None, admin |-> FALSE, password |-> FALSE]
        /\ drafts' = [drafts EXCEPT !.user = 0]
    BY <1>2 DEF Forms!StartUserCreate, Forms!serverVars, Forms!NewUser
  <2>2. FormsTypes' /\ drafts'.smtp = drafts.smtp
    BY <2>1 DEF FormsCalm, FormsTypes
  <2> QED
    BY <2>1, <2>2, TypingKeeps DEF FormsCalm
<1>3. ASSUME Forms!TypeUser PROVE FormsCalm'
  <2>1. /\ UNCHANGED <<accounts, alive, tab, shown, printer, chosen, replies, dropped>>
        /\ \/ userForm' = [userForm EXCEPT !.admin = ~userForm.admin]
           \/ userForm' = [userForm EXCEPT !.password = TRUE]
        /\ drafts' = [drafts EXCEPT !.user = formTurns']
    BY <1>3 DEF Forms!TypeUser, Forms!serverVars
  <2>2. FormsTypes' /\ userForm'.for = userForm.for /\ drafts'.smtp = drafts.smtp
    BY <2>1 DEF FormsCalm, FormsTypes
  <2> QED
    BY <2>1, <2>2, TypingKeeps, EditedExists DEF FormsCalm
<1>4. ASSUME Forms!RevokeOwnSession PROVE FormsCalm'
  <2>1. /\ UNCHANGED <<accounts, tab, shown, userForm, drafts, printer, chosen, replies, dropped>>
        /\ alive' = (alive /\ ~Forms!AsAdmin)
    BY <1>4 DEF Forms!RevokeOwnSession
  <2>2. FormsTypes' /\ (alive' => alive)
    BY <2>1 DEF FormsCalm, FormsTypes
  <2> QED
    BY <2>1, <2>2, TypingKeeps, EditedExists DEF FormsCalm
<1>5. ASSUME NEW user \in Users, Forms!StartUserEdit(user) PROVE FormsCalm'
  <2>1. /\ UNCHANGED <<accounts, alive, tab, shown, printer, chosen, replies, dropped>>
        /\ userForm' = [for |-> user, admin |-> shown.users[user], password |-> FALSE]
        /\ drafts' = [drafts EXCEPT !.user = 0] /\ user \in DOMAIN shown.users
    BY <1>5 DEF Forms!StartUserEdit, Forms!serverVars, Forms!Listed
  <2>2. shown.users[user] \in BOOLEAN
    BY <2>1, UserTablesAre DEF FormsCalm, FormsTypes
  <2>3. FormsTypes' /\ drafts'.smtp = drafts.smtp
    BY <2>1, <2>2 DEF FormsCalm, FormsTypes
  <2> QED
    BY <2>1, <2>3, TypingKeeps, EditedExists DEF FormsCalm
<1>6. ASSUME NEW which \in {"smtp", "password"}, Forms!Type(which) PROVE FormsCalm'
  <2>1. /\ UNCHANGED <<accounts, alive, tab, shown, userForm, printer, chosen, replies, dropped>>
        /\ drafts' = [drafts EXCEPT ![which] = formTurns'] /\ (which = "smtp" => Forms!CanManageUsers)
    BY <1>6 DEF Forms!Type, Forms!serverVars
  <2>2. FormsTypes' /\ (which = "password" => drafts'.smtp = drafts.smtp)
    BY <2>1 DEF FormsCalm, FormsTypes
  <2> QED
    BY <2>1, <2>2, TypingKeeps, EditedExists DEF FormsCalm
<1> QED
  BY <1>1, <1>2, <1>3, <1>4, <1>5, <1>6

\* A request that is refused, or whose answer only empties a draft.
LEMMA AskedOneKeeps ==
    ASSUME FormsCalm, replies = {},
           UNCHANGED <<accounts, alive, tab, shown, userForm, drafts, printer, chosen, dropped>>,
           formTurns' \in Nat, NEW reply, replies' = {reply},
           \/ reply.do = "refused"
           \/ /\ reply.do = "form saved" /\ reply.about \in {"smtp", "password"}
              /\ drafts[reply.about] = reply.draft
    PROVE  FormsCalm'
<1>1. FormsTypes'
  BY DEF FormsCalm, FormsTypes
<1>2. RepliesFit'
  BY DEF RepliesFit, UserChanges
<1>3. alive => UsersFit' /\ UserFormFits'
  BY NoneAwaited DEF FormsCalm, UsersFit, UserFormFits
<1>4. ASSUME alive PROVE RightsFit'
  <2>1. tab = "auth" => Forms!CanManageUsers = accounts[Self]
    BY <1>4, NoneAwaited DEF FormsCalm, RightsFit
  <2>2. tab' = "auth" => Forms!CanManageUsers' = accounts'[Self]
    BY <2>1 DEF Forms!CanManageUsers, Forms!ManagesAs
  <2> QED
    BY <2>2 DEF RightsFit
<1>5. TypedAsAdmin'
  BY DEF FormsCalm, TypedAsAdmin, Forms!CanManageUsers, Forms!ManagesAs
<1> QED
  BY <1>1, <1>2, <1>3, <1>4, <1>5 DEF FormsCalm

LEMMA RefusedIs == \A task : Forms!Refused(task).do = "refused"
BY DEF Forms!Refused, Forms!Answer

LEMMA FormSaveKeeps ==
    ASSUME FormsCalm, replies = {}, formTurns' \in Nat, NEW which \in {"smtp", "password"},
           Forms!Save(which)
    PROVE  FormsCalm'
<1>1. UNCHANGED <<accounts, alive, tab, shown, userForm, drafts, printer, chosen, dropped>>
  BY DEF Forms!Save, Forms!serverVars
<1> PICK saved : saved = Forms!Answer("form saved", which, which, drafts[which], <<>>)
  OBVIOUS
<1>2. saved.do = "form saved" /\ saved.about = which /\ saved.draft = drafts[which]
  BY DEF Forms!Answer
<1>3. replies' = {saved} \/ replies' = {Forms!Refused(which)}
  BY DEF Forms!Save
<1> QED
  BY <1>1, <1>2, <1>3, RefusedIs, AskedOneKeeps

\* A user saved is among the users; the rights are awaited until they are shown.
LEMMA SaveUserKeeps ==
    ASSUME FormsCalm, replies = {}, formTurns' \in Nat, Forms!SaveUser
    PROVE  FormsCalm'
<1>1. UNCHANGED <<tab, shown, userForm, drafts, printer, chosen, dropped>>
  BY DEF Forms!SaveUser
<1>2. PICK user \in IF userForm.for = Forms!None THEN Users ELSE {userForm.for} :
         IF Forms!Refuses(user)
         THEN replies' = replies \cup {Forms!Refused("user")} /\ UNCHANGED Forms!serverVars
         ELSE /\ accounts' = Forms!Put(accounts, user, userForm.admin)
              /\ alive' = ~(user = Self /\ userForm.password)
              /\ replies' = replies \cup {Forms!Answer("user saved", "user", user, drafts.user,
                                                       [u \in {user} |-> userForm.admin])}
  BY DEF Forms!SaveUser
<1>3. user \in Users
  BY <1>2 DEF FormsCalm, FormsTypes
<1>4. CASE Forms!Refuses(user)
  <2>1. replies' = {Forms!Refused("user")} /\ UNCHANGED <<accounts, alive>>
    BY <1>2, <1>4 DEF Forms!serverVars
  <2> QED
    BY <1>1, <2>1, RefusedIs, AskedOneKeeps
<1>5. CASE ~Forms!Refuses(user)
  <2> PICK content : content = [u \in {user} |-> userForm.admin]
    OBVIOUS
  <2> PICK saved : saved = Forms!Answer("user saved", "user", user, drafts.user,
                                        [u \in {user} |-> userForm.admin])
    OBVIOUS
  <2>1. alive /\ accounts[Self] /\ Self \in DOMAIN accounts
    BY <1>5 DEF Forms!Refuses, Forms!AsAdmin, FormsCalm, FormsTypes
  <2>2. /\ saved.do = "user saved" /\ saved.about = user /\ saved.draft = drafts.user
        /\ saved.content = content
    BY DEF Forms!Answer
  <2>3. accounts' = Forms!Put(accounts, user, userForm.admin) /\ replies' = {saved} /\ alive' \in BOOLEAN
    BY <1>2, <1>5
  <2>4. userForm.admin \in BOOLEAN
    BY DEF FormsCalm, FormsTypes
  <2>5. DOMAIN accounts' = DOMAIN accounts \cup {user} /\ accounts' \in [DOMAIN accounts \cup {user} -> BOOLEAN]
    <3>1. accounts \in [DOMAIN accounts -> BOOLEAN]
      BY UserTablesAre DEF FormsCalm, FormsTypes
    <3> QED
      BY <2>3, <2>4, <3>1 DEF Forms!Put
  <2>6. accounts' \in UserTables
    <3>1. DOMAIN accounts \cup {user} \in SUBSET Users
      BY <1>3, UserTablesAre DEF FormsCalm, FormsTypes
    <3> QED
      BY <2>5, <3>1 DEF UserTables
  <2>7. FormsTypes'
    BY <1>1, <2>1, <2>3, <2>5, <2>6 DEF FormsCalm, FormsTypes
  <2>8. content \in [{user} -> BOOLEAN]
    BY <2>4
  <2>9. RepliesFit'
    BY <1>1, <2>2, <2>3, <2>5, <2>8 DEF RepliesFit, UserChanges
  <2>10. UsersFit' /\ UserFormFits'
    BY <1>1, <2>1, <2>5, EditedExists DEF UsersFit, UserFormFits
  <2>11. RightsFit'
    BY <2>2, <2>3 DEF RightsFit, Awaits
  <2>12. TypedAsAdmin'
    BY <1>1, <2>1 DEF FormsCalm, TypedAsAdmin, Forms!CanManageUsers, Forms!ManagesAs
  <2> QED
    BY <1>1, <2>7, <2>9, <2>10, <2>11, <2>12 DEF FormsCalm
<1> QED
  BY <1>4, <1>5

\* The form still shows the user deleted until the answer empties it.
LEMMA DeleteUserKeeps ==
    ASSUME FormsCalm, replies = {}, formTurns' \in Nat, NEW user \in Users, Forms!DeleteUser(user)
    PROVE  FormsCalm'
<1>1. UNCHANGED <<tab, shown, userForm, drafts, printer, chosen, dropped>>
  BY DEF Forms!DeleteUser
<1>2. CASE ~(Forms!AsAdmin /\ user \in DOMAIN accounts /\ \E u \in DOMAIN accounts \ {user} : accounts[u])
  <2>1. replies' = {Forms!Refused("deletion")} /\ UNCHANGED <<accounts, alive>>
    BY <1>2 DEF Forms!DeleteUser, Forms!serverVars
  <2> QED
    BY <1>1, <2>1, RefusedIs, AskedOneKeeps
<1>3. CASE Forms!AsAdmin /\ user \in DOMAIN accounts /\ \E u \in DOMAIN accounts \ {user} : accounts[u]
  <2> PICK what : what = IF userForm.for = user THEN "edited deleted" ELSE "deleted"
    OBVIOUS
  <2> PICK gone : gone = Forms!Answer(what, "deletion", user, drafts.user, <<>>)
    OBVIOUS
  <2>1. /\ accounts' = Forms!Restrict(accounts, DOMAIN accounts \ {user}) /\ alive' = (user # Self)
        /\ replies' = {gone}
    BY <1>3 DEF Forms!DeleteUser
  <2>2. /\ gone.do = what /\ gone.draft = drafts.user /\ what \in {"edited deleted", "deleted"}
    BY DEF Forms!Answer
  <2>3. alive /\ accounts[Self] /\ Self \in DOMAIN accounts
    BY <1>3 DEF Forms!AsAdmin, FormsCalm, FormsTypes
  <2>4. /\ DOMAIN accounts' = DOMAIN accounts \ {user}
        /\ \A u \in DOMAIN accounts \ {user} : accounts'[u] = accounts[u]
        /\ accounts' \in [DOMAIN accounts \ {user} -> BOOLEAN]
    BY <2>1, UserTablesAre DEF Forms!Restrict, FormsCalm, FormsTypes
  <2>5. accounts' \in UserTables
    <3>1. DOMAIN accounts \ {user} \in SUBSET Users
      BY UserTablesAre DEF FormsCalm, FormsTypes
    <3> QED
      BY <2>4, <3>1 DEF UserTables
  <2>6. FormsTypes'
    BY <1>1, <2>1, <2>3, <2>4, <2>5 DEF FormsCalm, FormsTypes
  <2>7. alive' => accounts'[Self] /\ accounts'[Self] = accounts[Self]
    BY <2>1, <2>3, <2>4
  <2>8. RepliesFit'
    BY <1>1, <2>1, <2>2, <2>7 DEF RepliesFit, UserChanges
  <2>9. UsersFit'
    BY <2>1, <2>2 DEF UsersFit, Awaits
  <2>10. UserFormFits'
    <3>1. userForm.for \in DOMAIN accounts \cup {Forms!None}
      BY <2>3, EditedExists
    <3> QED
      BY <1>1, <2>1, <2>2, <2>4, <3>1 DEF UserFormFits, Awaits
  <2>11. ASSUME alive' PROVE RightsFit'
    <3>1. tab = "auth" => Forms!CanManageUsers = accounts[Self]
      BY <2>3, NoneAwaited DEF FormsCalm, RightsFit
    <3>2. tab' = "auth" => Forms!CanManageUsers' = accounts'[Self]
      BY <1>1, <2>7, <2>11, <3>1 DEF Forms!CanManageUsers, Forms!ManagesAs
    <3> QED
      BY <3>2 DEF RightsFit
  <2>12. TypedAsAdmin'
    BY <1>1, <2>3 DEF FormsCalm, TypedAsAdmin, Forms!CanManageUsers, Forms!ManagesAs
  <2> QED
    BY <1>1, <2>6, <2>8, <2>9, <2>10, <2>11, <2>12 DEF FormsCalm
<1> QED
  BY <1>2, <1>3

----------------------------------------------------------------------------
(* What the answers do.                                                    *)

\* While another answer comes, no change of a user is under way.
LEMMA NoUserChange ==
    ASSUME RepliesFit, NEW reply \in replies, reply.do \notin UserChanges
    PROVE  \A other \in replies : other.do \notin UserChanges
BY DEF RepliesFit

LEMMA SessionShownKeeps ==
    ASSUME FormsCalm, NEW reply \in replies, Forms!SessionShown(reply)
    PROVE  FormsCalm'
<1>1. /\ UNCHANGED <<accounts, alive, tab, userForm, drafts, printer, chosen, dropped, formTurns>>
      /\ reply.do = "session" /\ shown' = [shown EXCEPT !.session = reply.content]
  BY DEF Forms!SessionShown, Forms!serverVars, Forms!historyVars
<1>2. PICK asks \in SUBSET (Forms!AskSession \cup Forms!AskUsers \cup Forms!AskSMTP("rights")) :
         /\ replies' = (replies \ {reply}) \cup asks
         /\ asks = {} \/ ~Forms!CanManageUsers
  BY DEF Forms!SessionShown
<1> PICK rest \in SUBSET replies : rest = replies \ {reply}
  OBVIOUS
<1>3. reply.content \in FormSessions /\ (alive => Forms!ManagesAs(reply.content) = accounts[Self])
  BY <1>1 DEF FormsCalm, RepliesFit
<1>4. FormsTypes' /\ shown'.session = reply.content /\ shown'.users = shown.users
  BY <1>1, <1>3 DEF FormsCalm, FormsTypes
<1>5. RepliesFit'
  <2>1. \A r \in asks : FitsIn(r)
    BY <1>2, AskedFit DEF FormsCalm, TypedAsAdmin
  <2>2. \A other \in rest : other.do \notin UserChanges
    BY <1>1, NoUserChange DEF FormsCalm, UserChanges
  <2> QED
    BY <1>1, <1>2, <2>1, <2>2, RepliesKeep DEF FormsCalm
<1>6. ASSUME alive PROVE UsersFit'
  <2>1. UsersFit /\ reply.do \notin {"users", "edited deleted", "deleted"}
    BY <1>1, <1>6 DEF FormsCalm
  <2>2. replies \ {reply} \subseteq replies'
    BY <1>2
  <2>3. Awaits({"users", "edited deleted", "deleted"}) => Awaits({"users", "edited deleted", "deleted"})'
    BY <2>1, <2>2, StillAwaited
  <2> QED
    BY <1>1, <1>4, <2>1, <2>3 DEF UsersFit
<1>7. ASSUME alive PROVE UserFormFits'
  <2>1. UserFormFits /\ reply.do \notin {"edited deleted"}
    BY <1>1, <1>7 DEF FormsCalm
  <2>2. replies \ {reply} \subseteq replies'
    BY <1>2
  <2>3. Awaits({"edited deleted"}) => Awaits({"edited deleted"})'
    BY <2>1, <2>2, StillAwaited
  <2> QED
    BY <1>1, <2>1, <2>3 DEF UserFormFits
<1>8. ASSUME alive PROVE RightsFit'
  BY <1>1, <1>3, <1>4, <1>8 DEF RightsFit, Forms!CanManageUsers
<1>9. TypedAsAdmin'
  BY <1>1, <1>3, <1>4 DEF TypedAsAdmin, Forms!CanManageUsers, Forms!ManagesAs
<1> QED
  BY <1>1, <1>4, <1>5, <1>6, <1>7, <1>8, <1>9 DEF FormsCalm

LEMMA UsersShownKeeps ==
    ASSUME FormsCalm, NEW reply \in replies, Forms!UsersShown(reply)
    PROVE  FormsCalm'
<1>1. /\ UNCHANGED <<accounts, alive, tab, userForm, drafts, printer, chosen, dropped, formTurns>>
      /\ reply.do = "users" /\ shown' = [shown EXCEPT !.users = reply.content]
      /\ replies' = replies \ {reply}
  BY DEF Forms!UsersShown, Forms!serverVars, Forms!historyVars
<1> PICK rest \in SUBSET replies : rest = replies \ {reply}
  OBVIOUS
<1> PICK asks : asks = {}
  OBVIOUS
<1>2. reply.content = accounts
  BY <1>1 DEF FormsCalm, RepliesFit
<1>3. FormsTypes' /\ shown'.users = accounts /\ shown'.session = shown.session
  BY <1>1, <1>2 DEF FormsCalm, FormsTypes
<1>4. RepliesFit'
  <2>1. \A other \in rest : other.do \notin UserChanges
    BY <1>1, NoUserChange DEF FormsCalm, UserChanges
  <2>2. replies' = rest \cup asks
    BY <1>1
  <2> QED
    BY <1>1, <2>1, <2>2, RepliesKeep DEF FormsCalm
<1>5. UsersFit'
  BY <1>1, <1>3 DEF UsersFit
<1>6. ASSUME alive PROVE UserFormFits'
  <2>1. UserFormFits /\ reply.do \notin {"edited deleted"}
    BY <1>1, <1>6 DEF FormsCalm
  <2>2. Awaits({"edited deleted"}) => Awaits({"edited deleted"})'
    BY <1>1, <2>1, StillAwaited
  <2> QED
    BY <1>1, <2>1, <2>2 DEF UserFormFits
<1>7. ASSUME alive PROVE RightsFit'
  <2>1. RightsFit /\ reply.do \notin {"session", "user saved"}
    BY <1>1, <1>7 DEF FormsCalm
  <2>2. Awaits({"session", "user saved"}) => Awaits({"session", "user saved"})'
    BY <1>1, <2>1, StillAwaited
  <2>3. Forms!CanManageUsers' = Forms!CanManageUsers
    BY <1>3 DEF Forms!CanManageUsers
  <2> QED
    BY <1>1, <2>1, <2>2, <2>3 DEF RightsFit
<1>8. TypedAsAdmin'
  BY <1>1, <1>3 DEF FormsCalm, TypedAsAdmin, Forms!CanManageUsers, Forms!ManagesAs
<1> QED
  BY <1>1, <1>3, <1>4, <1>5, <1>6, <1>7, <1>8 DEF FormsCalm

\* Answers that change neither the users nor what is shown of them.
LEMMA AnswerEnds ==
    ASSUME FormsCalm, NEW reply \in replies, reply.do \in {"printers", "smtp", "form saved", "refused"},
           replies' = replies \ {reply}, UNCHANGED <<accounts, alive, tab, shown, userForm>>,
           FormsTypes', dropped' \subseteq Wanted, chosen' \in {Forms!None, "system-dialog", printer'},
           printer' = printer \/ reply.do = "printers",
           drafts'.user \in {0, drafts.user}, drafts'.smtp \in {0, drafts.smtp},
           drafts'.password \in {0, drafts.password}
    PROVE  FormsCalm'
<1> PICK rest \in SUBSET replies : rest = replies \ {reply}
  OBVIOUS
<1> PICK asks : asks = {}
  OBVIOUS
<1>1. RepliesFit'
  <2>1. \A other \in rest : other.do \notin UserChanges
    BY NoUserChange DEF FormsCalm, UserChanges
  <2>2. printer' = printer \/ \A other \in rest : other.do # "printers"
    BY DEF FormsCalm, RepliesFit
  <2>3. RepliesFit /\ replies' = rest \cup asks /\ \A r \in asks : FitsIn(r)
    BY DEF FormsCalm
  <2>4. UNCHANGED <<accounts, alive>>
    OBVIOUS
  <2> QED
    BY <2>1, <2>2, <2>3, <2>4, RepliesKeep
<1>2. ASSUME alive PROVE UsersFit'
  <2>1. UsersFit /\ reply.do \notin {"users", "edited deleted", "deleted"}
    BY <1>2 DEF FormsCalm
  <2>2. Awaits({"users", "edited deleted", "deleted"}) => Awaits({"users", "edited deleted", "deleted"})'
    BY <2>1, StillAwaited
  <2> QED
    BY <2>1, <2>2 DEF UsersFit
<1>3. ASSUME alive PROVE UserFormFits'
  <2>1. UserFormFits /\ reply.do \notin {"edited deleted"}
    BY <1>3 DEF FormsCalm
  <2>2. Awaits({"edited deleted"}) => Awaits({"edited deleted"})'
    BY <2>1, StillAwaited
  <2> QED
    BY <2>1, <2>2 DEF UserFormFits
<1>4. ASSUME alive PROVE RightsFit'
  <2>1. RightsFit /\ reply.do \notin {"session", "user saved"}
    BY <1>4 DEF FormsCalm
  <2>2. Awaits({"session", "user saved"}) => Awaits({"session", "user saved"})'
    BY <2>1, StillAwaited
  <2>3. Forms!CanManageUsers' = Forms!CanManageUsers
    BY DEF Forms!CanManageUsers
  <2> QED
    BY <2>1, <2>2, <2>3 DEF RightsFit
<1>5. TypedAsAdmin'
  BY DEF FormsCalm, TypedAsAdmin, Forms!CanManageUsers, Forms!ManagesAs
<1> QED
  BY <1>1, <1>2, <1>3, <1>4, <1>5 DEF FormsCalm

LEMMA PrintersLoadedKeeps ==
    ASSUME FormsCalm, NEW reply \in replies, Forms!PrintersLoaded(reply)
    PROVE  FormsCalm'
<1>1. /\ UNCHANGED <<accounts, alive, tab, shown, userForm, drafts, chosen, dropped, formTurns>>
      /\ reply.do = "printers" /\ replies' = replies \ {reply}
      /\ printer' = IF reply.about = "system-dialog" THEN "printer" ELSE printer
  BY DEF Forms!PrintersLoaded, Forms!serverVars, Forms!historyVars, Forms!DefaultPrinter
<1>2. reply.about = printer /\ chosen \in {Forms!None, "system-dialog", printer}
  BY <1>1 DEF FormsCalm, RepliesFit
<1>3. chosen' \in {Forms!None, "system-dialog", printer'}
  BY <1>1, <1>2
<1>4. FormsTypes' /\ dropped' \subseteq Wanted
  BY <1>1 DEF FormsCalm, FormsTypes
<1> QED
  BY <1>1, <1>3, <1>4, AnswerEnds

LEMMA SMTPLoadedKeeps ==
    ASSUME FormsCalm, NEW reply \in replies, Forms!SMTPLoaded(reply)
    PROVE  FormsCalm'
<1>1. /\ UNCHANGED <<accounts, alive, tab, shown, userForm, printer, chosen, formTurns>>
      /\ reply.do = "smtp" /\ replies' = replies \ {reply}
      /\ drafts' = [drafts EXCEPT !.smtp = 0]
      /\ dropped' = dropped \cup IF drafts["smtp"] \in {0, reply.draft} THEN {} ELSE {reply.about}
  BY DEF Forms!SMTPLoaded, Forms!serverVars, Forms!historyVars, Forms!Drop
<1>2. dropped' \subseteq Wanted
  BY <1>1 DEF FormsCalm, RepliesFit
<1>3. FormsTypes' /\ drafts'.user = drafts.user /\ drafts'.smtp = 0 /\ drafts'.password = drafts.password
  BY <1>1 DEF FormsCalm, FormsTypes
<1> QED
  BY <1>1, <1>2, <1>3, AnswerEnds DEF FormsCalm

LEMMA FormSavedKeeps ==
    ASSUME FormsCalm, NEW reply \in replies, Forms!FormSaved(reply)
    PROVE  FormsCalm'
<1>1. /\ UNCHANGED <<accounts, alive, tab, shown, userForm, printer, chosen, formTurns>>
      /\ reply.do = "form saved" /\ replies' = replies \ {reply}
      /\ drafts' = [drafts EXCEPT ![reply.about] = 0]
      /\ dropped' = dropped \cup IF drafts[reply.about] \in {0, reply.draft} THEN {} ELSE {reply.about}
  BY DEF Forms!FormSaved, Forms!serverVars, Forms!historyVars, Forms!Drop
<1>2. reply.about \in {"smtp", "password"} /\ drafts[reply.about] \in {0, reply.draft}
  BY <1>1 DEF FormsCalm, RepliesFit
<1>3. dropped' \subseteq Wanted
  BY <1>1, <1>2 DEF FormsCalm
<1>4. /\ FormsTypes' /\ drafts'.user = drafts.user
      /\ drafts'.smtp \in {0, drafts.smtp} /\ drafts'.password \in {0, drafts.password}
  BY <1>1, <1>2 DEF FormsCalm, FormsTypes
<1> QED
  BY <1>1, <1>3, <1>4, AnswerEnds DEF FormsCalm

LEMMA FormsFailKeeps ==
    ASSUME FormsCalm, NEW reply \in replies, Forms!Fails(reply), ~eager'
    PROVE  FormsCalm'
<1>1. /\ UNCHANGED <<accounts, alive, tab, shown, userForm, drafts, printer, chosen, dropped, formTurns>>
      /\ reply.do = "refused" /\ replies' = replies \ {reply}
  BY DEF Forms!Fails, Forms!serverVars
<1>2. FormsTypes'
  BY <1>1 DEF FormsCalm, FormsTypes
<1> QED
  BY <1>1, <1>2, AnswerEnds DEF FormsCalm

\* The user saved is shown, and the rights are asked for again.
LEMMA UserSavedKeeps ==
    ASSUME FormsCalm, NEW reply \in replies, Forms!UserSaved(reply)
    PROVE  FormsCalm'
<1>1. /\ UNCHANGED <<accounts, alive, tab, shown, printer, chosen, formTurns>>
      /\ reply.do = "user saved"
      /\ userForm' = [for |-> reply.about, admin |-> reply.content[reply.about], password |-> FALSE]
      /\ drafts' = [drafts EXCEPT !.user = 0]
      /\ dropped' = dropped \cup IF drafts["user"] \in {0, reply.draft} THEN {} ELSE {"user"}
      /\ replies' = (replies \ {reply}) \cup Forms!AskUsers \cup Forms!AskSession
  BY DEF Forms!UserSaved, Forms!serverVars, Forms!historyVars, Forms!Drop
<1>2. /\ replies = {reply} /\ drafts.user \in {0, reply.draft}
      /\ reply.about \in DOMAIN accounts /\ reply.content \in [{reply.about} -> BOOLEAN]
  BY <1>1 DEF FormsCalm, RepliesFit, UserChanges
<1>3. dropped' \subseteq Wanted
  BY <1>1, <1>2 DEF FormsCalm
<1>4. /\ FormsTypes' /\ userForm'.for \in DOMAIN accounts
      /\ drafts'.user = 0 /\ drafts'.smtp = drafts.smtp /\ drafts'.password = drafts.password
  <2>1. reply.about \in Users
    BY <1>2, UserTablesAre DEF FormsCalm, FormsTypes
  <2>2. reply.content[reply.about] \in BOOLEAN
    BY <1>2
  <2> QED
    BY <1>1, <1>2, <2>1, <2>2 DEF FormsCalm, FormsTypes
<1>5. RepliesFit'
  <2> PICK rest \in SUBSET replies : rest = {}
    OBVIOUS
  <2> PICK asks : asks = Forms!AskSession \cup Forms!AskUsers
    OBVIOUS
  <2>1. replies' = rest \cup asks
    BY <1>1, <1>2
  <2>2. \A r \in asks : FitsIn(r)
    BY AskedFit DEF FormsCalm, Wanted
  <2> QED
    BY <1>1, <1>4, <2>1, <2>2, RepliesKeep DEF FormsCalm
<1>6. ASSUME alive PROVE UsersFit' /\ UserFormFits'
  <2>1. DOMAIN shown.users \subseteq DOMAIN accounts
    BY <1>1, <1>2, <1>6, OtherAwaited DEF FormsCalm, UsersFit
  <2> QED
    BY <1>1, <1>4, <2>1 DEF UsersFit, UserFormFits
<1>7. ASSUME alive PROVE RightsFit'
  <2>1. \E r \in replies' : r.do = "session"
    BY <1>1, <1>7, SessionAsked DEF FormsCalm
  <2> QED
    BY <2>1 DEF RightsFit, Awaits
<1>8. TypedAsAdmin'
  BY <1>1, <1>4 DEF FormsCalm, TypedAsAdmin, Forms!CanManageUsers, Forms!ManagesAs
<1> QED
  BY <1>1, <1>3, <1>4, <1>5, <1>6, <1>7, <1>8 DEF FormsCalm

\* The user deleted is shown no longer, and the users are asked for again.
LEMMA UserDeletedKeeps ==
    ASSUME FormsCalm, NEW reply \in replies, Forms!UserDeleted(reply)
    PROVE  FormsCalm'
<1>1. /\ UNCHANGED <<accounts, alive, tab, shown, printer, chosen, formTurns>>
      /\ replies' = (replies \ {reply}) \cup Forms!AskUsers
      /\ \/ /\ reply.do = "edited deleted"
            /\ userForm' = [for |-> Forms!None, admin |-> FALSE, password |-> FALSE]
            /\ drafts' = [drafts EXCEPT !.user = 0]
            /\ dropped' = dropped \cup IF drafts["user"] \in {0, reply.draft} THEN {} ELSE {"user"}
         \/ reply.do = "deleted" /\ UNCHANGED <<userForm, drafts, dropped>>
  BY DEF Forms!UserDeleted, Forms!serverVars, Forms!historyVars, Forms!Drop, Forms!NewUser
<1>2. /\ replies = {reply} /\ (reply.do = "edited deleted" => drafts.user \in {0, reply.draft})
      /\ alive => accounts[Self]
  BY <1>1 DEF FormsCalm, RepliesFit, UserChanges
<1>3. dropped' \subseteq Wanted
  BY <1>1, <1>2 DEF FormsCalm
<1>4. /\ FormsTypes' /\ userForm'.for \in {Forms!None, userForm.for}
      /\ (reply.do = "edited deleted" => userForm'.for = Forms!None)
      /\ drafts'.user \in {0, drafts.user} /\ drafts'.smtp = drafts.smtp
      /\ drafts'.password = drafts.password
  <2>1. CASE reply.do = "edited deleted"
    <3>1. /\ UNCHANGED <<accounts, alive, shown, formTurns>> /\ drafts' = [drafts EXCEPT !.user = 0]
          /\ userForm' = [for |-> Forms!None, admin |-> FALSE, password |-> FALSE]
      BY <1>1, <2>1
    <3>2. FormsTypes'
      BY <3>1 DEF FormsCalm, FormsTypes
    <3>3. /\ drafts'.user = 0 /\ drafts'.smtp = drafts.smtp /\ drafts'.password = drafts.password
          /\ userForm'.for = Forms!None
      BY <3>1 DEF FormsCalm, FormsTypes
    <3> QED
      BY <2>1, <3>2, <3>3
  <2>2. CASE reply.do = "deleted"
    <3>1. UNCHANGED <<accounts, alive, shown, userForm, drafts, formTurns>>
      BY <1>1, <2>2
    <3>2. FormsTypes'
      BY <3>1 DEF FormsCalm, FormsTypes
    <3> QED
      BY <2>2, <3>1, <3>2
  <2> QED
    BY <1>1, <2>1, <2>2
<1>5. RepliesFit'
  <2> PICK rest \in SUBSET replies : rest = {}
    OBVIOUS
  <2> PICK asks : asks = Forms!AskUsers
    OBVIOUS
  <2>1. replies' = rest \cup asks
    BY <1>1, <1>2
  <2>2. \A r \in asks : FitsIn(r)
    BY AskedFit DEF FormsCalm, Wanted
  <2> QED
    BY <1>1, <1>4, <2>1, <2>2, RepliesKeep DEF FormsCalm
<1>6. ASSUME alive PROVE UsersFit'
  <2>1. \E r \in replies' : r.do = "users"
    BY <1>1, <1>2, <1>6, UsersAsked DEF Forms!AsAdmin
  <2> QED
    BY <2>1 DEF UsersFit, Awaits
<1>7. ASSUME alive PROVE UserFormFits'
  <2>1. CASE reply.do = "edited deleted"
    BY <1>4, <2>1 DEF UserFormFits
  <2>2. CASE reply.do = "deleted"
    <3>1. ~Awaits({"edited deleted"})
      BY <1>2, <2>2, OtherAwaited
    <3>2. userForm.for \in DOMAIN accounts \cup {Forms!None}
      BY <1>7, <3>1 DEF FormsCalm, UserFormFits
    <3> QED
      BY <1>1, <1>4, <3>2 DEF UserFormFits
  <2> QED
    BY <1>1, <2>1, <2>2
<1>8. ASSUME alive PROVE RightsFit'
  <2>1. ~Awaits({"session", "user saved"})
    BY <1>1, <1>2, OtherAwaited
  <2>2. tab = "auth" => Forms!CanManageUsers = accounts[Self]
    BY <1>8, <2>1 DEF FormsCalm, RightsFit
  <2>3. Forms!CanManageUsers' = Forms!CanManageUsers
    BY <1>1 DEF Forms!CanManageUsers
  <2> QED
    BY <1>1, <2>2, <2>3 DEF RightsFit
<1>9. TypedAsAdmin'
  BY <1>1, <1>4 DEF FormsCalm, TypedAsAdmin, Forms!CanManageUsers, Forms!ManagesAs
<1> QED
  BY <1>1, <1>3, <1>4, <1>5, <1>6, <1>7, <1>8, <1>9 DEF FormsCalm

----------------------------------------------------------------------------
LEMMA FormsStepOK ==
    ASSUME FormsPage, page = "forms", Forms!FormsNext, ~eager'
    PROVE  FormsCalm'
<1>1. ASSUME NEW reply \in replies,
             \/ Forms!SessionShown(reply) \/ Forms!UsersShown(reply) \/ Forms!PrintersLoaded(reply)
             \/ Forms!UserSaved(reply) \/ Forms!UserDeleted(reply) \/ Forms!SMTPLoaded(reply)
             \/ Forms!FormSaved(reply) \/ Forms!Fails(reply)
      PROVE  FormsCalm'
  <2>1. ~eager
    <3>1. ASSUME Forms!SessionShown(reply) PROVE ~eager
      BY <3>1 DEF Forms!SessionShown, Forms!historyVars
    <3>2. ASSUME Forms!UsersShown(reply) PROVE ~eager
      BY <3>2 DEF Forms!UsersShown, Forms!historyVars
    <3>3. ASSUME Forms!PrintersLoaded(reply) PROVE ~eager
      BY <3>3 DEF Forms!PrintersLoaded, Forms!historyVars
    <3>4. ASSUME Forms!UserSaved(reply) PROVE ~eager
      BY <3>4 DEF Forms!UserSaved, Forms!historyVars
    <3>5. ASSUME Forms!UserDeleted(reply) PROVE ~eager
      BY <3>5 DEF Forms!UserDeleted, Forms!historyVars
    <3>6. ASSUME Forms!SMTPLoaded(reply) PROVE ~eager
      BY <3>6 DEF Forms!SMTPLoaded, Forms!historyVars
    <3>7. ASSUME Forms!FormSaved(reply) PROVE ~eager
      BY <3>7 DEF Forms!FormSaved, Forms!historyVars
    <3>8. ASSUME Forms!Fails(reply) PROVE ~eager
      BY <3>8 DEF Forms!Fails
    <3> QED
      BY <1>1, <3>1, <3>2, <3>3, <3>4, <3>5, <3>6, <3>7, <3>8
  <2>2. FormsCalm
    BY <2>1 DEF FormsPage
  <2> QED
    BY <1>1, <2>2, SessionShownKeeps, UsersShownKeeps, PrintersLoadedKeeps, UserSavedKeeps,
       UserDeletedKeeps, SMTPLoadedKeeps, FormSavedKeeps, FormsFailKeeps
<1>2. ASSUME \/ \E next \in {"general", "auth"} : Forms!SelectTab(next)
             \/ Forms!LoadCurrentSession \/ Forms!LoadSMTPSettings
      PROVE  FormsCalm'
  <2>1. Forms!Turn
    BY <1>2 DEF Forms!SelectTab, Forms!LoadCurrentSession, Forms!LoadSMTPSettings
  <2> QED
    BY <1>2, <2>1, FormsTurn, FormsRequestKeeps
<1>3. ASSUME \/ \E choice \in Forms!Printers : Forms!ChoosePrinter(choice)
             \/ Forms!StartUserCreate \/ Forms!TypeUser \/ Forms!RevokeOwnSession
             \/ \E user \in Users : Forms!StartUserEdit(user)
             \/ \E which \in {"smtp", "password"} : Forms!Type(which)
      PROVE  FormsCalm'
  <2>1. Forms!Turn
    BY <1>3 DEF Forms!ChoosePrinter, Forms!StartUserCreate, Forms!TypeUser, Forms!RevokeOwnSession,
                Forms!StartUserEdit, Forms!Type
  <2> QED
    BY <1>3, <2>1, FormsTurn, FormsTypingKeeps
<1>4. ASSUME Forms!SaveUser \/ (\E user \in Users : Forms!DeleteUser(user))
             \/ \E which \in {"smtp", "password"} : Forms!Save(which)
      PROVE  FormsCalm'
  <2>1. Forms!Turn
    BY <1>4 DEF Forms!SaveUser, Forms!DeleteUser, Forms!Save
  <2> QED
    BY <1>4, <2>1, FormsTurn, SaveUserKeeps, DeleteUserKeeps, FormSaveKeeps
<1> QED
  BY <1>1, <1>2, <1>3, <1>4 DEF Forms!FormsNext, Forms!FormsAnswered

LEMMA FormsInitOK == Forms!FormsInit => FormsCalm
<1> SUFFICES ASSUME Forms!FormsInit PROVE FormsCalm
  OBVIOUS
<1>1. /\ alive = TRUE /\ tab = "general" /\ shown = [session |-> <<>>, users |-> <<>>]
      /\ userForm = [for |-> Forms!None, admin |-> FALSE, password |-> FALSE]
      /\ drafts = [user |-> 0, smtp |-> 0, password |-> 0]
      /\ printer = "system-dialog" /\ chosen = Forms!None /\ replies = Forms!AskPrinters(printer)
      /\ dropped = {} /\ formTurns = 0
  BY DEF Forms!FormsInit, Forms!NewUser, Forms!NoDrafts
<1>2. PICK group \in SUBSET Users : Self \in group /\ accounts = [user \in group |-> TRUE]
  BY DEF Forms!FormsInit
<1>3. accounts \in UserTables /\ Self \in DOMAIN accounts
  <2>1. accounts \in [group -> BOOLEAN]
    BY <1>2
  <2> QED
    BY <1>2, <2>1 DEF UserTables
<1>4. <<>> \in FormSessions /\ <<>> \in UserTables /\ DOMAIN <<>> = {}
  <2>1. <<>> \in [{} -> BOOLEAN] /\ DOMAIN <<>> = {}
    OBVIOUS
  <2>2. {} \in SUBSET {Self} /\ {} \in SUBSET Users
    OBVIOUS
  <2> QED
    BY <2>1, <2>2 DEF FormSessions, UserTables
<1>5. FormsTypes
  BY <1>1, <1>3, <1>4 DEF FormsTypes
<1>6. RepliesFit
  BY <1>1, PrintersAsked DEF RepliesFit, UserChanges
<1>7. UsersFit /\ UserFormFits /\ RightsFit /\ TypedAsAdmin
  BY <1>1, <1>4 DEF UsersFit, UserFormFits, RightsFit, TypedAsAdmin
<1> QED
  BY <1>1, <1>5, <1>6, <1>7 DEF FormsCalm

LEMMA FormsPageInit == Init => FormsPage
BY FormsInitOK DEF Init, FormsPage

LEMMA FormsPageStep == FormsPage /\ [Next]_vars => FormsPage'
<1> SUFFICES ASSUME FormsPage, [Next]_vars, page' = "forms", ~eager'
             PROVE  FormsCalm'
  BY DEF FormsPage
<1>1. page = "forms" /\ (Forms!FormsNext \/ UNCHANGED formVars)
  BY DEF Next, vars, settingsVars, OnlySession, OnlyExhibition, OnlyData, OnlyForms, OnlyGeneral
<1>2. CASE UNCHANGED formVars
  <2>1. UNCHANGED <<accounts, alive, tab, shown, userForm, drafts, printer, chosen, replies, dropped,
                    formTurns, eager>>
    BY <1>2 DEF formVars
  <2>2. FormsCalm
    BY <1>1, <2>1 DEF FormsPage
  <2>3. FormsTypes' /\ UsersFit' = UsersFit /\ UserFormFits' = UserFormFits
    BY <2>1, <2>2 DEF FormsCalm, FormsTypes, UsersFit, UserFormFits, Awaits
  <2>4. RightsFit' = RightsFit
    BY <2>1 DEF RightsFit, Awaits, Forms!CanManageUsers
  <2>5. RepliesFit'
    BY <2>1, <2>2 DEF FormsCalm, RepliesFit
  <2>6. TypedAsAdmin'
    BY <2>1, <2>2 DEF FormsCalm, TypedAsAdmin, Forms!CanManageUsers, Forms!ManagesAs
  <2> QED
    BY <2>1, <2>2, <2>3, <2>4, <2>5, <2>6 DEF FormsCalm
<1> QED
  BY <1>1, <1>2, FormsStepOK

LEMMA FormsPageAlways == Spec => []FormsPage
BY FormsPageInit, FormsPageStep, PTL DEF Spec

----------------------------------------------------------------------------
(* What the pages show, write and keep.                                    *)

LEMMA PagesShowStored == DataPage /\ GeneralPage => TableShowsStored
<1> SUFFICES ASSUME DataPage, GeneralPage PROVE TableShowsStored
  OBVIOUS
<1>1. ASSUME page = "data" PROVE MasterDataShown
  <2> SUFFICES ASSUME ~rash, calls = {}, table.type \in table.loaded
               PROVE  table.items[table.type] = entries[table.type]
    BY DEF MasterDataShown
  <2>1. DataCalm
    BY <1>1 DEF DataPage
  <2>2. table.type \in Types
    BY <2>1 DEF DataCalm, DataTypes, DataTables
  <2>3. ~Pending(table.type)
    BY DEF Pending
  <2> QED
    BY <2>1, <2>2, <2>3 DEF DataCalm, TableFits
<1>2. ASSUME page = "general" PROVE SchemesShown
  <2> SUFFICES ASSUME ~impatient, coming = {}, NEW c \in DOMAIN rows \ counted, typed[c] = 0
               PROVE  rows[c] = schemes[c]
    BY DEF SchemesShown
  <2>1. RowsFit
    BY <1>2 DEF GeneralPage, GeneralCalm
  <2>2. ~SavedFor(c)
    BY DEF SavedFor
  <2> QED
    BY <2>1, <2>2 DEF RowsFit
<1> QED
  BY <1>1, <1>2 DEF TableShowsStored

\* For every number of types, keys, files and categories: once everything is answered the
\* tables of the settings show what the server has, after a restore or an import
\* (SettingsView.tsx:862, 887) and after a save of a number scheme (:750), too.
THEOREM TablesShowWhatIsStored == Spec => []TableShowsStored
BY DataPageAlways, GeneralPageAlways, PagesShowStored, PTL

LEMMA PagesOverwriteShown == DataPage /\ GeneralPage => OverwritesWhatWasShown
<1> SUFFICES ASSUME DataPage, GeneralPage PROVE OverwritesWhatWasShown
  OBVIOUS
<1>1. ASSUME page = "data" PROVE UpdatesOwnType /\ UpdatesWhatWasShown /\ RestoresValidated
  <2>1. ~rash => WrittenFits
    BY <1>1 DEF DataPage, DataCalm
  <2>2. ~restored.overtaken => restored.file = restored.checked
    BY <1>1 DEF DataPage, BackupFits
  <2> QED
    BY <2>1, <2>2 DEF WrittenFits, UpdatesOwnType, UpdatesWhatWasShown, RestoresValidated
<1>2. ASSUME page = "general" PROVE SchemeWasShown
  BY <1>2 DEF GeneralPage, GeneralCalm, SchemeSavesFit, SchemeWasShown
<1> QED
  BY <1>1, <1>2 DEF OverwritesWhatWasShown

\* A form, a file or a number scheme overwrites what the page showed of it, as long as the
\* user waits for the answers and no file was chosen while another was validated
\* (SettingsView.tsx:741, 804, 837).
THEOREM OverwritesOnlyTheShown == Spec => []OverwritesWhatWasShown
BY DataPageAlways, GeneralPageAlways, PagesOverwriteShown, PTL

LEMMA PagesKeepUp == FormsPage /\ GeneralPage => FormsKeepUp
<1> SUFFICES ASSUME FormsPage, GeneralPage PROVE FormsKeepUp
  OBVIOUS
<1>1. ASSUME page = "forms" PROVE PrinterStays /\ DraftsKept /\ UserFormExists /\ RightsShown
  <2>1. ~eager => FormsCalm
    BY <1>1 DEF FormsPage
  <2>2. PrinterStays /\ DraftsKept
    BY <2>1 DEF FormsCalm, PrinterStays, DraftsKept, Wanted
  <2>3. ASSUME Settled, alive
        PROVE  /\ userForm.for \in DOMAIN accounts \cup {Forms!None}
               /\ tab = "auth" => Forms!CanManageUsers = accounts[Self]
    <3>1. FormsCalm /\ replies = {}
      BY <2>1, <2>3 DEF Settled
    <3> QED
      BY <2>3, <3>1, NoneAwaited DEF FormsCalm, UserFormFits, RightsFit
  <2> QED
    BY <2>2, <2>3 DEF UserFormExists, RightsShown
<1>2. ASSUME page = "general", ~impatient PROVE ~taken
  BY <1>2 DEF GeneralPage, GeneralCalm, SchemeSavesFit
<1> QED
  BY <1>1, <1>2 DEF FormsKeepUp

\* For every number of users: who waits for answers loses what was typed only where the SMTP
\* settings load over it, when the tab is opened or at the push of the button
\* (SettingsView.tsx:285-290, 552-563), keeps the printer chosen, edits no user that is gone,
\* and sees the panels of the rights there are (:497, 701, 717).
THEOREM OnlyLoadsTakeWhatIsTyped == Spec => []FormsKeepUp
BY FormsPageAlways, GeneralPageAlways, PagesKeepUp, PTL
=============================================================================
