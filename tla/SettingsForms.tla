---------------------------- MODULE SettingsForms ---------------------------
(***************************************************************************)
(* The forms of the settings page (frontend/src/features/settings/         *)
(* SettingsView.tsx and SettingsAuthTab.tsx): users, SMTP and the own      *)
(* password, the printer, and the rights the page is shown with.           *)
(*                                                                         *)
(* The server handles a request when it is sent, its answer comes later or *)
(* is lost.  A draft is the number of the step that typed it, 0 when the   *)
(* form shows what was loaded or saved.  Nobody else is at work.  The      *)
(* lists of sessions and of the audit log, and test mails, are left out.   *)
(***************************************************************************)
EXTENDS Integers, Functions

CONSTANTS Users, Self,      \* the accounts, and that of the user
          MaxFormTurns      \* bound: steps of the user

None == "none"
NoDrafts == [user |-> 0, smtp |-> 0, password |-> 0]
Printers == {"system-dialog", "printer", "pdf"}
DefaultPrinter == "printer"

\* What an instance assumes of the constants.
ConstantsFit == Self \in Users /\ None \notin Users

VARIABLES accounts,   \* the server's users and whether they are administrators
          alive,      \* the session of the user
          tab, shown, \* the session and the users shown
          userForm,   \* the user edited
          drafts,     \* what was typed and not yet saved
          busy,       \* loads and saves whose buttons wait for an answer
          printer, chosen,
          replies,    \* answers on their way
          eager,      \* the user went on while an answer was on its way, or one was lost
          dropped,    \* which answers took away what was typed and not saved
          formTurns
formVars == <<accounts, alive, tab, shown, userForm, drafts, busy, printer, chosen, replies, eager,
              dropped, formTurns>>
serverVars == <<accounts, alive>>
historyVars == <<eager, formTurns>>

NewUser == [for |-> None, admin |-> FALSE, password |-> FALSE]
\* An answer: what it does, the load or save it ends, the user or form it is about.
Answer(do, task, about, draft, content) ==
    [do |-> do, task |-> task, about |-> about, draft |-> draft, content |-> content]
Refused(task) == Answer("refused", task, None, 0, <<>>)
Rights == [user \in {Self} \cap DOMAIN accounts |-> accounts[user]]
Put(f, x, y) == [z \in DOMAIN f \cup {x} |-> IF z = x THEN y ELSE f[z]]

\* The requests of the page; they are refused when the session has ended.
AsAdmin == alive /\ accounts[Self]
AskSession == {IF alive THEN Answer("session", "session", None, 0, Rights) ELSE Refused("session")}
AskUsers == {IF AsAdmin THEN Answer("users", "users", None, 0, accounts) ELSE Refused("users")}
AskSMTP(cause) == {IF AsAdmin THEN Answer("smtp", "smtp settings", cause, 0, <<>>) ELSE Refused("smtp settings")}
AskPrinters(choice) == {Answer("printers", "printers", choice, 0, <<>>)}
Asked(answers) == {a.task : a \in answers} \cap {"users", "smtp settings"}

ManagesAs(session) == Self \in DOMAIN session /\ session[Self]
CanManageUsers == ManagesAs(shown.session)

FormsInit ==
    /\ accounts \in {[user \in group |-> TRUE] : group \in {g \in SUBSET Users : Self \in g}}
    /\ alive = TRUE /\ tab = "general"
    /\ shown = [session |-> <<>>, users |-> <<>>]
    /\ userForm = NewUser /\ drafts = NoDrafts /\ busy = {}
    /\ printer = "system-dialog" /\ chosen = None
    /\ replies = AskPrinters(printer)
    /\ eager = FALSE /\ dropped = {} /\ formTurns = 0

Turn ==
    /\ formTurns < MaxFormTurns /\ formTurns' = formTurns + 1
    /\ eager' = (eager \/ replies # {})

\* An answer replaces a form; it knows the draft that was sent.
Drop(cause, form, draft) == dropped' = dropped \cup IF drafts[form] \in {0, draft} THEN {} ELSE {cause}

SelectTab(next) ==
    /\ Turn /\ next # tab
    /\ tab' = next
    /\ LET asks == IF next = "general" THEN AskPrinters(printer)
                   ELSE AskSession \cup IF CanManageUsers THEN AskUsers \cup AskSMTP("tab") ELSE {}
       IN  replies' = replies \cup asks /\ busy' = busy \cup Asked(asks)
    /\ UNCHANGED <<serverVars, shown, userForm, drafts, printer, chosen, dropped>>

LoadCurrentSession ==
    /\ Turn /\ tab = "auth"
    /\ replies' = replies \cup AskSession
    /\ UNCHANGED <<serverVars, tab, shown, userForm, drafts, busy, printer, chosen, dropped>>

\* fault: the panels load again whenever the session is read
SessionReloads(reply) ==
    /\ reply.do = "session"
    /\ shown' = [shown EXCEPT !.session = reply.content]
    /\ LET asks == IF tab = "auth" /\ ManagesAs(reply.content) THEN AskUsers \cup AskSMTP("rights") ELSE {}
       IN  replies' = (replies \ {reply}) \cup asks /\ busy' = busy \cup Asked(asks)
    /\ UNCHANGED <<serverVars, tab, userForm, drafts, printer, chosen, dropped, historyVars>>

\* The rights of the session decide on the panels; those of an administrator load.
SessionShown(reply) ==
    /\ reply.do = "session"
    /\ shown' = [shown EXCEPT !.session = reply.content]
    /\ LET asks == IF tab = "auth" /\ ManagesAs(reply.content) /\ ~CanManageUsers THEN AskUsers \cup AskSMTP("rights") ELSE {}
       IN  replies' = (replies \ {reply}) \cup asks /\ busy' = busy \cup Asked(asks)
    /\ UNCHANGED <<serverVars, tab, userForm, drafts, printer, chosen, dropped, historyVars>>

UsersShown(reply) ==
    /\ reply.do = "users"
    /\ shown' = [shown EXCEPT !.users = reply.content]
    /\ replies' = replies \ {reply} /\ busy' = busy \ {reply.task}
    /\ UNCHANGED <<serverVars, tab, userForm, drafts, printer, chosen, dropped, historyVars>>

----------------------------------------------------------------------------
(* The printer.                                                            *)

ChoosePrinter(choice) ==
    /\ Turn /\ tab = "general" /\ choice # printer
    /\ printer' = choice /\ chosen' = choice
    /\ UNCHANGED <<serverVars, tab, shown, userForm, drafts, busy, replies, dropped>>

\* fault: the choice is not looked at
PrinterOfSystem(reply) ==
    /\ reply.do = "printers"
    /\ printer' = DefaultPrinter
    /\ replies' = replies \ {reply}
    /\ UNCHANGED <<serverVars, tab, shown, userForm, drafts, busy, chosen, dropped, historyVars>>

\* The default printer replaces the dialog of the system, chosen or not.
PrintersLoaded(reply) ==
    /\ reply.do = "printers"
    /\ printer' = IF reply.about = "system-dialog" THEN DefaultPrinter ELSE printer
    /\ replies' = replies \ {reply}
    /\ UNCHANGED <<serverVars, tab, shown, userForm, drafts, busy, chosen, dropped, historyVars>>

----------------------------------------------------------------------------
(* Users.                                                                  *)

Managing == tab = "auth" /\ CanManageUsers
Listed == IF "users" \in busy THEN {} ELSE DOMAIN shown.users

StartUserCreate ==
    /\ Turn /\ Managing
    /\ userForm' = NewUser /\ drafts' = [drafts EXCEPT !.user = 0]
    /\ UNCHANGED <<serverVars, tab, shown, busy, printer, chosen, replies, dropped>>

StartUserEdit(user) ==
    /\ Turn /\ Managing /\ user \in Listed
    /\ userForm' = [for |-> user, admin |-> shown.users[user], password |-> FALSE]
    /\ drafts' = [drafts EXCEPT !.user = 0]
    /\ UNCHANGED <<serverVars, tab, shown, busy, printer, chosen, replies, dropped>>

TypeUser ==
    /\ Turn /\ Managing
    /\ \/ userForm' = [userForm EXCEPT !.admin = ~@]
       \/ userForm' = [userForm EXCEPT !.password = TRUE]
    /\ drafts' = [drafts EXCEPT !.user = formTurns']
    /\ UNCHANGED <<serverVars, tab, shown, busy, printer, chosen, replies, dropped>>

\* A new user has a new name and a password, the last administrator stays one.
Refuses(user) ==
    \/ ~AsAdmin
    \/ userForm.for = None /\ (user \in DOMAIN accounts \/ ~userForm.password)
    \/ userForm.for # None /\ user \notin DOMAIN accounts
    \/ ~userForm.admin /\ user \in DOMAIN accounts /\ ~\E u \in DOMAIN accounts \ {user} : accounts[u]

\* A new password ends the sessions of its user.
SaveUser ==
    /\ Turn /\ Managing /\ "user" \notin busy
    /\ busy' = busy \cup {"user"}
    /\ \E user \in IF userForm.for = None THEN Users ELSE {userForm.for} :
         IF Refuses(user)
         THEN replies' = replies \cup {Refused("user")} /\ UNCHANGED serverVars
         ELSE /\ accounts' = Put(accounts, user, userForm.admin)
              /\ alive' = ~(user = Self /\ userForm.password)
              /\ replies' = replies \cup {Answer("user saved", "user", user, drafts.user, [u \in {user} |-> userForm.admin])}
    /\ UNCHANGED <<tab, shown, userForm, drafts, printer, chosen, dropped>>

\* fault: the rights are not asked for again
UserSavedOnly(reply) ==
    /\ reply.do = "user saved"
    /\ userForm' = [for |-> reply.about, admin |-> reply.content[reply.about], password |-> FALSE]
    /\ drafts' = [drafts EXCEPT !.user = 0] /\ Drop("user", "user", reply.draft)
    /\ busy' = (busy \ {reply.task}) \cup {"users"}
    /\ replies' = (replies \ {reply}) \cup AskUsers
    /\ UNCHANGED <<serverVars, tab, shown, printer, chosen, historyVars>>

\* The form shows the saved user, whatever was typed since; users and rights load.
UserSaved(reply) ==
    /\ reply.do = "user saved"
    /\ userForm' = [for |-> reply.about, admin |-> reply.content[reply.about], password |-> FALSE]
    /\ drafts' = [drafts EXCEPT !.user = 0] /\ Drop("user", "user", reply.draft)
    /\ busy' = (busy \ {reply.task}) \cup {"users"}
    /\ replies' = (replies \ {reply}) \cup AskUsers \cup AskSession
    /\ UNCHANGED <<serverVars, tab, shown, printer, chosen, historyVars>>

DeleteUser(user) ==
    /\ Turn /\ Managing /\ user \in Listed
    /\ IF AsAdmin /\ user \in DOMAIN accounts /\ \E u \in DOMAIN accounts \ {user} : accounts[u]
       THEN /\ accounts' = Restrict(accounts, DOMAIN accounts \ {user})
            /\ alive' = (user # Self)
            /\ replies' = replies \cup {Answer(IF userForm.for = user THEN "edited deleted" ELSE "deleted", "deletion", user, drafts.user, <<>>)}
       ELSE replies' = replies \cup {Refused("deletion")} /\ UNCHANGED serverVars
    /\ UNCHANGED <<tab, shown, userForm, drafts, busy, printer, chosen, dropped>>

\* fault: the form is emptied whoever is edited
UserDeletedAlways(reply) ==
    /\ reply.do \in {"edited deleted", "deleted"}
    /\ userForm' = NewUser /\ drafts' = [drafts EXCEPT !.user = 0] /\ Drop("user", "user", 0)
    /\ replies' = (replies \ {reply}) \cup AskUsers /\ busy' = busy \cup {"users"}
    /\ UNCHANGED <<serverVars, tab, shown, printer, chosen, historyVars>>

\* fault: the form is not emptied
UserDeletedOnly(reply) ==
    /\ reply.do \in {"edited deleted", "deleted"}
    /\ replies' = (replies \ {reply}) \cup AskUsers /\ busy' = busy \cup {"users"}
    /\ UNCHANGED <<serverVars, tab, shown, userForm, drafts, printer, chosen, dropped, historyVars>>

\* The form is emptied if it showed the user when the deletion was asked for.
UserDeleted(reply) ==
    /\ \/ /\ reply.do = "edited deleted"
          /\ userForm' = NewUser /\ drafts' = [drafts EXCEPT !.user = 0] /\ Drop("user", "user", reply.draft)
       \/ reply.do = "deleted" /\ UNCHANGED <<userForm, drafts, dropped>>
    /\ replies' = (replies \ {reply}) \cup AskUsers /\ busy' = busy \cup {"users"}
    /\ UNCHANGED <<serverVars, tab, shown, printer, chosen, historyVars>>

\* The own session is listed with the others; its end is not noticed.
RevokeOwnSession ==
    /\ Turn /\ Managing
    /\ alive' = (alive /\ ~AsAdmin)
    /\ UNCHANGED <<accounts, tab, shown, userForm, drafts, busy, printer, chosen, replies, dropped>>

----------------------------------------------------------------------------
(* SMTP and the own password.                                              *)

Type(form) ==
    /\ Turn /\ tab = "auth" /\ form \in {"smtp", "password"} /\ (form = "smtp" => CanManageUsers)
    /\ drafts' = [drafts EXCEPT ![form] = formTurns']
    /\ UNCHANGED <<serverVars, tab, shown, userForm, busy, printer, chosen, replies, dropped>>

LoadSMTPSettings ==
    /\ Turn /\ Managing /\ "smtp settings" \notin busy
    /\ replies' = replies \cup AskSMTP("button") /\ busy' = busy \cup {"smtp settings"}
    /\ UNCHANGED <<serverVars, tab, shown, userForm, drafts, printer, chosen, dropped>>

\* The settings loaded replace what is typed, before the request or after it.
SMTPLoaded(reply) ==
    /\ reply.do = "smtp"
    /\ drafts' = [drafts EXCEPT !.smtp = 0] /\ Drop(reply.about, "smtp", reply.draft)
    /\ replies' = replies \ {reply} /\ busy' = busy \ {reply.task}
    /\ UNCHANGED <<serverVars, tab, shown, userForm, printer, chosen, historyVars>>

Savable(form) ==
    \/ form = "smtp" /\ CanManageUsers /\ "smtp settings" \notin busy
    \/ form = "password" /\ drafts.password # 0

\* A new own password ends the other sessions of the user.
Save(form) ==
    /\ Turn /\ tab = "auth" /\ form \notin busy /\ Savable(form)
    /\ busy' = busy \cup {form}
    /\ replies' = replies \cup
         {IF alive /\ (form = "smtp" => accounts[Self]) THEN Answer("form saved", form, form, drafts[form], <<>>)
          ELSE Refused(form)}
    /\ UNCHANGED <<serverVars, tab, shown, userForm, drafts, printer, chosen, dropped>>

FormSaved(reply) ==
    /\ reply.do = "form saved"
    /\ drafts' = [drafts EXCEPT ![reply.about] = 0] /\ Drop(reply.about, reply.about, reply.draft)
    /\ replies' = replies \ {reply} /\ busy' = busy \ {reply.task}
    /\ UNCHANGED <<serverVars, tab, shown, userForm, printer, chosen, historyVars>>

----------------------------------------------------------------------------
\* fault: a save that is refused stays under way
FailsBusy(reply) ==
    /\ replies' = replies \ {reply}
    /\ eager' = TRUE
    /\ UNCHANGED <<serverVars, tab, shown, userForm, drafts, busy, printer, chosen, dropped, formTurns>>

\* Refused by the server, failed or lost: a message.
Fails(reply) ==
    /\ replies' = replies \ {reply} /\ busy' = busy \ {reply.task}
    /\ eager' = (eager \/ reply.do # "refused")
    /\ UNCHANGED <<serverVars, tab, shown, userForm, drafts, printer, chosen, dropped, formTurns>>

FormsAnswered ==
    \E reply \in replies :
      SessionShown(reply) \/ UsersShown(reply) \/ PrintersLoaded(reply) \/ UserSaved(reply)
      \/ UserDeleted(reply) \/ SMTPLoaded(reply) \/ FormSaved(reply) \/ Fails(reply)

FormsNext ==
    \/ FormsAnswered
    \/ \E next \in {"general", "auth"} : SelectTab(next)
    \/ \E choice \in Printers : ChoosePrinter(choice)
    \/ LoadCurrentSession \/ StartUserCreate \/ TypeUser \/ SaveUser \/ RevokeOwnSession \/ LoadSMTPSettings
    \/ \E user \in Users : StartUserEdit(user) \/ DeleteUser(user)
    \/ \E form \in {"smtp", "password"} : Type(form) \/ Save(form)
=============================================================================
