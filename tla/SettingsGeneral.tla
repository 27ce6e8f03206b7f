-------------------------- MODULE SettingsGeneral --------------------------
(***************************************************************************)
(* The general tab of the settings page (frontend/src/features/settings/   *)
(* SettingsView.tsx): the table of number schemes, which is its own form,  *)
(* and the use of the storage, which the data tab asks for, too.           *)
(*                                                                         *)
(* Effects ask for both as long as they are not there: an answer without   *)
(* them makes the effect ask again.  The server handles a request when it  *)
(* is sent, its answer comes later or is lost.  Others make vehicles,      *)
(* whose numbers the schemes count (InventoryNumbers).  "text" stands for  *)
(* prefix, padding and whether a scheme is in use, 0 for what the server   *)
(* refuses.                                                                *)
(***************************************************************************)
EXTENDS Integers

CONSTANTS Categories,
          MaxNext,           \* bound: the next number of a scheme
          MaxGeneralTurns    \* bound: steps of the user and of others, lost answers

Nobody == "nobody"
Readers == {"Viewer", "Editor", "Admin"}
Writers == {"Editor", "Admin"}

VARIABLES schemes,     \* of the server: category -> next number and text
          role,        \* of the session; nobody's when it has ended
          openTab,
          rows,        \* the table: a row for each scheme that was loaded
          typed,       \* the step that typed in a row, 0 if it shows what came
          known,       \* the use of the storage is there
          waiting,     \* loads under way, as the page sees it
          coming,      \* answers on their way
          impatient,   \* the user went on while an answer was on its way, or one was lost
          taken,       \* an answer took away what was typed after its request
          counted,     \* categories in which others made vehicles since the row came
          overwritten, \* the last save: the scheme it wrote over, and as it came to the page
          came,        \* each scheme as it came to the page last
          generalTurns
generalVars == <<schemes, role, openTab, rows, typed, known, waiting, coming, impatient, taken,
                 counted, overwritten, came, generalTurns>>
tableVars == <<rows, typed, counted, came, taken>>
serverSide == <<schemes, role>>

Scheme(next, text) == [next |-> next, text |-> text]
NoRows == <<>>
Reply(do, at, about, content) == [do |-> do, at |-> at, about |-> about, content |-> content]

\* The two loads; "about" is what was typed when they were asked for.
AskSchemes(at) ==
    {IF role \in Readers THEN Reply("schemes", at, typed, schemes) ELSE Reply("no schemes", at, typed, NoRows)}
AskStorage(at) ==
    {Reply(IF role = "Admin" THEN "storage" ELSE "no storage", at, NoRows, NoRows)}

\* The effects of the tabs, as they run when the page shows a tab, rows, whether the storage
\* is known, and what is loading.
Wanted(tab, shown, there, loading) ==
    (IF tab = "general" /\ shown = NoRows /\ "schemes" \notin loading THEN {"schemes"} ELSE {})
    \cup (IF tab = "data" /\ ~there /\ "storage" \notin loading THEN {"storage"} ELSE {})

Asked(wanted, at) ==
    (IF "schemes" \in wanted THEN AskSchemes(at) ELSE {})
    \cup (IF "storage" \in wanted THEN AskStorage(at) ELSE {})

GeneralInit ==
    /\ schemes = [c \in Categories |-> Scheme(1, 1)] /\ role \in Readers
    /\ openTab = "general" /\ rows = NoRows /\ typed = [c \in Categories |-> 0]
    /\ known = FALSE /\ waiting = {"schemes", "storage"}
    /\ coming = AskSchemes(0) \cup AskStorage(0)
    /\ impatient = FALSE /\ taken = FALSE /\ counted = {}
    /\ overwritten = [was |-> Scheme(1, 1), shown |-> Scheme(1, 1), counted |-> FALSE]
    /\ came = NoRows /\ generalTurns = 0

Turn ==
    /\ generalTurns < MaxGeneralTurns /\ generalTurns' = generalTurns + 1
    /\ impatient' = (impatient \/ coming # {})

\* Whoever turns to the general tab asks for the storage anew.
OpenTab(next) ==
    /\ Turn /\ next # openTab /\ openTab' = next
    /\ LET wanted == Wanted(next, rows, known, waiting) \cup IF next = "general" THEN {"storage"} ELSE {}
       IN  waiting' = waiting \cup wanted /\ coming' = coming \cup Asked(wanted, generalTurns')
    /\ UNCHANGED <<serverSide, tableVars, known, overwritten>>

Refresh(what) ==
    /\ Turn /\ openTab = "general" /\ what \notin waiting
    /\ waiting' = waiting \cup {what} /\ coming' = coming \cup Asked({what}, generalTurns')
    /\ UNCHANGED <<serverSide, tableVars, openTab, known, overwritten>>

----------------------------------------------------------------------------
\* What came takes the place of what was typed, also of what was typed since it was asked for.
SchemesLoaded(reply) ==
    /\ reply.do = "schemes"
    /\ rows' = reply.content /\ came' = reply.content
    /\ typed' = [c \in Categories |-> 0]
    /\ taken' = (taken \/ \E c \in Categories : typed[c] \notin {0, reply.about[c]})
    /\ counted' = {c \in counted : reply.content[c] # schemes[c]}
    /\ waiting' = waiting \ {"schemes"} /\ coming' = coming \ {reply}
    /\ UNCHANGED <<serverSide, openTab, known, impatient, overwritten, generalTurns>>

StorageLoaded(reply) ==
    /\ reply.do = "storage"
    /\ known' = TRUE
    /\ waiting' = waiting \ {"storage"} /\ coming' = coming \ {reply}
    /\ UNCHANGED <<serverSide, tableVars, openTab, impatient, overwritten, generalTurns>>

LoadOf(reply) == IF reply.do \in {"schemes", "no schemes"} THEN "schemes" ELSE "storage"

\* The end of a load that brought nothing, and the effects that follow.
LoadEnds(reply) ==
    LET over == waiting \ {LoadOf(reply)}
        wanted == Wanted(openTab, rows, known, over)
    IN  /\ waiting' = over \cup wanted
        /\ coming' = (coming \ {reply}) \cup Asked(wanted, reply.at)

\* fault: a load that fails stays under way
LoadRefusedForGood(reply) ==
    /\ reply.do \in {"no schemes", "no storage"}
    /\ coming' = coming \ {reply}
    /\ UNCHANGED <<serverSide, tableVars, openTab, known, waiting, impatient, overwritten, generalTurns>>

\* What is refused is asked for again, as long as the tab that wants it is shown.
LoadRefused(reply) ==
    /\ reply.do \in {"no schemes", "no storage"}
    /\ LoadEnds(reply)
    /\ UNCHANGED <<serverSide, tableVars, openTab, known, impatient, overwritten, generalTurns>>

LoadLost(reply) ==
    /\ Turn /\ reply.do \notin {"saved", "not saved"}
    /\ impatient' = TRUE
    /\ LoadEnds(reply)
    /\ UNCHANGED <<serverSide, tableVars, openTab, known, overwritten>>

----------------------------------------------------------------------------
TypeScheme(c) ==
    /\ Turn /\ openTab = "general" /\ c \in DOMAIN rows
    /\ \/ \E next \in {0, 3} : rows' = [rows EXCEPT ![c].next = next]
       \/ \E text \in {0, generalTurns'} : rows' = [rows EXCEPT ![c].text = text]
    /\ typed' = [typed EXCEPT ![c] = generalTurns']
    /\ UNCHANGED <<serverSide, openTab, known, waiting, coming, taken, counted, overwritten, came>>

\* An emptied next number is 1, as an emptied padding is 6.
Input(row) == [row EXCEPT !.next = IF @ = 0 THEN 1 ELSE @]
Accepted(row) == role \in Writers /\ row.text # 0

\* The counter goes back if vehicles were made since the row came.
SaveScheme(c) ==
    /\ Turn /\ openTab = "general" /\ c \in DOMAIN rows
    /\ IF Accepted(rows[c])
       THEN /\ schemes' = [schemes EXCEPT ![c] = Input(rows[c])]
            /\ overwritten' = [was |-> schemes[c], shown |-> came[c], counted |-> c \in counted]
            /\ counted' = counted \ {c}
            /\ coming' = coming \cup {Reply("saved", generalTurns', [x \in {c} |-> typed[x]], [x \in {c} |-> Input(rows[x])])}
       ELSE /\ coming' = coming \cup {Reply("not saved", generalTurns', NoRows, NoRows)}
            /\ UNCHANGED <<schemes, overwritten, counted>>
    /\ UNCHANGED <<role, openTab, rows, typed, known, waiting, taken, came>>

\* fault: the row stays as it was typed
SavedAsTyped(reply) ==
    /\ reply.do = "saved"
    /\ typed' = [c \in Categories |-> IF c \in DOMAIN reply.about THEN 0 ELSE typed[c]]
    /\ coming' = coming \ {reply}
    /\ UNCHANGED <<serverSide, openTab, rows, known, waiting, impatient, taken, counted, overwritten,
                   came, generalTurns>>

\* fault: the row takes the place of the table's other rows as well
SavedForAll(reply) ==
    /\ reply.do = "saved"
    /\ rows' = schemes /\ came' = schemes
    /\ typed' = [c \in Categories |-> 0]
    /\ taken' = (taken \/ \E c \in Categories : c \notin DOMAIN reply.about /\ typed[c] # 0)
    /\ coming' = coming \ {reply}
    /\ UNCHANGED <<serverSide, openTab, known, waiting, impatient, counted, overwritten, generalTurns>>

\* The row that was saved shows what the server made of it, whatever was typed in it since.
SchemeSaved(reply) ==
    /\ reply.do = "saved"
    /\ \E c \in DOMAIN reply.about :
         /\ rows' = [rows EXCEPT ![c] = reply.content[c]] /\ came' = [came EXCEPT ![c] = reply.content[c]]
         /\ typed' = [typed EXCEPT ![c] = 0]
         /\ taken' = (taken \/ typed[c] \notin {0, reply.about[c]})
    /\ coming' = coming \ {reply}
    /\ UNCHANGED <<serverSide, openTab, known, waiting, impatient, counted, overwritten, generalTurns>>

\* Refused or lost: a message.
NotSaved(reply) ==
    /\ reply.do \in {"saved", "not saved"}
    /\ impatient' = (impatient \/ reply.do = "saved")
    /\ coming' = coming \ {reply}
    /\ UNCHANGED <<serverSide, tableVars, openTab, known, waiting, overwritten, generalTurns>>

----------------------------------------------------------------------------
VehicleMade(c) ==
    /\ generalTurns < MaxGeneralTurns /\ generalTurns' = generalTurns + 1
    /\ schemes[c].next < MaxNext
    /\ schemes' = [schemes EXCEPT ![c].next = @ + 1]
    /\ counted' = counted \cup {c}
    /\ UNCHANGED <<role, openTab, rows, typed, known, waiting, coming, impatient, taken, overwritten, came>>

SessionEnds ==
    /\ generalTurns < MaxGeneralTurns /\ generalTurns' = generalTurns + 1
    /\ role # Nobody /\ role' = Nobody
    /\ UNCHANGED <<schemes, openTab, tableVars, known, waiting, coming, impatient, overwritten>>

GeneralAnswered ==
    \E reply \in coming :
      SchemesLoaded(reply) \/ StorageLoaded(reply) \/ LoadRefused(reply) \/ LoadLost(reply)
      \/ SchemeSaved(reply) \/ NotSaved(reply)

GeneralNext ==
    \/ GeneralAnswered
    \/ \E next \in {"general", "data"} : OpenTab(next)
    \/ \E what \in {"schemes", "storage"} : Refresh(what)
    \/ \E c \in Categories : TypeScheme(c) \/ SaveScheme(c) \/ VehicleMade(c)
    \/ SessionEnds
=============================================================================
