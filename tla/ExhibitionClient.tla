-------------------------- MODULE ExhibitionClient --------------------------
(***************************************************************************)
(* The exhibition page (frontend/src/features/exhibition/                  *)
(* ExhibitionView.tsx): the lists, the entries shown of the selected list  *)
(* and the dialogs, and the answers of the server on their way.            *)
(*                                                                         *)
(* The server handles a request when it is sent and its answer comes later *)
(* or is lost.  ExhibitionLists models the server's side.  An entry is     *)
(* named by its list and a number; its address stands for the DCC and the  *)
(* SX address.  The user is an administrator: others only miss actions.    *)
(***************************************************************************)
EXTENDS Integers, Functions

CONSTANTS Lists, Addresses,
          Days,             \* the days that can be chosen
          MaxEntries,       \* bound: entries ever made in a list
          MaxTurns          \* bound: steps of the user and of others

None == "none"
New == "new"
FunctionKeys == {"F0", "F1"}

\* What an instance assumes of the constants.
ConstantsFit ==
    /\ Lists \cap {None, New} = {} /\ None \notin Addresses /\ "all" \notin Days
    /\ MaxEntries \in Nat \ {0}

VARIABLES stored,    \* the lists of the server: whether locked, and their entries
          view,      \* what the page shows: lists, selected, entries, saving
          dialogs,   \* the open dialogs: list, entry with its form, view, print
          awaited,   \* answers on their way
          hasty,     \* the user went on while an answer was on its way
          failed,    \* a request failed
          others,    \* someone else changed an entry or a lock
          turns
exhibitionVars == <<stored, view, dialogs, awaited, hasty, failed, others, turns>>
history == <<hasty, failed, others>>

EntryIDs(l) == {l} \X (1..MaxEntries)
NoEntry == <<None, 0>>
NewEntry == <<New, 0>>
NoEntries == <<>>

----------------------------------------------------------------------------
(* Days and function keys of an entry.                                     *)

SelectedDayScopes(value) ==
    LET selected == value \cap Days
    IN  IF "all" \in value \/ selected \in {{}, Days} THEN {"all"} ELSE selected

\* fault: the whole of the days is not taken for all
NormalizeEvery(scopes) == IF "all" \in scopes \/ scopes \cap Days = {} THEN {"all"} ELSE scopes \cap Days

NormalizeDayScopeSelection(scopes) ==
    LET selected == scopes \cap Days
    IN  IF "all" \in scopes \/ selected \in {{}, Days} THEN {"all"} ELSE selected

ToggleDayScope(value, scope) ==
    LET current == SelectedDayScopes(value) \ {"all"}
    IN  IF scope = "all" THEN {"all"}
        ELSE NormalizeDayScopeSelection(IF scope \in current THEN current \ {scope} ELSE current \cup {scope})

DefaultFunction(key) ==
    IF key = "F0" THEN [name |-> "Fahrlicht", type |-> "licht", symbol |-> "light"]
    ELSE [name |-> "", type |-> "standard", symbol |-> ""]

EmptyFunctions == [key \in FunctionKeys |-> DefaultFunction(key)]

IsConfiguredFunction(key, item) ==
    item.name # "" \/ item.symbol # "" \/ item.type # DefaultFunction(key).type

SerializeFunctions(functions) ==
    Restrict(functions, {key \in DOMAIN functions : IsConfiguredFunction(key, functions[key])})

ParseFunctions(value) ==
    [key \in FunctionKeys |-> IF key \in DOMAIN value THEN value[key] ELSE DefaultFunction(key)]

FormOf(entry) ==
    [address |-> entry.address, days |-> entry.days, functions |-> ParseFunctions(entry.functions)]
EmptyForm == [address |-> None, days |-> {"all"}, functions |-> EmptyFunctions]
Payload(form) ==
    [address |-> form.address, days |-> NormalizeDayScopeSelection(SelectedDayScopes(form.days)),
     functions |-> SerializeFunctions(form.functions)]

----------------------------------------------------------------------------
(* The server.                                                             *)

LockOf == [l \in DOMAIN stored |-> stored[l].locked]
Put(f, x, y) == [z \in DOMAIN f \cup {x} |-> IF z = x THEN y ELSE f[z]]
Writable(l) == l \in DOMAIN stored /\ ~stored[l].locked
FreeIDs(l) == EntryIDs(l) \ (DOMAIN stored[l].entries \cup DOMAIN view.entries)

Reply(do, list, content) == [do |-> do, list |-> list, content |-> content, found |-> TRUE]
Done(do, list) == Reply(do, list, NoEntries)
ListsReply == Reply("lists", None, LockOf)
EntriesReply(do, l) ==
    [Reply(do, l, IF l \in DOMAIN stored THEN stored[l].entries ELSE NoEntries)
       EXCEPT !.found = l \in DOMAIN stored]

----------------------------------------------------------------------------
NoList == [list |-> None, entries |-> NoEntries]
Closed == [list |-> None, entry |-> NoEntry, form |-> EmptyForm, view |-> NoList, print |-> NoList]
OnPage == dialogs = [Closed EXCEPT !.form = dialogs.form]

ExhibitionInit ==
    /\ \E known \in (SUBSET Lists) \ {{}} :
         stored = [l \in known |->
                     [locked |-> FALSE,
                      entries |-> Put(NoEntries, <<l, 1>>,
                                      [address |-> CHOOSE a \in Addresses : TRUE,
                                       days |-> {"all"}, functions |-> NoEntries])]]
    /\ view = [lists |-> NoEntries, selected |-> None, entries |-> NoEntries, saving |-> FALSE]
    /\ dialogs = Closed
    /\ awaited = {ListsReply}
    /\ hasty = FALSE /\ failed = FALSE /\ others = FALSE /\ turns = 0

\* A step of the user.
Turn ==
    /\ turns < MaxTurns /\ turns' = turns + 1
    /\ hasty' = (hasty \/ awaited # {})
    /\ UNCHANGED <<failed, others>>

\* Selecting a list asks for its entries; those shown stay until then.
Select(l, rest) ==
    IF l = view.selected THEN awaited' = rest /\ UNCHANGED view
    ELSE /\ view' = [view EXCEPT !.selected = l, !.entries = IF l = None THEN NoEntries ELSE @]
         /\ awaited' = IF l = None THEN rest ELSE rest \cup {EntriesReply("entries", l)}

ListsLoaded(reply) ==
    /\ reply.do = "lists"
    /\ LET known == [view EXCEPT !.lists = reply.content]
           rest == awaited \ {reply}
       IN  IF view.selected # None \/ DOMAIN reply.content = {}
           THEN view' = known /\ awaited' = rest
           ELSE \E first \in DOMAIN reply.content :
                  /\ view' = [known EXCEPT !.selected = first]
                  /\ awaited' = rest \cup {EntriesReply("entries", first)}
    /\ UNCHANGED <<stored, dialogs, history, turns>>

\* Entries come for the list they were asked for, whichever is selected by then.
EntriesLoaded(reply) ==
    /\ reply.do \in {"entries", "saved entries", "deleted entries"} /\ reply.found
    /\ view' = [view EXCEPT !.entries = reply.content,
                            !.saving = IF reply.do = "saved entries" THEN FALSE ELSE @]
    /\ awaited' = awaited \ {reply}
    /\ UNCHANGED <<stored, dialogs, history, turns>>

SelectList(l) ==
    /\ Turn /\ OnPage /\ l \in DOMAIN view.lists
    /\ Select(l, awaited)
    /\ UNCHANGED <<stored, dialogs>>

----------------------------------------------------------------------------
(* Lists.                                                                  *)

OpenListDialog(l) ==
    /\ Turn /\ OnPage /\ l \in DOMAIN view.lists \cup {New}
    /\ dialogs' = [dialogs EXCEPT !.list = l]
    /\ UNCHANGED <<stored, view, awaited>>

SaveList ==
    /\ Turn /\ dialogs.list # None /\ ~view.saving
    /\ view' = [view EXCEPT !.saving = TRUE]
    /\ IF dialogs.list = New
       THEN \E l \in Lists \ DOMAIN stored :
              /\ stored' = Put(stored, l, [locked |-> FALSE, entries |-> NoEntries])
              /\ awaited' = awaited \cup {Done("list", l)}
       ELSE /\ awaited' = awaited \cup
                  {Done(IF dialogs.list \in DOMAIN stored THEN "list" ELSE "refused", dialogs.list)}
            /\ UNCHANGED stored
    /\ UNCHANGED dialogs

\* The saved list is selected and the lists are loaded.
ListSaved(reply) ==
    /\ reply.do = "list"
    /\ dialogs' = [dialogs EXCEPT !.list = None]
    /\ LET rest == (awaited \ {reply}) \cup {ListsReply}
       IN  IF reply.list = view.selected
           THEN view' = [view EXCEPT !.saving = FALSE] /\ awaited' = rest
           ELSE /\ view' = [view EXCEPT !.selected = reply.list, !.saving = FALSE]
                /\ awaited' = rest \cup {EntriesReply("entries", reply.list)}
    /\ UNCHANGED <<stored, history, turns>>

DeleteList(l) ==
    /\ Turn /\ OnPage /\ l \in DOMAIN view.lists \cap DOMAIN stored
    /\ stored' = Restrict(stored, DOMAIN stored \ {l})
    /\ awaited' = awaited \cup {Reply("deleted list", l, [x \in {l} |-> x = view.selected])}
    /\ UNCHANGED <<view, dialogs>>

\* fault: the list stays selected
ListDeletedOnly(reply) ==
    /\ reply.do = "deleted list"
    /\ awaited' = (awaited \ {reply}) \cup {ListsReply}
    /\ UNCHANGED <<stored, view, dialogs, history, turns>>

\* Nothing is selected any more if the list was when its deletion was asked for.
ListDeleted(reply) ==
    /\ reply.do = "deleted list"
    /\ Select(IF reply.content[reply.list] THEN None ELSE view.selected, (awaited \ {reply}) \cup {ListsReply})
    /\ UNCHANGED <<stored, dialogs, history, turns>>

ToggleLock(l) ==
    /\ Turn /\ OnPage /\ l \in DOMAIN view.lists \cap DOMAIN stored
    /\ stored' = [stored EXCEPT ![l].locked = ~view.lists[l]]
    /\ awaited' = awaited \cup {Reply("lock", l, [x \in {l} |-> ~view.lists[x]])}
    /\ UNCHANGED <<view, dialogs>>

LockToggled(reply) ==
    /\ reply.do = "lock"
    /\ view' = [view EXCEPT !.lists = [l \in DOMAIN @ |-> IF l = reply.list THEN reply.content[l] ELSE @[l]]]
    /\ awaited' = awaited \ {reply}
    /\ UNCHANGED <<stored, dialogs, history, turns>>

----------------------------------------------------------------------------
(* View and print.                                                         *)

Opened(kind, l, entries) == dialogs' = [dialogs EXCEPT ![kind] = [list |-> l, entries |-> entries]]

\* fault: the entries shown are taken for any list
ShownForList(kind, l) ==
    /\ Opened(kind, l, view.entries) /\ UNCHANGED awaited

\* The entries shown stand for those of the selected list, others are asked for.
EntriesForList(kind, l) ==
    IF l = view.selected THEN Opened(kind, l, view.entries) /\ UNCHANGED awaited
    ELSE awaited' = awaited \cup {EntriesReply(kind, l)} /\ UNCHANGED dialogs

PrintListByID(l) ==
    /\ Turn /\ OnPage /\ l \in DOMAIN view.lists
    /\ EntriesForList("print", l)
    /\ UNCHANGED <<stored, view>>

\* The list is selected before its entries are asked for.
OpenListView(l) ==
    /\ Turn /\ OnPage /\ l \in DOMAIN view.lists
    /\ IF l = view.selected
       THEN EntriesForList("view", l) /\ UNCHANGED view
       ELSE Select(l, awaited \cup {EntriesReply("view", l)}) /\ UNCHANGED dialogs
    /\ UNCHANGED stored

DialogLoaded(reply) ==
    /\ reply.do \in {"view", "print"} /\ reply.found
    /\ Opened(reply.do, reply.list, reply.content)
    /\ awaited' = awaited \ {reply}
    /\ UNCHANGED <<stored, view, history, turns>>

\* From the head of the entries, or from the view dialog.
OpenPrintDialog ==
    /\ Turn
    /\ \/ /\ OnPage /\ view.selected \in DOMAIN view.lists
          /\ Opened("print", view.selected, view.entries)
       \/ /\ dialogs.view # NoList
          /\ dialogs' = [dialogs EXCEPT !.print = dialogs.view]
    /\ UNCHANGED <<stored, view, awaited>>

RunPrintDialog ==
    /\ dialogs.print # NoList
    /\ dialogs' = [dialogs EXCEPT !.print = NoList]
    /\ UNCHANGED <<stored, view, awaited, history, turns>>

CloseDialog(kind) ==
    /\ Turn /\ dialogs[kind] # Closed[kind]
    /\ dialogs' = [dialogs EXCEPT ![kind] = Closed[kind]]
    /\ UNCHANGED <<stored, view, awaited>>

----------------------------------------------------------------------------
(* Entries.                                                                *)

CanEditEntries == view.selected \in DOMAIN view.lists /\ ~view.lists[view.selected]

OpenEntryDialog(e) ==
    /\ Turn /\ OnPage /\ CanEditEntries /\ e \in DOMAIN view.entries \cup {NewEntry}
    /\ dialogs' = [dialogs EXCEPT !.entry = e,
                                  !.form = IF e = NewEntry THEN EmptyForm ELSE FormOf(view.entries[e])]
    /\ UNCHANGED <<stored, view, awaited>>

Edit(form) ==
    /\ Turn /\ dialogs.entry # NoEntry
    /\ dialogs' = [dialogs EXCEPT !.form = form]
    /\ UNCHANGED <<stored, view, awaited>>

EditAddress == \E address \in Addresses : Edit([dialogs.form EXCEPT !.address = address])

EditDays == \E scope \in Days \cup {"all"} : Edit([dialogs.form EXCEPT !.days = ToggleDayScope(@, scope)])

UpdateEntryFunction(key) ==
    \/ \E name \in {"", "Horn"} : Edit([dialogs.form EXCEPT !.functions[key].name = name])
    \/ \E type \in {"standard", "licht"} : Edit([dialogs.form EXCEPT !.functions[key].type = type])
    \/ \E symbol \in {"", "light"} : Edit([dialogs.form EXCEPT !.functions[key].symbol = symbol])

\* fault: the addresses of the other entries are not looked at
NoDuplicate(address, current) == FALSE

DuplicateAddress(address, current) ==
    address # None /\ \E e \in DOMAIN view.entries \ {current} : view.entries[e].address = address

SaveEntry ==
    /\ Turn /\ dialogs.entry # NoEntry /\ CanEditEntries /\ ~view.saving
    /\ ~DuplicateAddress(dialogs.form.address, dialogs.entry)
    /\ view' = [view EXCEPT !.saving = TRUE]
    /\ LET l == view.selected
       IN  IF Writable(l) /\ dialogs.entry \in DOMAIN stored[l].entries \cup {NewEntry}
           THEN /\ \E e \in IF dialogs.entry = NewEntry THEN FreeIDs(l) ELSE {dialogs.entry} :
                     stored' = [stored EXCEPT ![l].entries = Put(@, e, Payload(dialogs.form))]
                /\ awaited' = awaited \cup {Done("saved", l)}
           ELSE awaited' = awaited \cup {Done("refused", l)} /\ UNCHANGED stored
    /\ UNCHANGED dialogs

\* The dialog closes and the entries of the list of the save are loaded.
EntrySaved(reply) ==
    /\ reply.do = "saved"
    /\ dialogs' = [dialogs EXCEPT !.entry = NoEntry]
    /\ awaited' = (awaited \ {reply}) \cup {EntriesReply("saved entries", reply.list)}
    /\ UNCHANGED <<stored, view, history, turns>>

\* fault: the button stays disabled
RefusedForGood(reply) ==
    /\ reply.do = "refused"
    /\ awaited' = awaited \ {reply}
    /\ UNCHANGED <<stored, view, dialogs, history, turns>>

Refused(reply) ==
    /\ reply.do = "refused"
    /\ view' = [view EXCEPT !.saving = FALSE]
    /\ awaited' = awaited \ {reply}
    /\ UNCHANGED <<stored, dialogs, history, turns>>

DeleteEntry(e) ==
    /\ Turn /\ OnPage /\ CanEditEntries /\ e \in DOMAIN view.entries
    /\ Writable(view.selected) /\ e \in DOMAIN stored[view.selected].entries
    /\ stored' = [stored EXCEPT ![view.selected].entries = Restrict(@, DOMAIN @ \ {e})]
    /\ awaited' = awaited \cup {Done("deleted", view.selected)}
    /\ UNCHANGED <<view, dialogs>>

EntryDeleted(reply) ==
    /\ reply.do = "deleted"
    /\ awaited' = (awaited \ {reply}) \cup {EntriesReply("deleted entries", reply.list)}
    /\ UNCHANGED <<stored, view, dialogs, history, turns>>

----------------------------------------------------------------------------
\* A request failed or its answer was lost: a message.  Saving is over.
Fails(reply) ==
    /\ awaited' = awaited \ {reply}
    /\ view' = [view EXCEPT !.saving = IF reply.do \in {"list", "saved", "saved entries", "refused"}
                                       THEN FALSE ELSE @]
    /\ failed' = TRUE
    /\ UNCHANGED <<stored, dialogs, hasty, others, turns>>

\* Another user enters a locomotive or locks a list.
OtherUser(l) ==
    /\ turns < MaxTurns /\ turns' = turns + 1
    /\ others' = TRUE
    /\ \/ /\ Writable(l)
          /\ \E e \in FreeIDs(l), address \in Addresses :
               stored' = [stored EXCEPT ![l].entries =
                            Put(@, e, [address |-> address, days |-> {"all"}, functions |-> NoEntries])]
       \/ Writable(l) /\ stored' = [stored EXCEPT ![l].locked = TRUE]
    /\ UNCHANGED <<view, dialogs, awaited, hasty, failed>>

ExhibitionAnswered ==
    \E reply \in awaited :
      \/ ListsLoaded(reply) \/ EntriesLoaded(reply) \/ ListSaved(reply) \/ ListDeleted(reply)
      \/ LockToggled(reply) \/ DialogLoaded(reply) \/ EntrySaved(reply) \/ Refused(reply)
      \/ EntryDeleted(reply) \/ Fails(reply)

ExhibitionNext ==
    \/ ExhibitionAnswered
    \/ \E l \in Lists : SelectList(l) \/ DeleteList(l) \/ ToggleLock(l) \/ PrintListByID(l)
                        \/ OpenListView(l) \/ OtherUser(l)
    \/ \E l \in Lists \cup {New} : OpenListDialog(l)
    \/ SaveList \/ OpenPrintDialog \/ RunPrintDialog \/ SaveEntry
    \/ EditAddress \/ EditDays \/ \E key \in FunctionKeys : UpdateEntryFunction(key)
    \/ \E kind \in {"list", "entry", "view", "print"} : CloseDialog(kind)
    \/ \E e \in DOMAIN view.entries : OpenEntryDialog(e) \/ DeleteEntry(e)
    \/ OpenEntryDialog(NewEntry)
=============================================================================
