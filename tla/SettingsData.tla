---------------------------- MODULE SettingsData ----------------------------
(***************************************************************************)
(* The data of the settings page (frontend/src/features/settings/          *)
(* SettingsView.tsx): the table and the form of the master data, the       *)
(* import of master data, and the validation and restore of a backup.      *)
(*                                                                         *)
(* The server handles a request when it is sent, its answer comes later or *)
(* is lost.  The content of an entry is the number of the step that wrote  *)
(* it.  Nobody else changes master data meanwhile.                         *)
(***************************************************************************)
EXTENDS Integers, Functions

CONSTANTS Types, Keys,
          Files, Compatible,    \* backup files, and those that can be restored
          MaxDataTurns          \* bound: steps of the user

None == "none"
DataTabs == {"data", "importExport", "general"}

\* What an instance assumes of the constants.
ConstantsFit == None \notin Types \cup Keys \cup Files /\ Compatible \subseteq Files

VARIABLES entries,    \* the master data of the server: type, key, content
          table,      \* tab, type, what is loaded, loading and shown, whether saving
          form,       \* the entry edited: its type, key and content
          backup,     \* the file, its validation, the confirmation
          calls,      \* answers on their way
          rash,       \* the user went on while an answer was on its way, or one was lost
          replaced,   \* the data were restored or imported after the form was filled
          written,    \* the last update: the form, the type and the content it was meant for and wrote over
          restored,   \* the last file restored, the file whose validation was shown, and whether
                      \* a file was chosen while another was validated
          dataTurns
dataVars == <<entries, table, form, backup, calls, rash, replaced, written, restored, dataTurns>>

NoForm == [type |-> None, key |-> None, content |-> 0]
NoCheck == [file |-> None, compatible |-> FALSE]
Call(do, about, content) == [do |-> do, about |-> about, content |-> content]
Calls(kinds) == {call \in calls : call.do \in kinds}
Put(f, x, y) == [z \in DOMAIN f \cup {x} |-> IF z = x THEN y ELSE f[z]]
NoItems == [type \in Types |-> <<>>]

DataInit ==
    /\ entries = [type \in Types |-> [key \in Keys |-> 0]]
    /\ \E type \in Types :
         table = [tab |-> "general", type |-> type, loaded |-> {}, loading |-> {}, items |-> NoItems,
                  saving |-> FALSE]
    /\ form = NoForm
    /\ backup = [file |-> None, check |-> NoCheck, validating |-> FALSE, confirmed |-> FALSE, saving |-> FALSE]
    /\ calls = {}
    /\ rash = FALSE /\ replaced = FALSE
    /\ written = [form |-> NoForm, type |-> None, over |-> 0]
    /\ restored = [file |-> None, checked |-> None, overtaken |-> FALSE]
    /\ dataTurns = 0

Turn ==
    /\ dataTurns < MaxDataTurns /\ dataTurns' = dataTurns + 1
    /\ rash' = (rash \/ calls # {})

----------------------------------------------------------------------------
(* The table.                                                              *)

\* fault: a type whose loading was given up counts as loading
AskOnce(tab, type, others) ==
    IF tab # "data" \/ type \in table.loaded \cup table.loading
    THEN /\ table' = [table EXCEPT !.tab = tab, !.type = type]
         /\ calls' = others
    ELSE /\ table' = [table EXCEPT !.tab = tab, !.type = type, !.loading = @ \cup (Types \ table.loaded)]
         /\ calls' = others \cup {Call("all", Types \ table.loaded, entries)}

\* Showing a type that is not loaded asks for all; an answer that was asked for by
\* another tab or type is given up, the types go on counting as loading.
Ask(tab, type, others) ==
    IF tab # "data" \/ type \in table.loaded
    THEN /\ table' = [table EXCEPT !.tab = tab, !.type = type]
         /\ calls' = others
    ELSE /\ table' = [table EXCEPT !.tab = tab, !.type = type, !.loading = @ \cup (Types \ table.loaded)]
         /\ calls' = others \cup {Call("all", Types \ table.loaded, entries)}

SelectTab(tab) ==
    /\ Turn /\ tab # table.tab
    /\ Ask(tab, table.type, calls \ Calls({"all"}))
    /\ UNCHANGED <<entries, form, backup, replaced, written, restored>>

\* fault: the form stays
SelectTypeOnly(type) ==
    /\ Turn /\ table.tab = "data" /\ type # table.type
    /\ Ask("data", type, calls \ Calls({"all"}))
    /\ UNCHANGED <<entries, form, backup, replaced, written, restored>>

\* The form is emptied when the type changes.
SelectType(type) ==
    /\ Turn /\ table.tab = "data" /\ type # table.type
    /\ form' = NoForm
    /\ Ask("data", type, calls \ Calls({"all"}))
    /\ UNCHANGED <<entries, backup, replaced, written, restored>>

AllLoaded(call) ==
    /\ call.do = "all"
    /\ table' = [table EXCEPT !.items = call.content, !.loaded = Types, !.loading = @ \ call.about]
    /\ calls' = calls \ {call}
    /\ UNCHANGED <<entries, form, backup, rash, replaced, written, restored, dataTurns>>

\* One type is loaded again: by its button, and after a change.
Reload(type, others) ==
    /\ table' = [table EXCEPT !.loading = @ \cup {type}]
    /\ calls' = others \cup {Call("one", {type}, entries[type])}

ReloadActiveType ==
    /\ Turn /\ table.tab = "data" /\ table.type \notin table.loading
    /\ Reload(table.type, calls)
    /\ UNCHANGED <<entries, form, backup, replaced, written, restored>>

OneLoaded(call) ==
    /\ call.do = "one"
    /\ table' = [table EXCEPT !.items = [type \in Types |-> IF type \in call.about THEN call.content ELSE @[type]],
                              !.loaded = @ \cup call.about, !.loading = @ \ call.about]
    /\ calls' = calls \ {call}
    /\ UNCHANGED <<entries, form, backup, rash, replaced, written, restored, dataTurns>>

----------------------------------------------------------------------------
(* The form.                                                               *)

StartCreate ==
    /\ Turn /\ table.tab = "data" /\ form # NoForm
    /\ form' = NoForm
    /\ UNCHANGED <<entries, table, backup, calls, replaced, written, restored>>

StartEdit(key) ==
    /\ Turn /\ table.tab = "data" /\ table.type \notin table.loading
    /\ key \in DOMAIN table.items[table.type]
    /\ form' = [type |-> table.type, key |-> key, content |-> table.items[table.type][key]]
    /\ replaced' = FALSE
    /\ UNCHANGED <<entries, table, backup, calls, written, restored>>

\* An update goes to the type shown, whichever the entry of the form is of.
Submit(key) ==
    LET type == table.type
        new == form = NoForm
        target == IF new THEN key ELSE form.key
        done == (target \in DOMAIN entries[type]) # new
    IN  /\ Turn /\ table.tab = "data" /\ ~table.saving
        /\ table' = [table EXCEPT !.saving = TRUE]
        /\ entries' = IF done THEN [entries EXCEPT ![type] = Put(@, target, dataTurns')] ELSE entries
        /\ written' = IF new THEN written
                      ELSE [form |-> form, type |-> type,
                            over |-> IF done /\ ~replaced THEN entries[type][target] ELSE form.content]
        /\ calls' = calls \cup
             {IF done THEN Call("saved", {type}, [k \in {target} |-> dataTurns'])
              ELSE Call("refused", {type}, <<>>)}
        /\ UNCHANGED <<form, backup, replaced, restored>>

\* fault: the form keeps what it was opened with
SavedOnly(call) ==
    \E type \in call.about, key \in DOMAIN call.content :
      /\ call.do = "saved"
      /\ form' = [type |-> type, key |-> key, content |-> form.content]
      /\ table' = [table EXCEPT !.saving = FALSE, !.loading = @ \cup call.about]
      /\ calls' = (calls \ {call}) \cup {Call("one", call.about, entries[type])}
      /\ UNCHANGED <<entries, backup, rash, replaced, written, restored, dataTurns>>

\* The form shows the saved entry, whatever it shows by now.
Saved(call) ==
    \E type \in call.about, key \in DOMAIN call.content :
      /\ call.do = "saved"
      /\ form' = [type |-> type, key |-> key, content |-> call.content[key]]
      /\ table' = [table EXCEPT !.saving = FALSE, !.loading = @ \cup call.about]
      /\ calls' = (calls \ {call}) \cup {Call("one", call.about, entries[type])}
      /\ UNCHANGED <<entries, backup, rash, replaced, written, restored, dataTurns>>

DeleteEntry(key) ==
    /\ Turn /\ table.tab = "data" /\ table.type \notin table.loading
    /\ key \in DOMAIN table.items[table.type] \cap DOMAIN entries[table.type]
    /\ entries' = [entries EXCEPT ![table.type] = Restrict(@, DOMAIN @ \ {key})]
    /\ calls' = calls \cup {Call(IF form.key = key THEN "deleted shown" ELSE "deleted", {table.type}, <<>>)}
    /\ UNCHANGED <<table, form, backup, replaced, written, restored>>

\* The form is emptied if it showed the entry when its deletion was asked for.
Deleted(call) ==
    /\ call.do \in {"deleted", "deleted shown"}
    /\ form' = IF call.do = "deleted shown" THEN NoForm ELSE form
    /\ \E type \in call.about : Reload(type, calls \ {call})
    /\ UNCHANGED <<entries, backup, rash, replaced, written, restored, dataTurns>>

----------------------------------------------------------------------------
(* Files: master data and backups.                                         *)

Transfer == table.tab = "importExport"

\* The data of a file: what it replaces all entries by.
FileContent == [type \in Types |-> [key \in Keys |-> dataTurns']]

ImportMasterData ==
    /\ Turn /\ Transfer /\ Calls({"imported"}) = {}
    /\ entries' = FileContent /\ replaced' = TRUE
    /\ calls' = calls \cup {Call("imported", {}, <<>>)}
    /\ UNCHANGED <<table, form, backup, written, restored>>

\* fault: the validation of the file before stays
SelectFileOnly(file) ==
    /\ Turn /\ Transfer
    /\ backup' = [backup EXCEPT !.file = file, !.validating = TRUE, !.confirmed = FALSE]
    /\ calls' = calls \cup {Call("checked", {file}, <<>>)}
    /\ restored' = [restored EXCEPT !.overtaken = @ \/ Calls({"checked"}) # {}]
    /\ UNCHANGED <<entries, table, form, replaced, written>>

SelectBackupFile(file) ==
    /\ Turn /\ Transfer
    /\ backup' = [backup EXCEPT !.file = file, !.check = NoCheck, !.validating = TRUE, !.confirmed = FALSE]
    /\ calls' = calls \cup {Call("checked", {file}, <<>>)}
    /\ restored' = [restored EXCEPT !.overtaken = @ \/ Calls({"checked"}) # {}]
    /\ UNCHANGED <<entries, table, form, replaced, written>>

\* The answer counts for the file that is chosen by now.
Checked(call) ==
    /\ call.do = "checked"
    /\ \E file \in call.about :
         backup' = [backup EXCEPT !.check = [file |-> file, compatible |-> file \in Compatible],
                                  !.validating = FALSE]
    /\ calls' = calls \ {call}
    /\ UNCHANGED <<entries, table, form, rash, replaced, written, restored, dataTurns>>

Confirm ==
    /\ Turn /\ Transfer /\ backup.check.compatible /\ ~backup.confirmed
    /\ backup' = [backup EXCEPT !.confirmed = TRUE]
    /\ UNCHANGED <<entries, table, form, calls, replaced, written, restored>>

\* The server refuses a file that is not compatible.
RestoreBackup ==
    /\ Turn /\ Transfer /\ ~backup.saving /\ ~backup.validating
    /\ backup.check.compatible /\ backup.confirmed
    /\ backup' = [backup EXCEPT !.saving = TRUE]
    /\ restored' = [restored EXCEPT !.file = backup.file, !.checked = backup.check.file]
    /\ IF backup.file \in Compatible
       THEN /\ entries' = FileContent /\ replaced' = TRUE
            /\ calls' = calls \cup {Call("restored", {}, <<>>)}
       ELSE calls' = calls \cup {Call("not restored", {}, <<>>)} /\ UNCHANGED <<entries, replaced>>
    /\ UNCHANGED <<table, form, written>>

\* fault: what was loaded stays
ReplacedOnly(call) ==
    /\ call.do \in {"imported", "restored"}
    /\ backup' = IF call.do = "restored" THEN [backup EXCEPT !.confirmed = FALSE, !.saving = FALSE] ELSE backup
    /\ calls' = calls \ {call}
    /\ UNCHANGED <<entries, table, form, rash, replaced, written, restored, dataTurns>>

\* Nothing counts as loaded any more, the table loads when it is shown the next time.
Replaced(call) ==
    /\ call.do \in {"imported", "restored"}
    /\ table' = [table EXCEPT !.loaded = {}, !.items = NoItems]
    /\ backup' = IF call.do = "restored" THEN [backup EXCEPT !.confirmed = FALSE, !.saving = FALSE] ELSE backup
    /\ calls' = calls \ {call}
    /\ UNCHANGED <<entries, form, rash, replaced, written, restored, dataTurns>>

----------------------------------------------------------------------------
\* Refused by the server, failed or lost: a message, and nothing is under way any more.
Fails(call) ==
    /\ calls' = calls \ {call}
    /\ table' = [table EXCEPT !.saving = IF call.do \in {"saved", "refused"} THEN FALSE ELSE @,
                              !.loading = IF call.do \in {"all", "one"} THEN @ \ call.about ELSE @]
    /\ backup' = [backup EXCEPT !.saving = IF call.do \in {"restored", "not restored"} THEN FALSE ELSE @,
                                !.validating = IF call.do = "checked" THEN FALSE ELSE @]
    /\ rash' = (rash \/ call.do \notin {"refused", "not restored"})
    /\ UNCHANGED <<entries, form, replaced, written, restored, dataTurns>>

DataAnswered ==
    \E call \in calls :
      AllLoaded(call) \/ OneLoaded(call) \/ Saved(call) \/ Deleted(call) \/ Checked(call)
      \/ Replaced(call) \/ Fails(call)

DataNext ==
    \/ DataAnswered
    \/ \E tab \in DataTabs : SelectTab(tab)
    \/ \E type \in Types : SelectType(type)
    \/ \E key \in Keys : StartEdit(key) \/ Submit(key) \/ DeleteEntry(key)
    \/ ReloadActiveType \/ StartCreate
    \/ \E file \in Files : SelectBackupFile(file)
    \/ ImportMasterData \/ Confirm \/ RestoreBackup
=============================================================================
