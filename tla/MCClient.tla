------------------------------ MODULE MCClient ------------------------------
(***************************************************************************)
(* The pages of the client on small instances, one page in a behaviour: a  *)
(* link of the navigation loads the client anew (app/Shell.tsx:150), so    *)
(* that the states of two pages never meet.                                *)
(***************************************************************************)
EXTENDS ClientSession, Integers, FiniteSets, Sequences

CONSTANTS Lists, Addresses, Days, MaxEntries, MaxTurns,
          Types, Keys, Files, Compatible, MaxDataTurns,
          Self, MaxFormTurns,
          Categories, MaxNext, MaxGeneralTurns

VARIABLES page,
          stored, view, dialogs, awaited, hasty, failed, others, turns,
          entries, table, form, backup, calls, rash, replaced, written, restored, dataTurns,
          accounts, alive, tab, shown, userForm, drafts, busy, printer, chosen, replies, eager,
          dropped, formTurns,
          schemes, role, openTab, rows, typed, known, waiting, coming, impatient, taken, counted,
          overwritten, came, generalTurns

Exhibition == INSTANCE ExhibitionClient
Data == INSTANCE SettingsData
Forms == INSTANCE SettingsForms
General == INSTANCE SettingsGeneral

ASSUME SessionAssumptions == ConstantsFit
ASSUME ExhibitionAssumptions == Exhibition!ConstantsFit
ASSUME DataAssumptions == Data!ConstantsFit
ASSUME FormsAssumptions == Forms!ConstantsFit

mixedVars == <<sessionVars, mixed>>
exhibitionVars == <<stored, view, dialogs, awaited, hasty, failed, others, turns>>
dataVars == <<entries, table, form, backup, calls, rash, replaced, written, restored, dataTurns>>
formVars == <<accounts, alive, tab, shown, userForm, drafts, busy, printer, chosen, replies, eager,
              dropped, formTurns>>
generalVars == <<schemes, role, openTab, rows, typed, known, waiting, coming, impatient, taken,
                 counted, overwritten, came, generalTurns>>
settingsVars == <<dataVars, formVars, generalVars>>
vars == <<page, mixedVars, exhibitionVars, settingsVars>>

Off == "off"

RolesMC == [u \in Users |-> IF u = "erna" THEN {"Editor"} ELSE {"Messe"}]

----------------------------------------------------------------------------
\* "mixed": ActsAsShown claims nothing of the other pages.
SessionOff ==
    /\ ready = Off /\ owner = Off /\ live = Off /\ cookie = Off /\ start = Off /\ tabs = Off
    /\ asked = Off /\ change = Off /\ steps = Off /\ mixed = TRUE
ExhibitionOff ==
    /\ stored = Off /\ view = Off /\ dialogs = Off /\ awaited = Off
    /\ hasty = Off /\ failed = Off /\ others = Off /\ turns = Off
DataOff ==
    /\ entries = Off /\ table = Off /\ form = Off /\ backup = Off /\ calls = Off /\ rash = Off
    /\ replaced = Off /\ written = Off /\ restored = Off /\ dataTurns = Off
FormsOff ==
    /\ accounts = Off /\ alive = Off /\ tab = Off /\ shown = Off /\ userForm = Off /\ drafts = Off
    /\ busy = Off /\ printer = Off /\ chosen = Off /\ replies = Off /\ eager = Off
    /\ dropped = Off /\ formTurns = Off
GeneralOff ==
    /\ schemes = Off /\ role = Off /\ openTab = Off /\ rows = Off /\ typed = Off /\ known = Off
    /\ waiting = Off /\ coming = Off /\ impatient = Off /\ taken = Off /\ counted = Off
    /\ overwritten = Off /\ came = Off /\ generalTurns = Off
SettingsOff == DataOff /\ FormsOff /\ GeneralOff

Init ==
    \/ page = "session" /\ MixedInit /\ ExhibitionOff /\ SettingsOff
    \/ page = "exhibition" /\ Exhibition!ExhibitionInit /\ SessionOff /\ SettingsOff
    \/ page = "data" /\ Data!DataInit /\ SessionOff /\ ExhibitionOff /\ FormsOff /\ GeneralOff
    \/ page = "forms" /\ Forms!FormsInit /\ SessionOff /\ ExhibitionOff /\ DataOff /\ GeneralOff
    \/ page = "general" /\ General!GeneralInit /\ SessionOff /\ ExhibitionOff /\ DataOff /\ FormsOff

SessionPageAnswered == (\E t \in Tabs : Answered(t)) /\ mixed' = (mixed \/ Mixes)

OnlySession == UNCHANGED <<page, exhibitionVars, settingsVars>>
OnlyExhibition == UNCHANGED <<page, mixedVars, settingsVars>>
OnlyData == UNCHANGED <<page, mixedVars, exhibitionVars, formVars, generalVars>>
OnlyForms == UNCHANGED <<page, mixedVars, exhibitionVars, dataVars, generalVars>>
OnlyGeneral == UNCHANGED <<page, mixedVars, exhibitionVars, dataVars, formVars>>

Next ==
    \/ page = "session" /\ MixedNext /\ OnlySession
    \/ page = "exhibition" /\ Exhibition!ExhibitionNext /\ OnlyExhibition
    \/ page = "data" /\ Data!DataNext /\ OnlyData
    \/ page = "forms" /\ Forms!FormsNext /\ OnlyForms
    \/ page = "general" /\ General!GeneralNext /\ OnlyGeneral

\* Answers come in the end, or the request fails (shared/api.ts:769).
PageAnswered ==
    \/ page = "session" /\ SessionPageAnswered /\ OnlySession
    \/ page = "exhibition" /\ Exhibition!ExhibitionAnswered /\ OnlyExhibition
    \/ page = "data" /\ Data!DataAnswered /\ OnlyData
    \/ page = "forms" /\ Forms!FormsAnswered /\ OnlyForms
    \/ page = "general" /\ General!GeneralAnswered /\ OnlyGeneral

Spec == Init /\ [][Next]_vars /\ WF_vars(PageAnswered)

----------------------------------------------------------------------------
(* The session.                                                            *)

\* Types of the session: a tab in the shell shows a user, a tab at the login or at
\* the setup shows nobody (App.tsx:97, Logout).
SessionTypes == page = "session" => SessionTypeOK

\* Loading the page anew shows the view that is shown, unless the address names none
\* (App.tsx:111-116 and 164-167 keep address and view together).
ReloadShowsSame ==
    page = "session" =>
      \A t \in Tabs : InShell(t) /\ tabs[t].path \in Views =>
        EffectiveView(CurrentView(tabs[t].path), RolesIn(t))
          = EffectiveView(tabs[t].view, RolesIn(t))

\* ActsAsShown, of ClientSession, is checked as it stands.

----------------------------------------------------------------------------
(* The exhibition page.  "Calm": the user waited for the answers, and none *)
(* was lost.                                                               *)

Calm == ~hasty /\ ~failed

\* Once nothing is under way the entries shown are those of the selected list.
ShownAreSelected ==
    Calm /\ ~others /\ awaited = {} =>
      view.entries = IF view.selected \in DOMAIN stored THEN stored[view.selected].entries
                     ELSE Exhibition!NoEntries

\* What is viewed or printed under the name of a list are entries of that list.
PrintedBelong ==
    Calm => \A kind \in {"view", "print"} :
              \A e \in DOMAIN dialogs[kind].entries : e[1] = dialogs[kind].list

\* An entry opened again shows the days and functions it was saved with.
ReopensAsSaved ==
    Exhibition!IsConfiguredFunction("F0", dialogs.form.functions["F0"]) =>
      Exhibition!FormOf(Exhibition!Payload(dialogs.form)) = dialogs.form

\* Entries appear under their own list, in the table, the view and the print, and as they
\* were saved.  To a user who does not wait, a late answer brings the entries of another
\* list (ExhibitionView.tsx:457), a failed one leaves those of the list before, and a list
\* selected a moment ago is printed with them (:504-507).  An F0 emptied to the type
\* "licht" comes back as "Fahrlicht" (:72-84, 118-148).
EntriesBelong == page = "exhibition" => ShownAreSelected /\ PrintedBelong /\ ReopensAsSaved

\* No two entries of a list have one address.  Only the page looks at it, and only at the
\* entries it shows (ExhibitionView.tsx:415-424): two users, or a save repeated after its
\* answer was lost, end with two.
AddressesUnique ==
    page = "exhibition" /\ Calm /\ ~others =>
      \A l \in DOMAIN stored : \A d, e \in DOMAIN stored[l].entries :
        stored[l].entries[d].address = stored[l].entries[e].address => d = e \/ stored[l].entries[d].address = Exhibition!None

----------------------------------------------------------------------------
(* The data of the settings.                                               *)

\* The table of master data once everything is answered.
MasterDataShown ==
    ~rash /\ calls = {} /\ table.type \in table.loaded =>
      table.items[table.type] = entries[table.type]

\* The rows of the number schemes once everything is answered, but where the user has
\* typed and others have made vehicles.
SchemesShown ==
    ~impatient /\ coming = {} =>
      \A c \in DOMAIN rows \ counted : typed[c] = 0 => rows[c] = schemes[c]

\* A table shows what the server has once everything is answered: master data after a
\* restore or an import, too, as what was loaded before counts no more (SettingsView.tsx:
\* 862, 887) and the effect of the tab loads it again (only when the answer comes after
\* the table is shown again does it stay empty); number schemes as the server corrected
\* them (SettingsView.tsx:750).
TableShowsStored ==
    CASE page = "data" -> MasterDataShown
      [] page = "general" -> SchemesShown
      [] OTHER -> TRUE

\* A form updates an entry of the type it was opened for.
UpdatesOwnType == ~rash => written.type \in {Data!None, written.form.type}

\* An update replaces what its form was filled with.
UpdatesWhatWasShown == ~rash => written.over = written.form.content

\* A save of a number scheme replaces what came to the page of it.
SchemeWasShown == ~impatient /\ ~overwritten.counted => overwritten.was = overwritten.shown

\* The file restored is the one whose validation was shown.
RestoresValidated == ~restored.overtaken => restored.file = restored.checked

\* What a form or a file overwrites is what the page showed of it.  A save answered after
\* the type was changed fills the form with an entry of the former type
\* (SettingsView.tsx:804), so that the next save goes to the entry of the same key of the
\* other; a form left open while a file replaces the data writes the former entry back
\* (:887); a validation answered after another file was chosen counts for that file (:837);
\* a number scheme saved after vehicles were made sets the counter back (:741).
OverwritesWhatWasShown ==
    CASE page = "data" -> UpdatesOwnType /\ UpdatesWhatWasShown /\ RestoresValidated
      [] page = "general" -> SchemeWasShown
      [] OTHER -> TRUE

----------------------------------------------------------------------------
(* The forms of the settings.  "Settled": nothing is under way, and the    *)
(* user waited for every answer and none was lost.                         *)

Settled == ~eager /\ replies = {}

\* The printer chosen stays, except that the dialog of the system cannot be kept.
PrinterStays == ~eager => chosen \in {Forms!None, "system-dialog", printer}

\* No answer takes away what was typed, but the SMTP settings that load when the tab is
\* opened or at the push of the button (SettingsView.tsx:285-290).
DraftsKept == ~eager => dropped \subseteq {"tab", "button"}

\* The user form edits a user there is, or a new one.
UserFormExists == Settled /\ alive => userForm.for \in DOMAIN accounts \cup {Forms!None}

\* The panels of an administrator are shown to an administrator.
RightsShown == Settled /\ tab = "auth" /\ alive => Forms!CanManageUsers = accounts[Self]

\* A user who waits for answers loses what was typed in a form only where the SMTP settings
\* load over it, at every return to the tab and at the push of the button, whatever was
\* typed before (SettingsView.tsx:285-290, 552-563); the rights shown again, a user saved or
\* deleted and a save of another form take nothing away.  The printer chosen stays, the form
\* edits no user that is gone, and the panels are those of the rights there are, after
\* taking the own rights away, too (:497, 701, 717).  Not so without waiting: any late
\* answer drops a draft.  A session that ended by the own deletion or by a new own password
\* in the user form is noticed by no answer the page looks at.
FormsKeepUp ==
    CASE page = "forms" -> PrinterStays /\ DraftsKept /\ UserFormExists /\ RightsShown
      [] page = "general" -> ~impatient => ~taken
      [] OTHER -> TRUE

----------------------------------------------------------------------------
\* Every page settles, whatever is answered, lost, refused or revoked: each tab shows
\* something (App.tsx:118), no save button stays disabled, and the type of master data
\* that is shown is not loading for ever, although an answer asked for by another tab or
\* type is given up (SettingsView.tsx:330-334).  But the effects of the general and the
\* data tab ask without end for what the role of the session is refused: an Editor who
\* looks at the master data asks for the use of the storage (:275, routes.go:110).
PagesSettle ==
    <>[](CASE page = "session" -> \A t \in Tabs : tabs[t].app \notin {"start", "session"}
           [] page = "exhibition" -> ~view.saving
           [] page = "data" -> table.tab = "data" => table.type \notin table.loading
           [] page = "forms" -> busy = {}
           [] page = "general" ->
                /\ "schemes" \in waiting => role \notin General!Readers
                /\ "storage" \in waiting => openTab = "data" /\ role # "Admin")
=============================================================================
