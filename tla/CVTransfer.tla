----------------------------- MODULE CVTransfer -----------------------------
(***************************************************************************)
(* The CV values of one vehicle: the tab that edits them and imports files *)
(* of them after a preview (frontend/src/features/vehicles/VehiclesView.tsx*)
(* and cvImport.ts), and the import from an ECoS with its own preview      *)
(* (frontend/src/features/importExport).  The server is                    *)
(* backend/internal/application/vehicles.go:1439.                          *)
(*                                                                         *)
(* Both imports store one value per request.  The previews pair a value    *)
(* with a stored one by number and decoder profile without regard to case; *)
(* the server, and the import from an ECoS when it stores, do regard it.   *)
(* Texts that describe a value are left out; a message is left out too.    *)
(***************************************************************************)
EXTENDS Integers, SequencesExt

CONSTANTS Profiles,     \* decoder profiles, in the order of the database: a sequence
          Folded,       \* a profile without regard to case
          Files,        \* files of CV values: sequences of inputs
          Probes,       \* what the ECoS tells of the locomotive of the vehicle
          StoredFirst,  \* values at the start: a sequence, an id is a place in it
          MaxId,        \* bound: ids that are drawn
          MaxEdits      \* bound: edits and imports begun

ESU == 151                        \* esuCV8ManufacturerId
Names == {Profiles[i] : i \in DOMAIN Profiles}
Inputs == [number : Int, value : Int, profile : Names]
NoId == 0

\* What an instance assumes of the constants; an ECoS tells a number once, as the server
\* collects what it reads in a map (ecos.go:597).
ConstantsFit ==
    /\ Profiles \in Seq(Names) /\ DOMAIN Folded = Names
    /\ Files \subseteq Seq(Inputs)
    /\ \A p \in Probes :
         /\ p.cvs \in Seq([number : Int, value : Int]) /\ p.profile \in Names /\ p.esu \in BOOLEAN
         /\ \A i \in DOMAIN p.cvs, j \in DOMAIN p.cvs : p.cvs[i].number = p.cvs[j].number => i = j
    /\ MaxId \in Nat /\ MaxEdits \in Nat
    /\ StoredFirst \in Seq(Inputs) /\ Len(StoredFirst) <= MaxId

VARIABLES stored,    \* values of the server: id -> value
          drawn,     \* ids drawn so far
          copy,      \* the values as the view shows them
          preview,   \* rows of the preview of a file
          editing,   \* the value in the form, if it is one that is stored
          saving,    \* requests under way
          refreshes, \* questions for the vehicle, and their answers, under way
          edits
cvVars == <<stored, drawn, copy, preview, editing, saving, refreshes, edits>>

NotSaving == [at |-> "none"]
Asked == [read |-> FALSE, values |-> <<>>]

CVInit ==
    /\ stored = StoredFirst
    /\ drawn = Len(StoredFirst)
    /\ copy = StoredFirst
    /\ preview = <<>>
    /\ editing = NoId
    /\ saving = NotSaving
    /\ refreshes = <<>>
    /\ edits = 0

----------------------------------------------------------------------------
(* The server.                                                             *)

Valid(input) == input.number \in 1 .. 1024 /\ input.value \in 0 .. 255

Taken(input, id) ==
    \E v \in DOMAIN stored \ {id} :
      stored[v].number = input.number /\ stored[v].profile = input.profile

\* fault: the key of the new value is that of the last one
CreateWithLastId(input) ==
    /\ Valid(input) /\ ~Taken(input, NoId) /\ drawn < MaxId
    /\ UNCHANGED drawn
    /\ stored' = [v \in DOMAIN stored \cup {drawn + 1} |->
                   IF v = drawn + 1 THEN input ELSE stored[v]]

CreateCVValue(input) ==
    /\ Valid(input) /\ ~Taken(input, NoId) /\ drawn < MaxId
    /\ drawn' = drawn + 1
    /\ stored' = [v \in DOMAIN stored \cup {drawn + 1} |->
                   IF v = drawn + 1 THEN input ELSE stored[v]]

\* fault: the statement does not set the value
UpdateWithoutValue(id, input) ==
    /\ Valid(input) /\ id \in DOMAIN stored /\ ~Taken(input, id)
    /\ stored' = [stored EXCEPT ![id] = [input EXCEPT !.value = stored[id].value]]
    /\ UNCHANGED drawn

UpdateCVValue(id, input) ==
    /\ Valid(input) /\ id \in DOMAIN stored /\ ~Taken(input, id)
    /\ stored' = [stored EXCEPT ![id] = input]
    /\ UNCHANGED drawn

DeleteCVValue(id) ==
    /\ id \in DOMAIN stored
    /\ stored' = [v \in DOMAIN stored \ {id} |-> stored[v]]
    /\ UNCHANGED drawn

Put(id, input) == IF id = NoId THEN CreateCVValue(input) ELSE UpdateCVValue(id, input)

----------------------------------------------------------------------------
(* The preview of a file.                                                  *)

\* fault: profiles are compared with regard to case
ExactKey(input) == <<input.number, input.profile>>

Key(input) == <<input.number, Folded[input.profile]>>

\* The position of a profile in the order of the database
Rank(input) == CHOOSE i \in DOMAIN Profiles : Profiles[i] = input.profile

\* The last and the first of a set of values, NoId if there is none.
LastOf(ids, values) ==
    IF ids = {} THEN NoId
    ELSE CHOOSE v \in ids : \A w \in ids : Rank(values[w]) <= Rank(values[v])

FirstOf(ids, values) ==
    IF ids = {} THEN NoId
    ELSE CHOOSE v \in ids : \A w \in ids : Rank(values[v]) <= Rank(values[w])

SameKey(input, values) == {v \in DOMAIN values : Key(values[v]) = Key(input)}

\* The row of an input: paired with a stored value, and what taking it changes.
\* fault: another value counts as the same
RowAlwaysSame(input, values, repeated) ==
    LET id == LastOf(SameKey(input, values), values)
        status == IF ~Valid(input) \/ repeated THEN "invalid"
                  ELSE IF id = NoId THEN "new" ELSE "same"
    IN  [input |-> input, existing |-> IF status = "invalid" THEN NoId ELSE id,
         status |-> status, selected |-> status \in {"new", "changed"}]

Row(input, values, repeated) ==
    LET id == LastOf(SameKey(input, values), values)
        status == IF ~Valid(input) \/ repeated THEN "invalid"
                  ELSE IF id = NoId THEN "new"
                  ELSE IF values[id].value = input.value THEN "same" ELSE "changed"
    IN  [input |-> input, existing |-> IF status = "invalid" THEN NoId ELSE id,
         status |-> status, selected |-> status \in {"new", "changed"}]

Preview(file, values) ==
    [i \in DOMAIN file |->
      Row(file[i], values, \E j \in 1 .. i - 1 : Valid(file[j]) /\ Key(file[j]) = Key(file[i]))]

----------------------------------------------------------------------------
(* The tab.                                                                *)

Edit == saving = NotSaving /\ edits < MaxEdits /\ edits' = edits + 1

\* A file is read in the background, and compared with the values that were shown when it
\* was chosen.  Without a valid value it makes no preview; so does the file of a decoder,
\* whose values the server has read.
ImportCVValues(f) ==
    /\ Edit
    /\ saving' = [at |-> "read", rows |-> Preview(f, copy), by |-> "preview"]
    /\ UNCHANGED <<stored, drawn, copy, preview, editing, refreshes>>

FileRead ==
    /\ saving.at = "read"
    /\ saving' = NotSaving
    /\ preview' = IF \E i \in DOMAIN saving.rows : saving.rows[i].status # "invalid"
                  THEN saving.rows ELSE preview
    /\ UNCHANGED <<stored, drawn, copy, editing, refreshes, edits>>

ToggleRow(i) ==
    /\ saving = NotSaving
    /\ preview[i].status # "invalid"
    /\ preview' = [preview EXCEPT ![i].selected = ~@]
    /\ UNCHANGED <<stored, drawn, copy, editing, saving, refreshes, edits>>

SelectRows(mode) ==
    /\ saving = NotSaving
    /\ preview' = [i \in DOMAIN preview |-> [preview[i] EXCEPT !.selected =
                    preview[i].status # "invalid" /\
                      (mode = "all" \/ (mode = "empty" /\ preview[i].status = "new"))]]
    /\ UNCHANGED <<stored, drawn, copy, editing, saving, refreshes, edits>>

Discard ==
    /\ saving = NotSaving
    /\ preview' = <<>>
    /\ UNCHANGED <<stored, drawn, copy, editing, saving, refreshes, edits>>

\* The rows that a save stores, in their order
Chosen(rows) ==
    LET upTo[n \in 0 .. Len(rows)] ==
          IF n = 0 THEN <<>>
          ELSE IF rows[n].selected /\ rows[n].status # "invalid"
               THEN Append(upTo[n - 1], rows[n]) ELSE upTo[n - 1]
    IN  upTo[Len(rows)]

ApplyPreview ==
    LET rows == Chosen(preview)
    IN  /\ Edit
        /\ rows # <<>>
        /\ saving' = [at |-> "put", rows |-> rows, by |-> "preview"]
        /\ UNCHANGED <<stored, drawn, copy, preview, editing, refreshes>>

EditCVValue(id) ==
    /\ saving = NotSaving
    /\ editing' = id
    /\ UNCHANGED <<stored, drawn, copy, preview, saving, refreshes, edits>>

\* A new value whose key the view knows changes the value it knows.
SaveCVValue(input) ==
    /\ Edit
    /\ Valid(input)
    /\ saving' = [at |-> "put", by |-> "form", rows |->
                   <<[input |-> input, status |-> "changed", selected |-> TRUE,
                      existing |-> IF editing # NoId THEN editing
                                   ELSE FirstOf(SameKey(input, copy), copy)]>>]
    /\ UNCHANGED <<stored, drawn, copy, preview, editing, refreshes>>

\* refreshSelectedVehicle does not wait for the answer it asks for.
RefreshSelectedVehicle == refreshes' = Append(refreshes, Asked)

\* The form may still show the value that is deleted.
DeleteValue(id) ==
    /\ Edit
    /\ \/ /\ DeleteCVValue(id)
          /\ RefreshSelectedVehicle \/ UNCHANGED refreshes
       \/ UNCHANGED <<stored, drawn, refreshes>>
    /\ UNCHANGED <<copy, preview, editing, saving>>

\* The requests of a loop, one after the other; the first that fails ends it.
Rest == Tail(saving.rows)

\* fault: a request that failed is repeated
PutRepeated ==
    /\ saving.at = "put" /\ saving.rows # <<>>
    /\ LET row == Head(saving.rows)
       IN  \/ Put(row.existing, row.input) /\ saving' = [saving EXCEPT !.rows = Rest]
           \/ UNCHANGED <<stored, drawn, saving>>
    /\ UNCHANGED <<copy, preview, editing, refreshes, edits>>

PutNext ==
    /\ saving.at = "put" /\ saving.rows # <<>>
    /\ LET row == Head(saving.rows)
       IN  \/ Put(row.existing, row.input) /\ saving' \in {[saving EXCEPT !.rows = Rest], NotSaving}
           \/ UNCHANGED <<stored, drawn>> /\ saving' = NotSaving
    /\ UNCHANGED <<copy, preview, editing, refreshes, edits>>

PutAll ==
    /\ saving.at = "put" /\ saving.rows = <<>>
    /\ saving' = NotSaving
    /\ preview' = IF saving.by = "preview" THEN <<>> ELSE preview
    /\ editing' = IF saving.by = "form" THEN NoId ELSE editing
    /\ IF saving.by = "ecos" THEN UNCHANGED refreshes ELSE RefreshSelectedVehicle
    /\ UNCHANGED <<stored, drawn, copy, edits>>

GetVehicle(i) ==
    /\ ~refreshes[i].read
    /\ refreshes' = [refreshes EXCEPT ![i] = [read |-> TRUE, values |-> stored]]
    /\ UNCHANGED <<stored, drawn, copy, preview, editing, saving, edits>>

\* An answer is shown whenever it comes, and ends what the tab was doing; a question may fail.
RefreshAnswered(i) ==
    /\ refreshes[i].read
    /\ copy' = refreshes[i].values
    /\ preview' = <<>> /\ editing' = NoId
    /\ refreshes' = RemoveAt(refreshes, i)
    /\ UNCHANGED <<stored, drawn, saving, edits>>

RefreshFailed(i) ==
    /\ refreshes' = RemoveAt(refreshes, i)
    /\ UNCHANGED <<stored, drawn, copy, preview, editing, saving, edits>>

----------------------------------------------------------------------------
(* The import from an ECoS, in a view of its own that knows the values as  *)
(* they were when it was opened.                                           *)

HasCV8(cvs) == \E i \in DOMAIN cvs : cvs[i].number = 8

\* A decoder that calls itself one of ESU gets their number if it was not read.
Suggestions(probe) ==
    LET read == [i \in DOMAIN probe.cvs |->
                  [number |-> probe.cvs[i].number, value |-> probe.cvs[i].value,
                   profile |-> probe.profile]]
    IN  IF HasCV8(probe.cvs) \/ ~probe.esu THEN read
        ELSE Append(read, [number |-> 8, value |-> ESU, profile |-> probe.profile])

\* What the view shows: a value of the same number counts whatever its profile is.
Shown(input, values) ==
    LET same == SameKey(input, values)
        numbered == {v \in DOMAIN values : values[v].number = input.number}
        id == LastOf(IF same # {} THEN same ELSE numbered, values)
    IN  IF id = NoId THEN "new" ELSE IF values[id].value = input.value THEN "same" ELSE "changed"

\* saveCVSuggestions asks for the values anew and pairs by the exact profile.
SaveCVSuggestions(probe) ==
    /\ Edit
    /\ LET inputs == Suggestions(probe)
           exact(input) == {v \in DOMAIN stored : stored[v].number = input.number
                                               /\ stored[v].profile = input.profile}
       IN  saving' = [at |-> "put", by |-> "ecos", rows |-> [i \in DOMAIN inputs |->
                      [input |-> inputs[i], status |-> Shown(inputs[i], copy), selected |-> TRUE,
                       existing |-> FirstOf(exact(inputs[i]), stored)]]]
    /\ UNCHANGED <<stored, drawn, copy, preview, editing, refreshes>>

----------------------------------------------------------------------------
\* Another user.
OtherUser ==
    /\ edits < MaxEdits /\ edits' = edits + 1
    /\ \/ \E v \in DOMAIN stored : DeleteCVValue(v)
       \/ \E v \in DOMAIN stored, f \in Files : Len(f) > 0 /\ UpdateCVValue(v, f[1])
    /\ UNCHANGED <<copy, preview, editing, saving, refreshes>>

CVImportPreview ==
    \/ \E i \in DOMAIN preview : ToggleRow(i)
    \/ \E mode \in {"all", "none", "empty"} : SelectRows(mode)
    \/ ApplyPreview
    \/ Discard

CVEditor ==
    \/ \E v \in DOMAIN copy : EditCVValue(v) \/ DeleteValue(v)
    \/ \E f \in Files : \E i \in DOMAIN f : SaveCVValue(f[i])

CVSaving == FileRead \/ PutNext \/ PutAll

Refreshing == \E i \in DOMAIN refreshes : GetVehicle(i) \/ RefreshAnswered(i) \/ RefreshFailed(i)

CVNext ==
    \/ \E f \in Files : ImportCVValues(f)
    \/ CVImportPreview
    \/ CVEditor
    \/ CVSaving
    \/ Refreshing
    \/ \E p \in Probes : SaveCVSuggestions(p)
    \/ OtherUser

----------------------------------------------------------------------------
CVTypeOK ==
    /\ DOMAIN stored \subseteq 1 .. drawn /\ drawn <= MaxId
    /\ \A v \in DOMAIN stored : stored[v] \in Inputs
    /\ \A v \in DOMAIN copy : copy[v] \in Inputs
    /\ \A i \in DOMAIN preview :
         /\ preview[i].input \in Inputs
         /\ preview[i].status \in {"new", "changed", "same", "invalid"}
         /\ preview[i].existing \in 0 .. drawn
    /\ editing \in 0 .. drawn
    /\ saving.at \in {"none", "read", "put"}
    /\ \A i \in DOMAIN refreshes : refreshes[i].read => DOMAIN refreshes[i].values \subseteq 1 .. drawn

\* Two values that differ only in the case of their profile
Variants(values) ==
    \E v \in DOMAIN values : \E w \in DOMAIN values \ {v} :
      /\ values[v].number = values[w].number
      /\ Folded[values[v].profile] = Folded[values[w].profile]

\* The rows of the preview are paired with the values the view shows now: not when an answer
\* came while the file was read.
PreviewFresh ==
    LET now == Preview([i \in DOMAIN preview |-> preview[i].input], copy)
    IN  \A i \in DOMAIN preview : preview[i].existing = now[i].existing
                                /\ preview[i].status = now[i].status

Loop(by) == saving.at = "put" /\ saving.by = by /\ saving.rows # <<>> /\ edits' = edits
=============================================================================
