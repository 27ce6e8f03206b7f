--------------------------- MODULE MCVehiclePages ---------------------------
(***************************************************************************)
(* The pages on which vehicles are worked on, on small instances: the      *)
(* dialog of a vehicle, its CV values, the import of vehicles, and the     *)
(* text in which an inventory is written and read.  One page in a          *)
(* behavior: a link of the navigation loads the client anew                *)
(* (app/Shell.tsx:150), so that the states of two pages never meet, and    *)
(* the dialog is one vehicle's as long as its CV values are worked on.     *)
(***************************************************************************)
EXTENDS VehicleEditor

CONSTANTS a, b, v1, l1,
          VehicleIds, Values, Lines, Files, Locos, Address, Stored, OtherKeys, MaxImportEdits,
          Profiles, Folded, CVFiles, Probes, StoredFirst, MaxId, MaxCVEdits,
          Tables

VARIABLES page,
          inTurn,      \* no request has failed or was overtaken, nobody else has saved
          hurried,     \* the user did not wait: see Hurries
          server, vehicles, importList, file, columns, rows, importJob, importEdits,
          unaware,     \* the import may have missed a change of the server: see Missed
          stored, cvDrawn, copy, preview, editing, saving, refreshes, cvEdits,
          disturbed,   \* the values may have changed without the tab being told: see Disturbed
          imported,    \* what the last preview brought in
          table, text, index, delimiter, readRows, row, current, quoted

Import == INSTANCE VehicleImport WITH
            list <- importList, job <- importJob, edits <- importEdits, MaxEdits <- MaxImportEdits
CVs == INSTANCE CVTransfer WITH
            drawn <- cvDrawn, edits <- cvEdits, Files <- CVFiles, MaxEdits <- MaxCVEdits
Reading == INSTANCE DelimitedText WITH rows <- readRows

importCore == <<server, vehicles, importList, file, columns, rows, importJob, importEdits>>
valuesCore == <<stored, cvDrawn, copy, preview, editing, saving, refreshes, cvEdits>>
dialogVars == <<editorVars, inTurn, hurried>>
importVars == <<importCore, unaware>>
valueVars == <<valuesCore, disturbed, imported>>
readVars == <<table, text, index, delimiter, readRows, row, current, quoted>>
vars == <<page, dialogVars, importVars, valueVars, readVars>>

ASSUME ImportAssumptions == Import!ConstantsFit
ASSUME ValuesAssumptions == CVs!ConstantsFit
ASSUME TextAssumptions == Reading!ConstantsFit

Off == "off"

----------------------------------------------------------------------------
(* The dialog.                                                             *)

FirstMC == [text |-> "a", details |-> TRUE, flag |-> FALSE, parts |-> {},
            images |-> <<[id |-> "i1", stored |-> TRUE, primary |-> TRUE],
                       [id |-> "i2", stored |-> TRUE, primary |-> FALSE]>>]

\* A request other than the first is handled, shown or given up; or the first is given up.
OutOfTurn ==
    \/ \E i \in DOMAIN answers \ {1} : Serving(i) \/ Showing(i) \/ AnswerLost(i)
    \/ answers # <<>> /\ AnswerLost(1) /\ ~Showing(1)
    \/ job.at # "none" /\ job'.at = "none" /\ answers' = answers
    \/ edits' # edits /\ fleet' # fleet

\* The dialog is closed, saved, or shows another vehicle while a save, a loop of requests or
\* a refresh is under way; or something is begun while a vehicle is being opened (a button
\* pressed twice).
Opening == \E i \in DOMAIN answers : answers[i].ask \in {"view", "edit", "qr"}
UnderWay == job.at # "none" \/ \E i \in DOMAIN answers : answers[i].ask = "refresh"
Hurries ==
    \/ UnderWay /\ job'.at = job.at /\ modal.open /\ (~modal'.open \/ modal'.id # modal.id)
    \/ UnderWay /\ job.at = "none" /\ job'.at = "submit"
    \/ Opening /\ edits' # edits
    \/ modal.open /\ ~Readonly /\ \E i \in DOMAIN answers : DetailShown(i)

DialogHistory == inTurn' = (inTurn /\ ~OutOfTurn) /\ hurried' = (hurried \/ Hurries)

DialogInit == EditorInit /\ inTurn = TRUE /\ hurried = FALSE
NoDialog ==
    /\ fleet = Off /\ drawn = Off /\ list = Off /\ modal = Off /\ job = Off /\ answers = Off
    /\ edits = Off /\ inTurn = Off /\ hurried = Off

----------------------------------------------------------------------------
(* The import: one vehicle at the start, two lines and a locomotive.  What *)
(* gives an instance its constants uses no definition of the instance.     *)

Fields(number, maker, address, color, storage) ==
    [k \in {"number", "maker", "address", "color", "storage"} |->
        CASE k = "number" -> number [] k = "maker" -> maker [] k = "address" -> address
          [] k = "color" -> color [] k = "storage" -> storage]

OneVehicle == [v \in {v1} |-> [data |-> Fields(a, a, b, a, a), locos |-> {}, cv |-> "none"]]

\* The first line updates the vehicle, the second makes one whose number is drawn.
OneFile == {[header |-> <<"inventar", "hersteller", "adresse", "inv">>,
             cells |-> <<<<a, "empty", a, "empty">>,
                         <<"empty", b, "empty", "empty">>>>]}

Addresses == [l \in {l1} |-> b]

\* Another user edits; a request fails; the view is opened, or asked for the vehicles,
\* while the loop is at work.
Missed ==
    \/ importEdits' # importEdits /\ server' # server
    \/ importList.at = "sent" /\ server' # server
    \/ /\ importJob # Import!NoJob /\ importJob'.at = "next"
       /\ <<importJob, server>>' # <<importJob, server>>
       /\ ~\E r \in Import!Rest \ DOMAIN importJob'.rows :
             r \in DOMAIN rows' /\ rows'[r].status = "saved"
    \/ importJob # Import!NoJob /\ importJob'.at # "none" /\ importJob'.left
ImportHistory == unaware' = (unaware \/ Missed)

ImportInit == Import!Init /\ unaware = FALSE
NoImport ==
    /\ server = Off /\ vehicles = Off /\ importList = Off /\ file = Off /\ columns = Off
    /\ rows = Off /\ importJob = Off /\ importEdits = Off /\ unaware = Off

----------------------------------------------------------------------------
(* The CV values: one stored value, two files, two probes.                 *)

CV(number, value, profile) == [number |-> number, value |-> value, profile |-> profile]
MCProfiles == <<"", "ESU", "esu">>
MCFolded == [p \in {"", "ESU", "esu"} |-> IF p = "ESU" THEN "esu" ELSE p]
OneValue == [v \in {1} |-> CV(1, 3, "esu")]
MCFiles == {<<CV(1, 255, "ESU"), CV(1, 3, "esu"), CV(1024, 0, "")>>,
            <<CV(0, 1, ""), CV(8, 256, ""), CV(1025, 1, ""), CV(1, 3, "esu")>>}
MCProbes == {[cvs |-> <<[number |-> 1, value |-> 3]>>, profile |-> "ESU", esu |-> TRUE],
             [cvs |-> <<[number |-> 8, value |-> 99], [number |-> 1, value |-> 9]>>,
              profile |-> "esu", esu |-> TRUE]}

LoopStopped == saving.at = "put" /\ saving'.at = "none"
               /\ (saving.rows # <<>> \/ saving.by = "ecos")
AnswerMissed == Len(refreshes') < Len(refreshes)
                /\ ~(refreshes' = Tail(refreshes) /\ refreshes[1].read /\ copy' = refreshes[1].values)

\* Another user or the import from an ECoS changes values, a loop stops half-way, an
\* answer fails or comes out of turn.
Disturbed ==
    \/ cvEdits' # cvEdits /\ stored' # stored /\ refreshes' = refreshes
    \/ cvEdits' # cvEdits /\ saving'.at = "put" /\ refreshes # <<>>    \* begun with values that are old
    \/ LoopStopped
    \/ AnswerMissed

Stores == CVs!Chosen(preview)
ValueHistory ==
    /\ disturbed' = (disturbed \/ Disturbed)
    /\ imported' = IF cvEdits' # cvEdits THEN <<>>
                   ELSE IF saving.at = "put" /\ saving.by = "preview" /\ saving'.at = "none"
                             /\ CVs!PreviewFresh
                        THEN [i \in DOMAIN Stores |-> Stores[i].input] ELSE imported

ValuesInit == CVs!CVInit /\ disturbed = FALSE /\ imported = <<>>
NoValues ==
    /\ stored = Off /\ cvDrawn = Off /\ copy = Off /\ preview = Off /\ editing = Off
    /\ saving = Off /\ refreshes = Off /\ cvEdits = Off /\ disturbed = Off /\ imported = Off

----------------------------------------------------------------------------
(* The text: cells with every character that means something.              *)

Cells == {<<>>, <<"a">>, <<";">>, <<"quote">>, <<",">>} \cup
         {<<x, y>> : x \in {"a", ";", "quote"}, y \in {"a", ";", "quote"}} \cup
         {<<x, y, z>> : x \in {"a", "quote"}, y \in {"newline", "quote", ";"},
                        z \in {"a", "quote"}}
MCTables == {<<<<x, y>>>> : x \in Cells, y \in Cells} \cup
            {<<<<x, <<>>>>, <<<<>>, <<>>>>, <<<<>>, y>>>> : x \in Cells, y \in Cells}

NoText ==
    /\ table = Off /\ text = Off /\ index = Off /\ delimiter = Off
    /\ readRows = Off /\ row = Off /\ current = Off /\ quoted = Off

----------------------------------------------------------------------------
Init ==
    \/ page = "dialog" /\ DialogInit /\ NoImport /\ NoValues /\ NoText
    \/ page = "import" /\ ImportInit /\ NoDialog /\ NoValues /\ NoText
    \/ page = "values" /\ ValuesInit /\ NoDialog /\ NoImport /\ NoText
    \/ page = "text" /\ Reading!TextInit /\ NoDialog /\ NoImport /\ NoValues

Next ==
    \/ page = "dialog" /\ EditorNext /\ DialogHistory /\ UNCHANGED <<page, importVars, valueVars, readVars>>
    \/ page = "import" /\ Import!Next /\ ImportHistory /\ UNCHANGED <<page, dialogVars, valueVars, readVars>>
    \/ page = "values" /\ CVs!CVNext /\ ValueHistory /\ UNCHANGED <<page, dialogVars, importVars, readVars>>
    \/ page = "text" /\ Reading!ParseDelimited /\ UNCHANGED <<page, dialogVars, importVars, valueVars>>

\* A loop of requests goes on, and what nothing waits for is answered: every request is
\* answered or given up after its timeout (api.ts:775).
LoopsGoOn ==
    /\ WF_editorVars(page = "dialog" /\ Saving)
    /\ WF_importCore(page = "import" /\ Import!Loop)
    /\ WF_valuesCore(page = "values" /\ CVs!CVSaving)

AnswersCome ==
    /\ WF_editorVars(page = "dialog" /\ \E i \in DOMAIN answers :
                        Serving(i) \/ Showing(i) \/ AnswerLost(i))
    /\ WF_valuesCore(page = "values" /\ CVs!Refreshing)

Spec == Init /\ [][Next]_vars /\ LoopsGoOn /\ AnswersCome

----------------------------------------------------------------------------
\* Types of the pages: what is shown and asked for stays of the kind that is stored
\* (VehiclesView.tsx, ImportExportView.tsx, cvImport.ts).
TypesOK ==
    CASE page = "dialog" -> EditorTypeOK
      [] page = "import" -> Import!TypeOK
      [] page = "values" -> CVs!CVTypeOK
      [] page = "text" -> readRows \in Seq(Seq(Seq(Reading!Characters)))

----------------------------------------------------------------------------
(* Properties of the dialog.                                               *)

\* The dialog that makes a vehicle shows nothing of one that is stored.
CreateShowsNothingStored ==
    modal.open /\ modal.mode = "create" =>
      modal.id = NoId /\ \A i \in DOMAIN modal.pending : ~modal.pending[i].stored

\* No image belongs to two vehicles.
ImagesNotShared ==
    \A v \in DOMAIN fleet : \A w \in DOMAIN fleet \ {v} :
      \A i \in DOMAIN fleet[v].images : \A j \in DOMAIN fleet[w].images :
        fleet[v].images[i].id = fleet[w].images[j].id => fleet[v].images[i].id \in Suggested

\* The dialog shows the parts that are stored once every answer has come.
PartsFollow ==
    inTurn /\ job.at = "none" /\ answers = <<>> /\ modal.open /\ modal.id \in DOMAIN fleet =>
      modal.parts = fleet[modal.id].parts

\* Of the images the dialog shows one is primary.
PrimaryShown == modal.pending # <<>> => Primary(modal.pending) # {}

\* The dialog shows one vehicle and a primary image of it, and a save gives it nothing of
\* another, unless it was left or used while something was under way: what an upload or a
\* refresh brings goes to whatever is open by then (VehiclesView.tsx:764 refreshSelectedVehicle, :795
\* uploadImages, :1458 openCreate).
DialogShowsItsVehicle ==
    page = "dialog" =>
      /\ PrimaryShown
      /\ hurried \/ (CreateShowsNothingStored /\ ImagesNotShared /\ PartsFollow)

HasImage(images, id) == \E j \in DOMAIN images : images[j].id = id

\* The dialog shows the image behind as many as a save keeps.
Beyond(images, id) == \E k \in DOMAIN images : k > MaxImages /\ images[k].id = id

\* A save of the form drops no image but those that the dialog shows behind the twelfth:
\* the user removes images at once, uploads are not limited (VehiclesView.tsx:734
\* removePendingImage, :775 uploadImages, :1695 submit; vehicles.go:2082
\* cleanVehicleImageInputs).
SavesKeepImages ==
    [][page = "dialog" /\ job.at = "submit" /\ job.id # NoId /\ inTurn /\ ~hurried /\ job'.at = "answer" =>
         \A i \in DOMAIN fleet[job.id].images :
           LET id == fleet[job.id].images[i].id
           IN  HasImage(fleet'[job.id].images, id) \/ Beyond(job.images, id)]_vars

\* A mark that the list gives or takes leaves the images (VehiclesView.tsx:1505
\* updateVehicleExhibitionFlag).
MarksKeepImages ==
    [][page = "dialog" => \A v \in DOMAIN fleet \cap DOMAIN fleet' :
         fleet'[v].flag # fleet[v].flag => fleet'[v].images = fleet[v].images]_vars

----------------------------------------------------------------------------
(* Properties of the import.                                               *)

\* An update by a row leaves the fields that a file may bring but this row does not, as
\* far as the loop knows them, from the list of vehicles or from an answer that held the
\* whole vehicle; those it does not know it empties (importExportHelpers.tsx:1443
\* mergeImportedVehicle).
UpdatesKeepKnown == [][page = "import" => Import!KeepsKnown]_vars

\* docs/roadmap.md:30 "safe duplicate update mode for vehicle imports": an update by a
\* row leaves every field that the row does not bring, if nobody changed the vehicle since
\* the list was loaded.
UpdatesKeepFields == [][page = "import" => Import!KeepsAll]_vars

\* A row that turns to saved, if it still is what the loop started from, has its fields
\* in a vehicle (ImportExportView.tsx:349).
SavedRowsAreStored ==
    [][page = "import" => \A r \in DOMAIN rows' \cap DOMAIN rows :
         /\ rows'[r].status = "saved" /\ rows[r].status # "saved"
         /\ importJob.rows[r] = rows[r] /\ ~unaware
         => \E v \in DOMAIN server' : \A k \in rows[r].imported :
              rows[r].data[k] # Import!Empty => server'[v].data[k] = rows[r].data[k]]_vars

\* What is known of a vehicle is stored: of the fields of the list all are known, of the
\* others some.
Agrees(known, held) ==
    \A k \in Import!Keys :
      known[k] = held[k] \/ (k \notin Import!Listed /\ known[k] = Import!Empty)

\* What the view knows of a vehicle between two rows is what the server has.
CopyFollowsServer ==
    ~unaware /\ importJob.at \in {"none", "next"} =>
      \A v \in DOMAIN vehicles : v \in DOMAIN server /\ Agrees(vehicles[v].data, server[v].data)

\* What the loop will store fits: rows that make a vehicle are complete and rows that change
\* one know it, whatever corrections, failures and changes of mode they went through
\* (ImportExportView.tsx:189 canSave), and the answers that the view takes over after each
\* row keep its copy of the vehicles up to date (ImportExportView.tsx:343), in what the
\* list of vehicles holds of them.
LoopKnowsWhatItStores == page = "import" => Import!ReadyRows /\ CopyFollowsServer

----------------------------------------------------------------------------
(* Properties of the CV values and of the text.                            *)

OverwriteShown ==
    CVs!Loop("ecos") \/ (CVs!Loop("preview") /\ CVs!PreviewFresh) =>
      \A v \in DOMAIN stored \cap DOMAIN stored' :
        stored'[v].value # stored[v].value => Head(saving.rows).status = "changed"

NoVariantMade == CVs!Loop("preview") /\ CVs!PreviewFresh => ~CVs!Variants(stored')

\* A loop overwrites no value but where its preview said so, and an import of a file makes
\* no value whose profile differs from another one's only in case (cvImport.ts:66
\* cvValueKey, :86 buildCVImportPreview, importExportHelpers.tsx:1184); not said of a preview
\* that an answer has overtaken, and of values that differ like that already.
ImportsAsShown ==
    [][page = "values" /\ ~disturbed /\ ~CVs!Variants(stored) => OverwriteShown /\ NoVariantMade]_vars

\* What was imported is shown as the same when the file is looked at again and every
\* answer has come (cvImport.ts:86 buildCVImportPreview, vehicles.go:1490 UpdateCVValue).
ImportedAgainIsSame ==
    page = "values" /\ refreshes = <<>> /\ saving = CVs!NotSaving /\ ~disturbed /\ ~CVs!Variants(stored) =>
      \A i \in DOMAIN imported : CVs!Preview(imported, copy)[i].status = "same"

\* The lines that hold a value, in their order
WithValues(lines) ==
    LET upTo[n \in 0 .. Len(lines)] ==
          IF n = 0 THEN <<>>
          ELSE IF Reading!Blank(lines[n]) THEN upTo[n - 1] ELSE Append(upTo[n - 1], lines[n])
    IN  upTo[Len(lines)]

\* An inventory that was written is read again as it was, whatever its cells hold; lines
\* without a value are the only ones lost (importExportHelpers.tsx:448 parseDelimited,
\* 1499 vehiclesToCSV).
ReadsWhatWasWritten ==
    page = "text" /\ index = Len(text) + 2 =>
      readRows = WithValues(<<Reading!Header>> \o table)

----------------------------------------------------------------------------
\* The rows of the list are those of the vehicles; one that was answered whole may be shown
\* so.
ListShowsFleet ==
    /\ DOMAIN list = DOMAIN fleet
    /\ \A v \in DOMAIN fleet : list[v] \in {fleet[v], ListRow(fleet[v])}

\* In the end every loop is over and the buttons are back, whatever fails and whatever the
\* user does meanwhile, the list shows what is stored if everything came in turn, and so
\* does the CV tab (VehiclesView.tsx:224 load, :764 refreshSelectedVehicle, which nothing
\* waits for, ImportExportView.tsx:314 saveSelected).
PagesSettle ==
    <>[](CASE page = "dialog" -> job.at = "none" /\ answers = <<>> /\ (inTurn => ListShowsFleet)
           [] page = "import" -> importJob = Import!NoJob
           [] page = "values" -> disturbed \/ (saving = CVs!NotSaving /\ copy = stored)
           [] page = "text" -> TRUE)
=============================================================================
