--------------------------- MODULE VehicleEditor ---------------------------
(***************************************************************************)
(* The dialog in which a vehicle is shown, edited and created, and the     *)
(* list behind it (frontend/src/features/vehicles/VehiclesView.tsx and the *)
(* tabs of the dialog).  The server is as in VehicleGallery, without its   *)
(* files (backend/internal/application/vehicles.go).                       *)
(*                                                                         *)
(* Nothing waits for an answer: the dialog can be closed and another       *)
(* vehicle opened while a save, an upload or a question is under way, and  *)
(* answers come in any order.                                              *)
(*                                                                         *)
(* "text" stands for the fields of the form that the list of vehicles      *)
(* holds, "details" for the others (acquisition, storage, dimensions,      *)
(* drive): whether anything is filled in there.  "flag" is the mark that   *)
(* the vehicle is exhibited.  Attachments, maintenance entries, functions  *)
(* and CV files are parts of a vehicle that are there or not, whatever     *)
(* they are; the previews of files are in CVTransfer.  Query and filters   *)
(* of the list are left out.                                               *)
(***************************************************************************)
EXTENDS Integers, FiniteSets, SequencesExt

CONSTANTS Texts,         \* contents of the fields the list holds
          ImageIds,      \* images
          Suggested,     \* those that a shop offers
          Linked,        \* images that a maintenance entry refers to
          Parts,         \* parts of a vehicle
          FirstVehicle,  \* the vehicle at the start
          MaxImages,     \* images a saved form keeps, 12 in the code
          MaxVehicles,   \* bound: vehicles made
          MaxEdits       \* bound: edits and requests begun

Empty == "empty"
NoId == 0
Ids == 1 .. MaxVehicles

ASSUME EmptyAssumption == Empty \notin Texts
ASSUME ImagesAssumption == Suggested \subseteq ImageIds /\ Linked \subseteq ImageIds
ASSUME MaxImagesAssumption == MaxImages \in Nat \ {0}
ASSUME BoundsAssumption == MaxVehicles \in Nat \ {0} /\ MaxEdits \in Nat

\* The images of the vehicle are stored, and one of them is primary.
ASSUME FirstAssumption ==
    /\ FirstVehicle \in
         [text : Texts, details : BOOLEAN, flag : BOOLEAN, parts : SUBSET Parts,
          images : Seq([id : ImageIds, stored : {TRUE}, primary : BOOLEAN])]
    /\ FirstVehicle.images # <<>> =>
         \E i \in DOMAIN FirstVehicle.images : FirstVehicle.images[i].primary

VARIABLES fleet,     \* vehicles of the server
          drawn,     \* vehicles made so far
          list,      \* the view's copy of them
          modal,     \* the dialog
          job,       \* the save or the loop of requests that disables the buttons
          answers,   \* requests nothing waits for, in the order they were made
          edits
editorVars == <<fleet, drawn, list, modal, job, answers, edits>>

NoForm == [text |-> Empty, details |-> FALSE, flag |-> FALSE]
Closed == [open |-> FALSE, mode |-> "create", id |-> NoId, form |-> NoForm,
           pending |-> <<>>, parts |-> {}]
NotSaving == [at |-> "none"]

\* A vehicle as a row of the list, and all of them
ListRow(v) == [v EXCEPT !.details = FALSE]
ListRows(vehicles) == [v \in DOMAIN vehicles |-> ListRow(vehicles[v])]

EditorInit ==
    /\ fleet = [v \in {1} |-> FirstVehicle]
    /\ drawn = 1
    /\ list = ListRows(fleet)
    /\ modal = Closed
    /\ job = NotSaving
    /\ answers = <<>>
    /\ edits = 0

----------------------------------------------------------------------------
(* Images.  An image is primary or not; one that is stored has a row.      *)

Primary(images) == {i \in DOMAIN images : images[i].primary}

\* fault: no image becomes primary in place of the one that is gone
AsTheyAre(images) == images

\* One is primary if there is one.
WithPrimary(images) ==
    IF Primary(images) # {} \/ images = <<>> THEN images ELSE [images EXCEPT ![1].primary = TRUE]

\* The images that a form may store; the others are dropped.
FirstImages(images) == SubSeq(images, 1, IF Len(images) < MaxImages THEN Len(images) ELSE MaxImages)

\* saveVehicleImages: the first of the primary ones stays so.
Saved(images) ==
    LET first == WithPrimary(FirstImages(images))
    IN  [i \in DOMAIN first |-> [id |-> first[i].id, stored |-> TRUE,
                                 primary |-> i \in Primary(first)
                                             /\ \A j \in Primary(first) : i <= j]]

\* The images but those with an id, in their order
Without(images, id) ==
    LET upTo[n \in 0 .. Len(images)] ==
          IF n = 0 THEN <<>>
          ELSE IF images[n].id = id THEN upTo[n - 1] ELSE Append(upTo[n - 1], images[n])
    IN  upTo[Len(images)]

Uploaded(images, id, primary) ==
    LET first == primary \/ images = <<>>
        others == IF first THEN [i \in DOMAIN images |-> [images[i] EXCEPT !.primary = FALSE]]
                  ELSE images
    IN  Append(others, [id |-> id, stored |-> TRUE, primary |-> first])

----------------------------------------------------------------------------
(* What the dialog shows.                                                  *)

FormOf(v) == [text |-> v.text, details |-> v.details, flag |-> v.flag]

\* fault: the images stay those shown before
DetailOldImages(v, id) == [modal EXCEPT !.id = id, !.form = FormOf(v), !.parts = v.parts]

\* setSelectedDetail leaves open and mode alone.
Detail(v, id) ==
    [modal EXCEPT !.id = id, !.form = FormOf(v), !.pending = v.images, !.parts = v.parts]

Readonly == modal.mode = "view"
Edit == edits < MaxEdits /\ edits' = edits + 1

Ask(kind, id) ==
    [ask |-> kind, id |-> id, read |-> FALSE, vehicle |-> FirstVehicle, shown |-> modal.id = id]
Load == [ask |-> "list", id |-> NoId, read |-> FALSE, vehicle |-> <<>>, shown |-> FALSE]

Reload ==
    /\ Edit /\ answers' = Append(answers, Load)
    /\ UNCHANGED <<fleet, drawn, list, modal, job>>

OpenCreate ==
    /\ ~modal.open
    /\ modal' = [Closed EXCEPT !.open = TRUE]
    /\ UNCHANGED <<fleet, drawn, list, job, answers, edits>>

CloseModal ==
    /\ modal.open
    /\ modal' = Closed
    /\ UNCHANGED <<fleet, drawn, list, job, answers, edits>>

\* openDetail, openEdit and openQrForVehicle ask for the vehicle and wait for no other.
OpenVehicle(v, kind) ==
    /\ Edit /\ ~modal.open
    /\ answers' = Append(answers, Ask(kind, v))
    /\ UNCHANGED <<fleet, drawn, list, modal, job>>

ReadOnlyView ==
    /\ Edit /\ modal.open /\ Readonly /\ modal.id # NoId
    /\ answers' = Append(answers, Ask("edit", modal.id))
    /\ UNCHANGED <<fleet, drawn, list, modal, job>>

----------------------------------------------------------------------------
(* The form and its images.                                                *)

Typing == Edit /\ modal.open /\ ~Readonly /\ UNCHANGED <<fleet, drawn, list, job, answers>>

Update(text, details) ==
    Typing /\ modal' = [modal EXCEPT !.form.text = text, !.form.details = details]

SetPrimaryPendingImage(i) ==
    /\ Typing
    /\ modal' = [modal EXCEPT !.pending =
                  [j \in DOMAIN modal.pending |-> [modal.pending[j] EXCEPT !.primary = (i = j)]]]

MovePendingImage(i) ==
    /\ Typing /\ i + 1 \in DOMAIN modal.pending
    /\ modal' = [modal EXCEPT !.pending[i] = modal.pending[i + 1], !.pending[i + 1] = modal.pending[i]]

\* An image of a shop
AddPendingImage(id) ==
    /\ Typing
    /\ \A i \in DOMAIN modal.pending : modal.pending[i].id # id
    /\ modal' = [modal EXCEPT !.pending = WithPrimary(Append(@,
                  [id |-> id, stored |-> FALSE, primary |-> FALSE]))]

Loop(todo) ==
    /\ Edit /\ modal.open /\ ~Readonly /\ job = NotSaving /\ modal.id # NoId
    /\ job' = [at |-> "loop", id |-> modal.id, todo |-> todo, primary |-> modal.pending = <<>>]
    /\ UNCHANGED <<fleet, drawn, list, modal, answers>>

Request(do, key) == [do |-> do, key |-> key]

\* One that is stored is deleted at once, another one is only forgotten.
RemovePendingImage(i) ==
    LET image == modal.pending[i]
    IN  /\ image.id \notin Linked /\ job = NotSaving
        /\ \/ image.stored /\ Loop(<<Request("dropImage", image.id)>>)
           \/ /\ ~(image.stored /\ modal.id # NoId) /\ Typing
              /\ modal' = [modal EXCEPT !.pending = WithPrimary(Without(@, image.id))]

UploadImages(n) == Loop([i \in 1 .. n |-> Request("upload", NoId)])

UploadsTab ==
    \/ \E i \in DOMAIN modal.pending :
         SetPrimaryPendingImage(i) \/ MovePendingImage(i) \/ RemovePendingImage(i)
    \/ \E n \in 1 .. 2 : UploadImages(n)

----------------------------------------------------------------------------
(* The parts: each handler is a loop of requests on the vehicle that is    *)
(* open when it starts.                                                    *)

PutParts(ps) == Loop([i \in DOMAIN ps |-> Request("put", ps[i])])
PutPart(p) == PutParts(<<p>>)
DropPart(p) == p \in modal.parts /\ Loop(<<Request("drop", p)>>)

UploadAttachment(ps) == PutParts(ps)
SaveAttachment(p) == p \in modal.parts /\ PutPart(p)
DeleteAttachment(p) == DropPart(p)

SaveMaintenance(p) == PutPart(p)
CompleteMaintenance(p) == p \in modal.parts /\ PutPart(p)
DeleteMaintenance(p) == DropPart(p)

SaveFunction(p) == PutPart(p)
DeleteFunction(p) == DropPart(p)
ImportFunctions(ps) == PutParts(ps)
ApplyCVFileFunctionSuggestions(ps) == PutParts(ps)

ConfirmCVFileUpload(ps) == PutParts(ps)
DeleteCVFile(p) == DropPart(p)

Several == {<<p>> : p \in Parts} \cup {ps \in Parts \X Parts : ps[1] # ps[2]}

AttachmentsTab ==
    \/ \E ps \in Several : UploadAttachment(ps)
    \/ \E p \in Parts : SaveAttachment(p) \/ DeleteAttachment(p)
MaintenanceTab == \E p \in Parts : SaveMaintenance(p) \/ CompleteMaintenance(p) \/ DeleteMaintenance(p)
FunctionsTab ==
    \/ \E p \in Parts : SaveFunction(p) \/ DeleteFunction(p)
    \/ \E ps \in Several : ImportFunctions(ps)
CVFilesTab ==
    \/ \E ps \in Several : ConfirmCVFileUpload(ps) \/ ApplyCVFileFunctionSuggestions(ps)
    \/ \E p \in Parts : DeleteCVFile(p)

----------------------------------------------------------------------------
(* The save.                                                               *)

\* fault: an empty form is sent
SubmitUnchecked ==
    /\ Edit /\ modal.open /\ ~Readonly /\ job = NotSaving
    /\ job' = [at |-> "submit", mode |-> modal.mode, form |-> modal.form, images |-> modal.pending,
               id |-> IF modal.mode = "edit" THEN modal.id ELSE NoId]
    /\ UNCHANGED <<fleet, drawn, list, modal, answers>>

\* A form in mode "edit" changes the vehicle that is open, another one makes a vehicle.
Submit ==
    /\ Edit /\ modal.open /\ ~Readonly /\ job = NotSaving /\ modal.form.text # Empty
    /\ job' = [at |-> "submit", mode |-> modal.mode, form |-> modal.form, images |-> modal.pending,
               id |-> IF modal.mode = "edit" THEN modal.id ELSE NoId]
    /\ UNCHANGED <<fleet, drawn, list, modal, answers>>

WithForm(v, form, images) ==
    [v EXCEPT !.text = form.text, !.details = form.details, !.flag = form.flag,
              !.images = Saved(images)]

SubmitCreates ==
    /\ job.at = "submit" /\ job.id = NoId /\ drawn < MaxVehicles
    /\ drawn' = drawn + 1
    /\ fleet' = [v \in DOMAIN fleet \cup {drawn + 1} |->
                  IF v = drawn + 1
                  THEN WithForm([FirstVehicle EXCEPT !.parts = {}], job.form, job.images)
                  ELSE fleet[v]]
    /\ job' \in {[at |-> "answer", id |-> drawn + 1, mode |-> job.mode, vehicle |-> fleet'[drawn + 1]],
                 NotSaving}
    /\ UNCHANGED <<list, modal, answers, edits>>

SubmitChanges ==
    /\ job.at = "submit" /\ job.id \in DOMAIN fleet
    /\ fleet' = [fleet EXCEPT ![job.id] = WithForm(@, job.form, job.images)]
    /\ job' \in {[at |-> "answer", id |-> job.id, mode |-> job.mode, vehicle |-> fleet'[job.id]],
                 NotSaving}
    /\ UNCHANGED <<drawn, list, modal, answers, edits>>

JobFails ==
    /\ job.at \in {"submit", "loop"}
    /\ job' = NotSaving
    /\ UNCHANGED <<fleet, drawn, list, modal, answers, edits>>

\* fault: after a vehicle was made the dialog stays as it is
SubmitStaysOpen ==
    /\ job.at = "answer"
    /\ modal' = [Detail(job.vehicle, job.id) EXCEPT !.mode = job.mode]
    /\ answers' = Append(answers, Load)
    /\ job' = NotSaving
    /\ UNCHANGED <<fleet, drawn, list, edits>>

SubmitAnswered ==
    /\ job.at = "answer"
    /\ modal' = IF job.mode = "create" THEN Closed
                ELSE [Detail(job.vehicle, job.id) EXCEPT !.mode = "view"]
    /\ answers' = Append(answers, Load)
    /\ job' = NotSaving
    /\ UNCHANGED <<fleet, drawn, list, edits>>

----------------------------------------------------------------------------
(* The loops.  A request that fails, or whose answer is lost, ends one.    *)

NextRequest(do) ==
    job.at = "loop" /\ job.todo # <<>> /\ Head(job.todo).do = do /\ job.id \in DOMAIN fleet
Key == Head(job.todo).key
Rest == [job EXCEPT !.todo = Tail(@)]

\* The image that is uploaded is shown with whatever is open.
UploadNext ==
    /\ NextRequest("upload")
    /\ \E id \in ImageIds \ Suggested :
         /\ \A v \in DOMAIN fleet : Without(fleet[v].images, id) = fleet[v].images
         /\ fleet' = [fleet EXCEPT ![job.id].images = Uploaded(@, id, job.primary)]
         /\ \/ /\ job' = Rest
               /\ modal' = [modal EXCEPT !.pending = WithPrimary(Append(@, Last(fleet'[job.id].images)))]
            \/ job' = NotSaving /\ UNCHANGED modal
    /\ UNCHANGED <<drawn, list, answers, edits>>

DropImageNext ==
    /\ NextRequest("dropImage")
    /\ fleet' = [fleet EXCEPT ![job.id].images = WithPrimary(Without(@, Key))]
    /\ \/ job' = Rest /\ modal' = [modal EXCEPT !.pending = WithPrimary(Without(@, Key))]
       \/ job' = NotSaving /\ UNCHANGED modal
    /\ UNCHANGED <<drawn, list, answers, edits>>

PartNext ==
    /\ NextRequest("put") \/ NextRequest("drop")
    /\ fleet' = [fleet EXCEPT ![job.id].parts =
                  IF Head(job.todo).do = "put" THEN @ \cup {Key} ELSE @ \ {Key}]
    /\ job' \in {Rest, NotSaving}
    /\ UNCHANGED <<drawn, list, modal, answers, edits>>

\* fault: the vehicle is not asked for
LoopDoneQuietly ==
    /\ job.at = "loop" /\ job.todo = <<>>
    /\ job' = NotSaving
    /\ answers' = Append(answers, Load)
    /\ UNCHANGED <<fleet, drawn, list, modal, edits>>

LoopDone ==
    /\ job.at = "loop" /\ job.todo = <<>>
    /\ job' = NotSaving
    /\ answers' = Append(answers, Ask("refresh", job.id))
    /\ UNCHANGED <<fleet, drawn, list, modal, edits>>

Saving ==
    \/ SubmitCreates \/ SubmitChanges \/ SubmitAnswered \/ JobFails
    \/ UploadNext \/ DropImageNext \/ PartNext \/ LoopDone

----------------------------------------------------------------------------
(* The list.                                                               *)

\* The row of the list, with another mark, is sent as a form: without images, and without
\* what the list lacks.
UpdateVehicleExhibitionFlag(v) ==
    /\ Edit /\ ~modal.open
    /\ answers' = Append(answers, [Ask("mark", v) EXCEPT !.vehicle = [list[v] EXCEPT !.flag = ~list[v].flag]])
    /\ UNCHANGED <<fleet, drawn, list, modal, job>>

ConfirmDelete(v) ==
    /\ Edit /\ ~modal.open
    /\ answers' = Append(answers, Ask("delete", v))
    /\ UNCHANGED <<fleet, drawn, list, modal, job>>

InventoryPanel ==
    \/ Reload \/ OpenCreate
    \/ \E v \in DOMAIN list :
         \/ \E kind \in {"view", "edit", "qr"} : OpenVehicle(v, kind)
         \/ UpdateVehicleExhibitionFlag(v)
         \/ ConfirmDelete(v)

----------------------------------------------------------------------------
(* The requests nothing waits for.                                         *)

\* The server handles one.
Asked(i, kinds) == ~answers[i].read /\ answers[i].ask \in kinds
Told(i, vehicle) == answers' = [answers EXCEPT ![i].read = TRUE, ![i].vehicle = vehicle]

GetVehicle(i) ==
    /\ Asked(i, {"view", "edit", "qr", "refresh"}) /\ answers[i].id \in DOMAIN fleet
    /\ Told(i, fleet[answers[i].id])
    /\ UNCHANGED <<fleet, drawn, list, modal, job, edits>>

GetVehicles(i) ==
    /\ Asked(i, {"list"})
    /\ Told(i, ListRows(fleet))
    /\ UNCHANGED <<fleet, drawn, list, modal, job, edits>>

PutMark(i) ==
    LET id == answers[i].id
    IN  /\ Asked(i, {"mark"}) /\ id \in DOMAIN fleet
        /\ fleet' = [fleet EXCEPT ![id] = WithForm(@, FormOf(answers[i].vehicle), <<>>)]
        /\ Told(i, fleet'[id])
        /\ UNCHANGED <<drawn, list, modal, job, edits>>

DeleteVehicle(i) ==
    /\ Asked(i, {"delete"}) /\ answers[i].id \in DOMAIN fleet
    /\ fleet' = [v \in DOMAIN fleet \ {answers[i].id} |-> fleet[v]]
    /\ Told(i, <<>>)
    /\ UNCHANGED <<drawn, list, modal, job, edits>>

\* The answer comes.
Come(i, kinds) == answers[i].read /\ answers[i].ask \in kinds
Rid(i) == RemoveAt(answers, i)

DetailShown(i) ==
    /\ Come(i, {"view", "edit", "qr"})
    /\ modal' = [Detail(answers[i].vehicle, answers[i].id) EXCEPT
                  !.open = TRUE, !.mode = IF answers[i].ask = "edit" THEN "edit" ELSE "view"]
    /\ answers' = Rid(i)
    /\ UNCHANGED <<fleet, drawn, list, job, edits>>

\* fault: the list is not asked for
RefreshShownOnly(i) ==
    /\ Come(i, {"refresh"})
    /\ modal' = Detail(answers[i].vehicle, answers[i].id)
    /\ answers' = Rid(i)
    /\ UNCHANGED <<fleet, drawn, list, job, edits>>

RefreshShown(i) ==
    /\ Come(i, {"refresh"})
    /\ modal' = Detail(answers[i].vehicle, answers[i].id)
    /\ answers' = Append(Rid(i), Load)
    /\ UNCHANGED <<fleet, drawn, list, job, edits>>

ListShown(i) ==
    /\ Come(i, {"list"})
    /\ list' = answers[i].vehicle
    /\ answers' = Rid(i)
    /\ UNCHANGED <<fleet, drawn, modal, job, edits>>

MarkShown(i) ==
    /\ Come(i, {"mark"})
    /\ list' = [v \in DOMAIN list |-> IF v = answers[i].id THEN answers[i].vehicle ELSE list[v]]
    /\ modal' = IF answers[i].shown THEN Detail(answers[i].vehicle, answers[i].id) ELSE modal
    /\ answers' = Rid(i)
    /\ UNCHANGED <<fleet, drawn, job, edits>>

DeleteShown(i) ==
    /\ Come(i, {"delete"})
    /\ modal' = IF answers[i].shown THEN Closed ELSE modal
    /\ answers' = Append(Rid(i), Load)
    /\ UNCHANGED <<fleet, drawn, list, job, edits>>

\* A request that fails, or whose answer is lost, leaves a message.
AnswerLost(i) ==
    /\ answers' = Rid(i)
    /\ UNCHANGED <<fleet, drawn, list, modal, job, edits>>

Serving(i) == GetVehicle(i) \/ GetVehicles(i) \/ PutMark(i) \/ DeleteVehicle(i)
Showing(i) == DetailShown(i) \/ RefreshShown(i) \/ ListShown(i) \/ MarkShown(i) \/ DeleteShown(i)

\* Another user saves a text.
OtherUser(v, text) ==
    /\ Edit
    /\ fleet' = [fleet EXCEPT ![v].text = text]
    /\ UNCHANGED <<drawn, list, modal, job, answers>>

EditorNext ==
    \/ InventoryPanel \/ ReadOnlyView \/ CloseModal
    \/ \E text \in Texts, details \in BOOLEAN : Update(text, details)
    \/ \E id \in Suggested : AddPendingImage(id)
    \/ UploadsTab \/ AttachmentsTab \/ MaintenanceTab \/ FunctionsTab \/ CVFilesTab
    \/ Submit \/ Saving
    \/ \E i \in DOMAIN answers : Serving(i) \/ Showing(i) \/ AnswerLost(i)
    \/ \E v \in DOMAIN fleet, text \in Texts : OtherUser(v, text)

----------------------------------------------------------------------------
Image == [id : ImageIds, stored : BOOLEAN, primary : BOOLEAN]
VehicleOK(v) ==
    /\ v.text \in Texts /\ v.details \in BOOLEAN /\ v.flag \in BOOLEAN /\ v.parts \subseteq Parts
    /\ \A i \in DOMAIN v.images : v.images[i] \in Image

EditorTypeOK ==
    /\ DOMAIN fleet \subseteq 1 .. drawn /\ drawn <= MaxVehicles
    /\ \A v \in DOMAIN fleet : VehicleOK(fleet[v])
    /\ \A v \in DOMAIN list : VehicleOK(list[v])
    /\ modal.mode \in {"create", "edit", "view"} /\ modal.id \in 0 .. drawn
    /\ modal.form.text \in Texts \cup {Empty} /\ modal.parts \subseteq Parts
    /\ \A i \in DOMAIN modal.pending : modal.pending[i] \in Image
    /\ job.at \in {"none", "submit", "answer", "loop"}
=============================================================================
