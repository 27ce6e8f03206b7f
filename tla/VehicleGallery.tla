-------------------------- MODULE VehicleGallery --------------------------
(***************************************************************************)
(* The images of vehicles: their rows, the files behind them and the       *)
(* maintenance entries they are linked to.  CreateImage, DeleteImage,      *)
(* saveVehicleImages and the maintenance operations are those of           *)
(* backend/internal/application/vehicles.go, the upload, the removal of    *)
(* files and the download of article images those of                       *)
(* backend/internal/api/router.go.                                         *)
(*                                                                         *)
(* A file stands for an image and its thumbnail.  The order of images is   *)
(* left out: where the code takes the first one, the model takes any.      *)
(***************************************************************************)
EXTENDS Integers, FiniteSets

CONSTANTS VehicleIds, ImageIds, MaintenanceIds,   \* what randomID may return
          Files,         \* names of uploaded files, told apart by their time stamp
          Requests,      \* HTTP requests being served
          Forms,         \* vehicle forms open in browsers
          MaxImages      \* images a saved form keeps, 12 in the code

NoFile == "no file"
NoLink == "no link"
NewImage == "new image"   \* the id of an image that the form has not saved yet
Remote == "remote"        \* a URL on a shop's server; other URLs name an image

ASSUME RequestsAssumption == IsFiniteSet(Requests)
ASSUME NoFileAssumption == NoFile \notin Files
ASSUME NoLinkAssumption == NoLink \notin MaintenanceIds
ASSUME ImageIdsAssumption == {NewImage, Remote} \cap ImageIds = {}
ASSUME MaxImagesAssumption == MaxImages \in Nat \ {0}

VARIABLES vehicles,      \* ids of the vehicles
          images,        \* vehicle_images: id -> row
          maintenance,   \* vehicle_maintenance: id -> vehicle
          files,         \* files in the uploads directory
          spent,         \* ids and file names that were given out
          forms,         \* what each open form shows
          req            \* where each request is and what it has read
vars == <<vehicles, images, maintenance, files, spent, forms, req>>

Links == MaintenanceIds \cup {NoLink}
ImageRows == [vehicle : VehicleIds, url : ImageIds \cup {Remote},
              file : Files \cup {NoFile}, link : Links, primary : BOOLEAN]
Inputs == [id : ImageIds \cup {NewImage}, url : ImageIds \cup {Remote},
           file : Files \cup {NoFile}, link : Links]

Idle == [at |-> "idle"]
Uploads == [at : {"written", "found", "linked", "refused"}, vehicle : VehicleIds,
            file : Files, link : Links, primary : BOOLEAN]
Deletes == [at : {"read"}, image : ImageIds, file : Files \cup {NoFile},
            primary : BOOLEAN]
Removals == [at : {"deleted", "unreferenced"}, file : Files]
Saves == [at : {"loaded", "localized"}, vehicle : VehicleIds, inputs : SUBSET Inputs]
Repairs == [at : {"repair"}, vehicle : VehicleIds]
RequestStates == Uploads \cup Deletes \cup Removals \cup Saves \cup Repairs \cup {Idle}

NoForm == [vehicle |-> "no vehicle", inputs |-> {}]
OpenForms == [vehicle : VehicleIds, inputs : SUBSET Inputs]

TypeOK ==
    /\ vehicles \subseteq VehicleIds
    /\ DOMAIN images \subseteq ImageIds
    /\ \A i \in DOMAIN images : images[i] \in ImageRows
    /\ DOMAIN maintenance \subseteq MaintenanceIds
    /\ \A m \in DOMAIN maintenance : maintenance[m] \in VehicleIds
    /\ files \subseteq Files
    /\ vehicles \cup DOMAIN images \cup DOMAIN maintenance \cup files \subseteq spent
    /\ forms \in [Forms -> OpenForms \cup {NoForm}]
    /\ req \in [Requests -> RequestStates]

NoRows == [id \in {} |-> {}]     \* an empty table

Init ==
    /\ vehicles = {} /\ images = NoRows /\ maintenance = NoRows
    /\ files = {} /\ spent = {}
    /\ forms = [f \in Forms |-> NoForm]
    /\ req = [r \in Requests |-> Idle]

\* A table as a function from ids to rows: insert a row, delete rows.
With(f, id, row) == [x \in DOMAIN f \cup {id} |-> IF x = id THEN row ELSE f[x]]
Without(f, ids) == [x \in DOMAIN f \ ids |-> f[x]]

ImagesOf(v) == {i \in DOMAIN images : images[i].vehicle = v}
MaintenanceOf(v) == {m \in DOMAIN maintenance : maintenance[m] = v}
LinkValid(link, v) == link = NoLink \/ link \in MaintenanceOf(v)
Referenced(file) == \E i \in DOMAIN images : images[i].file = file

Goto(r, at) == req' = [req EXCEPT ![r].at = at]
Finish(r) == req' = [req EXCEPT ![r] = Idle]

----------------------------------------------------------------------------
(* Vehicles and maintenance entries.                                       *)

CreateVehicle(v) ==
    /\ v \notin spent
    /\ vehicles' = vehicles \cup {v}
    /\ spent' = spent \cup {v}
    /\ UNCHANGED <<images, maintenance, files, forms, req>>

\* Its images and maintenance entries stay: the references that would take the rows
\* along are not enforced (sqlite.go:27), and nothing removes the files.
DeleteVehicle(v) ==
    /\ v \in vehicles
    /\ vehicles' = vehicles \ {v}
    /\ UNCHANGED <<images, maintenance, files, spent, forms, req>>

BeginMaintenance(r, v) ==
    /\ req[r] = Idle
    /\ v \in vehicles
    /\ req' = [req EXCEPT ![r] = [at |-> "repair", vehicle |-> v]]
    /\ UNCHANGED <<vehicles, images, maintenance, files, spent, forms>>

InsertMaintenance(r, m) ==
    /\ req[r].at = "repair"
    /\ m \notin spent
    /\ maintenance' = With(maintenance, m, req[r].vehicle)
    /\ spent' = spent \cup {m}
    /\ Finish(r)
    /\ UNCHANGED <<vehicles, images, files, forms>>

\* Links to the entry stay.
DeleteMaintenance(m) ==
    /\ m \in DOMAIN maintenance
    /\ maintenance' = Without(maintenance, {m})
    /\ UNCHANGED <<vehicles, images, files, spent, forms, req>>

----------------------------------------------------------------------------
(* Upload: the file is written before the row.                             *)

\* fault: two uploads may get the same file name
WriteUploadAnyName(r, v, file, link, primary) ==
    /\ req[r] = Idle
    /\ files' = files \cup {file}
    /\ spent' = spent \cup {file}
    /\ req' = [req EXCEPT ![r] = [at |-> "written", vehicle |-> v, file |-> file,
                                  link |-> link, primary |-> primary]]
    /\ UNCHANGED <<vehicles, images, maintenance, forms>>

WriteUpload(r, v, file, link, primary) ==
    /\ req[r] = Idle
    /\ file \notin spent
    /\ files' = files \cup {file}
    /\ spent' = spent \cup {file}
    /\ req' = [req EXCEPT ![r] = [at |-> "written", vehicle |-> v, file |-> file,
                                  link |-> link, primary |-> primary]]
    /\ UNCHANGED <<vehicles, images, maintenance, forms>>

FindVehicle(r) ==
    /\ req[r].at = "written"
    /\ Goto(r, IF req[r].vehicle \in vehicles THEN "found" ELSE "refused")
    /\ UNCHANGED <<vehicles, images, maintenance, files, spent, forms>>

CheckLink(r) ==
    /\ req[r].at = "found"
    /\ Goto(r, IF LinkValid(req[r].link, req[r].vehicle) THEN "linked" ELSE "refused")
    /\ UNCHANGED <<vehicles, images, maintenance, files, spent, forms>>

\* The first image is primary; a new primary one clears the flag of the others.
InsertImage(r, i) ==
    LET v == req[r].vehicle
        primary == req[r].primary \/ ImagesOf(v) = {}
        others == [x \in DOMAIN images |->
                     IF primary /\ images[x].vehicle = v
                       THEN [images[x] EXCEPT !.primary = FALSE] ELSE images[x]]
    IN  /\ req[r].at = "linked"
        /\ i \notin spent
        /\ images' = With(others, i, [vehicle |-> v, url |-> i, file |-> req[r].file,
                                      link |-> req[r].link, primary |-> primary])
        /\ spent' = spent \cup {i}
        /\ Finish(r)
        /\ UNCHANGED <<vehicles, maintenance, files, forms>>

\* A statement of CreateImage fails.
RefuseUpload(r) ==
    /\ req[r].at \in {"written", "found", "linked"}
    /\ Goto(r, "refused")
    /\ UNCHANGED <<vehicles, images, maintenance, files, spent, forms>>

\* CreateImage has failed: the written file is removed.
RemoveUpload(r) ==
    /\ req[r].at = "refused"
    /\ files' = files \ {req[r].file}
    /\ Finish(r)
    /\ UNCHANGED <<vehicles, images, maintenance, spent, forms>>

----------------------------------------------------------------------------
(* Delete: the row goes before the file.                                   *)

\* fault: the link is not looked at
ReadAnyImage(r, i) ==
    /\ req[r] = Idle
    /\ i \in DOMAIN images
    /\ req' = [req EXCEPT ![r] = [at |-> "read", image |-> i, file |-> images[i].file,
                                  primary |-> images[i].primary]]
    /\ UNCHANGED <<vehicles, images, maintenance, files, spent, forms>>

ReadImage(r, i) ==
    /\ req[r] = Idle
    /\ i \in DOMAIN images
    /\ images[i].link = NoLink
    /\ req' = [req EXCEPT ![r] = [at |-> "read", image |-> i, file |-> images[i].file,
                                  primary |-> images[i].primary]]
    /\ UNCHANGED <<vehicles, images, maintenance, files, spent, forms>>

AfterDelete(r) ==
    IF req[r].file = NoFile THEN Idle ELSE [at |-> "deleted", file |-> req[r].file]

\* fault: no other image becomes the primary one
DeleteImagePromotesNone(r) ==
    /\ req[r].at = "read"
    /\ req[r].image \in DOMAIN images
    /\ images' = Without(images, {req[r].image})
    /\ req' = [req EXCEPT ![r] = AfterDelete(r)]
    /\ UNCHANGED <<vehicles, maintenance, files, spent, forms>>

\* Whether another image is promoted depends on the flag that was read; the first
\* image in order may be any of those left.
DeleteImage(r) ==
    LET i == req[r].image
        left == ImagesOf(images[i].vehicle) \ {i}
        Promoted(p) == [x \in DOMAIN images |->
                          IF x = p THEN [images[x] EXCEPT !.primary = TRUE] ELSE images[x]]
    IN  /\ req[r].at = "read"
        /\ i \in DOMAIN images
        /\ IF req[r].primary /\ left # {}
             THEN \E p \in left : images' = Without(Promoted(p), {i})
             ELSE images' = Without(images, {i})
        /\ req' = [req EXCEPT ![r] = AfterDelete(r)]
        /\ UNCHANGED <<vehicles, maintenance, files, spent, forms>>

\* fault: the file is removed although the row was not deleted
DeleteFailsRemovesFile(r) ==
    /\ req[r].at = "read" /\ req[r].file # NoFile
    /\ req' = [req EXCEPT ![r] = [at |-> "unreferenced", file |-> req[r].file]]
    /\ UNCHANGED <<vehicles, images, maintenance, files, spent, forms>>

\* The row has gone in the meantime, or a statement failed.
DeleteFails(r) ==
    /\ req[r].at = "read"
    /\ Finish(r)
    /\ UNCHANGED <<vehicles, images, maintenance, files, spent, forms>>

CountReferences(r) ==
    /\ req[r].at = "deleted"
    /\ IF Referenced(req[r].file) THEN Finish(r) ELSE Goto(r, "unreferenced")
    /\ UNCHANGED <<vehicles, images, maintenance, files, spent, forms>>

RemoveFile(r) ==
    /\ req[r].at = "unreferenced"
    /\ files' = files \ {req[r].file}
    /\ Finish(r)
    /\ UNCHANGED <<vehicles, images, maintenance, spent, forms>>

----------------------------------------------------------------------------
(* Saving a vehicle form, which replaces the rows of all its images.       *)

\* The browser loads a vehicle into the form; storage paths are not sent.
OpenForm(f, v) ==
    /\ v \in vehicles
    /\ forms' = [forms EXCEPT ![f] =
                   [vehicle |-> v,
                    inputs |-> {[id |-> i, url |-> images[i].url, file |-> NoFile,
                                 link |-> images[i].link] : i \in ImagesOf(v)}]]
    /\ UNCHANGED <<vehicles, images, maintenance, files, spent, req>>

Fresh(link) == [id |-> NewImage, url |-> Remote, file |-> NoFile, link |-> link]

Relinked(shown, x, v) ==
    {(shown \ {x}) \cup {[x EXCEPT !.link = link]} : link \in MaintenanceOf(v) \cup {NoLink}}

\* A request leaves images out, links or unlinks one, or adds one from a shop.
Edited(shown, v) ==
    (SUBSET shown)
      \cup {kept \cup {Fresh(NoLink)} : kept \in SUBSET shown}
      \cup UNION {Relinked(shown, x, v) : x \in shown}

BeginSave(r, f, inputs) ==
    /\ req[r] = Idle
    /\ forms[f] # NoForm
    /\ inputs \in Edited(forms[f].inputs, forms[f].vehicle)
    /\ forms[f].vehicle \in vehicles
    /\ req' = [req EXCEPT ![r] = [at |-> "loaded", vehicle |-> forms[f].vehicle,
                                  inputs |-> inputs]]
    /\ forms' = [forms EXCEPT ![f] = NoForm]
    /\ UNCHANGED <<vehicles, images, maintenance, files, spent>>

\* One remote image is downloaded into a file.  A saved image whose URL is still
\* remote is downloaded as well, and its file given up by SaveImages.
Localize(r, x, file) ==
    /\ req[r].at = "loaded"
    /\ x \in req[r].inputs
    /\ x.url = Remote /\ x.file = NoFile
    /\ file \notin spent
    /\ files' = files \cup {file}
    /\ spent' = spent \cup {file}
    /\ req' = [req EXCEPT ![r].inputs = (@ \ {x}) \cup {[x EXCEPT !.file = file]}]
    /\ UNCHANGED <<vehicles, images, maintenance, forms>>

\* The other downloads fail, which leaves their images as they are.
Localized(r) ==
    /\ req[r].at = "loaded"
    /\ Goto(r, "localized")
    /\ UNCHANGED <<vehicles, images, maintenance, files, spent, forms>>

\* The row of an input that is known by its id or, failing that, by its URL.
Known(x, v) ==
    IF x.id \in ImagesOf(v) THEN {x.id}
    ELSE {i \in ImagesOf(v) : images[i].url = x.url /\ x.url # Remote}

\* Known images keep their ids, the others get new ones.
Assignments(inputs, v) ==
    {id \in [inputs -> ImageIds] :
        /\ \A x \in inputs : IF Known(x, v) = {} THEN id[x] \notin spent
                                                ELSE id[x] \in Known(x, v)
        /\ \A x, y \in inputs : x # y => id[x] # id[y]}

\* fault: every image takes the file of the form
SavedForgetsFile(x, i, v, primary) ==
    [vehicle |-> v, link |-> x.link, primary |-> primary, file |-> x.file,
     url |-> IF x.file = NoFile THEN x.url ELSE i]

\* The row of an input: a known image keeps the file it has, or has none.
Saved(x, i, v, primary) ==
    LET file == IF Known(x, v) = {} THEN x.file ELSE images[i].file
    IN  [vehicle |-> v, link |-> x.link, primary |-> primary, file |-> file,
         url |-> IF file = NoFile THEN x.url ELSE i]

\* The rows of v become those of the inputs: the first MaxImages, one of them primary.
Replaced(v, kept, id, first) ==
    LET inserted == {id[x] : x \in kept}
        Input(i) == CHOOSE x \in kept : id[x] = i
    IN  [i \in (DOMAIN images \ ImagesOf(v)) \cup inserted |->
           IF i \in inserted THEN Saved(Input(i), i, v, Input(i) = first) ELSE images[i]]

SaveImages(r) ==
    /\ req[r].at = "localized"
    /\ req[r].vehicle \in vehicles
    /\ \E kept \in SUBSET req[r].inputs :
          /\ kept = req[r].inputs \/ Cardinality(kept) = MaxImages
          /\ Cardinality(kept) <= MaxImages
          /\ \A x \in kept : LinkValid(x.link, req[r].vehicle)
          /\ \E id \in Assignments(kept, req[r].vehicle), first \in kept \cup {Fresh(NoLink)} :
                /\ kept # {} => first \in kept
                /\ images' = Replaced(req[r].vehicle, kept, id, first)
                /\ spent' = spent \cup {id[x] : x \in kept}
    /\ Finish(r)
    /\ UNCHANGED <<vehicles, maintenance, files, forms>>

\* The vehicle is gone, a link is not valid or a statement failed; files stay.
SaveFails(r) ==
    /\ req[r].at \in {"loaded", "localized", "repair"}
    /\ Finish(r)
    /\ UNCHANGED <<vehicles, images, maintenance, files, spent, forms>>

\* The process stops and starts again; forms stay open in their browsers.
Restart ==
    /\ req' = [r \in Requests |-> Idle]
    /\ UNCHANGED <<vehicles, images, maintenance, files, spent, forms>>

----------------------------------------------------------------------------

Upload(r) ==
    \/ \E v \in VehicleIds, file \in Files, link \in Links, primary \in BOOLEAN :
          WriteUpload(r, v, file, link, primary)
    \/ FindVehicle(r) \/ CheckLink(r)
    \/ \E i \in ImageIds : InsertImage(r, i)
    \/ RefuseUpload(r) \/ RemoveUpload(r)

Delete(r) ==
    \/ \E i \in ImageIds : ReadImage(r, i)
    \/ DeleteImage(r) \/ DeleteFails(r) \/ CountReferences(r) \/ RemoveFile(r)

Save(r) ==
    \/ \E f \in Forms : \E inputs \in Edited(forms[f].inputs, forms[f].vehicle) :
          BeginSave(r, f, inputs)
    \/ /\ req[r].at = "loaded"
       /\ \E x \in req[r].inputs, file \in Files : Localize(r, x, file)
    \/ Localized(r) \/ SaveImages(r) \/ SaveFails(r)

Next ==
    \/ \E v \in VehicleIds : CreateVehicle(v) \/ DeleteVehicle(v)
    \/ \E m \in MaintenanceIds : DeleteMaintenance(m)
    \/ \E r \in Requests :
          \/ Upload(r) \/ Delete(r) \/ Save(r)
          \/ \E v \in VehicleIds : BeginMaintenance(r, v)
          \/ \E m \in MaintenanceIds : InsertMaintenance(r, m)
    \/ \E f \in Forms, v \in VehicleIds : OpenForm(f, v)
    \/ Restart

Spec == Init /\ [][Next]_vars

----------------------------------------------------------------------------
(* Properties.                                                             *)

\* The file of an image row is on disk, whatever of these requests fails or stops in
\* between (a restore beside them is left out): uploads write it first, deletes remove it
\* last and only if no row names it, saved forms keep it with its row (router.go:1394,
\* 1432; vehicles.go:1833).
RowFilesExist ==
    \A i \in DOMAIN images : images[i].file = NoFile \/ images[i].file \in files

\* No two rows share a file: the removal of one image never takes the file of
\* another (router.go:1373, 1441).
FilesNotShared ==
    \A i, j \in DOMAIN images :
        images[i].file = images[j].file => i = j \/ images[i].file = NoFile

\* A vehicle with images has one primary image.
OnePrimary ==
    \A v \in VehicleIds :
        ImagesOf(v) = {} \/ \E i \in ImagesOf(v) :
                               {j \in ImagesOf(v) : images[j].primary} = {i}

DeletesUnlinked ==
    \A r \in Requests :
       req[r].at = "read" /\ req[r].image \in DOMAIN images \ DOMAIN images'
         => images[req[r].image].link = NoLink

\* Nothing detaches an image from its file: a saved form does not know the storage
\* path, so the row it replaces has to supply it (vehicles.go:1827).
ImagesKeepTheirFiles ==
    [][\A i \in DOMAIN images \cap DOMAIN images' :
          images'[i].file = images[i].file]_vars

\* An image is linked to a maintenance entry of its vehicle or to none
\* (vehicles.go:1863, vehicles_test.go:588).
LinksValid ==
    \A i \in DOMAIN images : LinkValid(images[i].link, images[i].vehicle)

----------------------------------------------------------------------------
(* The invariant that carries the proofs of VehicleGalleryProofs: every file *)
(* of the directory that still matters belongs to one row or to one request. *)

Uploading(q) == q.at \in {"written", "found", "linked", "refused"}
Saving(q) == q.at \in {"loaded", "localized"}
Removing(q) == q.at \in {"deleted", "unreferenced"}

\* The files a request may still give to a row.
Carried(q) ==
    IF Uploading(q) THEN {q.file}
    ELSE IF Saving(q) THEN {x.file : x \in q.inputs} \ {NoFile}
    ELSE {}

\* Rows and requests carry files that exist, none of them twice; a file that is being
\* removed belongs to nobody; what was read of an image is still true of its row.
RowsOwnFiles(im, fs) ==
    \A i \in DOMAIN im :
       /\ im[i].file = NoFile \/ im[i].file \in fs
       /\ \A j \in DOMAIN im : im[i].file = im[j].file => i = j \/ im[i].file = NoFile

RequestsOwnFiles(rq, im, fs) ==
    \A r \in Requests :
       /\ Carried(rq[r]) \subseteq fs
       /\ \A s \in Requests : s # r => Carried(rq[r]) \cap Carried(rq[s]) = {}
       /\ \A i \in DOMAIN im : im[i].file \notin Carried(rq[r])
       /\ Saving(rq[r]) => \A x, y \in rq[r].inputs :
                              x.file = y.file => x = y \/ x.file = NoFile

RemovalsAreFree(rq, im, sp) ==
    \A r \in Requests : Removing(rq[r]) =>
       /\ rq[r].file \in sp
       /\ \A i \in DOMAIN im : im[i].file # rq[r].file
       /\ \A s \in Requests : rq[r].file \notin Carried(rq[s])

ReadsAreCurrent(rq, im, sp) ==
    \A r \in Requests : rq[r].at = "read" =>
       /\ rq[r].image \in sp
       /\ rq[r].image \in DOMAIN im => im[rq[r].image].file = rq[r].file

FormsHaveNoFiles == \A f \in Forms : \A x \in forms[f].inputs : x.file = NoFile

FilesAccounted(rq, im, fs, sp) ==
    /\ RowsOwnFiles(im, fs)
    /\ RequestsOwnFiles(rq, im, fs)
    /\ RemovalsAreFree(rq, im, sp)
    /\ ReadsAreCurrent(rq, im, sp)

IInv == TypeOK /\ FormsHaveNoFiles /\ FilesAccounted(req, images, files, spent)
=============================================================================
