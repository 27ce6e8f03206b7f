----------------------- MODULE VehicleGalleryProofs -----------------------
(* What VehicleGallery keeps true for every number of vehicles, images,      *)
(* files, forms and requests: rows and files stay together.                  *)
EXTENDS MCVehicleGallery, FiniteSetTheorems, TLAPS

(* The part of TypeOK that speaks of the tables.                             *)
TablesOK ==
  /\ vehicles \subseteq VehicleIds
  /\ DOMAIN images \subseteq ImageIds
  /\ \A i \in DOMAIN images : images[i] \in ImageRows
  /\ DOMAIN maintenance \subseteq MaintenanceIds
  /\ \A m \in DOMAIN maintenance : maintenance[m] \in VehicleIds
  /\ files \subseteq Files
  /\ vehicles \cup DOMAIN images \cup DOMAIN maintenance \cup files \subseteq spent

FormsOK == forms \in [Forms -> OpenForms \cup {NoForm}] /\ FormsHaveNoFiles
RequestsOK == req \in [Requests -> RequestStates]

LEMMA IInvParts ==
  /\ IInv <=> /\ TablesOK /\ FormsOK /\ RequestsOK
              /\ FilesAccounted(req, images, files, spent)
  /\ IInv' <=> /\ TablesOK' /\ FormsOK' /\ RequestsOK'
               /\ FilesAccounted(req', images', files', spent')
BY DEF IInv, TypeOK, TablesOK, FormsOK, RequestsOK, FormsHaveNoFiles, FilesAccounted,
       RowsOwnFiles, RequestsOwnFiles, RemovalsAreFree, ReadsAreCurrent,
       Carried, Uploading, Saving, Removing

(* Where a request is tells what it holds.                                   *)
LEMMA Kinds ==
  ASSUME NEW q \in RequestStates
  PROVE  /\ Uploading(q) <=> q \in Uploads
         /\ q.at = "read" <=> q \in Deletes
         /\ Removing(q) <=> q \in Removals
         /\ Saving(q) <=> q \in Saves
         /\ q.at = "repair" <=> q \in Repairs
BY DEF RequestStates, Uploads, Deletes, Removals, Saves, Repairs, Idle,
       Uploading, Saving, Removing

LEMMA IdleFits ==
  /\ Idle \in RequestStates
  /\ Carried(Idle) = {} /\ ~Saving(Idle) /\ ~Removing(Idle) /\ Idle.at # "read"
BY DEF RequestStates, Idle, Carried, Uploading, Saving, Removing

----------------------------------------------------------------------------
(* How the files stay accounted for: the four kinds of steps.                *)

(* A request moves on, with a file that is new or with none.                 *)
LEMMA RequestMoves ==
  ASSUME NEW rq \in [Requests -> RequestStates], NEW im, NEW fs, NEW sp, NEW sp2,
         NEW new, NEW r \in Requests, NEW q \in RequestStates,
         FilesAccounted(rq, im, fs, sp),
         NoFile \notin new,
         fs \subseteq sp, sp \subseteq sp2, new \cap sp = {},
         Carried(q) \subseteq Carried(rq[r]) \cup new,
         Saving(q) => \A x, y \in q.inputs : x.file = y.file => x = y \/ x.file = NoFile,
         Removing(q) => /\ q.file \in sp2 \ new
                        /\ \A i \in DOMAIN im : im[i].file # q.file
                        /\ \A s \in Requests : q.file \notin Carried(rq[s]),
         q.at = "read" => /\ q.image \in sp2
                          /\ q.image \in DOMAIN im => im[q.image].file = q.file
  PROVE  FilesAccounted([rq EXCEPT ![r] = q], im, fs \cup new, sp2)
<1> DEFINE next == [rq EXCEPT ![r] = q]
<1>1. \A s \in Requests : next[s] = IF s = r THEN q ELSE rq[s]
  OBVIOUS
<1>2. \A s \in Requests : Carried(next[s]) \subseteq Carried(rq[s]) \cup (IF s = r THEN new ELSE {})
  BY <1>1
<1> HIDE DEF next
<1>3. RowsOwnFiles(im, fs \cup new)
  BY DEF FilesAccounted, RowsOwnFiles
<1>4. \A s \in Requests : Carried(rq[s]) \subseteq fs /\ Carried(rq[s]) \cap new = {}
  BY DEF FilesAccounted, RequestsOwnFiles
<1>5. RequestsOwnFiles(next, im, fs \cup new)
  <2> SUFFICES ASSUME NEW a \in Requests
               PROVE  /\ Carried(next[a]) \subseteq fs \cup new
                      /\ \A s \in Requests : s # a => Carried(next[a]) \cap Carried(next[s]) = {}
                      /\ \A i \in DOMAIN im : im[i].file \notin Carried(next[a])
                      /\ Saving(next[a]) => \A x, y \in next[a].inputs :
                            x.file = y.file => x = y \/ x.file = NoFile
    BY DEF RequestsOwnFiles
  <2>1. Carried(next[a]) \subseteq fs \cup new
    BY <1>2, <1>4
  <2>2. ASSUME NEW s \in Requests, s # a PROVE Carried(next[a]) \cap Carried(next[s]) = {}
    <3>1. Carried(rq[a]) \cap Carried(rq[s]) = {}
      BY <2>2 DEF FilesAccounted, RequestsOwnFiles
    <3> QED
      BY <3>1, <2>2, <1>2, <1>4
  <2>3. ASSUME NEW i \in DOMAIN im PROVE im[i].file \notin Carried(next[a])
    <3>1. im[i].file \notin Carried(rq[a])
      BY DEF FilesAccounted, RequestsOwnFiles
    <3>2. im[i].file \notin new
      BY DEF FilesAccounted, RowsOwnFiles
    <3> QED
      BY <3>1, <3>2, <1>2
  <2>4. Saving(next[a]) => \A x, y \in next[a].inputs :
                            x.file = y.file => x = y \/ x.file = NoFile
    BY <1>1 DEF FilesAccounted, RequestsOwnFiles
  <2> QED
    BY <2>1, <2>2, <2>3, <2>4
<1>6. RemovalsAreFree(next, im, sp2)
  <2> SUFFICES ASSUME NEW a \in Requests, Removing(next[a])
               PROVE  /\ next[a].file \in sp2
                      /\ \A i \in DOMAIN im : im[i].file # next[a].file
                      /\ \A s \in Requests : next[a].file \notin Carried(next[s])
    BY DEF RemovalsAreFree
  <2>1. CASE a = r
    BY <2>1, <1>1, <1>2
  <2>2. CASE a # r
    <3>1. /\ rq[a].file \in sp /\ next[a] = rq[a]
          /\ \A i \in DOMAIN im : im[i].file # rq[a].file
          /\ \A s \in Requests : rq[a].file \notin Carried(rq[s])
      BY <2>2, <1>1 DEF FilesAccounted, RemovalsAreFree
    <3> QED
      BY <3>1, <1>2
  <2> QED
    BY <2>1, <2>2
<1>7. ReadsAreCurrent(next, im, sp2)
  BY <1>1 DEF FilesAccounted, ReadsAreCurrent
<1> QED
  BY <1>3, <1>5, <1>6, <1>7 DEF FilesAccounted, next

(* A request removes the file it holds, which belongs to nobody else.        *)
LEMMA FileGoes ==
  ASSUME NEW rq \in [Requests -> RequestStates], NEW im, NEW fs, NEW sp,
         NEW r \in Requests, NEW file,
         FilesAccounted(rq, im, fs, sp),
         file # NoFile,
         \A i \in DOMAIN im : im[i].file # file,
         \A s \in Requests : s # r => file \notin Carried(rq[s])
  PROVE  FilesAccounted([rq EXCEPT ![r] = Idle], im, fs \ {file}, sp)
<1> DEFINE next == [rq EXCEPT ![r] = Idle]
<1>1. \A s \in Requests : next[s] = IF s = r THEN Idle ELSE rq[s]
  OBVIOUS
<1> HIDE DEF next
<1>2. \A s \in Requests : Carried(next[s]) \subseteq Carried(rq[s]) \ {file}
  BY <1>1, IdleFits
<1>3. RowsOwnFiles(im, fs \ {file})
  BY DEF FilesAccounted, RowsOwnFiles
<1>4. RequestsOwnFiles(next, im, fs \ {file})
  <2> SUFFICES ASSUME NEW a \in Requests
               PROVE  /\ Carried(next[a]) \subseteq fs \ {file}
                      /\ \A s \in Requests : s # a => Carried(next[a]) \cap Carried(next[s]) = {}
                      /\ \A i \in DOMAIN im : im[i].file \notin Carried(next[a])
                      /\ Saving(next[a]) => \A x, y \in next[a].inputs :
                            x.file = y.file => x = y \/ x.file = NoFile
    BY DEF RequestsOwnFiles
  <2>1. /\ Carried(rq[a]) \subseteq fs
        /\ \A s \in Requests : s # a => Carried(rq[a]) \cap Carried(rq[s]) = {}
        /\ \A i \in DOMAIN im : im[i].file \notin Carried(rq[a])
    BY DEF FilesAccounted, RequestsOwnFiles
  <2>2. Saving(next[a]) => \A x, y \in next[a].inputs :
                            x.file = y.file => x = y \/ x.file = NoFile
    BY <1>1, IdleFits DEF FilesAccounted, RequestsOwnFiles
  <2> QED
    BY <2>1, <2>2, <1>2
<1>5. RemovalsAreFree(next, im, sp)
  BY <1>1, <1>2, IdleFits DEF FilesAccounted, RemovalsAreFree
<1>6. ReadsAreCurrent(next, im, sp)
  BY <1>1, IdleFits DEF FilesAccounted, ReadsAreCurrent
<1> QED
  BY <1>3, <1>4, <1>5, <1>6 DEF FilesAccounted, next

LEMMA CarriedFiles ==
  ASSUME NEW q \in RequestStates
  PROVE  Carried(q) \subseteq Files /\ (Removing(q) => q.file \in Files)
<1>1. CASE Uploading(q)
  BY <1>1, Kinds DEF Carried, Uploads, Removing, Uploading
<1>2. CASE Saving(q)
  BY <1>2, Kinds DEF Carried, Saves, Inputs, Removing, Uploading, Saving
<1>3. CASE ~Uploading(q) /\ ~Saving(q)
  BY <1>3, Kinds DEF Carried, Removals
<1> QED
  BY <1>1, <1>2, <1>3

(* Rows go, or change without their files.                                   *)
LEMMA RowsGo ==
  ASSUME NEW rq \in [Requests -> RequestStates], NEW im, NEW im2, NEW fs, NEW sp, NEW sp2,
         FilesAccounted(rq, im, fs, sp), sp \subseteq sp2,
         \A i \in DOMAIN im2 : i \in DOMAIN im /\ im2[i].file = im[i].file
  PROVE  FilesAccounted(rq, im2, fs, sp2)
<1>1. RowsOwnFiles(im2, fs)
  BY DEF FilesAccounted, RowsOwnFiles
<1>2. RequestsOwnFiles(rq, im2, fs)
  BY DEF FilesAccounted, RequestsOwnFiles
<1>3. RemovalsAreFree(rq, im2, sp2)
  BY DEF FilesAccounted, RemovalsAreFree
<1>4. ReadsAreCurrent(rq, im2, sp2)
  BY DEF FilesAccounted, ReadsAreCurrent
<1> QED
  BY <1>1, <1>2, <1>3, <1>4 DEF FilesAccounted

(* A request ends, or goes on to remove a file, with rows that kept their    *)
(* files and new rows that have taken the request's.                         *)
LEMMA RowsChange ==
  ASSUME NEW rq \in [Requests -> RequestStates], NEW im, NEW im2, NEW fs, NEW sp, NEW sp2,
         NEW r \in Requests, NEW q \in RequestStates,
         FilesAccounted(rq, im, fs, sp),
         DOMAIN im \subseteq sp, sp \subseteq sp2,
         Carried(q) = {}, ~Saving(q), q.at # "read",
         \A i \in DOMAIN im2 :
            \/ i \in DOMAIN im /\ im2[i].file = im[i].file
            \/ i \notin sp /\ im2[i].file \in Carried(rq[r]) \cup {NoFile},
         \A i, j \in DOMAIN im2 \ sp :
            im2[i].file = im2[j].file => i = j \/ im2[i].file = NoFile,
         Removing(q) => /\ q.file \in sp
                        /\ \A i \in DOMAIN im2 : im2[i].file # q.file
                        /\ \A s \in Requests : q.file \notin Carried(rq[s])
  PROVE  FilesAccounted([rq EXCEPT ![r] = q], im2, fs, sp2)
<1> DEFINE next == [rq EXCEPT ![r] = q]
<1>1. \A s \in Requests : next[s] = IF s = r THEN q ELSE rq[s]
  OBVIOUS
<1> HIDE DEF next
<1>2. \A s \in Requests : Carried(next[s]) = IF s = r THEN {} ELSE Carried(rq[s])
  BY <1>1
<1>3. \A s \in Requests : NoFile \notin Carried(rq[s]) /\ Carried(rq[s]) \subseteq fs
  BY CarriedFiles, NoFileAssumption DEF FilesAccounted, RequestsOwnFiles
<1>4. RowsOwnFiles(im2, fs)
  <2> SUFFICES ASSUME NEW i \in DOMAIN im2
               PROVE  /\ im2[i].file = NoFile \/ im2[i].file \in fs
                      /\ \A j \in DOMAIN im2 :
                            im2[i].file = im2[j].file => i = j \/ im2[i].file = NoFile
    BY DEF RowsOwnFiles
  <2>1. im2[i].file = NoFile \/ im2[i].file \in fs
    BY <1>3 DEF FilesAccounted, RowsOwnFiles
  <2>2. ASSUME NEW j \in DOMAIN im2, im2[i].file = im2[j].file, im2[i].file # NoFile
        PROVE  i = j
    <3>1. CASE i \in DOMAIN im /\ j \in DOMAIN im
      BY <3>1, <2>2 DEF FilesAccounted, RowsOwnFiles
    <3>2. CASE i \notin DOMAIN im /\ j \notin DOMAIN im
      BY <3>2, <2>2
    <3>3. CASE i \in DOMAIN im /\ j \notin DOMAIN im
      BY <3>3, <2>2 DEF FilesAccounted, RequestsOwnFiles
    <3>4. CASE i \notin DOMAIN im /\ j \in DOMAIN im
      BY <3>4, <2>2 DEF FilesAccounted, RequestsOwnFiles
    <3> QED
      BY <3>1, <3>2, <3>3, <3>4
  <2> QED
    BY <2>1, <2>2
<1>5. RequestsOwnFiles(next, im2, fs)
  <2> SUFFICES ASSUME NEW a \in Requests
               PROVE  /\ Carried(next[a]) \subseteq fs
                      /\ \A s \in Requests : s # a => Carried(next[a]) \cap Carried(next[s]) = {}
                      /\ \A i \in DOMAIN im2 : im2[i].file \notin Carried(next[a])
                      /\ Saving(next[a]) => \A x, y \in next[a].inputs :
                            x.file = y.file => x = y \/ x.file = NoFile
    BY DEF RequestsOwnFiles
  <2>1. CASE a = r
    BY <2>1, <1>1, <1>2
  <2>2. CASE a # r
    <3>1. /\ \A s \in Requests : s # a => Carried(rq[a]) \cap Carried(rq[s]) = {}
          /\ \A i \in DOMAIN im : im[i].file \notin Carried(rq[a])
          /\ Saving(rq[a]) => \A x, y \in rq[a].inputs :
                            x.file = y.file => x = y \/ x.file = NoFile
      BY DEF FilesAccounted, RequestsOwnFiles
    <3>2. next[a] = rq[a]
      BY <2>2, <1>1
    <3>3. \A i \in DOMAIN im2 : im2[i].file \notin Carried(rq[a])
      BY <3>1, <1>3, <2>2
    <3> QED
      BY <3>1, <3>2, <3>3, <1>2, <1>3
  <2> QED
    BY <2>1, <2>2
<1>6. RemovalsAreFree(next, im2, sp2)
  <2> SUFFICES ASSUME NEW a \in Requests, Removing(next[a])
               PROVE  /\ next[a].file \in sp2
                      /\ \A i \in DOMAIN im2 : im2[i].file # next[a].file
                      /\ \A s \in Requests : next[a].file \notin Carried(next[s])
    BY DEF RemovalsAreFree
  <2>1. CASE a = r
    BY <2>1, <1>1, <1>2
  <2>2. CASE a # r
    <3>1. /\ rq[a].file \in sp /\ next[a] = rq[a] /\ rq[a].file # NoFile
          /\ \A i \in DOMAIN im : im[i].file # rq[a].file
          /\ \A s \in Requests : rq[a].file \notin Carried(rq[s])
      BY <2>2, <1>1, CarriedFiles, NoFileAssumption DEF FilesAccounted, RemovalsAreFree
    <3> QED
      BY <3>1, <1>2
  <2> QED
    BY <2>1, <2>2
<1>7. ReadsAreCurrent(next, im2, sp2)
  BY <1>1 DEF FilesAccounted, ReadsAreCurrent
<1> QED
  BY <1>4, <1>5, <1>6, <1>7 DEF FilesAccounted, next

----------------------------------------------------------------------------
(* Steps that move a request and leave the tables as they are.               *)

LEMMA OnlyRequestMoves ==
  ASSUME IInv, FormsOK', NEW r \in Requests, NEW q \in RequestStates,
         req' = [req EXCEPT ![r] = q],
         UNCHANGED <<vehicles, images, maintenance, files, spent>>,
         Carried(q) \subseteq Carried(req[r]),
         Saving(q) => \A x, y \in q.inputs : x.file = y.file => x = y \/ x.file = NoFile,
         Removing(q) => /\ q.file \in spent
                        /\ \A i \in DOMAIN images : images[i].file # q.file
                        /\ \A s \in Requests : q.file \notin Carried(req[s]),
         q.at = "read" => /\ q.image \in spent
                          /\ q.image \in DOMAIN images => images[q.image].file = q.file
  PROVE  IInv'
<1>1. /\ req \in [Requests -> RequestStates] /\ TablesOK /\ files \subseteq spent
      /\ FilesAccounted(req, images, files, spent)
  BY IInvParts DEF TablesOK, RequestsOK
<1>2. FilesAccounted([req EXCEPT ![r] = q], images, files \cup {}, spent)
  BY <1>1, RequestMoves
<1>3. FilesAccounted(req', images', files', spent')
  BY <1>2
<1>4. TablesOK' /\ RequestsOK'
  BY <1>1 DEF TablesOK, RequestsOK
<1> QED
  BY <1>3, <1>4, IInvParts

LEMMA Finishes ==
  ASSUME IInv, NEW r \in Requests, Finish(r),
         UNCHANGED <<vehicles, images, maintenance, files, spent, forms>>
  PROVE  IInv'
<1>1. FormsOK'
  BY IInvParts DEF FormsOK, FormsHaveNoFiles
<1> QED
  BY <1>1, IdleFits, OnlyRequestMoves DEF Finish

(* An upload that goes on, or is refused, still holds its file.              *)
LEMMA UploadGoesOn ==
  ASSUME IInv, NEW r \in Requests, Uploading(req[r]),
         NEW at \in {"found", "linked", "refused"}, Goto(r, at),
         UNCHANGED <<vehicles, images, maintenance, files, spent, forms>>
  PROVE  IInv'
<1> DEFINE q == [req[r] EXCEPT !.at = at]
<1>1. req \in [Requests -> RequestStates] /\ FormsOK'
  BY IInvParts DEF RequestsOK, FormsOK, FormsHaveNoFiles
<1>2. req[r] \in Uploads
  BY <1>1, Kinds
<1>3. q \in Uploads /\ q.file = req[r].file /\ q.at = at
  BY <1>2 DEF Uploads
<1>4. q \in RequestStates /\ Uploading(q)
  BY <1>3 DEF RequestStates, Uploading
<1>5. req' = [req EXCEPT ![r] = q]
  BY DEF Goto
<1> HIDE DEF q
<1>6. Carried(q) = Carried(req[r]) /\ ~Saving(q) /\ ~Removing(q) /\ q.at # "read"
  BY <1>3, <1>4 DEF Carried, Uploading, Saving, Removing
<1> QED
  BY <1>1, <1>4, <1>5, <1>6, OnlyRequestMoves

LEMMA BeginMaintenanceKeeps ==
  ASSUME IInv, NEW r \in Requests, NEW v \in VehicleIds, BeginMaintenance(r, v)
  PROVE  IInv'
<1> DEFINE q == [at |-> "repair", vehicle |-> v]
<1>1. /\ q \in RequestStates /\ Carried(q) = {}
      /\ ~Saving(q) /\ ~Removing(q) /\ q.at # "read"
  BY DEF RequestStates, Repairs, Carried, Uploading, Saving, Removing
<1>2. FormsOK'
  BY IInvParts DEF FormsOK, FormsHaveNoFiles, BeginMaintenance
<1> HIDE DEF q
<1> QED
  BY <1>1, <1>2, OnlyRequestMoves DEF BeginMaintenance, q

LEMMA ReadImageKeeps ==
  ASSUME IInv, NEW r \in Requests, NEW i \in ImageIds, ReadImage(r, i)
  PROVE  IInv'
<1> DEFINE q == [at |-> "read", image |-> i, file |-> images[i].file,
                 primary |-> images[i].primary]
<1>1. TablesOK /\ i \in DOMAIN images /\ FormsOK'
  BY IInvParts DEF FormsOK, FormsHaveNoFiles, ReadImage
<1>2. images[i] \in ImageRows /\ i \in spent
  BY <1>1 DEF TablesOK
<1>3. q \in Deletes
  BY <1>2 DEF ImageRows, Deletes
<1>4. /\ q \in RequestStates /\ Carried(q) = {} /\ ~Saving(q) /\ ~Removing(q)
      /\ q.image = i /\ q.file = images[i].file
  BY <1>3 DEF RequestStates, Carried, Uploading, Saving, Removing
<1>5. req' = [req EXCEPT ![r] = q]
  BY DEF ReadImage
<1> HIDE DEF q
<1> QED
  BY <1>1, <1>2, <1>4, <1>5, OnlyRequestMoves DEF ReadImage

LEMMA CountReferencesKeeps ==
  ASSUME IInv, NEW r \in Requests, CountReferences(r)
  PROVE  IInv'
<1>1. CASE Referenced(req[r].file)
  BY <1>1, Finishes DEF CountReferences
<1>2. CASE ~Referenced(req[r].file)
  <2> DEFINE q == [req[r] EXCEPT !.at = "unreferenced"]
  <2>1. /\ req \in [Requests -> RequestStates] /\ FormsOK'
        /\ FilesAccounted(req, images, files, spent)
    BY IInvParts DEF RequestsOK, FormsOK, FormsHaveNoFiles, CountReferences
  <2>2. req[r] \in Removals /\ Removing(req[r])
    BY <2>1, Kinds DEF CountReferences, Removing
  <2>3. q \in Removals /\ q.file = req[r].file /\ q.at = "unreferenced"
    BY <2>2 DEF Removals
  <2>4. q \in RequestStates
    BY <2>3 DEF RequestStates
  <2>5. req' = [req EXCEPT ![r] = q]
    BY <1>2 DEF CountReferences, Goto
  <2> HIDE DEF q
  <2>6. Carried(q) = {} /\ ~Saving(q) /\ q.at # "read"
    BY <2>3 DEF Carried, Uploading, Saving
  <2>7. /\ req[r].file \in spent
        /\ \A i \in DOMAIN images : images[i].file # req[r].file
        /\ \A s \in Requests : req[r].file \notin Carried(req[s])
    BY <2>1, <2>2 DEF FilesAccounted, RemovalsAreFree
  <2> QED
    BY <2>1, <2>3, <2>4, <2>5, <2>6, <2>7, OnlyRequestMoves DEF CountReferences
<1> QED
  BY <1>1, <1>2

(* What the user has made of a form names no files either.                   *)
LEMMA EditedInputs ==
  ASSUME NEW old \in SUBSET Inputs, NEW w, NEW inputs \in Edited(old, w), TablesOK,
         \A x \in old : x.file = NoFile
  PROVE  inputs \subseteq Inputs /\ \A x \in inputs : x.file = NoFile
<1>1. Fresh(NoLink) \in Inputs /\ Fresh(NoLink).file = NoFile
  BY DEF Fresh, Inputs, Links
<1>2. CASE inputs \in SUBSET old
  BY <1>2
<1>3. CASE inputs \in {kept \cup {Fresh(NoLink)} : kept \in SUBSET old}
  BY <1>1, <1>3
<1>4. CASE inputs \in UNION {Relinked(old, x, w) : x \in old}
  <2>1. PICK x \in old : inputs \in Relinked(old, x, w)
    BY <1>4
  <2>2. PICK link \in MaintenanceOf(w) \cup {NoLink} :
              inputs = (old \ {x}) \cup {[x EXCEPT !.link = link]}
    BY <2>1 DEF Relinked
  <2>3. link \in Links
    BY <2>2 DEF MaintenanceOf, TablesOK, Links
  <2>4. [x EXCEPT !.link = link] \in Inputs /\ [x EXCEPT !.link = link].file = x.file
    BY <2>3 DEF Inputs
  <2> QED
    BY <2>2, <2>4
<1> QED
  BY <1>2, <1>3, <1>4 DEF Edited

LEMMA BeginSaveKeeps ==
  ASSUME IInv, NEW r \in Requests, NEW f \in Forms,
         NEW inputs \in Edited(forms[f].inputs, forms[f].vehicle), BeginSave(r, f, inputs)
  PROVE  IInv'
<1> DEFINE q == [at |-> "loaded", vehicle |-> forms[f].vehicle, inputs |-> inputs]
<1>1. TablesOK /\ FormsOK
  BY IInvParts
<1>2. /\ forms[f] \in OpenForms
      /\ \A x \in forms[f].inputs : x.file = NoFile
  BY <1>1 DEF FormsOK, FormsHaveNoFiles, BeginSave
<1>3. inputs \subseteq Inputs /\ \A x \in inputs : x.file = NoFile
  BY <1>1, <1>2, EditedInputs DEF OpenForms
<1>4. q \in Saves
  BY <1>2, <1>3 DEF Saves, OpenForms
<1>5. /\ q \in RequestStates /\ q.inputs = inputs /\ Saving(q)
      /\ ~Uploading(q) /\ ~Removing(q) /\ q.at # "read"
  BY <1>4 DEF RequestStates, Saving, Uploading, Removing
<1>6. req' = [req EXCEPT ![r] = q]
  BY DEF BeginSave
<1> HIDE DEF q
<1>7. Carried(q) = {}
  BY <1>3, <1>5 DEF Carried
<1>8. FormsOK'
  <2>1. forms' = [forms EXCEPT ![f] = NoForm] /\ NoForm.inputs = {}
    BY DEF BeginSave, NoForm
  <2> QED
    BY <1>1, <2>1 DEF FormsOK, FormsHaveNoFiles
<1> QED
  BY <1>3, <1>5, <1>6, <1>7, <1>8, OnlyRequestMoves DEF BeginSave

LEMMA LocalizedKeeps ==
  ASSUME IInv, NEW r \in Requests, Localized(r)
  PROVE  IInv'
<1> DEFINE q == [req[r] EXCEPT !.at = "localized"]
<1>1. /\ req \in [Requests -> RequestStates] /\ FormsOK'
      /\ FilesAccounted(req, images, files, spent)
  BY IInvParts DEF RequestsOK, FormsOK, FormsHaveNoFiles, Localized
<1>2. req[r] \in Saves /\ Saving(req[r])
  BY <1>1, Kinds DEF Localized, Saving
<1>3. q \in Saves /\ q.inputs = req[r].inputs /\ q.at = "localized"
  BY <1>2 DEF Saves
<1>4. /\ q \in RequestStates /\ Saving(q)
      /\ ~Uploading(q) /\ ~Removing(q) /\ q.at # "read"
  BY <1>3 DEF RequestStates, Saving, Uploading, Removing
<1>5. req' = [req EXCEPT ![r] = q]
  BY DEF Localized, Goto
<1> HIDE DEF q
<1>6. Carried(q) = Carried(req[r])
  BY <1>2, <1>3, <1>4, Kinds DEF Carried, Uploading, Saving
<1>7. \A x, y \in q.inputs : x.file = y.file => x = y \/ x.file = NoFile
  BY <1>1, <1>2, <1>3 DEF FilesAccounted, RequestsOwnFiles
<1> QED
  BY <1>1, <1>4, <1>5, <1>6, <1>7, OnlyRequestMoves DEF Localized

----------------------------------------------------------------------------
(* Files come and go.                                                        *)

LEMMA WriteUploadKeeps ==
  ASSUME IInv, NEW r \in Requests, NEW v \in VehicleIds, NEW file \in Files,
         NEW link \in Links, NEW primary \in BOOLEAN,
         WriteUpload(r, v, file, link, primary)
  PROVE  IInv'
<1> DEFINE q == [at |-> "written", vehicle |-> v, file |-> file,
                 link |-> link, primary |-> primary]
<1>1. /\ req \in [Requests -> RequestStates] /\ TablesOK /\ FormsOK'
      /\ FilesAccounted(req, images, files, spent)
  BY IInvParts DEF RequestsOK, FormsOK, FormsHaveNoFiles, WriteUpload
<1>2. q \in Uploads /\ q.file = file /\ Uploading(q)
  BY DEF Uploads, Uploading
<1>3. /\ q \in RequestStates /\ Carried(q) = {file}
      /\ ~Saving(q) /\ ~Removing(q) /\ q.at # "read"
  BY <1>2 DEF RequestStates, Carried, Uploading, Saving, Removing
<1>4. req' = [req EXCEPT ![r] = q]
  BY DEF WriteUpload
<1> HIDE DEF q
<1>5. /\ files \subseteq spent /\ spent \subseteq spent'
      /\ {file} \cap spent = {} /\ NoFile \notin {file}
  BY <1>1, NoFileAssumption DEF WriteUpload, TablesOK
<1>6. FilesAccounted([req EXCEPT ![r] = q], images, files \cup {file}, spent')
  BY <1>1, <1>3, <1>5, RequestMoves
<1>7. FilesAccounted(req', images', files', spent')
  BY <1>4, <1>6 DEF WriteUpload
<1>8. TablesOK' /\ RequestsOK'
  BY <1>1, <1>3, <1>4 DEF WriteUpload, TablesOK, RequestsOK
<1> QED
  BY <1>1, <1>7, <1>8, IInvParts

LEMMA RemoveUploadKeeps ==
  ASSUME IInv, NEW r \in Requests, RemoveUpload(r)
  PROVE  IInv'
<1> DEFINE file == req[r].file
<1>1. /\ req \in [Requests -> RequestStates] /\ TablesOK /\ FormsOK'
      /\ FilesAccounted(req, images, files, spent)
  BY IInvParts DEF RequestsOK, FormsOK, FormsHaveNoFiles, RemoveUpload
<1>2. Uploading(req[r]) /\ Carried(req[r]) = {file}
  BY DEF RemoveUpload, Uploading, Carried
<1>3. /\ file # NoFile
      /\ \A i \in DOMAIN images : images[i].file # file
      /\ \A s \in Requests : s # r => file \notin Carried(req[s])
  <2>1. file # NoFile
    BY <1>1, <1>2, CarriedFiles, NoFileAssumption
  <2> QED
    BY <1>1, <1>2, <2>1 DEF FilesAccounted, RequestsOwnFiles
<1> HIDE DEF file
<1>4. FilesAccounted([req EXCEPT ![r] = Idle], images, files \ {file}, spent)
  BY <1>1, <1>3, FileGoes
<1>5. FilesAccounted(req', images', files', spent')
  BY <1>4 DEF RemoveUpload, Finish, file
<1>6. TablesOK' /\ RequestsOK'
  BY <1>1, IdleFits DEF RemoveUpload, Finish, TablesOK, RequestsOK
<1> QED
  BY <1>1, <1>5, <1>6, IInvParts

LEMMA RemoveFileKeeps ==
  ASSUME IInv, NEW r \in Requests, RemoveFile(r)
  PROVE  IInv'
<1> DEFINE file == req[r].file
<1>1. /\ req \in [Requests -> RequestStates] /\ TablesOK /\ FormsOK'
      /\ FilesAccounted(req, images, files, spent)
  BY IInvParts DEF RequestsOK, FormsOK, FormsHaveNoFiles, RemoveFile
<1>2. Removing(req[r])
  BY DEF RemoveFile, Removing
<1>3. /\ file # NoFile
      /\ \A i \in DOMAIN images : images[i].file # file
      /\ \A s \in Requests : file \notin Carried(req[s])
  <2>1. file # NoFile
    BY <1>1, <1>2, CarriedFiles, NoFileAssumption
  <2> QED
    BY <1>1, <1>2, <2>1 DEF FilesAccounted, RemovalsAreFree
<1> HIDE DEF file
<1>4. FilesAccounted([req EXCEPT ![r] = Idle], images, files \ {file}, spent)
  BY <1>1, <1>3, FileGoes
<1>5. FilesAccounted(req', images', files', spent')
  BY <1>4 DEF RemoveFile, Finish, file
<1>6. TablesOK' /\ RequestsOK'
  BY <1>1, IdleFits DEF RemoveFile, Finish, TablesOK, RequestsOK
<1> QED
  BY <1>1, <1>5, <1>6, IInvParts

LEMMA LocalizeKeeps ==
  ASSUME IInv, NEW r \in Requests, NEW x \in req[r].inputs, NEW file \in Files,
         Localize(r, x, file)
  PROVE  IInv'
<1> DEFINE y == [x EXCEPT !.file = file]
           q == [req[r] EXCEPT !.inputs = (@ \ {x}) \cup {y}]
<1>1. /\ req \in [Requests -> RequestStates] /\ TablesOK /\ FormsOK'
      /\ FilesAccounted(req, images, files, spent)
  BY IInvParts DEF RequestsOK, FormsOK, FormsHaveNoFiles, Localize
<1>2. req[r] \in Saves /\ Saving(req[r]) /\ ~Uploading(req[r])
  BY <1>1, Kinds DEF Localize, Saving, Uploading
<1>3. y \in Inputs /\ y.file = file
  BY <1>2 DEF Saves, Inputs
<1>4. q \in Saves /\ q.inputs = (req[r].inputs \ {x}) \cup {y}
  BY <1>2, <1>3 DEF Saves
<1>5. q \in RequestStates
  BY <1>4 DEF RequestStates
<1>6. Saving(q) /\ ~Uploading(q) /\ ~Removing(q) /\ q.at # "read"
  BY <1>4 DEF Saves, Saving, Uploading, Removing
<1>7. req' = [req EXCEPT ![r] = q]
  BY DEF Localize
<1> HIDE DEF q, y
<1>8. Carried(req[r]) = {z.file : z \in req[r].inputs} \ {NoFile}
      /\ Carried(q) = {z.file : z \in q.inputs} \ {NoFile}
  BY <1>2, <1>6 DEF Carried
<1>9. Carried(q) \subseteq Carried(req[r]) \cup {file}
  BY <1>3, <1>4, <1>8
<1>10. Carried(req[r]) \subseteq spent /\ file \notin spent
  BY <1>1 DEF FilesAccounted, RequestsOwnFiles, TablesOK, Localize
<1>11. \A a, b \in q.inputs : a.file = b.file => a = b \/ a.file = NoFile
  <2>1. \A a, b \in req[r].inputs : a.file = b.file => a = b \/ a.file = NoFile
    BY <1>1, <1>2 DEF FilesAccounted, RequestsOwnFiles
  <2>2. \A a \in req[r].inputs : a.file # file
    BY <1>8, <1>10, NoFileAssumption
  <2> QED
    BY <1>3, <1>4, <2>1, <2>2
<1>12. /\ files \subseteq spent /\ spent \subseteq spent'
       /\ {file} \cap spent = {} /\ NoFile \notin {file}
  BY <1>1, NoFileAssumption DEF Localize, TablesOK
<1>13. FilesAccounted([req EXCEPT ![r] = q], images, files \cup {file}, spent')
  BY <1>1, <1>5, <1>6, <1>9, <1>11, <1>12, RequestMoves
<1>14. FilesAccounted(req', images', files', spent')
  BY <1>7, <1>13 DEF Localize
<1>15. TablesOK' /\ RequestsOK'
  BY <1>1, <1>5, <1>7 DEF Localize, TablesOK, RequestsOK
<1> QED
  BY <1>1, <1>14, <1>15, IInvParts

----------------------------------------------------------------------------
(* Rows come and go; those that stay keep their files.                       *)

RowsKeepFiles ==
  \A i \in DOMAIN images \cap DOMAIN images' : images'[i].file = images[i].file

LEMMA InsertImageKeeps ==
  ASSUME IInv, NEW r \in Requests, NEW i \in ImageIds, InsertImage(r, i)
  PROVE  IInv' /\ RowsKeepFiles
<1> DEFINE v == req[r].vehicle
           primary == req[r].primary \/ ImagesOf(v) = {}
           others == [x \in DOMAIN images |->
                        IF primary /\ images[x].vehicle = v
                          THEN [images[x] EXCEPT !.primary = FALSE] ELSE images[x]]
           row == [vehicle |-> v, url |-> i, file |-> req[r].file,
                   link |-> req[r].link, primary |-> primary]
<1>1. /\ req \in [Requests -> RequestStates] /\ TablesOK /\ FormsOK'
      /\ FilesAccounted(req, images, files, spent)
  BY IInvParts DEF RequestsOK, FormsOK, FormsHaveNoFiles, InsertImage
<1>2. req[r] \in Uploads /\ Uploading(req[r]) /\ Carried(req[r]) = {req[r].file}
  BY <1>1, Kinds DEF InsertImage, Uploading, Carried
<1>3. primary \in BOOLEAN
  BY <1>2 DEF Uploads
<1>4. row \in ImageRows /\ row.file = req[r].file
  BY <1>2, <1>3 DEF Uploads, ImageRows
<1>5. \A x \in DOMAIN images : others[x] \in ImageRows /\ others[x].file = images[x].file
  BY <1>1 DEF TablesOK, ImageRows
<1>6. /\ images' = With(others, i, row) /\ i \notin spent /\ spent' = spent \cup {i}
      /\ DOMAIN others = DOMAIN images
  BY DEF InsertImage
<1> HIDE DEF v, primary, others, row
<1>7. /\ DOMAIN images' = DOMAIN images \cup {i} /\ images'[i] = row
      /\ \A x \in DOMAIN images : images'[x] = IF x = i THEN row ELSE others[x]
  BY <1>6 DEF With
<1>8. DOMAIN images \subseteq spent /\ spent \subseteq spent'
  BY <1>1, <1>6 DEF TablesOK
<1>9. \A x \in DOMAIN images' :
         \/ x \in DOMAIN images /\ images'[x].file = images[x].file
         \/ x \notin spent /\ images'[x].file \in Carried(req[r]) \cup {NoFile}
  BY <1>2, <1>4, <1>5, <1>6, <1>7, <1>8
<1>10. \A x, y \in DOMAIN images' \ spent :
         images'[x].file = images'[y].file => x = y \/ images'[x].file = NoFile
  BY <1>7, <1>8
<1>11. FilesAccounted([req EXCEPT ![r] = Idle], images', files, spent')
  BY <1>1, <1>8, <1>9, <1>10, IdleFits, RowsChange
<1>12. FilesAccounted(req', images', files', spent')
  BY <1>11 DEF InsertImage, Finish
<1>13. TablesOK'
  <2>1. \A x \in DOMAIN images' : images'[x] \in ImageRows
    BY <1>4, <1>5, <1>7
  <2>2. DOMAIN images' \subseteq ImageIds
    BY <1>1, <1>7 DEF TablesOK
  <2> QED
    BY <1>1, <1>6, <1>7, <2>1, <2>2 DEF TablesOK, InsertImage
<1>14. RequestsOK'
  BY <1>1, IdleFits DEF InsertImage, Finish, RequestsOK
<1>15. RowsKeepFiles
  BY <1>8, <1>9 DEF RowsKeepFiles
<1> QED
  BY <1>1, <1>12, <1>13, <1>14, <1>15, IInvParts

LEMMA DeleteImageKeeps ==
  ASSUME IInv, NEW r \in Requests, DeleteImage(r)
  PROVE  IInv' /\ RowsKeepFiles
<1> DEFINE i == req[r].image
           q == AfterDelete(r)
<1>1. /\ req \in [Requests -> RequestStates] /\ TablesOK /\ FormsOK'
      /\ FilesAccounted(req, images, files, spent)
  BY IInvParts DEF RequestsOK, FormsOK, FormsHaveNoFiles, DeleteImage
<1>2. req[r] \in Deletes /\ i \in DOMAIN images /\ images[i].file = req[r].file
  BY <1>1, Kinds DEF DeleteImage, FilesAccounted, ReadsAreCurrent
<1>3. /\ q \in RequestStates /\ Carried(q) = {} /\ ~Saving(q) /\ q.at # "read"
      /\ Removing(q) => q.file = req[r].file /\ req[r].file # NoFile
  <2>1. CASE req[r].file = NoFile
    BY <2>1, IdleFits DEF AfterDelete
  <2>2. CASE req[r].file # NoFile
    <3>1. q \in Removals /\ q.file = req[r].file
      BY <1>2, <2>2 DEF AfterDelete, Deletes, Removals
    <3> QED
      BY <2>2, <3>1 DEF RequestStates, Removals, Carried, Uploading, Saving
  <2> QED
    BY <2>1, <2>2
<1>4. /\ DOMAIN images' \subseteq DOMAIN images \ {i}
      /\ \A x \in DOMAIN images' : images'[x] \in ImageRows /\ images'[x].file = images[x].file
  <2> DEFINE Promoted(p) == [x \in DOMAIN images |->
                IF x = p THEN [images[x] EXCEPT !.primary = TRUE] ELSE images[x]]
  <2>1. ASSUME NEW p
        PROVE  /\ DOMAIN Promoted(p) = DOMAIN images
               /\ \A x \in DOMAIN images :
                     Promoted(p)[x] \in ImageRows /\ Promoted(p)[x].file = images[x].file
    BY <1>1 DEF TablesOK, ImageRows
  <2>2. \/ \E p : images' = Without(Promoted(p), {i})
        \/ images' = Without(images, {i})
    BY DEF DeleteImage
  <2>3. CASE images' = Without(images, {i})
    BY <1>1, <2>3 DEF TablesOK, Without
  <2>4. ASSUME NEW p, images' = Without(Promoted(p), {i})
        PROVE  /\ DOMAIN images' \subseteq DOMAIN images \ {i}
               /\ \A x \in DOMAIN images' :
                     images'[x] \in ImageRows /\ images'[x].file = images[x].file
    <3> HIDE DEF Promoted
    <3>1. /\ DOMAIN images' = DOMAIN images \ {i}
          /\ \A x \in DOMAIN images' : images'[x] = Promoted(p)[x]
      BY <2>1, <2>4 DEF Without
    <3> QED
      BY <2>1, <3>1
  <2> QED
    BY <2>2, <2>3, <2>4
<1>5. req' = [req EXCEPT ![r] = q] /\ UNCHANGED <<vehicles, maintenance, files, spent, forms>>
  BY DEF DeleteImage
<1> HIDE DEF i, q
<1>6. DOMAIN images \subseteq spent
  BY <1>1 DEF TablesOK
<1>7. Removing(q) => /\ q.file \in spent
                     /\ \A x \in DOMAIN images' : images'[x].file # q.file
                     /\ \A s \in Requests : q.file \notin Carried(req[s])
  <2> SUFFICES ASSUME Removing(q)
               PROVE  /\ q.file \in spent
                      /\ \A x \in DOMAIN images' : images'[x].file # q.file
                      /\ \A s \in Requests : q.file \notin Carried(req[s])
    OBVIOUS
  <2>1. q.file = images[i].file /\ q.file # NoFile
    BY <1>2, <1>3
  <2>2. q.file \in files
    BY <1>1, <1>2, <2>1 DEF FilesAccounted, RowsOwnFiles
  <2>3. \A x \in DOMAIN images' : images'[x].file # q.file
    BY <1>1, <1>2, <1>4, <2>1 DEF FilesAccounted, RowsOwnFiles
  <2>4. \A s \in Requests : q.file \notin Carried(req[s])
    BY <1>1, <1>2, <2>1 DEF FilesAccounted, RequestsOwnFiles
  <2> QED
    BY <1>1, <2>2, <2>3, <2>4 DEF TablesOK
<1>8. /\ \A x \in DOMAIN images' : x \in DOMAIN images /\ images'[x].file = images[x].file
      /\ DOMAIN images' \ spent = {}
  BY <1>4, <1>6
<1>9. FilesAccounted([req EXCEPT ![r] = q], images', files, spent)
  BY <1>1, <1>3, <1>6, <1>7, <1>8, RowsChange
<1>10. FilesAccounted(req', images', files', spent')
  BY <1>5, <1>9
<1>11. TablesOK' /\ RequestsOK'
  BY <1>1, <1>3, <1>4, <1>5 DEF TablesOK, RequestsOK
<1>12. RowsKeepFiles
  BY <1>8 DEF RowsKeepFiles
<1> QED
  BY <1>1, <1>10, <1>11, <1>12, IInvParts

(* Rows go with their vehicle, and maintenance entries come and go.          *)
LEMMA TablesShrink ==
  ASSUME IInv, TablesOK',
         \A i \in DOMAIN images' : i \in DOMAIN images /\ images'[i].file = images[i].file,
         spent \subseteq spent', files' = files, UNCHANGED <<forms, req>>
  PROVE  IInv'
<1>1. /\ req \in [Requests -> RequestStates] /\ FormsOK' /\ RequestsOK'
      /\ FilesAccounted(req, images, files, spent)
  BY IInvParts DEF RequestsOK, FormsOK, FormsHaveNoFiles
<1>2. FilesAccounted(req, images', files, spent')
  BY <1>1, RowsGo
<1> QED
  BY <1>1, <1>2, IInvParts

LEMMA CreateVehicleKeeps ==
  ASSUME IInv, NEW v \in VehicleIds, CreateVehicle(v)
  PROVE  IInv'
<1>1. TablesOK
  BY IInvParts
<1>2. TablesOK'
  BY <1>1 DEF CreateVehicle, TablesOK
<1> QED
  BY <1>2, TablesShrink DEF CreateVehicle

LEMMA DeleteVehicleKeeps ==
  ASSUME IInv, NEW v \in VehicleIds, DeleteVehicle(v)
  PROVE  IInv'
<1>1. TablesOK
  BY IInvParts
<1>2. TablesOK'
  BY <1>1 DEF DeleteVehicle, TablesOK, Without
<1>3. \A i \in DOMAIN images' : i \in DOMAIN images /\ images'[i].file = images[i].file
  BY DEF DeleteVehicle, Without
<1> QED
  BY <1>2, <1>3, TablesShrink DEF DeleteVehicle

LEMMA DeleteMaintenanceKeeps ==
  ASSUME IInv, NEW m \in MaintenanceIds, DeleteMaintenance(m)
  PROVE  IInv'
<1>1. TablesOK
  BY IInvParts
<1>2. TablesOK'
  BY <1>1 DEF DeleteMaintenance, TablesOK, Without
<1> QED
  BY <1>2, TablesShrink DEF DeleteMaintenance

LEMMA InsertMaintenanceKeeps ==
  ASSUME IInv, NEW r \in Requests, NEW m \in MaintenanceIds, InsertMaintenance(r, m)
  PROVE  IInv'
<1>1. /\ req \in [Requests -> RequestStates] /\ TablesOK /\ FormsOK'
      /\ FilesAccounted(req, images, files, spent)
  BY IInvParts DEF RequestsOK, FormsOK, FormsHaveNoFiles, InsertMaintenance
<1>2. req[r].vehicle \in VehicleIds
  BY <1>1, Kinds DEF InsertMaintenance, Repairs
<1>3. TablesOK'
  BY <1>1, <1>2 DEF InsertMaintenance, TablesOK, With
<1>4. /\ spent \subseteq spent' /\ DOMAIN images \subseteq spent
      /\ images' = images /\ files' = files /\ req' = [req EXCEPT ![r] = Idle]
  BY <1>1 DEF InsertMaintenance, Finish, TablesOK
<1>5. FilesAccounted([req EXCEPT ![r] = Idle], images, files, spent')
  BY <1>1, <1>4, IdleFits, RowsChange
<1>6. FilesAccounted(req', images', files', spent') /\ RequestsOK'
  BY <1>1, <1>4, <1>5, IdleFits DEF RequestsOK
<1> QED
  BY <1>1, <1>3, <1>6, IInvParts

(* The row a saved form makes of an image: one that keeps the file of its    *)
(* row, or a new one with the file of the form.                              *)
LEMMA SavedRow ==
  ASSUME TablesOK, NEW v \in VehicleIds, NEW kept \in SUBSET Inputs,
         NEW id \in Assignments(kept, v), NEW x \in kept, NEW primary \in BOOLEAN
  PROVE  /\ id[x] \in ImageIds
         /\ Saved(x, id[x], v, primary) \in ImageRows
         /\ \/ /\ id[x] \in DOMAIN images
               /\ Saved(x, id[x], v, primary).file = images[id[x]].file
            \/ /\ id[x] \notin spent
               /\ Saved(x, id[x], v, primary).file = x.file
<1> DEFINE i == id[x]
           file == IF Known(x, v) = {} THEN x.file ELSE images[i].file
<1>1. /\ i \in ImageIds
      /\ Known(x, v) = {} => i \notin spent
      /\ Known(x, v) # {} => i \in Known(x, v)
  BY DEF Assignments
<1>2. \A k \in Known(x, v) : k \in DOMAIN images
  BY DEF Known, ImagesOf
<1>3. x \in Inputs
  OBVIOUS
<1>4. file \in Files \cup {NoFile}
  BY <1>1, <1>2, <1>3 DEF TablesOK, ImageRows, Inputs
<1>5. Saved(x, i, v, primary) = [vehicle |-> v, link |-> x.link, primary |-> primary,
                                 file |-> file, url |-> IF file = NoFile THEN x.url ELSE i]
  BY DEF Saved
<1>6. Saved(x, i, v, primary).file = file
  BY <1>5
<1>7. x.link \in Links /\ (IF file = NoFile THEN x.url ELSE i) \in ImageIds \cup {Remote}
  BY <1>1, <1>3 DEF Inputs
<1>8. CASE Known(x, v) = {}
  <2>1. i \notin spent /\ file = x.file
    BY <1>1, <1>8
  <2> HIDE DEF file, i
  <2>2. Saved(x, i, v, primary) \in ImageRows
    BY <1>4, <1>5, <1>7 DEF ImageRows
  <2> QED
    BY <1>1, <1>6, <2>1, <2>2 DEF i
<1>9. CASE Known(x, v) # {}
  <2>1. i \in DOMAIN images /\ file = images[i].file
    BY <1>1, <1>2, <1>9
  <2> HIDE DEF file, i
  <2>2. Saved(x, i, v, primary) \in ImageRows
    BY <1>4, <1>5, <1>7 DEF ImageRows
  <2> QED
    BY <1>1, <1>6, <2>1, <2>2 DEF i
<1> QED
  BY <1>8, <1>9

LEMMA SaveImagesKeeps ==
  ASSUME IInv, NEW r \in Requests, SaveImages(r)
  PROVE  IInv' /\ RowsKeepFiles
<1> DEFINE v == req[r].vehicle
<1>1. /\ req \in [Requests -> RequestStates] /\ TablesOK /\ FormsOK'
      /\ FilesAccounted(req, images, files, spent)
  BY IInvParts DEF RequestsOK, FormsOK, FormsHaveNoFiles, SaveImages
<1>2. /\ req[r] \in Saves /\ Saving(req[r])
      /\ Carried(req[r]) = {x.file : x \in req[r].inputs} \ {NoFile}
  BY <1>1, Kinds DEF SaveImages, Saving, Uploading, Carried
<1>3. v \in VehicleIds /\ req[r].inputs \subseteq Inputs
  BY <1>2 DEF Saves
<1>0. PICK kept \in SUBSET req[r].inputs :
         \E id \in Assignments(kept, v), first \in kept \cup {Fresh(NoLink)} :
            /\ images' = Replaced(v, kept, id, first)
            /\ spent' = spent \cup {id[x] : x \in kept}
  BY DEF SaveImages
<1>4. PICK id \in Assignments(kept, v), first \in kept \cup {Fresh(NoLink)} :
         /\ images' = Replaced(v, kept, id, first)
         /\ spent' = spent \cup {id[x] : x \in kept}
  BY <1>0
<1>5. req' = [req EXCEPT ![r] = Idle] /\ UNCHANGED <<vehicles, maintenance, files, forms>>
  BY DEF SaveImages, Finish
<1> HIDE DEF v
<1> DEFINE inserted == {id[x] : x \in kept}
           Input(i) == CHOOSE x \in kept : id[x] = i
<1>6. \A i \in inserted : Input(i) \in kept /\ id[Input(i)] = i
  OBVIOUS
<1>7. /\ DOMAIN images' = (DOMAIN images \ ImagesOf(v)) \cup inserted
      /\ \A i \in DOMAIN images' :
            images'[i] = IF i \in inserted THEN Saved(Input(i), i, v, Input(i) = first)
                                           ELSE images[i]
  BY <1>4 DEF Replaced
<1> HIDE DEF inserted, Input
<1>8. ASSUME NEW i \in inserted
      PROVE  /\ i \in ImageIds /\ images'[i] \in ImageRows
             /\ \/ i \in DOMAIN images /\ images'[i].file = images[i].file
                \/ i \notin spent /\ images'[i].file = Input(i).file
  <2>1. (Input(i) = first) \in BOOLEAN
    OBVIOUS
  <2> DEFINE primary == Input(i) = first
  <2>2. images'[i] = Saved(Input(i), i, v, primary) /\ primary \in BOOLEAN
    BY <1>7, <2>1
  <2> HIDE DEF primary
  <2>3. kept \in SUBSET Inputs /\ Input(i) \in kept /\ id[Input(i)] = i
    BY <1>3, <1>6
  <2> QED
    BY <1>1, <1>3, <2>2, <2>3, SavedRow
<1>9. \A i \in DOMAIN images' : i \notin inserted =>
         i \in DOMAIN images /\ images'[i] = images[i]
  BY <1>7
<1>10. DOMAIN images \subseteq spent /\ spent \subseteq spent' /\ inserted \subseteq spent'
  BY <1>1, <1>4 DEF TablesOK, inserted
<1>11. \A i \in DOMAIN images' :
         \/ i \in DOMAIN images /\ images'[i].file = images[i].file
         \/ i \notin spent /\ images'[i].file \in Carried(req[r]) \cup {NoFile}
  <2>1. \A i \in inserted : Input(i).file \in Carried(req[r]) \cup {NoFile}
    BY <1>2, <1>6
  <2> QED
    BY <1>8, <1>9, <2>1
<1>12. \A i, j \in DOMAIN images' \ spent :
         images'[i].file = images'[j].file => i = j \/ images'[i].file = NoFile
  <2> SUFFICES ASSUME NEW i \in DOMAIN images' \ spent, NEW j \in DOMAIN images' \ spent,
                      images'[i].file = images'[j].file, images'[i].file # NoFile
               PROVE  i = j
    OBVIOUS
  <2>1. i \in inserted /\ j \in inserted
    BY <1>9, <1>10
  <2>2. images'[i].file = Input(i).file /\ images'[j].file = Input(j).file
    BY <1>8, <1>10, <2>1
  <2>3. \A x, y \in req[r].inputs : x.file = y.file => x = y \/ x.file = NoFile
    BY <1>1, <1>2 DEF FilesAccounted, RequestsOwnFiles
  <2>4. Input(i) = Input(j)
    BY <1>6, <2>1, <2>2, <2>3
  <2> QED
    BY <1>6, <2>1, <2>4
<1>13. FilesAccounted([req EXCEPT ![r] = Idle], images', files, spent')
  BY <1>1, <1>10, <1>11, <1>12, IdleFits, RowsChange
<1>14. FilesAccounted(req', images', files', spent')
  BY <1>5, <1>13
<1>15. TablesOK'
  <2>1. \A i \in DOMAIN images' : images'[i] \in ImageRows
    BY <1>1, <1>8, <1>9 DEF TablesOK
  <2>2. DOMAIN images' \subseteq ImageIds
    BY <1>1, <1>7, <1>8 DEF TablesOK
  <2>3. DOMAIN images' \subseteq spent'
    BY <1>7, <1>10
  <2> QED
    BY <1>1, <1>5, <1>10, <2>1, <2>2, <2>3 DEF TablesOK
<1>16. RequestsOK'
  BY <1>1, <1>5, IdleFits DEF RequestsOK
<1>17. RowsKeepFiles
  BY <1>10, <1>11 DEF RowsKeepFiles
<1> QED
  BY <1>1, <1>14, <1>15, <1>16, <1>17, IInvParts

----------------------------------------------------------------------------
(* Every step.                                                               *)

LEMMA FindVehicleKeeps ==
  ASSUME IInv, NEW r \in Requests, FindVehicle(r)
  PROVE  IInv'
<1>1. Uploading(req[r])
  BY DEF FindVehicle, Uploading
<1>2. PICK at \in {"found", "refused"} : Goto(r, at)
  BY DEF FindVehicle
<1> QED
  BY <1>1, <1>2, UploadGoesOn DEF FindVehicle

LEMMA CheckLinkKeeps ==
  ASSUME IInv, NEW r \in Requests, CheckLink(r)
  PROVE  IInv'
<1>1. Uploading(req[r])
  BY DEF CheckLink, Uploading
<1>2. PICK at \in {"linked", "refused"} : Goto(r, at)
  BY DEF CheckLink
<1> QED
  BY <1>1, <1>2, UploadGoesOn DEF CheckLink

LEMMA RefuseUploadKeeps ==
  ASSUME IInv, NEW r \in Requests, RefuseUpload(r)
  PROVE  IInv'
<1>1. Uploading(req[r])
  BY DEF RefuseUpload, Uploading
<1> QED
  BY <1>1, UploadGoesOn DEF RefuseUpload

(* A form shows images without their storage paths.                          *)
LEMMA OpenFormKeeps ==
  ASSUME IInv, NEW f \in Forms, NEW v \in VehicleIds, OpenForm(f, v)
  PROVE  IInv'
<1> DEFINE shown == {[id |-> i, url |-> images[i].url, file |-> NoFile,
                      link |-> images[i].link] : i \in ImagesOf(v)}
           form == [vehicle |-> v, inputs |-> shown]
<1>1. TablesOK /\ FormsOK /\ RequestsOK /\ FilesAccounted(req, images, files, spent)
  BY IInvParts
<1>2. \A i \in ImagesOf(v) : /\ i \in ImageIds
                            /\ images[i].url \in ImageIds \cup {Remote}
                            /\ images[i].link \in Links
  BY <1>1 DEF TablesOK, ImagesOf, ImageRows
<1>3. \A x \in shown : x \in Inputs /\ x.file = NoFile
  BY <1>2 DEF Inputs
<1>4. forms' = [forms EXCEPT ![f] = form]
  BY DEF OpenForm
<1> HIDE DEF shown
<1>5. form \in OpenForms /\ form.inputs = shown
  BY <1>3 DEF OpenForms
<1> HIDE DEF form
<1>6. FormsOK'
  BY <1>1, <1>3, <1>4, <1>5 DEF FormsOK, FormsHaveNoFiles
<1>7. TablesOK' /\ RequestsOK' /\ FilesAccounted(req', images', files', spent')
  BY <1>1 DEF OpenForm, TablesOK, RequestsOK
<1> QED
  BY <1>6, <1>7, IInvParts

(* Requests that ended hold no files.                                        *)
LEMMA RestartKeeps ==
  ASSUME IInv, Restart
  PROVE  IInv'
<1>1. TablesOK /\ FormsOK /\ FilesAccounted(req, images, files, spent)
  BY IInvParts
<1>2. TablesOK' /\ FormsOK' /\ RequestsOK'
  BY <1>1, IdleFits DEF Restart, TablesOK, FormsOK, FormsHaveNoFiles, RequestsOK
<1>3. \A r \in Requests : req'[r] = Idle
  BY DEF Restart
<1>4. RowsOwnFiles(images, files)
  BY <1>1 DEF FilesAccounted
<1>5. /\ RequestsOwnFiles(req', images, files)
      /\ RemovalsAreFree(req', images, spent)
      /\ ReadsAreCurrent(req', images, spent)
  BY <1>3, IdleFits DEF RequestsOwnFiles, RemovalsAreFree, ReadsAreCurrent
<1>6. FilesAccounted(req', images', files', spent')
  BY <1>4, <1>5 DEF FilesAccounted, Restart
<1> QED
  BY <1>2, <1>6, IInvParts

LEMMA IInvStart == Init => IInv
<1> SUFFICES ASSUME Init PROVE IInv
  OBVIOUS
<1>1. TablesOK
  BY DEF Init, TablesOK, NoRows
<1>2. FormsOK
  BY DEF Init, FormsOK, FormsHaveNoFiles, NoForm
<1>3. RequestsOK /\ \A r \in Requests : req[r] = Idle
  BY IdleFits DEF Init, RequestsOK
<1>4. DOMAIN images = {}
  BY DEF Init, NoRows
<1>5. /\ RowsOwnFiles(images, files)
      /\ RequestsOwnFiles(req, images, files)
      /\ RemovalsAreFree(req, images, spent)
      /\ ReadsAreCurrent(req, images, spent)
  BY <1>3, <1>4, IdleFits
     DEF RowsOwnFiles, RequestsOwnFiles, RemovalsAreFree, ReadsAreCurrent
<1> QED
  BY <1>1, <1>2, <1>3, <1>5, IInvParts DEF FilesAccounted

LEMMA IInvStep == IInv /\ [Next]_vars => IInv'
<1> SUFFICES ASSUME IInv, [Next]_vars PROVE IInv'
  OBVIOUS
<1>1. CASE \E v \in VehicleIds : CreateVehicle(v) \/ DeleteVehicle(v)
  BY <1>1, CreateVehicleKeeps, DeleteVehicleKeeps
<1>2. CASE \E m \in MaintenanceIds : DeleteMaintenance(m)
  BY <1>2, DeleteMaintenanceKeeps
<1>3. CASE \E r \in Requests : Upload(r)
  BY <1>3, WriteUploadKeeps, FindVehicleKeeps, CheckLinkKeeps, InsertImageKeeps,
     RefuseUploadKeeps, RemoveUploadKeeps DEF Upload
<1>4. CASE \E r \in Requests : Delete(r)
  <2>1. ASSUME NEW r \in Requests, DeleteFails(r) PROVE IInv'
    BY <2>1, Finishes DEF DeleteFails
  <2> QED
    BY <1>4, <2>1, ReadImageKeeps, DeleteImageKeeps, CountReferencesKeeps,
       RemoveFileKeeps DEF Delete
<1>5. CASE \E r \in Requests : Save(r)
  <2>1. ASSUME NEW r \in Requests, SaveFails(r) PROVE IInv'
    BY <2>1, Finishes DEF SaveFails
  <2> QED
    BY <1>5, <2>1, BeginSaveKeeps, LocalizeKeeps, LocalizedKeeps, SaveImagesKeeps DEF Save
<1>6. CASE \E r \in Requests : \E v \in VehicleIds : BeginMaintenance(r, v)
  BY <1>6, BeginMaintenanceKeeps
<1>7. CASE \E r \in Requests : \E m \in MaintenanceIds : InsertMaintenance(r, m)
  BY <1>7, InsertMaintenanceKeeps
<1>8. CASE \E f \in Forms, v \in VehicleIds : OpenForm(f, v)
  BY <1>8, OpenFormKeeps
<1>9. CASE Restart
  BY <1>9, RestartKeeps
<1>10. CASE UNCHANGED vars
  <2>1. TablesOK' /\ FormsOK' /\ RequestsOK' /\ FilesAccounted(req', images', files', spent')
    BY <1>10, IInvParts DEF vars, TablesOK, FormsOK, FormsHaveNoFiles, RequestsOK
  <2> QED
    BY <2>1, IInvParts
<1> QED
  BY <1>1, <1>2, <1>3, <1>4, <1>5, <1>6, <1>7, <1>8, <1>9, <1>10 DEF Next

LEMMA Invariance == Spec => []IInv
BY IInvStart, IInvStep, PTL DEF Spec

(* The tables, forms and requests keep their shape.                          *)
THEOREM TypeCorrect == Spec => []TypeOK
<1>1. IInv => TypeOK
  BY DEF IInv
<1> QED
  BY <1>1, Invariance, PTL

(* The file of an image row is on disk, however uploads, deletes, saved      *)
(* forms, failures and restarts interleave.                                  *)
THEOREM FilesExist == Spec => []RowFilesExist
<1>1. IInv => RowFilesExist
  BY DEF IInv, FilesAccounted, RowsOwnFiles, RowFilesExist
<1> QED
  BY <1>1, Invariance, PTL

(* No two image rows share a file.                                           *)
THEOREM FilesAreDistinct == Spec => []FilesNotShared
<1>1. IInv => FilesNotShared
  BY DEF IInv, FilesAccounted, RowsOwnFiles, FilesNotShared
<1> QED
  BY <1>1, Invariance, PTL

(* A row keeps its file: forms, which do not show storage paths, included.    *)
THEOREM FilesStayWithRows == Spec => ImagesKeepTheirFiles
<1> DEFINE P == \A i \in DOMAIN images \cap DOMAIN images' :
                  images'[i].file = images[i].file
<1>1. ASSUME IInv, Next PROVE P
  <2>1. CASE \E r \in Requests : \/ \E i \in ImageIds : InsertImage(r, i)
                               \/ DeleteImage(r) \/ SaveImages(r)
    BY <1>1, <2>1, InsertImageKeeps, DeleteImageKeeps, SaveImagesKeeps DEF RowsKeepFiles
  <2>2. CASE \E v \in VehicleIds : DeleteVehicle(v)
    BY <2>2 DEF DeleteVehicle, Without
  <2>3. CASE images' = images
    BY <2>3
  <2>4. \/ images' = images
        \/ \E v \in VehicleIds : DeleteVehicle(v)
        \/ \E r \in Requests : \/ \E i \in ImageIds : InsertImage(r, i)
                              \/ DeleteImage(r) \/ SaveImages(r)
    BY <1>1 DEF Next, Upload, Delete, Save, CreateVehicle, DeleteMaintenance,
       BeginMaintenance, InsertMaintenance, OpenForm, Restart, WriteUpload,
       FindVehicle, CheckLink, RefuseUpload, RemoveUpload, ReadImage, DeleteFails,
       CountReferences, RemoveFile, BeginSave, Localize, Localized, SaveFails
  <2> QED
    BY <2>1, <2>2, <2>3, <2>4
<1>2. IInv /\ [Next]_vars => [P]_vars
  BY <1>1
<1> HIDE DEF P
<1>3. Spec => [][P]_vars
  BY <1>2, Invariance, PTL DEF Spec
<1> QED
  BY <1>3 DEF P, ImagesKeepTheirFiles

----------------------------------------------------------------------------
(* One primary image, as long as requests come one at a time.                *)

(* Vehicle w has one primary image among the rows of im, or no image.        *)
PrimaryIn(im, w) ==
  \/ \A i \in DOMAIN im : im[i].vehicle # w
  \/ \E i \in DOMAIN im : /\ im[i].vehicle = w
                          /\ \A j \in DOMAIN im :
                                im[j].vehicle = w => (im[j].primary <=> j = i)

(* What a delete has read of the flag and the link of its image still holds. *)
ReadsHold ==
  \A r \in Requests : req[r].at = "read" /\ req[r].image \in DOMAIN images =>
     /\ images[req[r].image].primary = req[r].primary
     /\ images[req[r].image].link = NoLink

OneAtATime ==
  \A r, s \in Requests : req[r] # Idle /\ req[s] # Idle => r = s

InTurn ==
  overlapped \in BOOLEAN /\ (~overlapped => OneAtATime /\ OnePrimary /\ ReadsHold)

(* Of finitely many requests, no two are under way.                          *)
LEMMA AtMostOne ==
  ASSUME NEW S, S \subseteq Requests, ~(Cardinality(S) > 1), NEW r \in S, NEW s \in S
  PROVE  r = s
<1>1. IsFiniteSet(S)
  BY RequestsAssumption, FS_Subset
<1>2. Cardinality(S) \in Nat /\ Cardinality(S) # 0
  BY <1>1, FS_CardinalityType, FS_EmptySet
<1>3. Cardinality(S) = 1
  BY <1>2
<1>4. PICK x : S = {x}
  BY <1>1, <1>3, FS_Singleton
<1> QED
  BY <1>4

LEMMA StaysInTurn ==
  ASSUME MCNext, InTurn, ~overlapped'
  PROVE  ~overlapped /\ OneAtATime /\ OneAtATime' /\ OnePrimary /\ ReadsHold
<1>1. ~overlapped /\ ~(Cardinality(Busy') > 1)
  BY DEF MCNext, InTurn
<1>2. ASSUME NEW r \in Requests, NEW s \in Requests, req'[r] # Idle, req'[s] # Idle
      PROVE  r = s
  <2>1. Busy' \subseteq Requests /\ r \in Busy' /\ s \in Busy'
    BY <1>2 DEF Busy
  <2> HIDE DEF Busy
  <2> QED
    BY <1>1, <2>1, AtMostOne
<1> QED
  BY <1>1, <1>2 DEF InTurn, OneAtATime

LEMMA OnePrimaryMeans ==
  /\ OnePrimary <=> \A w \in VehicleIds : PrimaryIn(images, w)
  /\ OnePrimary' <=> \A w \in VehicleIds : PrimaryIn(images', w)
BY DEF OnePrimary, PrimaryIn, ImagesOf

(* Rows of other vehicles do not matter.                                     *)
LEMMA OtherRows ==
  ASSUME NEW im, NEW im2, NEW w, PrimaryIn(im, w),
         \A i \in DOMAIN im : im[i].vehicle = w => i \in DOMAIN im2,
         \A i \in DOMAIN im2 : im2[i].vehicle = w =>
            i \in DOMAIN im /\ im[i].vehicle = w,
         \A i \in DOMAIN im : im[i].vehicle = w =>
            im2[i].vehicle = w /\ im2[i].primary = im[i].primary
  PROVE  PrimaryIn(im2, w)
<1>1. CASE \A i \in DOMAIN im : im[i].vehicle # w
  BY <1>1 DEF PrimaryIn
<1>2. CASE \E i \in DOMAIN im : /\ im[i].vehicle = w
                                /\ \A j \in DOMAIN im :
                                      im[j].vehicle = w => (im[j].primary <=> j = i)
  <2>1. PICK i \in DOMAIN im : /\ im[i].vehicle = w
                               /\ \A j \in DOMAIN im :
                                     im[j].vehicle = w => (im[j].primary <=> j = i)
    BY <1>2
  <2>2. i \in DOMAIN im2 /\ im2[i].vehicle = w
    BY <2>1
  <2>3. ASSUME NEW j \in DOMAIN im2, im2[j].vehicle = w PROVE im2[j].primary <=> j = i
    <3>1. j \in DOMAIN im /\ im[j].vehicle = w /\ im2[j].primary = im[j].primary
      BY <2>3
    <3> QED
      BY <2>1, <3>1
  <2> QED
    BY <2>2, <2>3 DEF PrimaryIn
<1> QED
  BY <1>1, <1>2 DEF PrimaryIn

(* When the only request goes on with something else, nobody has read.       *)
LEMMA NobodyReads ==
  ASSUME IInv, OneAtATime, NEW r \in Requests, req[r] # Idle, NEW q, q.at # "read",
         req' = [req EXCEPT ![r] = q]
  PROVE  ReadsHold'
<1>1. req \in [Requests -> RequestStates]
  BY IInvParts DEF RequestsOK
<1>2. ASSUME NEW s \in Requests PROVE req'[s].at # "read"
  <2>1. CASE s = r
    BY <1>1, <2>1
  <2>2. CASE s # r
    <3>1. req'[s] = Idle
      BY <1>1, <2>2 DEF OneAtATime
    <3> QED
      BY <3>1, IdleFits
  <2> QED
    BY <2>1, <2>2
<1> QED
  BY <1>2 DEF ReadsHold

(* The row of an upload: the first one, or the new primary one.              *)
LEMMA InsertImageInTurn ==
  ASSUME IInv, OneAtATime, OnePrimary, NEW r \in Requests, NEW i \in ImageIds,
         InsertImage(r, i)
  PROVE  OnePrimary' /\ ReadsHold'
<1> DEFINE v == req[r].vehicle
           primary == req[r].primary \/ ImagesOf(v) = {}
           row == [vehicle |-> v, url |-> i, file |-> req[r].file,
                   link |-> req[r].link, primary |-> primary]
<1>1. req \in [Requests -> RequestStates] /\ TablesOK
  BY IInvParts DEF RequestsOK
<1>2. i \notin DOMAIN images
  BY <1>1 DEF InsertImage, TablesOK
<1>3. row.vehicle = v /\ row.primary = primary
  OBVIOUS
<1>4. /\ DOMAIN images' = DOMAIN images \cup {i}
      /\ images'[i] = row
      /\ \A x \in DOMAIN images : images'[x] =
            IF primary /\ images[x].vehicle = v
              THEN [images[x] EXCEPT !.primary = FALSE] ELSE images[x]
  BY <1>2 DEF InsertImage, With
<1>5. \A x \in DOMAIN images : [images[x] EXCEPT !.primary = FALSE].vehicle = images[x].vehicle
                            /\ [images[x] EXCEPT !.primary = FALSE].primary = FALSE
  BY <1>1 DEF TablesOK, ImageRows
<1>6. (req[r].primary \/ ImagesOf(v) = {}) <=> primary
  OBVIOUS
<1> HIDE DEF row, primary, v
<1>7. ASSUME NEW w \in VehicleIds PROVE PrimaryIn(images', w)
  <2>1. PrimaryIn(images, w)
    BY OnePrimaryMeans
  <2>2. CASE w # v
    <3>1. \A x \in DOMAIN images : images[x].vehicle = w =>
             x \in DOMAIN images' /\ images'[x] = images[x]
      BY <1>4, <2>2
    <3>2. \A x \in DOMAIN images' : images'[x].vehicle = w =>
             x \in DOMAIN images /\ images[x].vehicle = w
      BY <1>3, <1>4, <1>5, <2>2
    <3> QED
      BY <2>1, <3>1, <3>2, OtherRows
  <2>3. CASE w = v /\ primary
    <3>1. \A j \in DOMAIN images' : images'[j].vehicle = w => (images'[j].primary <=> j = i)
      BY <1>2, <1>3, <1>4, <1>5, <2>3
    <3>2. i \in DOMAIN images' /\ images'[i].vehicle = w
      BY <1>3, <1>4, <2>3
    <3> QED
      BY <3>1, <3>2 DEF PrimaryIn
  <2>4. CASE w = v /\ ~primary
    <3>1. \E x \in DOMAIN images : images[x].vehicle = w
      BY <1>6, <2>4 DEF ImagesOf
    <3>2. PICK p \in DOMAIN images :
             /\ images[p].vehicle = w
             /\ \A j \in DOMAIN images : images[j].vehicle = w => (images[j].primary <=> j = p)
      BY <2>1, <3>1 DEF PrimaryIn
    <3>3. p \in DOMAIN images' /\ images'[p].vehicle = w /\ p # i
      BY <1>2, <1>4, <2>4, <3>2
    <3>4. \A j \in DOMAIN images' : images'[j].vehicle = w => (images'[j].primary <=> j = p)
      BY <1>3, <1>4, <2>4, <3>2, <3>3
    <3> QED
      BY <3>3, <3>4 DEF PrimaryIn
  <2> QED
    BY <2>2, <2>3, <2>4
<1>8. req[r] # Idle /\ req' = [req EXCEPT ![r] = Idle]
  BY DEF InsertImage, Finish, Idle
<1> QED
  BY <1>7, <1>8, OnePrimaryMeans, NobodyReads, IdleFits

(* The row of a deleted image goes: if it was the primary one, one of those  *)
(* left is promoted; if not, the primary one is left.                        *)
LEMMA DeleteImageInTurn ==
  ASSUME IInv, OneAtATime, OnePrimary, ReadsHold, NEW r \in Requests, DeleteImage(r)
  PROVE  OnePrimary' /\ ReadsHold'
<1> DEFINE i == req[r].image
           v == images[i].vehicle
           left == ImagesOf(v) \ {i}
           Promoted(p) == [x \in DOMAIN images |->
              IF x = p THEN [images[x] EXCEPT !.primary = TRUE] ELSE images[x]]
<1>1. req \in [Requests -> RequestStates] /\ TablesOK
  BY IInvParts DEF RequestsOK
<1>2. i \in DOMAIN images /\ images[i].primary = req[r].primary
  BY DEF DeleteImage, ReadsHold
<1>3. \/ images[i].primary /\ left # {} /\ \E p \in left : images' = Without(Promoted(p), {i})
      \/ ~(images[i].primary /\ left # {}) /\ images' = Without(images, {i})
  BY <1>2 DEF DeleteImage
<1>4. \A x \in DOMAIN images :
         /\ [images[x] EXCEPT !.primary = TRUE].vehicle = images[x].vehicle
         /\ [images[x] EXCEPT !.primary = TRUE].primary = TRUE
  BY <1>1 DEF TablesOK, ImageRows
<1>5. \A p : /\ DOMAIN Promoted(p) = DOMAIN images
             /\ \A x \in DOMAIN images : Promoted(p)[x] =
                   IF x = p THEN [images[x] EXCEPT !.primary = TRUE] ELSE images[x]
  OBVIOUS
<1>6. left = {j \in DOMAIN images : images[j].vehicle = v /\ j # i}
  BY DEF ImagesOf
<1>7. images[i].vehicle = v
  OBVIOUS
<1>8. req[r] # Idle /\ req' = [req EXCEPT ![r] = AfterDelete(r)] /\ AfterDelete(r).at # "read"
  BY IdleFits DEF DeleteImage, Idle, AfterDelete
<1> HIDE DEF left, v, i, Promoted
<1>9. CASE images[i].primary /\ left # {} /\ \E p \in left : images' = Without(Promoted(p), {i})
  <2>1. PICK p \in left : images' = Without(Promoted(p), {i})
    BY <1>9
  <2>2. /\ DOMAIN images' = DOMAIN images \ {i}
        /\ \A x \in DOMAIN images' : images'[x] =
              IF x = p THEN [images[x] EXCEPT !.primary = TRUE] ELSE images[x]
    BY <1>5, <2>1 DEF Without
  <2>3. p \in DOMAIN images /\ images[p].vehicle = v /\ p # i
    BY <1>6
  <2>4. \A x \in DOMAIN images' : x \in DOMAIN images /\ images'[x].vehicle = images[x].vehicle
    BY <1>4, <2>2
  <2>5. ASSUME NEW w \in VehicleIds PROVE PrimaryIn(images', w)
    <3>1. PrimaryIn(images, w)
      BY OnePrimaryMeans
    <3>2. CASE w # v
      <4>1. \A x \in DOMAIN images : images[x].vehicle = w =>
               x \in DOMAIN images' /\ images'[x] = images[x]
        BY <1>7, <2>2, <2>3, <3>2
      <4> QED
        BY <2>4, <3>1, <4>1, OtherRows
    <3>3. CASE w = v
      <4>1. \A j \in DOMAIN images : images[j].vehicle = w => (images[j].primary <=> j = i)
        BY <1>2, <1>7, <1>9, <3>1, <3>3 DEF PrimaryIn
      <4>2. p \in DOMAIN images' /\ images'[p].vehicle = w
        BY <2>2, <2>3, <2>4, <3>3
      <4>3. \A j \in DOMAIN images' : images'[j].vehicle = w => (images'[j].primary <=> j = p)
        BY <1>4, <2>2, <2>3, <2>4, <4>1
      <4> QED
        BY <4>2, <4>3 DEF PrimaryIn
    <3> QED
      BY <3>2, <3>3
  <2> QED
    BY <1>8, <2>5, OnePrimaryMeans, NobodyReads
<1>10. CASE ~(images[i].primary /\ left # {}) /\ images' = Without(images, {i})
  <2>1. /\ DOMAIN images' = DOMAIN images \ {i}
        /\ \A x \in DOMAIN images' : images'[x] = images[x]
    BY <1>10 DEF Without
  <2>2. ASSUME NEW w \in VehicleIds PROVE PrimaryIn(images', w)
    <3>1. PrimaryIn(images, w)
      BY OnePrimaryMeans
    <3>2. CASE w # v
      <4>1. \A x \in DOMAIN images : images[x].vehicle = w =>
               x \in DOMAIN images' /\ images'[x] = images[x]
        BY <1>7, <2>1, <3>2
      <4> QED
        BY <2>1, <3>1, <4>1, OtherRows
    <3>3. CASE w = v /\ left = {}
      <4>1. \A x \in DOMAIN images' : images'[x].vehicle # w
        BY <1>6, <2>1, <3>3
      <4> QED
        BY <4>1 DEF PrimaryIn
    <3>4. CASE w = v /\ left # {}
      <4>1. PICK p \in DOMAIN images :
               /\ images[p].vehicle = w
               /\ \A j \in DOMAIN images : images[j].vehicle = w => (images[j].primary <=> j = p)
        BY <1>2, <1>7, <3>1, <3>4 DEF PrimaryIn
      <4>2. p # i
        BY <1>2, <1>7, <1>10, <3>4, <4>1
      <4>3. p \in DOMAIN images' /\ images'[p].vehicle = w
        BY <2>1, <4>1, <4>2
      <4>4. \A j \in DOMAIN images' : images'[j].vehicle = w => (images'[j].primary <=> j = p)
        BY <2>1, <4>1
      <4> QED
        BY <4>3, <4>4 DEF PrimaryIn
    <3> QED
      BY <3>2, <3>3, <3>4
  <2> QED
    BY <1>8, <2>2, OnePrimaryMeans, NobodyReads
<1> QED
  BY <1>3, <1>9, <1>10

(* The rows of a saved form: the first one kept is the primary one.          *)
LEMMA SaveImagesInTurn ==
  ASSUME IInv, OneAtATime, OnePrimary, NEW r \in Requests, SaveImages(r)
  PROVE  OnePrimary' /\ ReadsHold'
<1> DEFINE v == req[r].vehicle
<1>1. req \in [Requests -> RequestStates] /\ TablesOK
  BY IInvParts DEF RequestsOK
<1>2. req[r] \in Saves
  BY <1>1, Kinds DEF SaveImages, Saving
<1>3. PICK kept \in SUBSET req[r].inputs :
         \E id \in Assignments(kept, v), first \in kept \cup {Fresh(NoLink)} :
            /\ kept # {} => first \in kept
            /\ images' = Replaced(v, kept, id, first)
  BY DEF SaveImages
<1>4. PICK id \in Assignments(kept, v), first \in kept \cup {Fresh(NoLink)} :
         /\ kept # {} => first \in kept
         /\ images' = Replaced(v, kept, id, first)
  BY <1>3
<1> HIDE DEF v
<1> DEFINE inserted == {id[x] : x \in kept}
           Input(i) == CHOOSE x \in kept : id[x] = i
<1>5. \A i \in inserted : Input(i) \in kept /\ id[Input(i)] = i
  OBVIOUS
<1>6. /\ DOMAIN images' = (DOMAIN images \ ImagesOf(v)) \cup inserted
      /\ \A i \in DOMAIN images' :
            images'[i] = IF i \in inserted THEN Saved(Input(i), i, v, Input(i) = first)
                                           ELSE images[i]
  BY <1>4 DEF Replaced
<1>7. \A x \in kept : id[x] \in inserted /\ Input(id[x]) = x
  BY <1>4, <1>5 DEF Assignments
<1>8. \A i \in inserted : i \in ImagesOf(v) \/ i \notin DOMAIN images
  BY <1>1, <1>4 DEF Assignments, Known, ImagesOf, TablesOK
<1> HIDE DEF inserted, Input
<1>9. \A i \in inserted : /\ i \in DOMAIN images' /\ images'[i].vehicle = v
                          /\ images'[i].primary <=> Input(i) = first
  <2> SUFFICES ASSUME NEW i \in inserted
               PROVE  /\ i \in DOMAIN images' /\ images'[i].vehicle = v
                      /\ images'[i].primary <=> Input(i) = first
    OBVIOUS
  <2> DEFINE primary == Input(i) = first
  <2>1. i \in DOMAIN images' /\ images'[i] = Saved(Input(i), i, v, primary)
    BY <1>6
  <2>2. /\ Saved(Input(i), i, v, primary).vehicle = v
        /\ Saved(Input(i), i, v, primary).primary = primary
    BY Zenon DEF Saved
  <2> QED
    BY <2>1, <2>2
<1>10. \A i \in DOMAIN images' : i \notin inserted =>
          /\ i \in DOMAIN images /\ images'[i] = images[i] /\ images[i].vehicle # v
  BY <1>6 DEF ImagesOf
<1>11. ASSUME NEW w \in VehicleIds PROVE PrimaryIn(images', w)
  <2>1. PrimaryIn(images, w)
    BY OnePrimaryMeans
  <2>2. CASE w # v
    <3>1. \A x \in DOMAIN images : images[x].vehicle = w =>
             x \in DOMAIN images' /\ images'[x] = images[x]
      BY <1>6, <1>8, <2>2 DEF ImagesOf
    <3>2. \A x \in DOMAIN images' : images'[x].vehicle = w =>
             x \in DOMAIN images /\ images[x].vehicle = w
      BY <1>9, <1>10, <2>2
    <3> QED
      BY <2>1, <3>1, <3>2, OtherRows
  <2>3. CASE w = v /\ kept = {}
    <3>1. \A x \in DOMAIN images' : images'[x].vehicle # w
      BY <1>5, <1>10, <2>3
    <3> QED
      BY <3>1 DEF PrimaryIn
  <2>4. CASE w = v /\ kept # {}
    <3>1. first \in kept /\ id[first] \in inserted /\ Input(id[first]) = first
      BY <1>4, <1>7, <2>4
    <3>2. \A j \in DOMAIN images' : images'[j].vehicle = w =>
             (images'[j].primary <=> j = id[first])
      BY <1>5, <1>9, <1>10, <2>4, <3>1
    <3>3. id[first] \in DOMAIN images' /\ images'[id[first]].vehicle = w
      BY <1>9, <2>4, <3>1
    <3> QED
      BY <3>2, <3>3 DEF PrimaryIn
  <2> QED
    BY <2>2, <2>3, <2>4
<1>12. req[r] # Idle /\ req' = [req EXCEPT ![r] = Idle]
  BY DEF SaveImages, Finish, Idle
<1> QED
  BY <1>11, <1>12, OnePrimaryMeans, NobodyReads, IdleFits

(* All images of a deleted vehicle go, or none.                              *)
LEMMA DeleteVehicleInTurn ==
  ASSUME OnePrimary, ReadsHold, NEW v \in VehicleIds, DeleteVehicle(v)
  PROVE  OnePrimary' /\ ReadsHold'
<1>1. CASE images' = images
  <2>1. req' = req
    BY DEF DeleteVehicle
  <2> QED
    BY <1>1, <2>1, OnePrimaryMeans DEF ReadsHold
<1>2. CASE images' = Without(images, ImagesOf(v))
  <2>1. /\ DOMAIN images' = {i \in DOMAIN images : images[i].vehicle # v}
        /\ \A i \in DOMAIN images' : images'[i] = images[i]
    BY <1>2 DEF Without, ImagesOf
  <2>2. ASSUME NEW w \in VehicleIds PROVE PrimaryIn(images', w)
    <3>1. CASE w = v
      BY <2>1, <3>1 DEF PrimaryIn
    <3>2. CASE w # v
      <4>1. PrimaryIn(images, w)
        BY OnePrimaryMeans
      <4> QED
        BY <2>1, <3>2, <4>1, OtherRows
    <3> QED
      BY <3>1, <3>2
  <2>3. ReadsHold'
    BY <2>1 DEF ReadsHold, DeleteVehicle
  <2> QED
    BY <2>2, <2>3, OnePrimaryMeans
<1> QED
  BY <1>1, <1>2 DEF DeleteVehicle

(* A delete reads the row that is there, which has no link.                  *)
LEMMA ReadImageInTurn ==
  ASSUME IInv, OnePrimary, ReadsHold, NEW r \in Requests, NEW i \in ImageIds, ReadImage(r, i)
  PROVE  OnePrimary' /\ ReadsHold'
<1> DEFINE q == [at |-> "read", image |-> i, file |-> images[i].file,
                 primary |-> images[i].primary]
<1>1. req \in [Requests -> RequestStates]
  BY IInvParts DEF RequestsOK
<1>2. q.image = i /\ q.primary = images[i].primary
  OBVIOUS
<1>3. /\ req' = [req EXCEPT ![r] = q] /\ images' = images
      /\ images[i].link = NoLink
  BY DEF ReadImage
<1> HIDE DEF q
<1>4. ReadsHold'
  BY <1>1, <1>2, <1>3 DEF ReadsHold
<1> QED
  BY <1>3, <1>4, OnePrimaryMeans

(* The other steps change no image and read none.                            *)
LEMMA OtherInTurn ==
  ASSUME OnePrimary, ReadsHold, images' = images,
         \A r \in Requests : req'[r].at = "read" => req'[r] = req[r]
  PROVE  OnePrimary' /\ ReadsHold'
BY OnePrimaryMeans DEF ReadsHold

LEMMA OtherSteps ==
  ASSUME IInv, Next,
         ~\E v \in VehicleIds : DeleteVehicle(v),
         ~\E r \in Requests : \/ \E i \in ImageIds : InsertImage(r, i) \/ ReadImage(r, i)
                              \/ DeleteImage(r) \/ SaveImages(r)
  PROVE  images' = images /\ \A r \in Requests : req'[r].at = "read" => req'[r] = req[r]
<1>1. req \in [Requests -> RequestStates]
  BY IInvParts DEF RequestsOK
<1>2. \A q \in RequestStates : "at" \in DOMAIN q
  BY DEF RequestStates, Uploads, Deletes, Removals, Saves, Repairs, Idle
<1>3. \/ images' = images /\ req' = req
      \/ images' = images /\ Restart
      \/ \E r \in Requests :
            \/ \E q : images' = images /\ req' = [req EXCEPT ![r] = q] /\ q.at # "read"
            \/ \E at : images' = images /\ Goto(r, at) /\ at # "read"
            \/ \E x \in req[r].inputs, file \in Files : Localize(r, x, file)
  <2> DEFINE Quiet(r) ==
        \/ \E q : images' = images /\ req' = [req EXCEPT ![r] = q] /\ q.at # "read"
        \/ \E at : images' = images /\ Goto(r, at) /\ at # "read"
        \/ \E x \in req[r].inputs, file \in Files : Localize(r, x, file)
  <2>1. \A r \in Requests : Finish(r) /\ images' = images => Quiet(r)
    BY IdleFits DEF Finish
  <2>2. ASSUME NEW r \in Requests,
               \/ \E v \in VehicleIds, file \in Files, link \in Links, primary \in BOOLEAN :
                     WriteUpload(r, v, file, link, primary)
               \/ FindVehicle(r) \/ CheckLink(r) \/ RefuseUpload(r) \/ RemoveUpload(r)
        PROVE  Quiet(r)
    <3>1. ASSUME NEW v \in VehicleIds, NEW file \in Files, NEW link \in Links,
                 NEW primary \in BOOLEAN, WriteUpload(r, v, file, link, primary)
          PROVE  Quiet(r)
      <4> DEFINE q == [at |-> "written", vehicle |-> v, file |-> file,
                       link |-> link, primary |-> primary]
      <4>1. q.at # "read" /\ req' = [req EXCEPT ![r] = q] /\ images' = images
        BY <3>1 DEF WriteUpload
      <4> HIDE DEF q
      <4> QED
        BY <4>1
    <3>2. CASE FindVehicle(r)
      BY <3>2 DEF FindVehicle
    <3>3. CASE CheckLink(r)
      BY <3>3 DEF CheckLink
    <3>4. CASE RefuseUpload(r) \/ RemoveUpload(r)
      BY <2>1, <3>4 DEF RefuseUpload, RemoveUpload
    <3> QED
      BY <2>2, <3>1, <3>2, <3>3, <3>4
  <2>3. ASSUME NEW r \in Requests, DeleteFails(r) \/ CountReferences(r) \/ RemoveFile(r)
        PROVE  Quiet(r)
    BY <2>1, <2>3 DEF DeleteFails, CountReferences, RemoveFile
  <2>4. ASSUME NEW r \in Requests, Localized(r) \/ SaveFails(r)
        PROVE  Quiet(r)
    BY <2>1, <2>4 DEF Localized, SaveFails
  <2>5. ASSUME NEW r \in Requests, NEW f \in Forms,
               NEW inputs \in Edited(forms[f].inputs, forms[f].vehicle), BeginSave(r, f, inputs)
        PROVE  Quiet(r)
    <3> DEFINE q == [at |-> "loaded", vehicle |-> forms[f].vehicle, inputs |-> inputs]
    <3>1. q.at # "read" /\ req' = [req EXCEPT ![r] = q] /\ images' = images
      BY <2>5 DEF BeginSave
    <3> HIDE DEF q
    <3> QED
      BY <3>1
  <2>6. ASSUME NEW r \in Requests, NEW v \in VehicleIds, BeginMaintenance(r, v)
        PROVE  Quiet(r)
    <3> DEFINE q == [at |-> "repair", vehicle |-> v]
    <3>1. q.at # "read" /\ req' = [req EXCEPT ![r] = q] /\ images' = images
      BY <2>6 DEF BeginMaintenance
    <3> HIDE DEF q
    <3> QED
      BY <3>1
  <2>7. ASSUME NEW r \in Requests, NEW m \in MaintenanceIds, InsertMaintenance(r, m)
        PROVE  Quiet(r)
    BY <2>1, <2>7 DEF InsertMaintenance
  <2>8. ASSUME NEW r \in Requests, NEW x \in req[r].inputs, NEW file \in Files,
               Localize(r, x, file)
        PROVE  Quiet(r)
    BY <2>8
  <2>9. \/ images' = images /\ req' = req
        \/ images' = images /\ Restart
        \/ \E r \in Requests : Upload(r) \/ Delete(r) \/ Save(r)
              \/ (\E v \in VehicleIds : BeginMaintenance(r, v))
              \/ (\E m \in MaintenanceIds : InsertMaintenance(r, m))
    BY DEF Next, CreateVehicle, DeleteMaintenance, OpenForm, Restart
  <2> HIDE DEF Quiet
  <2>10. ASSUME NEW r \in Requests,
                \/ Upload(r) \/ Delete(r) \/ Save(r)
                \/ (\E v \in VehicleIds : BeginMaintenance(r, v))
                \/ (\E m \in MaintenanceIds : InsertMaintenance(r, m))
         PROVE  Quiet(r)
    BY <2>2, <2>3, <2>4, <2>5, <2>6, <2>7, <2>8, <2>10 DEF Upload, Delete, Save
  <2> QED
    BY <2>9, <2>10 DEF Quiet
<1>4. CASE images' = images /\ Restart
  BY <1>4, IdleFits DEF Restart
<1>5. ASSUME NEW r \in Requests, NEW q, req' = [req EXCEPT ![r] = q], q.at # "read"
      PROVE  \A s \in Requests : req'[s].at = "read" => req'[s] = req[s]
  BY <1>1, <1>5
<1>6. ASSUME NEW r \in Requests, NEW at, Goto(r, at), at # "read"
      PROVE  \A s \in Requests : req'[s].at = "read" => req'[s] = req[s]
  <2> DEFINE q == [req[r] EXCEPT !.at = at]
  <2>1. req' = [req EXCEPT ![r] = q] /\ q.at # "read"
    BY <1>1, <1>2, <1>6 DEF Goto
  <2> HIDE DEF q
  <2> QED
    BY <1>5, <2>1
<1>7. ASSUME NEW r \in Requests, NEW x \in req[r].inputs, NEW file \in Files,
             Localize(r, x, file)
      PROVE  images' = images /\ \A s \in Requests : req'[s].at = "read" => req'[s] = req[s]
  <2> DEFINE q == [req[r] EXCEPT !.inputs = (@ \ {x}) \cup {[x EXCEPT !.file = file]}]
  <2>1. req' = [req EXCEPT ![r] = q] /\ q.at # "read" /\ images' = images
    BY <1>1, <1>2, <1>7 DEF Localize
  <2> HIDE DEF q
  <2> QED
    BY <1>5, <2>1
<1> QED
  BY <1>3, <1>4, <1>5, <1>6, <1>7

LEMMA GalleryStep ==
  ASSUME IInv, OneAtATime, OnePrimary, ReadsHold, Next
  PROVE  OnePrimary' /\ ReadsHold'
<1>1. CASE \E v \in VehicleIds : DeleteVehicle(v)
  BY <1>1, DeleteVehicleInTurn
<1>2. CASE \E r \in Requests : \/ \E i \in ImageIds : InsertImage(r, i) \/ ReadImage(r, i)
                               \/ DeleteImage(r) \/ SaveImages(r)
  BY <1>2, InsertImageInTurn, ReadImageInTurn, DeleteImageInTurn, SaveImagesInTurn
<1> QED
  BY <1>1, <1>2, OtherSteps, OtherInTurn

LEMMA InTurnStep ==
  IInv /\ InTurn /\ [MCNext]_<<vars, overlapped>>
    => InTurn' /\ [~overlapped' => DeletesUnlinked]_vars
<1> SUFFICES ASSUME IInv, InTurn, [MCNext]_<<vars, overlapped>>
             PROVE  InTurn' /\ [~overlapped' => DeletesUnlinked]_vars
  OBVIOUS
<1>1. CASE UNCHANGED <<vars, overlapped>>
  BY <1>1, OnePrimaryMeans DEF vars, InTurn, OneAtATime, ReadsHold
<1>2. CASE MCNext
  <2>1. overlapped' \in BOOLEAN
    BY <1>2 DEF MCNext
  <2>2. ASSUME ~overlapped'
        PROVE  OneAtATime' /\ OnePrimary' /\ ReadsHold' /\ DeletesUnlinked
    <3>1. OneAtATime /\ OneAtATime' /\ OnePrimary /\ ReadsHold
      BY <1>2, <2>2, StaysInTurn
    <3>2. OnePrimary' /\ ReadsHold'
      BY <1>2, <3>1, GalleryStep DEF MCNext
    <3> QED
      BY <3>1, <3>2 DEF ReadsHold, DeletesUnlinked
  <2> QED
    BY <2>1, <2>2 DEF InTurn
<1> QED
  BY <1>1, <1>2

LEMMA InTurnAlways ==
  MCSpec => [](IInv /\ InTurn) /\ [][~overlapped' => DeletesUnlinked]_vars
<1>1. MCSpec => Spec
  <2>1. MCInit => Init
    BY DEF MCInit
  <2>2. [MCNext]_<<vars, overlapped>> => [Next]_vars
    BY DEF MCNext, vars
  <2> QED
    BY <2>1, <2>2, PTL DEF MCSpec, Spec
<1>2. MCInit => InTurn
  <2> SUFFICES ASSUME MCInit PROVE InTurn
    OBVIOUS
  <2>1. DOMAIN images = {} /\ \A r \in Requests : req[r] = Idle
    BY DEF MCInit, Init, NoRows
  <2> QED
    BY <2>1, IdleFits DEF MCInit, InTurn, OneAtATime, OnePrimary, ImagesOf, ReadsHold
<1> QED
  BY <1>1, <1>2, Invariance, InTurnStep, PTL DEF MCSpec

(* Where requests are handled one at a time, a vehicle with images has one   *)
(* primary image, whatever is uploaded, deleted or saved (vehicles.go:877,   *)
(* 958, 2086).                                                               *)
THEOREM OneImageIsPrimary == MCSpec => []OnePrimaryInTurn
<1>1. InTurn => OnePrimaryInTurn
  BY DEF InTurn, OnePrimaryInTurn
<1> QED
  BY <1>1, InTurnAlways, PTL

(* Where requests are handled one at a time, the images deleted are linked   *)
(* to no maintenance entry (vehicles.go:939).                                *)
THEOREM LinkedImagesStay == MCSpec => LinkedImagesStayInTurn
BY InTurnAlways, PTL DEF LinkedImagesStayInTurn
=============================================================================
