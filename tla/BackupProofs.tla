--------------------------- MODULE BackupProofs ---------------------------
(***************************************************************************)
(* Theorems about Backup, for any number of requests, vehicles, rows and   *)
(* files: a restore that nothing overlaps brings back what the backup      *)
(* holds, wherever attempts before it stopped.                             *)
(***************************************************************************)
EXTENDS MCBackup, FiniteSetTheorems, TLAPS

\* One request at a time, as far as the history says so.
OneAtATime == ~overlapped => \A r, s \in Requests : req[r] # Idle /\ req[s] # Idle => r = s

\* A restore past its commit has the rows of its backup in the tables, and while it writes
\* the files of the backup, the directory holds those it has written and no others.
Progress(r) ==
    /\ req[r].at \in {"clear", "write"} =>
         vehicles = req[r].doc.vehicles /\ attachments = req[r].doc.attachments
    /\ req[r].at = "write" =>
         req[r].todo \subseteq req[r].doc.files /\ files = req[r].doc.files \ req[r].todo

InProgress == ~overlapped => \A r \in Requests : Progress(r)

IInv == TypeOK /\ overlapped \in BOOLEAN /\ OneAtATime /\ InProgress

----------------------------------------------------------------------------
(* Types.                                                                  *)

Kinds == Uploads \cup Deletes \cup Exports \cup Restores \cup {Idle}

\* The records of the requests differ by where they are.
LEMMA KindsDiffer ==
    ASSUME NEW x \in Kinds
    PROVE  /\ x.at = "idle" <=> x = Idle
           /\ x.at \in {"written", "found", "refused"} <=> x \in Uploads
           /\ x.at \in {"read", "deleted"} <=> x \in Deletes
           /\ x.at \in {"vehicles", "attachments", "uploads", "walk"} <=> x \in Exports
           /\ x.at \in {"validated", "begun", "failed", "clear", "write", "warm"} <=> x \in Restores
BY DEF Kinds, Uploads, Deletes, Exports, Restores, Idle

\* The connection is held by a restore between its begin and its commit.
LEMMA NotHolding ==
    ASSUME TypeOK, NEW r \in Requests, req[r].at \notin {"begun", "failed"}
    PROVE  conn # r
BY RequestsAssumption DEF TypeOK

TablesOK ==
    /\ vehicles \subseteq VehicleIds /\ attachments \subseteq Rows /\ files \subseteq Files
    /\ spent \subseteq VehicleIds \cup AttachmentIds \cup Files
    /\ backup \in Documents

\* One request changes, and the connection is not that of another one.
LEMMA OneRequest ==
    ASSUME TypeOK, NEW r \in Requests, NEW x \in Kinds, req' = [req EXCEPT ![r] = x], TablesOK',
           \/ conn' = Nobody
           \/ conn' = r /\ x.at \in {"begun", "failed"}
           \/ conn' = conn /\ conn # r
    PROVE  TypeOK'
<1>1. req' \in [Requests -> Kinds]
  BY DEF TypeOK, Kinds
<1>2. conn' = Nobody \/ (conn' \in Requests /\ req'[conn'].at \in {"begun", "failed"})
  <2>1. req \in [Requests -> Kinds] /\ (conn = Nobody \/ (conn \in Requests /\ req[conn].at \in {"begun", "failed"}))
    BY DEF TypeOK, Kinds
  <2>2. CASE conn' = r /\ x.at \in {"begun", "failed"}
    BY <2>1, <2>2
  <2>3. CASE conn' = conn /\ conn # r
    BY <2>1, <2>3
  <2> QED
    BY <2>2, <2>3
<1> QED
  BY <1>1, <1>2 DEF TypeOK, TablesOK, Kinds

LEMMA TypesInit == Init => TypeOK
BY DEF Init, TypeOK, NoBackup, Documents

\* The handlers of attachments.
LEMMA UploadsTyped ==
    ASSUME TypeOK, NEW r \in Requests,
           \/ \E v \in VehicleIds, file \in Files : WriteUpload(r, v, file)
           \/ FindVehicle(r) \/ InsertAttachment(r) \/ RefuseUpload(r) \/ RemoveUpload(r)
    PROVE  TypeOK'
<1> USE DEF Goto, Finish, data
<1>0. TablesOK /\ req[r] \in Kinds /\ Idle \in Kinds
  BY DEF TypeOK, TablesOK, Kinds
<1>1. ASSUME NEW v \in VehicleIds, NEW file \in Files, WriteUpload(r, v, file) PROVE TypeOK'
  <2>1. [at |-> "written", vehicle |-> v, file |-> file] \in Kinds
    BY DEF Uploads, Kinds
  <2>2. conn # r
    BY <1>1, NotHolding DEF WriteUpload, Idle
  <2>3. TablesOK'
    BY <1>0, <1>1 DEF WriteUpload, TablesOK
  <2> QED
    BY <1>1, <2>1, <2>2, <2>3, OneRequest DEF WriteUpload
<1>2. ASSUME req[r] \in Uploads, NEW at \in {"written", "found", "refused"}
      PROVE  [req[r] EXCEPT !.at = at] \in Kinds
  BY <1>2 DEF Uploads, Kinds
<1>3. CASE FindVehicle(r) \/ RefuseUpload(r) \/ RemoveUpload(r) \/ InsertAttachment(r)
  <2>1. req[r] \in Uploads /\ conn # r /\ req[r].vehicle \in VehicleIds /\ req[r].file \in Files
    <3>1. req[r].at \in {"written", "found", "refused"}
      BY <1>3 DEF FindVehicle, RefuseUpload, RemoveUpload, InsertAttachment
    <3> QED
      BY <1>0, <3>1, KindsDiffer, NotHolding DEF Uploads
  <2>2. PICK x \in Kinds : req' = [req EXCEPT ![r] = x]
    BY <1>0, <1>2, <1>3, <2>1 DEF FindVehicle, RefuseUpload, RemoveUpload, InsertAttachment
  <2>3. TablesOK' /\ conn' = conn
    BY <1>0, <1>3, <2>1 DEF FindVehicle, RefuseUpload, RemoveUpload, InsertAttachment, TablesOK, Rows
  <2> QED
    BY <2>1, <2>2, <2>3, OneRequest
<1> QED
  BY <1>1, <1>3

LEMMA DeletesTyped ==
    ASSUME TypeOK, NEW r \in Requests,
           \/ \E a \in attachments : ReadAttachment(r, a)
           \/ DeleteAttachment(r) \/ RemoveFile(r)
    PROVE  TypeOK'
<1> USE DEF Goto, Finish, data
<1>0. TablesOK /\ req[r] \in Kinds /\ Idle \in Kinds
  BY DEF TypeOK, TablesOK, Kinds
<1>1. ASSUME NEW a \in attachments, ReadAttachment(r, a) PROVE TypeOK'
  <2>1. [at |-> "read", row |-> a] \in Kinds
    BY <1>0 DEF Deletes, Kinds, TablesOK
  <2>2. conn # r
    BY <1>1, NotHolding DEF ReadAttachment, Idle
  <2>3. TablesOK'
    BY <1>0, <1>1 DEF ReadAttachment, TablesOK
  <2> QED
    BY <1>1, <2>1, <2>2, <2>3, OneRequest DEF ReadAttachment
<1>2. CASE DeleteAttachment(r) \/ RemoveFile(r)
  <2>1. req[r].at \in {"read", "deleted"}
    BY <1>2 DEF DeleteAttachment, RemoveFile
  <2>2. req[r] \in Deletes /\ conn # r
    BY <1>0, <2>1, KindsDiffer, NotHolding
  <2>3. [req[r] EXCEPT !.at = "deleted"] \in Kinds
    BY <2>2 DEF Deletes, Kinds
  <2>4. PICK x \in Kinds : req' = [req EXCEPT ![r] = x]
    BY <1>0, <1>2, <2>3 DEF DeleteAttachment, RemoveFile
  <2>5. TablesOK' /\ conn' = conn
    BY <1>0, <1>2 DEF DeleteAttachment, RemoveFile, TablesOK
  <2> QED
    BY <2>2, <2>4, <2>5, OneRequest
<1> QED
  BY <1>1, <1>2

LEMMA ExportsTyped ==
    ASSUME TypeOK, NEW r \in Requests,
           \/ BeginExport(r) \/ ExportVehicles(r) \/ ExportAttachments(r) \/ ListFiles(r)
           \/ \E file \in Files : ReadFile(r, file)
           \/ FinishExport(r)
    PROVE  TypeOK'
<1> USE DEF Goto, Finish, data
<1>0. TablesOK /\ req[r] \in Kinds /\ Idle \in Kinds /\ NoBackup \in Documents
  BY DEF TypeOK, TablesOK, Kinds, NoBackup, Documents
<1>1. CASE BeginExport(r)
  <2>1. [at |-> "vehicles", doc |-> NoBackup, todo |-> {}] \in Kinds
    BY <1>0 DEF Exports, Kinds
  <2>2. conn # r
    BY <1>1, NotHolding DEF BeginExport, Idle
  <2>3. TablesOK'
    BY <1>0, <1>1 DEF BeginExport, TablesOK
  <2> QED
    BY <1>1, <2>1, <2>2, <2>3, OneRequest DEF BeginExport
<1>2. CASE \/ ExportVehicles(r) \/ ExportAttachments(r) \/ ListFiles(r)
           \/ (\E file \in Files : ReadFile(r, file)) \/ FinishExport(r)
  <2>1. req[r].at \in {"vehicles", "attachments", "uploads", "walk"}
    BY <1>2 DEF ExportVehicles, ExportAttachments, ListFiles, ReadFile, FinishExport
  <2>2. req[r] \in Exports /\ conn # r
    BY <1>0, <2>1, KindsDiffer, NotHolding
  <2>3. req[r].doc \in Documents /\ req[r].todo \subseteq Files
    BY <2>2 DEF Exports
  <2>4. /\ [req[r] EXCEPT !.doc.vehicles = vehicles, !.at = "attachments"] \in Exports
        /\ [req[r] EXCEPT !.doc.attachments = attachments, !.at = "uploads"] \in Exports
        /\ [req[r] EXCEPT !.todo = files, !.at = "walk"] \in Exports
    BY <1>0, <2>2, <2>3 DEF Exports, Documents, TablesOK
  <2>5. ASSUME NEW file \in Files
        PROVE  [req[r] EXCEPT !.doc.files = @ \cup {file}, !.todo = @ \ {file}] \in Exports
    BY <2>2, <2>3 DEF Exports, Documents
  <2>6. PICK x \in Exports \cup {Idle} : req' = [req EXCEPT ![r] = x]
    <3>1. CASE ExportVehicles(r) \/ ExportAttachments(r) \/ ListFiles(r)
      <4>1. CASE ExportVehicles(r)
        <5>1. req' = [req EXCEPT ![r] = [req[r] EXCEPT !.doc.vehicles = vehicles, !.at = "attachments"]]
          BY <4>1 DEF ExportVehicles, TypeOK
        <5> QED
          BY <2>4, <5>1
      <4>2. CASE ExportAttachments(r)
        <5>1. req' = [req EXCEPT ![r] = [req[r] EXCEPT !.doc.attachments = attachments, !.at = "uploads"]]
          BY <4>2 DEF ExportAttachments, TypeOK
        <5> QED
          BY <2>4, <5>1
      <4>3. CASE ListFiles(r)
        BY <2>4, <4>3 DEF ListFiles
      <4> QED
        BY <3>1, <4>1, <4>2, <4>3
    <3>2. ASSUME NEW file \in Files, ReadFile(r, file) PROVE \E x \in Exports \cup {Idle} : req' = [req EXCEPT ![r] = x]
      <4>1. CASE file \in files
        <5>1. req' = [req EXCEPT ![r] = [req[r] EXCEPT !.doc.files = @ \cup {file}, !.todo = @ \ {file}]]
          BY <3>2, <4>1 DEF ReadFile
        <5> QED
          BY <2>5, <5>1
      <4> QED
        BY <3>2, <4>1 DEF ReadFile
    <3>3. CASE FinishExport(r)
      BY <3>3 DEF FinishExport
    <3> QED
      BY <1>2, <3>1, <3>2, <3>3
  <2>7. TablesOK' /\ conn' = conn /\ x \in Kinds
    BY <1>0, <1>2, <2>3 DEF ExportVehicles, ExportAttachments, ListFiles, ReadFile, FinishExport,
                            TablesOK, Kinds
  <2> QED
    BY <2>2, <2>6, <2>7, OneRequest
<1> QED
  BY <1>1, <1>2

LEMMA RestoresTyped ==
    ASSUME TypeOK, NEW r \in Requests,
           \/ Validate(r) \/ BeginRestore(r) \/ ReplaceTables(r) \/ RollBack(r) \/ RowFails(r)
           \/ EndRequest(r) \/ ClearUploads(r) \/ (\E file \in Files : WriteFile(r, file))
           \/ FilesFail(r) \/ FilesWritten(r) \/ WarmCache(r)
    PROVE  TypeOK'
<1> USE DEF Goto, Finish, data
<1>0. TablesOK /\ req[r] \in Kinds /\ Idle \in Kinds
  BY DEF TypeOK, TablesOK, Kinds
<1>1. CASE Validate(r)
  <2>1. [at |-> "validated", doc |-> backup, todo |-> {}] \in Kinds
    BY <1>0 DEF Restores, Kinds, TablesOK
  <2>2. conn # r
    BY <1>1, NotHolding DEF Validate, Idle
  <2>3. TablesOK'
    BY <1>0, <1>1 DEF Validate, TablesOK
  <2> QED
    BY <1>1, <2>1, <2>2, <2>3, OneRequest DEF Validate
<1>2. ASSUME req[r].at \in {"validated", "begun", "failed", "clear", "write", "warm"}
      PROVE  /\ req[r] \in Restores /\ req[r].doc \in Documents /\ req[r].todo \subseteq Files
             /\ req[r].doc.files \subseteq Files
  BY <1>0, <1>2, KindsDiffer DEF Restores, Documents
<1>3. CASE BeginRestore(r) \/ RowFails(r)
  <2>1. PICK at \in {"begun", "failed"} : req' = [req EXCEPT ![r] = [@ EXCEPT !.at = at]]
    BY <1>3 DEF BeginRestore, RowFails
  <2>2. [req[r] EXCEPT !.at = at] \in Kinds /\ [req[r] EXCEPT !.at = at].at = at
    BY <1>2, <1>3 DEF BeginRestore, RowFails, Restores, Kinds
  <2>3. TablesOK'
    BY <1>0, <1>3 DEF BeginRestore, RowFails, TablesOK
  <2>4. conn' \in {conn, r}
    BY <1>3 DEF BeginRestore, RowFails
  <2>5. req' = [req EXCEPT ![r] = [req[r] EXCEPT !.at = at]]
    BY <2>1
  <2> QED
    BY <2>2, <2>3, <2>4, <2>5, OneRequest
<1>4. CASE ReplaceTables(r) \/ RollBack(r) \/ EndRequest(r)
  <2>1. req[r] \in Restores /\ req[r].doc \in Documents /\ conn' = Nobody
    BY <1>2, <1>4 DEF ReplaceTables, RollBack, EndRequest
  <2>2. [req[r] EXCEPT !.at = "clear"] \in Kinds
    BY <2>1 DEF Restores, Kinds
  <2>3. PICK x \in Kinds : req' = [req EXCEPT ![r] = x]
    BY <1>0, <1>4, <2>2 DEF ReplaceTables, RollBack, EndRequest
  <2>4. TablesOK'
    BY <1>0, <1>4, <2>1 DEF ReplaceTables, RollBack, EndRequest, TablesOK, Documents
  <2> QED
    BY <2>1, <2>3, <2>4, OneRequest
<1>5. CASE \/ ClearUploads(r) \/ (\E file \in Files : WriteFile(r, file))
           \/ FilesFail(r) \/ FilesWritten(r) \/ WarmCache(r)
  <2>1. req[r].at \in {"clear", "write", "warm"}
    BY <1>5 DEF ClearUploads, WriteFile, FilesFail, FilesWritten, WarmCache
  <2>2. req[r] \in Restores /\ req[r].todo \subseteq Files /\ req[r].doc.files \subseteq Files /\ conn # r
    BY <1>2, <2>1, NotHolding
  <2>3. /\ [req[r] EXCEPT !.at = "write", !.todo = req[r].doc.files] \in Kinds
        /\ [req[r] EXCEPT !.at = "warm"] \in Kinds
        /\ \A file \in Files : [req[r] EXCEPT !.todo = @ \ {file}] \in Kinds
    BY <2>2 DEF Restores, Kinds
  <2>4. PICK x \in Kinds : req' = [req EXCEPT ![r] = x]
    <3>1. CASE ClearUploads(r) \/ FilesFail(r) \/ FilesWritten(r) \/ WarmCache(r)
      BY <1>0, <2>3, <3>1 DEF ClearUploads, FilesFail, FilesWritten, WarmCache
    <3>2. ASSUME NEW file \in Files, WriteFile(r, file) PROVE \E x \in Kinds : req' = [req EXCEPT ![r] = x]
      BY <2>3, <3>2 DEF WriteFile
    <3> QED
      BY <1>5, <3>1, <3>2
  <2>5. TablesOK' /\ conn' = conn
    BY <1>0, <1>5, <2>2 DEF ClearUploads, WriteFile, FilesFail, FilesWritten, WarmCache, TablesOK
  <2> QED
    BY <2>2, <2>4, <2>5, OneRequest
<1> QED
  BY <1>1, <1>3, <1>4, <1>5

LEMMA OthersTyped ==
    ASSUME TypeOK,
           \/ \E r \in Requests, v \in VehicleIds : CreateVehicle(r, v) \/ DeleteVehicle(r, v)
           \/ \E r \in Requests : Abandon(r)
           \/ Restart \/ UNCHANGED vars
    PROVE  TypeOK'
<1>0. TablesOK /\ Idle \in Kinds
  BY DEF TypeOK, TablesOK, Kinds
<1>1. ASSUME NEW r \in Requests, NEW v \in VehicleIds, CreateVehicle(r, v) \/ DeleteVehicle(r, v)
      PROVE  TypeOK'
  <2>1. TablesOK' /\ UNCHANGED <<conn, req>>
    BY <1>0, <1>1 DEF CreateVehicle, DeleteVehicle, TablesOK
  <2> QED
    BY <2>1 DEF TypeOK, TablesOK
<1>2. ASSUME NEW r \in Requests, Abandon(r) PROVE TypeOK'
  <2>1. conn # r
    BY <1>2, NotHolding DEF Abandon
  <2>2. TablesOK' /\ conn' = conn /\ req' = [req EXCEPT ![r] = Idle]
    BY <1>0, <1>2 DEF Abandon, Finish, data, TablesOK
  <2> QED
    BY <1>0, <2>1, <2>2, OneRequest
<1>3. CASE Restart
  BY <1>3 DEF TypeOK, Restart, data
<1>4. CASE UNCHANGED vars
  BY <1>4 DEF TypeOK, vars
<1> QED
  BY <1>1, <1>2, <1>3, <1>4

LEMMA TypesStep == TypeOK /\ [Next]_vars => TypeOK'
BY UploadsTyped, DeletesTyped, ExportsTyped, RestoresTyped, OthersTyped DEF Next, Begin, Continue

----------------------------------------------------------------------------
(* One request at a time.                                                  *)

\* At most one of finitely many requests is under way.
LEMMA AtMostOne ==
    ASSUME NEW S, S \subseteq Requests, ~(Cardinality(S) > 1), NEW r \in S, NEW s \in S
    PROVE  r = s
<1> SUFFICES ASSUME r # s PROVE FALSE
  OBVIOUS
<1>1. IsFiniteSet(S) /\ Cardinality(S) \in Nat
  BY RequestsAssumption, FS_Subset, FS_CardinalityType
<1>2. Cardinality({r, s}) = 2
  <2>1. IsFiniteSet({r}) /\ Cardinality({r}) = 1
    BY FS_Singleton
  <2>2. {r} \cup {s} = {r, s} /\ s \notin {r}
    OBVIOUS
  <2> QED
    BY <2>1, <2>2, FS_AddElement
<1>3. {r, s} \subseteq S
  OBVIOUS
<1> QED
  BY <1>1, <1>2, <1>3, FS_Subset

\* A request that goes on is one that is under way, and leaves the others alone; it is
\* past the commit of a restore only by the steps of a restore.
LEMMA ContinuesOwn ==
    ASSUME TypeOK, NEW r \in Requests, Continue(r)
    PROVE  /\ req[r] # Idle /\ \A q \in Requests \ {r} : req'[q] = req[q]
           /\ \/ req'[r].at \notin {"clear", "write", "warm"}
              \/ ReplaceTables(r) \/ ClearUploads(r) \/ (\E file \in Files : WriteFile(r, file))
              \/ FilesWritten(r)
<1> DEFINE Own == req[r] # Idle /\ \A q \in Requests \ {r} : req'[q] = req[q]
           Other == req'[r].at \notin {"clear", "write", "warm"}
<1>1. req \in [Requests -> Kinds]
  BY DEF TypeOK, Kinds
<1>2. ASSUME NEW x \in Kinds, NEW at PROVE [x EXCEPT !.at = at].at = at
  <2>1. x \in Uploads \/ x \in Deletes \/ x \in Exports \/ x \in Restores \/ x = Idle
    BY <1>2 DEF Kinds
  <2> QED
    BY <2>1 DEF Uploads, Deletes, Exports, Restores, Idle
<1>3. Idle.at = "idle"
  BY DEF Idle
<1>4. ASSUME NEW at, Goto(r, at)
      PROVE  req'[r].at = at /\ \A q \in Requests \ {r} : req'[q] = req[q]
  <2>1. req' = [req EXCEPT ![r] = [req[r] EXCEPT !.at = at]]
    BY <1>4 DEF Goto
  <2>2. req'[r] = [req[r] EXCEPT !.at = at]
    BY <1>1, <2>1
  <2>3. req[r] \in Kinds
    BY <1>1
  <2> QED
    BY <1>1, <1>2, <2>1, <2>2, <2>3
<1>5. Finish(r) => req'[r].at = "idle" /\ \A q \in Requests \ {r} : req'[q] = req[q]
  BY <1>1, <1>3 DEF Finish
<1>6. CASE FindVehicle(r) \/ InsertAttachment(r) \/ RefuseUpload(r) \/ RemoveUpload(r)
  BY <1>3, <1>4, <1>5, <1>6 DEF FindVehicle, InsertAttachment, RefuseUpload, RemoveUpload
<1>7. CASE DeleteAttachment(r) \/ RemoveFile(r) \/ Abandon(r) \/ FinishExport(r)
  BY <1>3, <1>4, <1>5, <1>7 DEF DeleteAttachment, RemoveFile, Abandon, FinishExport
<1>8. CASE ExportVehicles(r) \/ ExportAttachments(r) \/ ListFiles(r) \/ \E file \in Files : ReadFile(r, file)
  <2>1. req[r].at \in {"vehicles", "attachments", "uploads", "walk"}
    BY <1>8 DEF ExportVehicles, ExportAttachments, ListFiles, ReadFile
  <2>2. req[r] \in Exports
    BY <1>1, <2>1, KindsDiffer
  <2>3. Own
    BY <1>1, <1>3, <1>5, <1>8, <2>1 DEF ExportVehicles, ExportAttachments, ListFiles, ReadFile
  <2>4. CASE ExportVehicles(r)
    <3>1. req'[r] = [req[r] EXCEPT !.doc.vehicles = vehicles, !.at = "attachments"]
      BY <1>1, <2>4 DEF ExportVehicles
    <3> QED
      BY <2>2, <2>3, <3>1 DEF Exports
  <2>5. CASE ExportAttachments(r)
    <3>1. req'[r] = [req[r] EXCEPT !.doc.attachments = attachments, !.at = "uploads"]
      BY <1>1, <2>5 DEF ExportAttachments
    <3> QED
      BY <2>2, <2>3, <3>1 DEF Exports
  <2>6. CASE ListFiles(r)
    <3>1. req'[r] = [req[r] EXCEPT !.todo = files, !.at = "walk"]
      BY <1>1, <2>6 DEF ListFiles
    <3> QED
      BY <2>2, <2>3, <3>1 DEF Exports
  <2>7. ASSUME NEW file \in Files, ReadFile(r, file) PROVE Own /\ Other
    <3>1. CASE file \in files
      <4>1. req'[r] = [req[r] EXCEPT !.doc.files = @ \cup {file}, !.todo = @ \ {file}]
        BY <1>1, <2>7, <3>1 DEF ReadFile
      <4>2. req'[r].at = req[r].at
        BY <2>2, <4>1 DEF Exports
      <4> QED
        BY <2>1, <2>3, <4>2
    <3>2. CASE file \notin files
      BY <1>5, <2>3, <2>7, <3>2 DEF ReadFile
    <3> QED
      BY <3>1, <3>2
  <2> QED
    BY <1>8, <2>4, <2>5, <2>6, <2>7
<1>9. CASE BeginRestore(r) \/ RollBack(r) \/ RowFails(r) \/ EndRequest(r)
  BY <1>3, <1>4, <1>5, <1>9 DEF BeginRestore, RollBack, RowFails, EndRequest
<1>10. CASE ReplaceTables(r) \/ FilesFail(r) \/ FilesWritten(r) \/ WarmCache(r)
  BY <1>3, <1>4, <1>5, <1>10 DEF ReplaceTables, FilesFail, FilesWritten, WarmCache
<1>11. CASE ClearUploads(r) \/ \E file \in Files : WriteFile(r, file)
  BY <1>1, <1>3, <1>11 DEF ClearUploads, WriteFile
<1> QED
  BY <1>6, <1>7, <1>8, <1>9, <1>10, <1>11 DEF Continue

\* A request begins, or is over at once.
LEMMA BeginsIdle ==
    ASSUME TypeOK, NEW r \in Requests, Begin(r)
    PROVE  /\ req[r] = Idle /\ \A q \in Requests \ {r} : req'[q] = req[q]
           /\ req' = req \/ req'[r].at \in {"written", "read", "vehicles", "validated"}
BY DEF Begin, CreateVehicle, DeleteVehicle, WriteUpload, ReadAttachment, BeginExport, Validate, TypeOK

\* Unless requests overlap, only the one under way takes steps.
LEMMA InTurn ==
    ASSUME IInv, MCNext, ~overlapped'
    PROVE  /\ ~overlapped
           /\ \A r, s \in Requests : req'[r] # Idle /\ req'[s] # Idle => r = s
           /\ \A r \in Requests : \A q \in Requests \ {r} : Begin(r) => req[q] = Idle
           /\ \A r \in Requests : \A q \in Requests \ {r} : Continue(r) => req[q] = Idle
<1>1. ~overlapped /\ ~Overlaps
  BY DEF MCNext, IInv
<1>2. ~(Cardinality(Busy') > 1) /\ (Busy # {} => req' # req)
  BY <1>1 DEF Overlaps
<1>3. ASSUME NEW r \in Requests, NEW s \in Requests, req'[r] # Idle, req'[s] # Idle PROVE r = s
  <2>1. Busy' \subseteq Requests /\ r \in Busy' /\ s \in Busy'
    BY <1>3 DEF Busy
  <2> HIDE DEF Busy
  <2> QED
    BY <1>2, <2>1, AtMostOne
<1>4. ASSUME NEW r \in Requests, NEW q \in Requests \ {r}, Begin(r), req[q] # Idle PROVE FALSE
  <2>1. req' # req
    BY <1>2, <1>4 DEF Busy
  <2>2. req'[q] # Idle /\ req'[r] # Idle
    BY <1>4, <2>1, BeginsIdle DEF IInv, Idle
  <2> QED
    BY <1>3, <2>2
<1>5. ASSUME NEW r \in Requests, NEW q \in Requests \ {r}, Continue(r), req[q] # Idle PROVE FALSE
  BY <1>1, <1>5, ContinuesOwn DEF IInv, OneAtATime
<1> QED
  BY <1>1, <1>3, <1>4, <1>5

----------------------------------------------------------------------------
(* The restore.                                                            *)

\* A request under way goes on: what it does to the tables and the files.
LEMMA ProgressKept ==
    ASSUME IInv, NEW r \in Requests, Progress(r), Continue(r)
    PROVE  Progress(r)'
<1>1. req \in [Requests -> Kinds]
  BY DEF IInv, TypeOK, Kinds
<1>2. CASE ReplaceTables(r)
  BY <1>1, <1>2 DEF ReplaceTables, Progress, Goto
<1>3. CASE ClearUploads(r)
  BY <1>1, <1>3 DEF ClearUploads, Progress
<1>4. ASSUME NEW file \in Files, WriteFile(r, file) PROVE Progress(r)'
  <2>1. /\ req'[r].at = "write" /\ req'[r].doc = req[r].doc /\ req'[r].todo = req[r].todo \ {file}
        /\ files' = files \cup {file} /\ UNCHANGED <<vehicles, attachments>>
        /\ file \in req[r].todo /\ req[r].at = "write"
    BY <1>1, <1>4 DEF WriteFile
  <2>2. req[r].todo \subseteq req[r].doc.files /\ files = req[r].doc.files \ req[r].todo
        /\ vehicles = req[r].doc.vehicles /\ attachments = req[r].doc.attachments
    BY <2>1 DEF Progress
  <2>3. files' = req[r].doc.files \ (req[r].todo \ {file}) /\ req[r].todo \ {file} \subseteq req[r].doc.files
    BY <2>1, <2>2
  <2> QED
    BY <2>1, <2>2, <2>3 DEF Progress
<1>5. CASE FilesWritten(r) \/ req'[r].at \notin {"clear", "write"}
  <2>1. FilesWritten(r) => req'[r].at = "warm"
    <3>1. req[r] \in Restores /\ FilesWritten(r) => req'[r].at = "warm"
      BY <1>1 DEF FilesWritten, Goto, Restores
    <3> QED
      BY <1>1, <3>1, KindsDiffer DEF FilesWritten
  <2>2. req'[r].at \notin {"clear", "write"}
    BY <1>5, <2>1
  <2> QED
    BY <2>2 DEF Progress
<1> QED
  BY <1>2, <1>3, <1>4, <1>5, ContinuesOwn DEF IInv

LEMMA InitOK == MCInit => IInv
<1> SUFFICES ASSUME MCInit PROVE IInv
  OBVIOUS
<1>1. TypeOK
  BY TypesInit DEF MCInit
<1>2. \A r \in Requests : req[r] = Idle
  BY DEF MCInit, Init
<1>3. OneAtATime /\ overlapped = FALSE
  BY <1>2 DEF MCInit, OneAtATime
<1>4. \A r \in Requests : Progress(r)
  BY <1>2 DEF Progress, Idle
<1> QED
  BY <1>1, <1>3, <1>4 DEF IInv, InProgress

LEMMA StepOK == IInv /\ [MCNext]_<<vars, overlapped>> => IInv'
<1> SUFFICES ASSUME IInv, [MCNext]_<<vars, overlapped>> PROVE IInv'
  OBVIOUS
<1>1. CASE UNCHANGED <<vars, overlapped>>
  BY <1>1 DEF IInv, OneAtATime, InProgress, Progress, TypeOK, vars
<1>2. CASE MCNext
  <2>1. TypeOK' /\ overlapped' \in BOOLEAN
    BY <1>2, TypesStep DEF MCNext, IInv
  <2>2. OneAtATime'
    BY <1>2, InTurn DEF OneAtATime
  <2>3. ASSUME ~overlapped', NEW q \in Requests PROVE Progress(q)'
    <3>1. Progress(q)
      BY <1>2, <2>3, InTurn DEF IInv, InProgress
    <3>2. CASE Restart
      BY <3>2 DEF Restart, Progress, Idle
    <3>3. CASE Continue(q)
      BY <3>1, <3>3, ProgressKept
    <3>4. CASE Begin(q)
      <4>1. req'[q].at \notin {"clear", "write"}
        BY <3>4, BeginsIdle DEF IInv, Idle
      <4> QED
        BY <4>1 DEF Progress
    <3>5. ASSUME NEW r \in Requests \ {q}, Begin(r) \/ Continue(r) PROVE Progress(q)'
      <4>1. req[q] = Idle
        BY <1>2, <2>3, <3>5, InTurn
      <4>2. req'[q] = req[q]
        BY <3>5, BeginsIdle, ContinuesOwn DEF IInv
      <4> QED
        BY <4>1, <4>2 DEF Progress, Idle
    <3> QED
      BY <1>2, <3>2, <3>3, <3>4, <3>5 DEF MCNext, Next
  <2> QED
    BY <2>1, <2>2, <2>3 DEF IInv, InProgress
<1> QED
  BY <1>1, <1>2

\* Tables, files, the connection and the requests keep their kinds (backup.go, vehicles.go).
THEOREM TypeCorrect == Spec => []TypeOK
<1> QED
  BY TypesInit, TypesStep, PTL DEF Spec

\* Where only one request is served at a time, a restore that reports success has brought
\* back the rows and the files of the backup and nothing else, whatever became of attempts
\* before it and wherever the process stopped (backup.go:162, 195).
THEOREM RestoreIsExact == MCSpec => RestoreBringsBackInTurn
<1>1. IInv /\ [MCNext]_<<vars, overlapped>> => [~overlapped' => RestoreBringsBack]_vars
  <2> SUFFICES ASSUME IInv, MCNext, ~overlapped', NEW r \in Requests,
                      req[r].at = "write", req'[r].at = "warm"
               PROVE  /\ vehicles = req[r].doc.vehicles
                      /\ attachments = req[r].doc.attachments
                      /\ files = req[r].doc.files
    BY DEF RestoreBringsBack, vars
  <2>1. Progress(r)
    BY InTurn DEF IInv, InProgress
  <2>2. req[r].todo = {}
    <3>1. req \in [Requests -> Kinds]
      BY DEF IInv, TypeOK, Kinds
    <3>2. CASE Restart
      BY <3>2 DEF Restart, Idle
    <3>3. ASSUME NEW q \in Requests \ {r}, Begin(q) \/ Continue(q) PROVE FALSE
      BY <3>3, BeginsIdle, ContinuesOwn DEF IInv
    <3>4. CASE Begin(r)
      BY <3>4, BeginsIdle DEF IInv, Idle
    <3>5. CASE Continue(r)
      <4>1. CASE FilesWritten(r)
        BY <4>1 DEF FilesWritten
      <4>2. CASE ReplaceTables(r) \/ ClearUploads(r)
        BY <4>2 DEF ReplaceTables, ClearUploads
      <4>3. ASSUME NEW file \in Files, WriteFile(r, file) PROVE FALSE
        <5>1. req'[r] = [req[r] EXCEPT !.todo = @ \ {file}] /\ req[r] \in Restores
          BY <3>1, <4>3, KindsDiffer DEF WriteFile
        <5> QED
          BY <5>1 DEF Restores
      <4> QED
        BY <3>5, <4>1, <4>2, <4>3, ContinuesOwn DEF IInv
    <3> QED
      BY <3>2, <3>3, <3>4, <3>5 DEF MCNext, Next
  <2> QED
    BY <2>1, <2>2 DEF Progress
<1> QED
  BY <1>1, InitOK, StepOK, PTL DEF MCSpec, RestoreBringsBackInTurn
============================================================================
