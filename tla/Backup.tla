------------------------------ MODULE Backup ------------------------------
(***************************************************************************)
(* Export and restore of a backup (backend/internal/application/backup.go) *)
(* while attachments are uploaded and deleted and vehicles come and go.    *)
(*                                                                         *)
(* Two of the sixteen tables stand for all of them: vehicles and           *)
(* vehicle_attachments, which names vehicles and files.  The references    *)
(* the migrations declare are not enforced (sqlite.go:27).  The one        *)
(* connection of the pool is part of the state here: a transaction that is *)
(* neither committed nor rolled back keeps it.                             *)
(***************************************************************************)
EXTENDS Integers, FiniteSets

CONSTANTS VehicleIds, AttachmentIds,   \* what randomID may return
          Files,           \* names of uploaded files; a name stands for its content
          Requests,        \* HTTP requests being served
          MayStop          \* whether the process may stop between two steps

Nobody == "nobody"         \* no request holds the connection
NoBackup == [vehicles |-> {}, attachments |-> {}, files |-> {}]

ASSUME MayStopAssumption == MayStop \in BOOLEAN
ASSUME RequestsAssumption == Nobody \notin Requests /\ IsFiniteSet(Requests)

VARIABLES vehicles,      \* ids of the vehicles
          attachments,   \* vehicle_attachments: rows
          files,         \* files in the uploads directory
          spent,         \* ids and file names that were given out
          backup,        \* the backup file that was exported last
          conn,          \* who holds the connection with an open transaction
          req            \* where each request is and what it has read
vars == <<vehicles, attachments, files, spent, backup, conn, req>>
data == <<vehicles, attachments, files, spent>>

Rows == [id : AttachmentIds, vehicle : VehicleIds, file : Files]
Documents == [vehicles : SUBSET VehicleIds, attachments : SUBSET Rows,
              files : SUBSET Files]

Idle == [at |-> "idle"]
Uploads == [at : {"written", "found", "refused"}, vehicle : VehicleIds, file : Files]
Deletes == [at : {"read", "deleted"}, row : Rows]
Exports == [at : {"vehicles", "attachments", "uploads", "walk"}, doc : Documents,
            todo : SUBSET Files]
Restores == [at : {"validated", "begun", "failed", "clear", "write", "warm"},
             doc : Documents, todo : SUBSET Files]

TypeOK ==
    /\ vehicles \subseteq VehicleIds
    /\ attachments \subseteq Rows
    /\ files \subseteq Files
    /\ spent \subseteq VehicleIds \cup AttachmentIds \cup Files
    /\ backup \in Documents
    /\ conn = Nobody \/ (conn \in Requests /\ req[conn].at \in {"begun", "failed"})
    /\ req \in [Requests -> Uploads \cup Deletes \cup Exports \cup Restores \cup {Idle}]

Init ==
    /\ vehicles = {} /\ attachments = {} /\ files = {} /\ spent = {}
    /\ backup = NoBackup
    /\ conn = Nobody
    /\ req = [r \in Requests |-> Idle]

Goto(r, at) == req' = [req EXCEPT ![r].at = at]
Finish(r) == req' = [req EXCEPT ![r] = Idle]

----------------------------------------------------------------------------
(* Vehicles and attachments.                                               *)

CreateVehicle(r, v) ==
    /\ req[r] = Idle
    /\ conn = Nobody
    /\ v \notin spent
    /\ vehicles' = vehicles \cup {v}
    /\ spent' = spent \cup {v}
    /\ UNCHANGED <<attachments, files, backup, conn, req>>

\* Its attachments stay, rows and files.
DeleteVehicle(r, v) ==
    /\ req[r] = Idle
    /\ conn = Nobody
    /\ v \in vehicles
    /\ vehicles' = vehicles \ {v}
    /\ UNCHANGED <<attachments, files, spent, backup, conn, req>>

WriteUpload(r, v, file) ==
    /\ req[r] = Idle
    /\ file \notin spent
    /\ files' = files \cup {file}
    /\ spent' = spent \cup {file}
    /\ req' = [req EXCEPT ![r] = [at |-> "written", vehicle |-> v, file |-> file]]
    /\ UNCHANGED <<vehicles, attachments, backup, conn>>

FindVehicle(r) ==
    /\ req[r].at = "written"
    /\ conn = Nobody
    /\ Goto(r, IF req[r].vehicle \in vehicles THEN "found" ELSE "refused")
    /\ UNCHANGED <<data, backup, conn>>

\* The vehicle may be gone by now.
InsertAttachment(r) ==
    /\ req[r].at = "found"
    /\ conn = Nobody
    /\ \E id \in AttachmentIds \ spent :
          /\ attachments' = attachments
               \cup {[id |-> id, vehicle |-> req[r].vehicle, file |-> req[r].file]}
          /\ spent' = spent \cup {id}
    /\ Finish(r)
    /\ UNCHANGED <<vehicles, files, backup, conn>>

\* A statement fails: the written file is removed.
RefuseUpload(r) ==
    /\ req[r].at \in {"written", "found"}
    /\ Goto(r, "refused")
    /\ UNCHANGED <<data, backup, conn>>

RemoveUpload(r) ==
    /\ req[r].at = "refused"
    /\ files' = files \ {req[r].file}
    /\ Finish(r)
    /\ UNCHANGED <<vehicles, attachments, spent, backup, conn>>

ReadAttachment(r, a) ==
    /\ req[r] = Idle
    /\ conn = Nobody
    /\ a \in attachments
    /\ req' = [req EXCEPT ![r] = [at |-> "read", row |-> a]]
    /\ UNCHANGED <<data, backup, conn>>

\* Deleting no row ends the request.
DeleteAttachment(r) ==
    /\ req[r].at = "read"
    /\ conn = Nobody
    /\ attachments' = {a \in attachments : a.id # req[r].row.id}
    /\ IF attachments' = attachments THEN Finish(r) ELSE Goto(r, "deleted")
    /\ UNCHANGED <<vehicles, files, spent, backup, conn>>

RemoveFile(r) ==
    /\ req[r].at = "deleted"
    /\ files' = files \ {req[r].row.file}
    /\ Finish(r)
    /\ UNCHANGED <<vehicles, attachments, spent, backup, conn>>

----------------------------------------------------------------------------
(* Export: one SELECT for each table, then a walk through the files.       *)

BeginExport(r) ==
    /\ req[r] = Idle
    /\ req' = [req EXCEPT ![r] = [at |-> "vehicles", doc |-> NoBackup, todo |-> {}]]
    /\ UNCHANGED <<data, backup, conn>>

ExportVehicles(r) ==
    /\ req[r].at = "vehicles"
    /\ conn = Nobody
    /\ req' = [req EXCEPT ![r].doc.vehicles = vehicles, ![r].at = "attachments"]
    /\ UNCHANGED <<data, backup, conn>>

ExportAttachments(r) ==
    /\ req[r].at = "attachments"
    /\ conn = Nobody
    /\ req' = [req EXCEPT ![r].doc.attachments = attachments, ![r].at = "uploads"]
    /\ UNCHANGED <<data, backup, conn>>

ListFiles(r) ==
    /\ req[r].at = "uploads"
    /\ req' = [req EXCEPT ![r].todo = files, ![r].at = "walk"]
    /\ UNCHANGED <<data, backup, conn>>

\* A listed file that has gone fails the export.
ReadFile(r, file) ==
    /\ req[r].at = "walk"
    /\ file \in req[r].todo
    /\ IF file \in files
         THEN req' = [req EXCEPT ![r].doc.files = @ \cup {file}, ![r].todo = @ \ {file}]
         ELSE Finish(r)
    /\ UNCHANGED <<data, backup, conn>>

FinishExport(r) ==
    /\ req[r].at = "walk"
    /\ req[r].todo = {}
    /\ backup' = req[r].doc
    /\ Finish(r)
    /\ UNCHANGED <<data, conn>>

----------------------------------------------------------------------------
(* Restore: the tables in a transaction, then the files.                   *)

\* Validation does not look at references between tables or to files.
Validate(r) ==
    /\ req[r] = Idle
    /\ backup # NoBackup
    /\ conn = Nobody
    /\ req' = [req EXCEPT ![r] = [at |-> "validated", doc |-> backup, todo |-> {}]]
    /\ UNCHANGED <<data, backup, conn>>

BeginRestore(r) ==
    /\ req[r].at = "validated"
    /\ conn = Nobody
    /\ conn' = r
    /\ Goto(r, "begun")
    /\ UNCHANGED <<data, backup>>

ReplaceTables(r) ==
    /\ req[r].at = "begun"
    /\ vehicles' = req[r].doc.vehicles
    /\ attachments' = req[r].doc.attachments
    /\ conn' = Nobody
    /\ Goto(r, "clear")
    /\ UNCHANGED <<files, spent, backup>>

\* Clearing a table fails, or the commit: the transaction is rolled back at once.
RollBack(r) ==
    /\ req[r].at = "begun"
    /\ conn' = Nobody
    /\ Finish(r)
    /\ UNCHANGED <<data, backup>>

\* A row is refused: its error is in a variable of the loop, and the deferred rollback
\* looks at the outer one.
RowFails(r) ==
    /\ req[r].at = "begun"
    /\ Goto(r, "failed")
    /\ UNCHANGED <<data, backup, conn>>

\* fault: nothing cancels the context of the request
EndRequestOnly(r) ==
    /\ req[r].at = "failed"
    /\ Finish(r)
    /\ UNCHANGED <<data, backup, conn>>

\* The handler answers and returns; its context is cancelled and the transaction with it.
EndRequest(r) ==
    /\ req[r].at = "failed"
    /\ conn' = Nobody
    /\ Finish(r)
    /\ UNCHANGED <<data, backup>>

\* fault: the uploads of today stay beside those of the backup
ClearUploadsSkipped(r) ==
    /\ req[r].at = "clear"
    /\ req' = [req EXCEPT ![r].at = "write", ![r].todo = req[r].doc.files]
    /\ UNCHANGED <<data, backup, conn>>

ClearUploads(r) ==
    /\ req[r].at = "clear"
    /\ files' = {}
    /\ req' = [req EXCEPT ![r].at = "write", ![r].todo = req[r].doc.files]
    /\ UNCHANGED <<vehicles, attachments, spent, backup, conn>>

WriteFile(r, file) ==
    /\ req[r].at = "write"
    /\ file \in req[r].todo
    /\ files' = files \cup {file}
    /\ req' = [req EXCEPT ![r].todo = @ \ {file}]
    /\ UNCHANGED <<vehicles, attachments, spent, backup, conn>>

\* Removing or writing a file fails; the tables are restored, the files are not.
FilesFail(r) ==
    /\ req[r].at \in {"clear", "write"}
    /\ Finish(r)
    /\ UNCHANGED <<data, backup, conn>>

FilesWritten(r) ==
    /\ req[r].at = "write"
    /\ req[r].todo = {}
    /\ Goto(r, "warm")
    /\ UNCHANGED <<data, backup, conn>>

\* The cache of the master data is filled again, the restore is answered.
WarmCache(r) ==
    /\ req[r].at = "warm"
    /\ conn = Nobody
    /\ Finish(r)
    /\ UNCHANGED <<data, backup, conn>>

\* A read fails, and the request ends with an error.
Abandon(r) ==
    /\ req[r].at \in {"read", "vehicles", "attachments", "uploads", "walk", "validated"}
    /\ Finish(r)
    /\ UNCHANGED <<data, backup, conn>>

\* The process stops; SQLite rolls an open transaction back when it is opened again.
Restart ==
    /\ MayStop
    /\ conn' = Nobody
    /\ req' = [r \in Requests |-> Idle]
    /\ UNCHANGED <<data, backup>>

----------------------------------------------------------------------------

Begin(r) ==
    \/ \E v \in VehicleIds : CreateVehicle(r, v) \/ DeleteVehicle(r, v)
    \/ \E v \in VehicleIds, file \in Files : WriteUpload(r, v, file)
    \/ \E a \in attachments : ReadAttachment(r, a)
    \/ BeginExport(r) \/ Validate(r)

Continue(r) ==
    \/ FindVehicle(r) \/ InsertAttachment(r) \/ RefuseUpload(r) \/ RemoveUpload(r)
    \/ DeleteAttachment(r) \/ RemoveFile(r)
    \/ ExportVehicles(r) \/ ExportAttachments(r) \/ ListFiles(r)
    \/ \E file \in Files : ReadFile(r, file) \/ WriteFile(r, file)
    \/ FinishExport(r)
    \/ BeginRestore(r) \/ ReplaceTables(r) \/ RollBack(r) \/ RowFails(r) \/ EndRequest(r)
    \/ ClearUploads(r) \/ FilesFail(r) \/ FilesWritten(r) \/ WarmCache(r)
    \/ Abandon(r)

Next ==
    \/ \E r \in Requests : Begin(r) \/ Continue(r)
    \/ Restart

Spec == Init /\ [][Next]_vars

----------------------------------------------------------------------------
(* Properties.                                                             *)

\* A restore that reports success has brought back what the backup holds, nothing else.
RestoreBringsBack ==
    \A r \in Requests :
       req[r].at = "write" /\ req'[r].at = "warm"
         => /\ vehicles = req[r].doc.vehicles
            /\ attachments = req[r].doc.attachments
            /\ files = req[r].doc.files

\* A transaction always gives the connection back, also where the code returns without
\* ending it; everything else waits for the connection (sqlite.go:37, backup.go:156).
ConnectionReturns == \A r \in Requests : conn = r ~> conn # r
=============================================================================
