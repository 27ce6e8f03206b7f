--------------------------- MODULE VehicleImport ---------------------------
(***************************************************************************)
(* The import of vehicles: the view that reads a file or the locomotives   *)
(* of an ECoS, lets the user correct the rows and stores the selected ones *)
(* one request after the other                                             *)
(* (frontend/src/features/importExport/ImportExportView.tsx and            *)
(* importExportHelpers.tsx), with the requests as the server handles them  *)
(* (backend/internal/application/vehicles.go).                             *)
(*                                                                         *)
(* The loop that stores rows runs on the rows and vehicles of the click    *)
(* that started it, while the view goes on: rows are edited, another file  *)
(* is loaded, the view is left.                                            *)
(*                                                                         *)
(* Five fields stand for those of a vehicle: its number; "maker" for the   *)
(* five fields no vehicle may lack; "address" for those the list of        *)
(* vehicles holds and vehicleToRequest copies; "color" for the some thirty *)
(* that it copies but the list lacks (lengthMm to qrCodeEnabled);          *)
(* "storage" for those it does not copy.  Matching by name may find any    *)
(* vehicle.  The order of vehicles and their images are left out,          *)
(* functions too (the view suggests none).                                 *)
(***************************************************************************)
EXTENDS Integers, FiniteSets, Sequences, FiniteSetsExt

CONSTANTS VehicleIds,   \* what randomID may return
          Values,       \* contents of a field
          Lines,        \* lines of a file after its header, as integers
          Files,        \* files: their headers, and the cells of each line
          Locos,        \* locomotives of the ECoS
          Address,      \* their addresses
          Stored,       \* vehicles at the start: a function from ids to vehicles
          OtherKeys,    \* fields that other users edit
          MaxEdits      \* bound: saves, corrections, edits by others and views
                        \* opened again

Empty == "empty"
None == "none"
Keys == {"number", "maker", "address", "color", "storage"}
Imported == Keys \ {"storage"}    \* the keys of vehicleImportFields
Listed == {"number", "maker", "address"}    \* the columns List selects
\* What the header of a column stands for; two may stand for the same field.
ColumnAliases == [inventar |-> "number", inv |-> "number", hersteller |-> "maker",
                  adresse |-> "address", farbe |-> "color", lager |-> None]
RowIds == Lines \cup Locos
Data == [Keys -> Values \cup {Empty}]
Vehicles == [data : Data, locos : SUBSET Locos, cv : Locos \cup {None}]

\* What an instance assumes of the constants.
ConstantsFit ==
    /\ Empty \notin Values /\ None \notin VehicleIds \cup Locos
    /\ Lines \subseteq Nat /\ Lines \cap Locos = {} /\ OtherKeys \subseteq Keys
    /\ \A f \in Files :
         /\ f.header \in Seq(DOMAIN ColumnAliases)
         /\ \A l \in DOMAIN f.cells :
              l \in Lines /\ f.cells[l] \in [DOMAIN f.header -> Values \cup {Empty}]
    /\ Address \in [Locos -> Values \cup {Empty}]
    /\ DOMAIN Stored \subseteq VehicleIds /\ \A v \in DOMAIN Stored : Stored[v] \in Vehicles
    /\ MaxEdits \in Nat

VARIABLES server,    \* vehicles of the server: id -> vehicle
          vehicles,  \* the view's copy of them
          list,      \* the answer to the view's request for them, on its way
          file,      \* the file in the view
          columns,   \* the field each column of the file is mapped to
          rows,      \* rows under review: id -> row
          job,       \* the loop that stores rows
          edits
vars == <<server, vehicles, list, file, columns, rows, job, edits>>

Rows == [data : Data, imported : SUBSET Keys, dup : VehicleIds \cup {None},
         mode : {"create", "update"}, status : {"ok", "warning", "error", "saved"},
         selected : BOOLEAN, loco : Locos \cup {None}]
NoRows == [x \in {} |-> {}]
NoFile == [header |-> <<>>, cells |-> <<>>]
NotAsked == [at |-> "none"]
NoJob == [at |-> "none"]

Init ==
    /\ server = Stored
    /\ vehicles = NoRows
    /\ list = [at |-> "asked"]
    /\ file = NoFile
    /\ columns = <<>>
    /\ rows = NoRows
    /\ job = NoJob
    /\ edits = 0

With(f, id, x) == [y \in DOMAIN f \cup {id} |-> IF y = id THEN x ELSE f[y]]

----------------------------------------------------------------------------
(* Rows.                                                                   *)

\* A vehicle needs manufacturer, name, gauge, category and gattung.
Complete(data) == data["maker"] # Empty

Duplicate(data, known) ==
    {v \in DOMAIN known : data["number"] # Empty /\ known[v].data["number"] = data["number"]}

\* A row with its duplicate looked up and its fields checked.
\* fault: a row stays selected for creation although a field is missing
CheckedAlways(row, known) ==
    IF Duplicate(row.data, known) # {}
      THEN [row EXCEPT !.dup = CHOOSE v \in Duplicate(row.data, known) : TRUE,
                       !.mode = "update", !.status = "warning"]
      ELSE [row EXCEPT !.dup = None, !.mode = "create", !.status = "ok"]

Checked(row, known) ==
    IF Duplicate(row.data, known) # {}
      THEN [row EXCEPT !.dup = CHOOSE v \in Duplicate(row.data, known) : TRUE,
                       !.mode = "update", !.status = "warning"]
      ELSE [row EXCEPT !.dup = None, !.mode = "create",
                       !.status = IF Complete(row.data) THEN "ok" ELSE "error",
                       !.selected = @ /\ Complete(row.data)]

\* The columns of a line that bring a field; the last of them wins.
Bringing(cells, mapped, k) == {c \in DOMAIN mapped : mapped[c] = k /\ cells[c] # Empty}

TableRow(cells, mapped, known) ==
    LET brought(k) == Bringing(cells, mapped, k)
        data == [k \in Keys |-> IF brought(k) = {} THEN Empty ELSE cells[Max(brought(k))]]
        row == Checked([data |-> data, imported |-> {k \in Keys : brought(k) # {}},
                        dup |-> None, mode |-> "create", status |-> "ok",
                        selected |-> TRUE, loco |-> None], known)
    IN  [row EXCEPT !.selected = row.status = "ok"]

\* importRowsFromTable: the rows of the file in the view
TableRows(f, mapped) == [l \in DOMAIN f.cells |-> TableRow(f.cells[l], mapped, vehicles)]

DefaultColumns(f) == [c \in DOMAIN f.header |-> ColumnAliases[f.header[c]]]

\* findECoSMatch: by mapping, then by address, then by name, which may be any
Matches(l) ==
    LET mapped == {v \in DOMAIN vehicles : l \in vehicles[v].locos}
        same == {v \in DOMAIN vehicles :
                   Address[l] # Empty /\ vehicles[v].data["address"] = Address[l]}
    IN  IF mapped # {} THEN mapped
        ELSE IF same # {} THEN same ELSE DOMAIN vehicles \cup {None}

\* vehicleToRequest leaves fields out.
Request(data) == [data EXCEPT !["storage"] = Empty]

EcosRow(l, m) ==
    LET base == IF m = None THEN [k \in Keys |-> Empty] ELSE Request(vehicles[m].data)
    IN  [data |-> IF Address[l] = Empty THEN base ELSE [base EXCEPT !["address"] = Address[l]],
         imported |-> {"address"}, dup |-> m, loco |-> l, selected |-> m # None,
         mode |-> IF m = None THEN "create" ELSE "update",
         status |-> IF m = None THEN "error" ELSE "warning"]

\* mergeImportedVehicle: what the row brings, on top of the vehicle.
\* fault: fields without a value are taken too
MergedAll(data, row) == [k \in Keys |-> IF k \in Imported THEN row.data[k] ELSE data[k]]

Merged(data, row) ==
    [k \in Keys |-> IF k \in row.imported /\ row.data[k] # Empty
                      THEN row.data[k] ELSE Request(data)[k]]

----------------------------------------------------------------------------
(* The view.                                                               *)

Correct == edits < MaxEdits /\ edits' = edits + 1

\* A vehicle as a row of the list
ListRow(v) == [v EXCEPT !.data = [k \in Keys |-> IF k \in Listed THEN v.data[k] ELSE Empty]]

\* The answer holds the vehicles at the time the server made it.
ServeList ==
    /\ list.at = "asked"
    /\ list' = [at |-> "sent", vehicles |-> [v \in DOMAIN server |-> ListRow(server[v])]]
    /\ UNCHANGED <<server, vehicles, file, columns, rows, job, edits>>

\* fault: an answer that is no list is taken for one
ListArrivesAsItIs ==
    /\ list.at # "none"
    /\ list' = NotAsked
    /\ vehicles' = IF list.at = "sent" THEN list.vehicles ELSE list
    /\ UNCHANGED <<server, file, columns, rows, job, edits>>

ListArrives ==
    /\ list.at # "none"
    /\ list' = NotAsked
    /\ \/ list.at = "sent" /\ vehicles' = list.vehicles
       \/ UNCHANGED vehicles      \* the request failed
    /\ UNCHANGED <<server, file, columns, rows, job, edits>>

\* Leaving the view drops its state, but not the loop; the view that is opened then
\* starts over.
Reopen ==
    /\ Correct
    /\ vehicles' = NoRows
    /\ list' = [at |-> "asked"]
    /\ file' = NoFile
    /\ columns' = <<>>
    /\ rows' = NoRows
    /\ job' = IF job = NoJob THEN job ELSE [job EXCEPT !.left = TRUE]
    /\ UNCHANGED server

\* A file without a table empties the review.
LoadTable(f) ==
    /\ file' = f
    /\ columns' = DefaultColumns(f)
    /\ rows' = TableRows(f, DefaultColumns(f))

ChooseFile(f) == LoadTable(f) /\ UNCHANGED <<server, vehicles, list, job, edits>>

\* Column c is mapped to field k, or to none; another column gives k up.
SetColumnMapping(c, k) ==
    /\ Correct
    /\ columns' = [d \in DOMAIN columns |->
                     IF d = c THEN k ELSE IF columns[d] = k THEN None ELSE columns[d]]
    /\ rows' = TableRows(file, columns')
    /\ UNCHANGED <<server, vehicles, list, file, job>>

UpdateRow(r, k, x) ==
    /\ Correct
    /\ rows' = [rows EXCEPT ![r] = Checked([rows[r] EXCEPT !.data[k] = x,
                                                           !.imported = @ \cup {k}], vehicles)]
    /\ UNCHANGED <<server, vehicles, list, file, columns, job>>

SetRowSelected(r, selected) ==
    /\ rows[r].status \notin {"saved", "error"}
    /\ rows' = [rows EXCEPT ![r].selected = selected]
    /\ UNCHANGED <<server, vehicles, list, file, columns, job, edits>>

SetRowMode(r, mode) ==
    /\ Correct
    /\ rows[r].status # "saved"
    /\ mode = "update" => rows[r].dup # None
    /\ rows' = [rows EXCEPT ![r] =
         IF @.dup = None THEN [@ EXCEPT !.mode = mode]
         ELSE IF mode = "create"
           THEN [@ EXCEPT !.mode = mode, !.selected = FALSE, !.status = "error"]
           ELSE [@ EXCEPT !.mode = mode, !.status = "warning"]]
    /\ UNCHANGED <<server, vehicles, list, file, columns, job>>

\* addECoSProbeToImportReview; the rows of the file stay, its columns go.
AddProbe ==
    /\ \E match \in [Locos -> VehicleIds \cup {None}] :
         /\ \A l \in Locos : match[l] \in Matches(l)
         /\ rows' = [r \in DOMAIN rows \cup Locos |->
                       IF r \in Locos THEN EcosRow(r, match[r]) ELSE rows[r]]
    /\ file' = NoFile
    /\ columns' = <<>>
    /\ UNCHANGED <<server, vehicles, list, job, edits>>

----------------------------------------------------------------------------
(* The loop.                                                               *)

Saving == job # NoJob /\ ~job.left     \* the button is disabled

Todo == {r \in DOMAIN rows : rows[r].selected /\ rows[r].status \notin {"saved", "error"}}

\* The rows that are left, and of the vehicles of the click those they update
Job(todo, known, left) ==
    LET updated == {todo[r].dup : r \in {x \in DOMAIN todo : todo[x].mode = "update"}}
    IN  [at |-> "next", rows |-> todo, left |-> left,
         vehicles |-> [v \in updated \cap DOMAIN known |-> known[v]]]

Remaining(done) ==
    Job([r \in DOMAIN job.rows \ done |-> job.rows[r]], job.vehicles, job.left)

\* The button counts selected rows that are in error too.  Bound: a loop that was left
\* ends before another begins.
SaveSelected ==
    /\ Correct
    /\ job = NoJob
    /\ \E r \in DOMAIN rows : rows[r].selected /\ rows[r].status # "saved"
    /\ job' = Job([r \in Todo |-> rows[r]], vehicles, FALSE)
    /\ UNCHANGED <<server, vehicles, list, file, columns, rows>>

Rest == DOMAIN job.rows

\* Lines first, in their order.
Current == IF Rest \cap Lines # {} THEN Min(Rest \cap Lines)
           ELSE CHOOSE r \in Rest : TRUE

Mark(r, row) == rows' = IF job.left \/ r \notin DOMAIN rows THEN rows
                        ELSE [rows EXCEPT ![r] = row]

\* fault: a row that failed counts as saved
FailedMarksSaved(r) ==
    /\ Mark(r, [rows[r] EXCEPT !.selected = FALSE, !.status = "saved"])
    /\ job' = Remaining({r})
    /\ UNCHANGED <<vehicles, list, file, columns, edits>>

\* fault: a row that failed is tried again
RetryFailed(r) ==
    /\ Mark(r, [rows[r] EXCEPT !.status = "error"])
    /\ job' = Remaining({})
    /\ UNCHANGED <<vehicles, list, file, columns, edits>>

\* A request was refused, or its answer did not come in time.
Failed(r) ==
    /\ Mark(r, [rows[r] EXCEPT !.status = "error"])
    /\ job' = Remaining({r})
    /\ UNCHANGED <<vehicles, list, file, columns, edits>>

\* All requests of the row succeeded; the view takes the vehicle as it was answered.
\* fault: an updated vehicle is not taken
DoneCreatesOnly(r, v, saved) ==
    /\ vehicles' = IF job.left \/ job.rows[r].mode = "update" THEN vehicles
                   ELSE With(vehicles, v, saved)
    /\ Mark(r, [rows[r] EXCEPT !.selected = FALSE, !.status = "saved"])
    /\ job' = Remaining({r})
    /\ UNCHANGED <<list, file, columns, edits>>

Done(r, v, saved) ==
    /\ vehicles' = IF job.left \/ (job.rows[r].mode = "update" /\ v \notin DOMAIN vehicles)
                     THEN vehicles ELSE With(vehicles, v, saved)
    /\ Mark(r, [rows[r] EXCEPT !.selected = FALSE, !.status = "saved"])
    /\ job' = Remaining({r})
    /\ UNCHANGED <<list, file, columns, edits>>

\* After each request: on to the next one of the row, or to the next row.
Answered(r, v, saved) ==
    IF job.rows[r].loco = None THEN Done(r, v, saved)
    ELSE /\ job' = [at |-> "map", rows |-> job.rows, vehicles |-> job.vehicles,
                    left |-> job.left, id |-> v, saved |-> saved]
         /\ UNCHANGED <<vehicles, list, file, columns, rows, edits>>

NumberFree(number, v) == \A w \in DOMAIN server \ {v} : server[w].data["number"] # number

\* Update: a blank number keeps the one there is.
UpdateVehicle(r, v) ==
    LET data == Merged(job.vehicles[v].data, job.rows[r])
        number == IF data["number"] = Empty THEN server[v].data["number"] ELSE data["number"]
        saved == [server[v] EXCEPT !.data = [data EXCEPT !["number"] = number]]
    IN  /\ v \in DOMAIN server /\ Complete(data) /\ NumberFree(number, v)
        /\ server' = [server EXCEPT ![v] = saved]
        /\ Answered(r, v, saved) \/ Failed(r)

\* Create: a blank number is drawn.
CreateVehicle(r, v, number) ==
    LET data == job.rows[r].data
        saved == [data |-> [data EXCEPT !["number"] = number], locos |-> {}, cv |-> None]
    IN  /\ v \notin DOMAIN server /\ Complete(data) /\ NumberFree(number, v)
        /\ data["number"] \in {number, Empty}
        /\ server' = With(server, v, saved)
        /\ Answered(r, v, saved) \/ Failed(r)

\* The row updates the vehicle it was matched with if the click knew that vehicle.
Updates(r) == job.rows[r].mode = "update" /\ job.rows[r].dup \in DOMAIN job.vehicles

Store ==
    /\ job.at = "next" /\ Rest # {}
    /\ LET r == Current
       IN  \/ Updates(r) /\ UpdateVehicle(r, job.rows[r].dup)
           \/ ~Updates(r) /\ \E v \in VehicleIds, n \in Values : CreateVehicle(r, v, n)
           \/ Failed(r) /\ UNCHANGED server

\* A locomotive is mapped to one vehicle at a time.
UpsertMapping ==
    /\ job.at = "map"
    /\ LET r == Current
           l == job.rows[r].loco
       IN  \/ /\ server' = [v \in DOMAIN server |->
                   [server[v] EXCEPT !.locos = IF v = job.id THEN @ \cup {l} ELSE @ \ {l}]]
              /\ \/ /\ job' = [job EXCEPT !.at = "cv", !.saved.locos = @ \cup {l}]
                    /\ UNCHANGED <<vehicles, list, file, columns, rows, edits>>
                 \/ Failed(r)
           \/ Failed(r) /\ UNCHANGED server

\* saveCVSuggestions: the values are stored, but the view keeps the vehicle without.
SaveCVs ==
    /\ job.at = "cv"
    /\ LET r == Current
       IN  \/ /\ server' = [server EXCEPT ![job.id].cv = job.rows[r].loco]
              /\ Done(r, job.id, job.saved) \/ Failed(r)
           \/ Failed(r) /\ UNCHANGED server

Finish ==
    /\ job.at = "next" /\ Rest = {}
    /\ job' = NoJob
    /\ UNCHANGED <<server, vehicles, list, file, columns, rows, edits>>

\* Another user edits a field of a vehicle.
OtherUser(v, k, x) ==
    /\ Correct
    /\ k = "number" => NumberFree(x, v)
    /\ server' = [server EXCEPT ![v].data[k] = x]
    /\ UNCHANGED <<vehicles, list, file, columns, rows, job>>

Loop == Store \/ UpsertMapping \/ SaveCVs \/ Finish

\* The panels of the view.
TransferPanel == \E f \in Files \cup {NoFile} : ChooseFile(f)

EcosPanel == ~Saving /\ AddProbe

MappingPanel == \E c \in DOMAIN columns, k \in Imported \cup {None} : SetColumnMapping(c, k)

ReviewPanel ==
    \/ \E r \in DOMAIN rows, k \in {"number", "maker"}, x \in Values \cup {Empty} :
         UpdateRow(r, k, x)
    \/ \E r \in DOMAIN rows, selected \in BOOLEAN : SetRowSelected(r, selected)
    \/ \E r \in DOMAIN rows, mode \in {"create", "update"} : SetRowMode(r, mode)
    \/ ~Saving /\ SaveSelected

Next ==
    \/ ServeList
    \/ ListArrives
    \/ Reopen
    \/ TransferPanel
    \/ EcosPanel
    \/ MappingPanel
    \/ ReviewPanel
    \/ Loop
    \/ \E v \in DOMAIN server, k \in OtherKeys, x \in Values : OtherUser(v, k, x)

----------------------------------------------------------------------------
TypeOK ==
    /\ DOMAIN server \subseteq VehicleIds
    /\ \A v \in DOMAIN server : server[v] \in Vehicles
    /\ DOMAIN vehicles \subseteq VehicleIds
    /\ \A v \in DOMAIN vehicles : vehicles[v] \in Vehicles
    /\ list.at \in {"none", "asked", "sent"}
    /\ file \in Files \cup {NoFile}
    /\ columns \in [DOMAIN file.header -> Imported \cup {None}]
    /\ DOMAIN rows \subseteq RowIds
    /\ \A r \in DOMAIN rows : rows[r] \in Rows
    /\ job.at \in {"none", "next", "map", "cv"}
    /\ edits \in 0 .. MaxEdits

\* A row that the loop will store is complete if it makes a vehicle, and knows the
\* vehicle if it changes one, whatever corrections, failures and changes of mode it
\* went through (ImportExportView.tsx:189).
ReadyRows ==
    /\ \A r \in DOMAIN rows :
         rows[r].selected /\ rows[r].status \notin {"saved", "error"} =>
           IF rows[r].mode = "create" THEN Complete(rows[r].data) ELSE rows[r].dup # None
    /\ job # NoJob => \A r \in Rest :
         job.rows[r].mode = "create" => Complete(job.rows[r].data)

\* A row of the loop stores vehicle v.
StoredByRow(v) ==
    /\ job # NoJob /\ edits' = edits
    /\ v \in DOMAIN job.vehicles /\ server'[v].data # server[v].data

\* The loop knows field k of the vehicle: it copied what the server holds.
Knows(v, k) == job.vehicles[v].data[k] = server[v].data[k]

Keeps(v, keys) ==
    \A k \in keys \ job.rows[Current].imported : server'[v].data[k] = server[v].data[k]

KeepsKnown == \A v \in DOMAIN server :
                StoredByRow(v) => Keeps(v, {k \in Imported : Knows(v, k)})

KeepsAll == \A v \in DOMAIN server :
              StoredByRow(v) /\ (\A k \in Listed : Knows(v, k)) => Keeps(v, Keys)
=============================================================================
