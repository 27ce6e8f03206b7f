-------------------------- MODULE VehiclePagesProofs --------------------------
(***************************************************************************)
(* The four pages of the vehicles.  Of the import: what the loop will      *)
(* store fits, what an update leaves alone, and that a row that turns to   *)
(* saved is stored.  Of the dialog: that it shows one vehicle, and that a  *)
(* save of the form drops no image.  Of the CV values: that an import that *)
(* is repeated adds nothing, and that a loop overwrites only what its      *)
(* preview showed.  Of the delimited text: that what was written is read   *)
(* again.  The invariants speak of one page each; the other pages leave    *)
(* what belongs to it alone.                                               *)
(***************************************************************************)
EXTENDS MCVehiclePages, FiniteSetTheorems, WellFoundedInduction, TLAPS

----------------------------------------------------------------------------
(* Least and greatest numbers.                                             *)

\* The relation of WellFoundedInduction, written out.
LEMMA LessThan == OpToRel(<, Nat) = {ss \in Nat \X Nat : ss[1] < ss[2]}
BY DEF OpToRel

\* A set of natural numbers that is not empty has a least member.
LEMMA LeastNumber ==
    ASSUME NEW S, S \subseteq Nat, S # {}
    PROVE  \E x \in S : \A y \in S : x <= y
<1>1. PICK R : R = {ss \in Nat \X Nat : ss[1] < ss[2]} /\ IsWellFoundedOn(R, Nat)
  BY NatLessThanWellFounded, LessThan, Zenon
<1>2. PICK x \in S : \A y \in S : ~(<<y, x>> \in R)
  BY <1>1, WFMin
<1>3. ASSUME NEW y \in S PROVE x <= y
  <2>1. ~(<<y, x>> \in {ss \in Nat \X Nat : ss[1] < ss[2]})
    BY <1>1, <1>2
  <2> QED BY <2>1
<1> QED BY <1>3

LEMMA MinIsMember ==
    ASSUME NEW S, S \subseteq Nat, S # {}
    PROVE  Import!Min(S) \in S
<1>1. \E x \in S : \A y \in S : x <= y
  BY LeastNumber
<1> QED BY <1>1 DEF Import!Min

\* A set of numbers up to a bound has a greatest member: the least of its bounds.
LEMMA MaxIsMember ==
    ASSUME NEW n \in Nat, NEW S, S \subseteq 0 .. n, S # {}
    PROVE  Import!Max(S) \in S
<1> DEFINE Bounds == {u \in Nat : \A y \in S : y <= u}
<1>1. n \in Bounds
  OBVIOUS
<1>2. PICK u \in Bounds : \A w \in Bounds : u <= w
  BY <1>1, LeastNumber
<1>3. u \in S
  <2> SUFFICES ASSUME u \notin S PROVE FALSE
    OBVIOUS
  <2>1. \A y \in S : y < u
    BY <1>2
  <2>2. PICK y \in S : TRUE
    OBVIOUS
  <2>3. u > 0
    BY <2>1, <2>2, <1>2
  <2>4. u - 1 \in Bounds
    BY <2>1, <2>3
  <2> QED BY <2>4, <1>2
<1>4. \E x \in S : \A y \in S : x >= y
  BY <1>2, <1>3
<1> QED BY <1>4 DEF Import!Max

----------------------------------------------------------------------------
(* The inductive invariant of the import.                                  *)

VehicleTable(t) == DOMAIN t \subseteq VehicleIds /\ \A v \in DOMAIN t : t[v] \in Import!Vehicles
RowTable(t) == DOMAIN t \subseteq Import!RowIds /\ \A r \in DOMAIN t : t[r] \in Import!Rows

ListAnswer(x) ==
    \/ x \in {[at |-> "none"], [at |-> "asked"]}
    \/ x.at = "sent" /\ VehicleTable(x.vehicles)

\* A loop between two rows, and one whose row has requests left.
NextJob(x) ==
    /\ x.at = "next" /\ DOMAIN x = {"at", "rows", "left", "vehicles"}
    /\ RowTable(x.rows) /\ VehicleTable(x.vehicles)

RowJob(x) ==
    /\ x.at \in {"map", "cv"} /\ DOMAIN x = {"at", "rows", "left", "vehicles", "id", "saved"}
    /\ RowTable(x.rows) /\ VehicleTable(x.vehicles)
    /\ x.id \in VehicleIds /\ x.saved \in Import!Vehicles

LoopJob(x) == x = Import!NoJob \/ NextJob(x) \/ RowJob(x)

ViewTypes ==
    /\ VehicleTable(server) /\ VehicleTable(vehicles) /\ ListAnswer(importList)
    /\ file \in Files \cup {Import!NoFile}
    /\ columns \in [DOMAIN file.header -> Import!Imported \cup {Import!None}]
    /\ RowTable(rows)

ImportTypes == ViewTypes /\ LoopJob(importJob)

\* A row that may be stored: complete, or with the vehicle that it changes.
Storable(x) == IF x.mode = "create" THEN Import!Complete(x.data) ELSE x.dup # Import!None

ReviewFits == \A r \in DOMAIN rows : rows[r].status \notin {"saved", "error"} => Storable(rows[r])

JobFits ==
    importJob # Import!NoJob =>
      \A r \in DOMAIN importJob.rows :
        importJob.rows[r].mode = "create" => Import!Complete(importJob.rows[r].data)

OnRow == importJob.at \in {"map", "cv"}

\* A row brought its fields to a vehicle.
Brought(x, data) == \A k \in x.imported : x.data[k] # Import!Empty => data[k] = x.data[k]

RowFits ==
    OnRow => /\ Import!Rest # {} /\ importJob.rows[Import!Current].loco \in Locos
             /\ Brought(importJob.rows[Import!Current], importJob.saved.data)

\* What the view knows, or will know, is what the server has, but for the vehicle of the
\* row under way, which comes with its last answer.
CopyFits ==
    /\ importJob # Import!NoJob => ~importJob.left
    /\ importList.at = "sent" =>
         \A v \in DOMAIN importList.vehicles :
           v \in DOMAIN server /\ Agrees(importList.vehicles[v].data, server[v].data)
    /\ OnRow => importJob.id \in DOMAIN server /\ server[importJob.id].data = importJob.saved.data
    /\ \A v \in DOMAIN vehicles :
         /\ v \in DOMAIN server
         /\ Agrees(vehicles[v].data, server[v].data) \/ (OnRow /\ v = importJob.id)

ImportFits == ImportTypes /\ ReviewFits /\ JobFits /\ RowFits

ImportPage == page = "import" => ImportFits /\ importEdits \in Nat /\ (~unaware => CopyFits)

----------------------------------------------------------------------------
(* Rows and vehicles.                                                      *)

LEMMA ConstantsMeet == Import!ConstantsFit
BY ImportAssumptions

\* The fields.
LEMMA FiveKeys ==
    /\ "number" \in Import!Keys /\ "maker" \in Import!Keys /\ "address" \in Import!Keys
    /\ "storage" \in Import!Keys /\ Import!Imported \subseteq Import!Keys
    /\ "number" \in Import!Imported /\ "maker" \in Import!Imported /\ "address" \in Import!Imported
    /\ Import!None \notin VehicleIds /\ Import!None \notin Import!Keys
BY ConstantsMeet DEF Import!ConstantsFit, Import!Keys, Import!Imported, Import!None

\* A row that is checked keeps its fields and becomes one that may be stored, or is in error.
LEMMA CheckedFits ==
    ASSUME NEW x \in Import!Rows, NEW known, VehicleTable(known)
    PROVE  /\ Import!Checked(x, known) \in Import!Rows
           /\ Import!Checked(x, known).status # "saved"
           /\ Import!Checked(x, known).status # "error" => Storable(Import!Checked(x, known))
<1> DEFINE dups == Import!Duplicate(x.data, known)
<1>1. CASE dups # {}
  <2> DEFINE v == CHOOSE v \in dups : TRUE
  <2>1. v \in dups
    BY <1>1
  <2>2. v \in VehicleIds
    BY <2>1 DEF Import!Duplicate, VehicleTable
  <2> HIDE DEF v
  <2>3. Import!Checked(x, known) = [x EXCEPT !.dup = v, !.mode = "update", !.status = "warning"]
    BY <1>1 DEF Import!Checked, v
  <2>4. v # Import!None
    BY <2>2, FiveKeys
  <2> QED BY <2>2, <2>3, <2>4 DEF Import!Rows, Storable
<1>2. CASE dups = {}
  <2>1. Import!Checked(x, known) =
          [x EXCEPT !.dup = Import!None, !.mode = "create",
                    !.status = IF Import!Complete(x.data) THEN "ok" ELSE "error",
                    !.selected = @ /\ Import!Complete(x.data)]
    BY <1>2 DEF Import!Checked
  <2>2. Import!Complete(x.data) \in BOOLEAN
    BY DEF Import!Complete
  <2> QED BY <2>1, <2>2 DEF Import!Rows, Storable
<1> QED BY <1>1, <1>2

\* The columns that a file may have, and those that bring a field, are numbers up to a bound.
LEMMA BringingInBounds ==
    ASSUME NEW f \in Files \cup {Import!NoFile}, NEW l \in DOMAIN f.cells,
           NEW mapped \in [DOMAIN f.header -> Import!Imported \cup {Import!None}], NEW k,
           Import!Bringing(f.cells[l], mapped, k) # {}
    PROVE  f.cells[l][Import!Max(Import!Bringing(f.cells[l], mapped, k))] \in Values \cup {Import!Empty}
<1>1. f \in Files
  BY DEF Import!NoFile
<1>2. f.header \in Seq(DOMAIN Import!ColumnAliases) /\ f.cells[l] \in [DOMAIN f.header -> Values \cup {Import!Empty}]
  BY <1>1, ConstantsMeet DEF Import!ConstantsFit
<1>3. Len(f.header) \in Nat /\ DOMAIN f.header = 1 .. Len(f.header)
  BY <1>2
<1>4. Import!Bringing(f.cells[l], mapped, k) \subseteq 0 .. Len(f.header)
  BY <1>3 DEF Import!Bringing
<1>5. Import!Max(Import!Bringing(f.cells[l], mapped, k)) \in Import!Bringing(f.cells[l], mapped, k)
  BY <1>3, <1>4, MaxIsMember
<1>6. Import!Max(Import!Bringing(f.cells[l], mapped, k)) \in DOMAIN f.header
  BY <1>5 DEF Import!Bringing
<1> QED BY <1>2, <1>6

\* A line of a file becomes a row that may be stored, or is in error.
LEMMA TableRowFits ==
    ASSUME NEW f \in Files \cup {Import!NoFile}, NEW l \in DOMAIN f.cells,
           NEW mapped \in [DOMAIN f.header -> Import!Imported \cup {Import!None}],
           NEW known, VehicleTable(known)
    PROVE  LET x == Import!TableRow(f.cells[l], mapped, known)
           IN  x \in Import!Rows /\ x.status # "saved" /\ (x.status # "error" => Storable(x))
<1> DEFINE brought(k) == Import!Bringing(f.cells[l], mapped, k)
           data == [k \in Import!Keys |-> IF brought(k) = {} THEN Import!Empty
                                          ELSE f.cells[l][Import!Max(brought(k))]]
           x == [data |-> data, imported |-> {k \in Import!Keys : brought(k) # {}},
                 dup |-> Import!None, mode |-> "create", status |-> "ok",
                 selected |-> TRUE, loco |-> Import!None]
           y == Import!Checked(x, known)
<1>1. data \in Import!Data
  <2>1. ASSUME NEW k \in Import!Keys, brought(k) # {}
        PROVE  f.cells[l][Import!Max(brought(k))] \in Values \cup {Import!Empty}
    BY <2>1, BringingInBounds
  <2> HIDE DEF brought
  <2> QED BY <2>1 DEF Import!Data
<1>2. {k \in Import!Keys : brought(k) # {}} \in SUBSET Import!Keys
  OBVIOUS
<1>3. Import!TableRow(f.cells[l], mapped, known) = [y EXCEPT !.selected = y.status = "ok"]
  BY DEF Import!TableRow
<1> HIDE DEF data, brought
<1>4. x \in Import!Rows
  BY <1>1, <1>2 DEF Import!Rows
<1> HIDE DEF x
<1>5. y \in Import!Rows /\ y.status # "saved" /\ (y.status # "error" => Storable(y))
  BY <1>4, CheckedFits
<1> HIDE DEF y
<1>6. (y.status = "ok") \in BOOLEAN
  OBVIOUS
<1> QED BY <1>3, <1>5, <1>6 DEF Import!Rows, Storable

\* A locomotive becomes a row that changes the vehicle it was matched with, or is in error.
LEMMA EcosRowFits ==
    ASSUME ViewTypes, NEW l \in Locos, NEW m \in VehicleIds \cup {Import!None}, m \in Import!Matches(l)
    PROVE  LET x == Import!EcosRow(l, m)
           IN  x \in Import!Rows /\ x.status # "saved" /\ (x.status # "error" => Storable(x))
<1> DEFINE base == IF m = Import!None THEN [k \in Import!Keys |-> Import!Empty]
                   ELSE Import!Request(vehicles[m].data)
           data == IF Address[l] = Import!Empty THEN base ELSE [base EXCEPT !["address"] = Address[l]]
<1>1. m = Import!None \/ m \in DOMAIN vehicles
  BY DEF Import!Matches
<1>2. m # Import!None => vehicles[m] \in Import!Vehicles
  BY <1>1 DEF ViewTypes, VehicleTable
<1>3. base \in Import!Data
  BY <1>2 DEF Import!Vehicles, Import!Data, Import!Request
<1>4. Address[l] \in Values \cup {Import!Empty}
  BY ConstantsMeet DEF Import!ConstantsFit
<1> HIDE DEF base
<1>5. data \in Import!Data
  BY <1>3, <1>4 DEF Import!Data
<1>6. Import!EcosRow(l, m) =
        [data |-> data, imported |-> {"address"}, dup |-> m, loco |-> l, selected |-> m # Import!None,
         mode |-> IF m = Import!None THEN "create" ELSE "update",
         status |-> IF m = Import!None THEN "error" ELSE "warning"]
  BY DEF Import!EcosRow, base
<1> HIDE DEF data
<1> QED BY <1>5, <1>6, FiveKeys DEF Import!Rows, Storable

----------------------------------------------------------------------------
(* The panels.                                                             *)

ImportStep == ImportFits /\ importEdits \in Nat /\ (~unaware => CopyFits) /\ ImportHistory
StillFits == ImportFits' /\ (~unaware' => CopyFits')

\* A step that only changes what is under review.
LEMMA ReviewChanges ==
    ASSUME ImportStep, UNCHANGED <<server, vehicles, importList, importJob>>,
           file' \in Files \cup {Import!NoFile},
           columns' \in [DOMAIN file'.header -> Import!Imported \cup {Import!None}],
           RowTable(rows'), ReviewFits'
    PROVE  StillFits
<1>1. ImportTypes'
  BY DEF ImportStep, ImportFits, ImportTypes, ViewTypes
<1>2. JobFits'
  BY DEF ImportStep, ImportFits, JobFits
<1>3. RowFits'
  <2>1. Import!Current' = Import!Current /\ Import!Rest' = Import!Rest
    BY DEF Import!Current, Import!Rest
  <2> QED BY <2>1 DEF ImportStep, ImportFits, RowFits, OnRow
<1>4. ~unaware' => CopyFits'
  <2> SUFFICES ASSUME ~unaware' PROVE CopyFits'
    OBVIOUS
  <2>1. CopyFits
    BY DEF ImportStep, ImportHistory
  <2> QED BY <2>1 DEF CopyFits, OnRow
<1> QED BY <1>1, <1>2, <1>3, <1>4 DEF StillFits, ImportFits

LEMMA TableRowsFit ==
    ASSUME ImportStep, NEW f \in Files \cup {Import!NoFile},
           NEW mapped \in [DOMAIN f.header -> Import!Imported \cup {Import!None}],
           rows' = Import!TableRows(f, mapped)
    PROVE  RowTable(rows') /\ ReviewFits'
<1>1. DOMAIN rows' = DOMAIN f.cells /\ \A l \in DOMAIN f.cells :
        rows'[l] = Import!TableRow(f.cells[l], mapped, vehicles)
  BY DEF Import!TableRows
<1>2. VehicleTable(vehicles)
  BY DEF ImportStep, ImportFits, ImportTypes, ViewTypes
<1>3. DOMAIN f.cells \subseteq Import!RowIds
  BY ConstantsMeet DEF Import!ConstantsFit, Import!RowIds, Import!NoFile
<1>4. ASSUME NEW l \in DOMAIN f.cells
      PROVE  rows'[l] \in Import!Rows /\ (rows'[l].status \notin {"saved", "error"} => Storable(rows'[l]))
  BY <1>1, <1>2, TableRowFits
<1> QED BY <1>1, <1>3, <1>4 DEF RowTable, ReviewFits

LEMMA TableLoads ==
    ASSUME ImportStep, NEW f \in Files \cup {Import!NoFile}, Import!ChooseFile(f)
    PROVE  StillFits
<1>1. Import!DefaultColumns(f) \in [DOMAIN f.header -> Import!Imported \cup {Import!None}]
  <2>1. f.header \in Seq(DOMAIN Import!ColumnAliases)
    <3>1. CASE f \in Files
      BY <3>1, ConstantsMeet DEF Import!ConstantsFit
    <3>2. CASE f = Import!NoFile
      <4>1. f.header = << >>
        BY <3>2 DEF Import!NoFile
      <4> QED BY <4>1
    <3> QED BY <3>1, <3>2
  <2>2. \A h \in DOMAIN Import!ColumnAliases :
          Import!ColumnAliases[h] \in Import!Imported \cup {Import!None}
    BY DEF Import!ColumnAliases, Import!Imported, Import!Keys
  <2> QED BY <2>1, <2>2 DEF Import!DefaultColumns
<1>2. file' = f /\ columns' = Import!DefaultColumns(f) /\ rows' = Import!TableRows(f, Import!DefaultColumns(f))
      /\ UNCHANGED <<server, vehicles, importList, importJob>>
  BY DEF Import!ChooseFile, Import!LoadTable
<1>3. RowTable(rows') /\ ReviewFits'
  BY <1>1, <1>2, TableRowsFit
<1> QED BY <1>1, <1>2, <1>3, ReviewChanges

LEMMA ColumnMaps ==
    ASSUME ImportStep, NEW c \in DOMAIN columns, NEW k \in Import!Imported \cup {Import!None},
           Import!SetColumnMapping(c, k)
    PROVE  StillFits
<1>1. file \in Files \cup {Import!NoFile}
      /\ columns \in [DOMAIN file.header -> Import!Imported \cup {Import!None}]
  BY DEF ImportStep, ImportFits, ImportTypes, ViewTypes
<1>2. columns' \in [DOMAIN file.header -> Import!Imported \cup {Import!None}]
  BY <1>1 DEF Import!SetColumnMapping
<1>3. file' = file /\ rows' = Import!TableRows(file, columns') /\ UNCHANGED <<server, vehicles, importList, importJob>>
  BY DEF Import!SetColumnMapping
<1>4. RowTable(rows') /\ ReviewFits'
  BY <1>1, <1>2, <1>3, TableRowsFit
<1> QED BY <1>1, <1>2, <1>3, <1>4, ReviewChanges

\* A step that changes one row of the review.
LEMMA OneRowChanges ==
    ASSUME ImportStep, UNCHANGED <<server, vehicles, importList, file, columns, importJob>>,
           NEW r \in DOMAIN rows, NEW x \in Import!Rows, rows' = [rows EXCEPT ![r] = x],
           x.status \notin {"saved", "error"} => Storable(x)
    PROVE  StillFits
<1>1. RowTable(rows')
  BY DEF ImportStep, ImportFits, ImportTypes, ViewTypes, RowTable
<1>2. ReviewFits'
  BY DEF ImportStep, ImportFits, ReviewFits
<1>3. file' \in Files \cup {Import!NoFile} /\ columns' \in [DOMAIN file'.header -> Import!Imported \cup {Import!None}]
  BY DEF ImportStep, ImportFits, ImportTypes, ViewTypes
<1> QED BY <1>1, <1>2, <1>3, ReviewChanges

LEMMA RowUpdates ==
    ASSUME ImportStep, NEW r \in DOMAIN rows, NEW k \in {"number", "maker"},
           NEW x \in Values \cup {Import!Empty}, Import!UpdateRow(r, k, x)
    PROVE  StillFits
<1> DEFINE y == [rows[r] EXCEPT !.data[k] = x, !.imported = @ \cup {k}]
<1>1. rows[r] \in Import!Rows /\ VehicleTable(vehicles)
  BY DEF ImportStep, ImportFits, ImportTypes, ViewTypes, RowTable
<1>2. k \in Import!Keys
  BY FiveKeys
<1>3. y \in Import!Rows
  BY <1>1, <1>2 DEF Import!Rows, Import!Data
<1>4. rows' = [rows EXCEPT ![r] = Import!Checked(y, vehicles)]
  BY Zenon DEF Import!UpdateRow
<1>6. UNCHANGED <<server, vehicles, importList, file, columns, importJob>>
  BY DEF Import!UpdateRow
<1> HIDE DEF y
<1>5. Import!Checked(y, vehicles) \in Import!Rows
      /\ (Import!Checked(y, vehicles).status \notin {"saved", "error"} => Storable(Import!Checked(y, vehicles)))
  BY <1>1, <1>3, CheckedFits
<1> QED BY <1>4, <1>5, <1>6, OneRowChanges

LEMMA RowSelects ==
    ASSUME ImportStep, NEW r \in DOMAIN rows, NEW selected \in BOOLEAN, Import!SetRowSelected(r, selected)
    PROVE  StillFits
<1> DEFINE y == [rows[r] EXCEPT !.selected = selected]
<1>1. rows[r] \in Import!Rows
  BY DEF ImportStep, ImportFits, ImportTypes, ViewTypes, RowTable
<1>2. y \in Import!Rows /\ y.status = rows[r].status /\ y.mode = rows[r].mode /\ y.data = rows[r].data
      /\ y.dup = rows[r].dup
  BY <1>1 DEF Import!Rows
<1>3. rows' = [rows EXCEPT ![r] = y] /\ UNCHANGED <<server, vehicles, importList, file, columns, importJob>>
  BY DEF Import!SetRowSelected
<1> HIDE DEF y
<1>4. y.status \notin {"saved", "error"} => Storable(y)
  BY <1>2 DEF ImportStep, ImportFits, ReviewFits, Storable
<1> QED BY <1>2, <1>3, <1>4, OneRowChanges

LEMMA RowModeChanges ==
    ASSUME ImportStep, NEW r \in DOMAIN rows, NEW mode \in {"create", "update"}, Import!SetRowMode(r, mode)
    PROVE  StillFits
<1> DEFINE y == IF rows[r].dup = Import!None THEN [rows[r] EXCEPT !.mode = mode]
                ELSE IF mode = "create"
                  THEN [rows[r] EXCEPT !.mode = mode, !.selected = FALSE, !.status = "error"]
                  ELSE [rows[r] EXCEPT !.mode = mode, !.status = "warning"]
<1>1. rows[r] \in Import!Rows
  BY DEF ImportStep, ImportFits, ImportTypes, ViewTypes, RowTable
<1>2. y \in Import!Rows
  BY <1>1 DEF Import!Rows
<1>3. rows' = [rows EXCEPT ![r] = y] /\ (mode = "update" => rows[r].dup # Import!None)
      /\ UNCHANGED <<server, vehicles, importList, file, columns, importJob>>
  BY DEF Import!SetRowMode
<1>4. y.status \notin {"saved", "error"} => Storable(y)
  <2>1. CASE rows[r].dup = Import!None
    <3>1. mode = "create"
      BY <1>3, <2>1
    <3>2. y.status = rows[r].status /\ y.mode = "create" /\ y.data = rows[r].data
      BY <1>1, <2>1, <3>1 DEF Import!Rows
    <3>3. rows[r].status \notin {"saved", "error"} => Storable(rows[r])
      BY DEF ImportStep, ImportFits, ReviewFits
    <3>4. rows[r].mode \in {"create", "update"}
      BY <1>1 DEF Import!Rows
    <3> HIDE DEF y
    <3> QED BY <2>1, <3>2, <3>3, <3>4 DEF Storable
  <2>2. CASE rows[r].dup # Import!None /\ mode = "create"
    BY <1>1, <2>2 DEF Import!Rows
  <2>3. CASE rows[r].dup # Import!None /\ mode = "update"
    <3>1. y.mode = "update" /\ y.dup # Import!None
      BY <1>1, <2>3 DEF Import!Rows
    <3> HIDE DEF y
    <3> QED BY <3>1 DEF Storable
  <2> QED BY <2>1, <2>2, <2>3
<1> HIDE DEF y
<1> QED BY <1>2, <1>3, <1>4, OneRowChanges

LEMMA ProbeAdds ==
    ASSUME ImportStep, Import!AddProbe
    PROVE  StillFits
<1>1. PICK match \in [Locos -> VehicleIds \cup {Import!None}] :
        /\ \A l \in Locos : match[l] \in Import!Matches(l)
        /\ rows' = [r \in DOMAIN rows \cup Locos |->
                      IF r \in Locos THEN Import!EcosRow(r, match[r]) ELSE rows[r]]
  BY DEF Import!AddProbe
<1>2. UNCHANGED <<server, vehicles, importList, importJob>> /\ file' = Import!NoFile /\ columns' = <<>>
  BY DEF Import!AddProbe
<1>3. ViewTypes
  BY DEF ImportStep, ImportFits, ImportTypes
<1>4. ASSUME NEW l \in Locos
      PROVE  /\ Import!EcosRow(l, match[l]) \in Import!Rows
             /\ Import!EcosRow(l, match[l]).status \notin {"saved", "error"} => Storable(Import!EcosRow(l, match[l]))
  BY <1>1, <1>3, EcosRowFits
<1>5. RowTable(rows')
  BY <1>1, <1>3, <1>4 DEF ViewTypes, RowTable, Import!RowIds
<1>6. ReviewFits'
  BY <1>1, <1>4 DEF ImportStep, ImportFits, ReviewFits
<1>7. columns' \in [DOMAIN file'.header -> Import!Imported \cup {Import!None}]
  BY <1>2 DEF Import!NoFile
<1> QED BY <1>2, <1>5, <1>6, <1>7, ReviewChanges

----------------------------------------------------------------------------
(* The list of vehicles.                                                   *)

\* A step that leaves the loop alone.
LEMMA LoopStays ==
    ASSUME ImportStep, UNCHANGED importJob
    PROVE  LoopJob(importJob') /\ JobFits' /\ RowFits'
<1>1. LoopJob(importJob') /\ JobFits'
  BY DEF ImportStep, ImportFits, ImportTypes, JobFits
<1>2. Import!Current' = Import!Current /\ Import!Rest' = Import!Rest
  BY DEF Import!Current, Import!Rest
<1> QED BY <1>1, <1>2 DEF ImportStep, ImportFits, RowFits, OnRow

\* A row of the list is a vehicle that tells nothing else of the one it is a row of.
LEMMA ListRowFits ==
    ASSUME NEW v \in Import!Vehicles
    PROVE  Import!ListRow(v) \in Import!Vehicles /\ Agrees(Import!ListRow(v).data, v.data)
<1> DEFINE d == [k \in Import!Keys |-> IF k \in Import!Listed THEN v.data[k] ELSE Import!Empty]
<1>1. v.data \in Import!Data
  BY DEF Import!Vehicles
<1>2. d \in Import!Data
  BY <1>1 DEF Import!Data
<1>3. Agrees(d, v.data)
  BY DEF Agrees
<1>4. Import!ListRow(v) = [v EXCEPT !.data = d]
  BY DEF Import!ListRow
<1> HIDE DEF d
<1> QED BY <1>2, <1>3, <1>4 DEF Import!Vehicles

LEMMA ListServed ==
    ASSUME ImportStep, Import!ServeList
    PROVE  StillFits
<1>0. importList' = [at |-> "sent", vehicles |-> [v \in DOMAIN server |-> Import!ListRow(server[v])]]
      /\ UNCHANGED <<server, vehicles, file, columns, rows, importJob>>
  BY DEF Import!ServeList
<1>1. /\ importList'.at = "sent" /\ DOMAIN importList'.vehicles = DOMAIN server
      /\ \A v \in DOMAIN server : importList'.vehicles[v] = Import!ListRow(server[v])
      /\ UNCHANGED <<server, vehicles, file, columns, rows, importJob>>
  BY <1>0
<1>5. VehicleTable(server)
  BY DEF ImportStep, ImportFits, ImportTypes, ViewTypes
<1>6. \A v \in DOMAIN server : /\ importList'.vehicles[v] \in Import!Vehicles
                              /\ Agrees(importList'.vehicles[v].data, server[v].data)
  BY <1>1, <1>5, ListRowFits DEF VehicleTable
<1>2. ViewTypes'
  <2>1. VehicleTable(importList'.vehicles)
    BY <1>1, <1>5, <1>6 DEF VehicleTable
  <2> QED BY <1>1, <2>1 DEF ImportStep, ImportFits, ImportTypes, ViewTypes, ListAnswer
<1>3. ReviewFits'
  BY <1>1 DEF ImportStep, ImportFits, ReviewFits
<1>4. ~unaware' => CopyFits'
  <2> SUFFICES ASSUME ~unaware' PROVE CopyFits'
    OBVIOUS
  <2>1. CopyFits
    BY DEF ImportStep, ImportHistory
  <2> QED BY <1>1, <1>6, <2>1 DEF CopyFits, OnRow
<1> QED BY <1>1, <1>2, <1>3, <1>4, LoopStays DEF StillFits, ImportFits, ImportTypes

LEMMA ListComes ==
    ASSUME ImportStep, Import!ListArrives
    PROVE  StillFits
<1>1. importList' = Import!NotAsked /\ UNCHANGED <<server, file, columns, rows, importJob>>
      /\ (vehicles' = vehicles \/ (importList.at = "sent" /\ vehicles' = importList.vehicles))
  BY DEF Import!ListArrives
<1>2. ViewTypes'
  BY <1>1 DEF ImportStep, ImportFits, ImportTypes, ViewTypes, ListAnswer, Import!NotAsked
<1>3. ReviewFits'
  BY <1>1 DEF ImportStep, ImportFits, ReviewFits
<1>4. ~unaware' => CopyFits'
  <2> SUFFICES ASSUME ~unaware' PROVE CopyFits'
    OBVIOUS
  <2>1. CopyFits
    BY DEF ImportStep, ImportHistory
  <2> QED BY <1>1, <2>1 DEF CopyFits, OnRow, Import!NotAsked
<1> QED BY <1>1, <1>2, <1>3, <1>4, LoopStays DEF StillFits, ImportFits, ImportTypes

\* The view that is opened again starts over; a loop that goes on is left.
LEMMA ViewReopens ==
    ASSUME ImportStep, Import!Reopen
    PROVE  StillFits
<1>1. /\ vehicles' = Import!NoRows /\ importList' = [at |-> "asked"] /\ file' = Import!NoFile
      /\ columns' = <<>> /\ rows' = Import!NoRows /\ server' = server
      /\ importJob' = IF importJob = Import!NoJob THEN importJob ELSE [importJob EXCEPT !.left = TRUE]
  BY DEF Import!Reopen
<1>2. LoopJob(importJob)
  BY DEF ImportStep, ImportFits, ImportTypes
<1>3. ViewTypes'
  <2>1. VehicleTable(vehicles') /\ RowTable(rows')
    BY <1>1 DEF VehicleTable, RowTable, Import!NoRows
  <2>2. columns' \in [DOMAIN file'.header -> Import!Imported \cup {Import!None}]
    BY <1>1 DEF Import!NoFile
  <2> QED BY <1>1, <2>1, <2>2 DEF ImportStep, ImportFits, ImportTypes, ViewTypes, ListAnswer
<1>4. ReviewFits'
  BY <1>1 DEF ReviewFits, Import!NoRows
<1>5. CASE importJob = Import!NoJob
  <2>1. importJob' = importJob
    BY <1>1, <1>5
  <2>2. ~unaware' => CopyFits'
    BY <1>1, <1>5, <2>1 DEF CopyFits, Import!NoRows, Import!NoJob, OnRow
  <2> QED BY <1>3, <1>4, <2>1, <2>2, LoopStays DEF StillFits, ImportFits, ImportTypes
<1>6. CASE importJob # Import!NoJob
  <2>1. importJob' = [importJob EXCEPT !.left = TRUE]
    BY <1>1, <1>6
  <2>2. /\ importJob'.rows = importJob.rows /\ importJob'.at = importJob.at /\ importJob'.left
        /\ OnRow => importJob'.saved = importJob.saved
        /\ LoopJob(importJob') /\ importJob.at # "none" /\ OnRow' = OnRow
    BY <1>2, <1>6, <2>1 DEF LoopJob, NextJob, RowJob, OnRow
  <2>3. JobFits'
    BY <1>6, <2>2 DEF ImportStep, ImportFits, JobFits
  <2>4. Import!Current' = Import!Current /\ Import!Rest' = Import!Rest
    BY <2>2 DEF Import!Current, Import!Rest
  <2>5. RowFits'
    BY <2>2, <2>4 DEF ImportStep, ImportFits, RowFits
  <2>6. unaware'
    BY <1>6, <2>2 DEF ImportStep, ImportHistory, Missed
  <2> QED BY <1>3, <1>4, <2>2, <2>3, <2>5, <2>6 DEF StillFits, ImportFits, ImportTypes
<1> QED BY <1>5, <1>6

LEMMA OthersEdit ==
    ASSUME ImportStep, NEW v \in DOMAIN server, NEW k \in OtherKeys, NEW x \in Values, Import!OtherUser(v, k, x)
    PROVE  StillFits
<1>1. UNCHANGED <<vehicles, importList, file, columns, rows, importJob>>
      /\ server' = [server EXCEPT ![v].data[k] = x]
  BY DEF Import!OtherUser
<1>2. VehicleTable(server) /\ k \in Import!Keys
  BY ConstantsMeet DEF ImportStep, ImportFits, ImportTypes, ViewTypes, Import!ConstantsFit
<1>3. VehicleTable(server')
  BY <1>1, <1>2 DEF VehicleTable, Import!Vehicles, Import!Data
<1>4. ViewTypes' /\ ReviewFits'
  BY <1>1, <1>3 DEF ImportStep, ImportFits, ImportTypes, ViewTypes, ReviewFits
<1>5. ~unaware' => CopyFits'
  <2>1. CASE server' = server
    <3> SUFFICES ASSUME ~unaware' PROVE CopyFits'
      OBVIOUS
    <3>1. CopyFits
      BY DEF ImportStep, ImportHistory
    <3> QED BY <1>1, <2>1, <3>1 DEF CopyFits, OnRow
  <2>2. CASE server' # server
    <3>1. importEdits' = importEdits + 1 /\ importEdits \in Nat
      BY DEF ImportStep, Import!OtherUser, Import!Correct
    <3>2. importEdits' # importEdits
      BY <3>1
    <3> QED BY <2>2, <3>2 DEF ImportStep, ImportHistory, Missed
  <2> QED BY <2>1, <2>2
<1> QED BY <1>1, <1>4, <1>5, LoopStays DEF StillFits, ImportFits, ImportTypes

----------------------------------------------------------------------------
(* The loop.                                                               *)

\* The row under way is one of those that are left.
LEMMA CurrentIsLeft ==
    ASSUME LoopJob(importJob), importJob # Import!NoJob, Import!Rest # {}
    PROVE  Import!Current \in Import!Rest
<1>1. Lines \subseteq Nat
  BY ConstantsMeet DEF Import!ConstantsFit
<1>2. CASE Import!Rest \cap Lines # {}
  <2>1. Import!Min(Import!Rest \cap Lines) \in Import!Rest \cap Lines
    BY <1>1, <1>2, MinIsMember
  <2> QED BY <1>2, <2>1 DEF Import!Current
<1>3. CASE Import!Rest \cap Lines = {}
  BY <1>3 DEF Import!Current
<1> QED BY <1>2, <1>3

LEMMA JobTables ==
    ASSUME LoopJob(importJob), importJob # Import!NoJob
    PROVE  RowTable(importJob.rows) /\ VehicleTable(importJob.vehicles) /\ importJob.at # "none"
BY DEF LoopJob, NextJob, RowJob

\* A loop over some rows keeps of the vehicles those that the rows change.
LEMMA JobIsNext ==
    ASSUME NEW todo, RowTable(todo), NEW known, VehicleTable(known), NEW left
    PROVE  LET x == Import!Job(todo, known, left)
           IN  NextJob(x) /\ x.rows = todo /\ x.left = left /\ x.at = "next" /\ x # Import!NoJob
               /\ \A v \in DOMAIN x.vehicles : v \in DOMAIN known /\ x.vehicles[v] = known[v]
<1> DEFINE updated == {todo[r].dup : r \in {y \in DOMAIN todo : todo[y].mode = "update"}}
           kept == [v \in updated \cap DOMAIN known |-> known[v]]
<1>1. Import!Job(todo, known, left) = [at |-> "next", rows |-> todo, left |-> left, vehicles |-> kept]
  BY DEF Import!Job
<1>2. VehicleTable(kept) /\ \A v \in DOMAIN kept : v \in DOMAIN known /\ kept[v] = known[v]
  BY DEF VehicleTable
<1> HIDE DEF kept
<1>3. Import!Job(todo, known, left).at # Import!NoJob.at
  BY <1>1 DEF Import!NoJob
<1> QED BY <1>1, <1>2, <1>3 DEF NextJob

\* What is left of a loop when a row is done.
LEMMA RemainingFits ==
    ASSUME LoopJob(importJob), importJob # Import!NoJob, JobFits, NEW done,
           importJob' = Import!Remaining(done)
    PROVE  /\ LoopJob(importJob') /\ JobFits' /\ importJob'.at = "next" /\ importJob' # Import!NoJob
           /\ DOMAIN importJob'.rows = Import!Rest \ done /\ importJob'.left = importJob.left
           /\ RowFits'
<1> DEFINE todo == [r \in DOMAIN importJob.rows \ done |-> importJob.rows[r]]
<1>1. RowTable(todo) /\ VehicleTable(importJob.vehicles)
  BY JobTables DEF RowTable
<1>2. importJob' = Import!Job(todo, importJob.vehicles, importJob.left)
  BY DEF Import!Remaining
<1>3. DOMAIN todo = Import!Rest \ done /\ \A r \in DOMAIN todo : r \in Import!Rest /\ todo[r] = importJob.rows[r]
  BY DEF Import!Rest
<1> HIDE DEF todo
<1>4. NextJob(importJob') /\ importJob'.rows = todo /\ importJob'.left = importJob.left
      /\ importJob'.at = "next" /\ importJob' # Import!NoJob
  BY <1>1, <1>2, JobIsNext
<1>5. JobFits'
  BY <1>3, <1>4 DEF JobFits, Import!Rest
<1>6. RowFits'
  BY <1>4 DEF RowFits, OnRow
<1> QED BY <1>3, <1>4, <1>5, <1>6 DEF LoopJob

\* Marking a row saved or in error leaves rows that fit.
LEMMA MarkedFits ==
    ASSUME ImportFits, NEW r, NEW x, Import!Mark(r, x), r \in DOMAIN rows => x \in Import!Rows,
           r \in DOMAIN rows => x.status \in {"saved", "error"}
    PROVE  RowTable(rows') /\ ReviewFits'
<1>1. rows' = rows \/ (r \in DOMAIN rows /\ rows' = [rows EXCEPT ![r] = x])
  BY DEF Import!Mark
<1> QED BY <1>1 DEF ImportFits, ImportTypes, ViewTypes, RowTable, ReviewFits

\* The copy and the list stay in step with the server, of which one vehicle changes.
ServerFollows(v, new) ==
    /\ VehicleTable(server') /\ v \in DOMAIN server' /\ server'[v].data = new.data
    /\ \A w \in DOMAIN server : w \in DOMAIN server' /\ (w # v => server'[w].data = server[w].data)

\* A row that failed: the import may have missed what the server did.
LEMMA RowFails ==
    ASSUME ImportStep, importJob # Import!NoJob, Import!Rest # {}, Import!Failed(Import!Current),
           VehicleTable(server')
    PROVE  StillFits
<1> DEFINE r == Import!Current
<1>1. /\ Import!Mark(r, [rows[r] EXCEPT !.status = "error"])
      /\ importJob' = Import!Remaining({r})
      /\ UNCHANGED <<vehicles, importList, file, columns>>
  BY DEF Import!Failed
<1>2. LoopJob(importJob) /\ JobFits
  BY DEF ImportStep, ImportFits, ImportTypes
<1>3. r \in Import!Rest
  BY <1>2, CurrentIsLeft
<1> HIDE DEF r
<1>4. /\ LoopJob(importJob') /\ JobFits' /\ importJob'.at = "next" /\ importJob' # Import!NoJob
      /\ DOMAIN importJob'.rows = Import!Rest \ {r} /\ importJob'.left = importJob.left
      /\ RowFits'
  BY <1>1, <1>2, RemainingFits
<1>5. r \in DOMAIN rows => [rows[r] EXCEPT !.status = "error"] \in Import!Rows
                           /\ [rows[r] EXCEPT !.status = "error"].status = "error"
  BY DEF ImportStep, ImportFits, ImportTypes, ViewTypes, RowTable, Import!Rows
<1>6. RowTable(rows') /\ ReviewFits'
  BY <1>1, <1>5, MarkedFits DEF ImportStep
<1>7. unaware'
  <2>1. CASE importJob.left
    BY <1>4, <2>1 DEF ImportStep, ImportHistory, Missed
  <2>2. CASE ~importJob.left
    <3>1. importJob' # importJob
      BY <1>3, <1>4 DEF Import!Rest
    <3>2. ASSUME NEW q \in Import!Rest \ DOMAIN importJob'.rows, q \in DOMAIN rows'
          PROVE  rows'[q].status # "saved"
      <4>1. q = r
        BY <1>4
      <4>2. r \in DOMAIN rows /\ rows' = [rows EXCEPT ![r] = [rows[r] EXCEPT !.status = "error"]]
        BY <1>1, <2>2, <3>2, <4>1 DEF Import!Mark
      <4> QED BY <1>5, <4>1, <4>2
    <3>3. <<importJob, server>>' # <<importJob, server>>
      BY <3>1
    <3> QED BY <1>4, <3>2, <3>3 DEF ImportStep, ImportHistory, Missed
  <2> QED BY <2>1, <2>2
<1>8. ViewTypes'
  BY <1>1, <1>6 DEF ImportStep, ImportFits, ImportTypes, ViewTypes
<1> QED BY <1>4, <1>6, <1>7, <1>8 DEF StillFits, ImportFits, ImportTypes

\* Nothing is under way any more of an answer that the server has overtaken.
LEMMA ListFollows ==
    ASSUME ImportStep, ~unaware', importList.at = "sent", importList' = importList
    PROVE  server' = server
           /\ \A v \in DOMAIN importList'.vehicles :
                v \in DOMAIN server' /\ Agrees(importList'.vehicles[v].data, server'[v].data)
<1>1. server' = server
  BY DEF ImportStep, ImportHistory, Missed
<1>2. CopyFits
  BY DEF ImportStep, ImportHistory
<1> QED BY <1>1, <1>2 DEF CopyFits

\* A row whose requests all succeeded: the view takes over the vehicle.
LEMMA RowIsDone ==
    ASSUME ImportStep, importJob # Import!NoJob, Import!Rest # {},
           NEW v \in VehicleIds, NEW saved \in Import!Vehicles, Import!Done(Import!Current, v, saved),
           VehicleTable(server'), ~unaware' => ServerFollows(v, saved),
           OnRow => v = importJob.id
    PROVE  StillFits
<1> DEFINE r == Import!Current
<1>1. /\ vehicles' = IF importJob.left \/ (importJob.rows[r].mode = "update" /\ v \notin DOMAIN vehicles)
                       THEN vehicles ELSE Import!With(vehicles, v, saved)
      /\ Import!Mark(r, [rows[r] EXCEPT !.selected = FALSE, !.status = "saved"])
      /\ importJob' = Import!Remaining({r})
      /\ UNCHANGED <<importList, file, columns>>
  BY DEF Import!Done
<1>2. LoopJob(importJob) /\ JobFits
  BY DEF ImportStep, ImportFits, ImportTypes
<1> HIDE DEF r
<1>3. /\ LoopJob(importJob') /\ JobFits' /\ importJob'.at = "next" /\ importJob' # Import!NoJob
      /\ importJob'.left = importJob.left /\ RowFits'
  BY <1>1, <1>2, RemainingFits
<1>4. r \in DOMAIN rows => [rows[r] EXCEPT !.selected = FALSE, !.status = "saved"] \in Import!Rows
                           /\ [rows[r] EXCEPT !.selected = FALSE, !.status = "saved"].status = "saved"
  BY DEF ImportStep, ImportFits, ImportTypes, ViewTypes, RowTable, Import!Rows
<1>5. RowTable(rows') /\ ReviewFits'
  BY <1>1, <1>4, MarkedFits DEF ImportStep
<1>6. VehicleTable(vehicles')
  BY <1>1 DEF ImportStep, ImportFits, ImportTypes, ViewTypes, VehicleTable, Import!With
<1>7. ViewTypes'
  BY <1>1, <1>5, <1>6 DEF ImportStep, ImportFits, ImportTypes, ViewTypes
<1>8. ASSUME ~unaware' PROVE CopyFits'
  <2>1. CopyFits /\ ~importJob.left
    BY <1>2, <1>8 DEF ImportStep, ImportHistory, CopyFits
  <2>2. importList'.at = "sent" =>
          \A w \in DOMAIN importList'.vehicles :
            w \in DOMAIN server' /\ Agrees(importList'.vehicles[w].data, server'[w].data)
    BY <1>1, <1>8, ListFollows
  <2>3. ASSUME NEW w \in DOMAIN vehicles'
        PROVE  w \in DOMAIN server' /\ Agrees(vehicles'[w].data, server'[w].data)
    <3>0. ServerFollows(v, saved)
      BY <1>8
    <3>1. CASE w = v
      <4>1. vehicles' = Import!With(vehicles, v, saved)
        BY <1>1, <2>1, <2>3, <3>1
      <4>2. w \in DOMAIN server' /\ vehicles'[w].data = server'[w].data
        BY <3>0, <3>1, <4>1 DEF Import!With, ServerFollows
      <4> QED BY <4>2 DEF Agrees
    <3>2. CASE w # v
      <4>1. w \in DOMAIN vehicles /\ vehicles'[w] = vehicles[w]
        BY <1>1, <2>3, <3>2 DEF Import!With
      <4>2. w \in DOMAIN server /\ Agrees(vehicles[w].data, server[w].data)
        BY <2>1, <3>2, <4>1 DEF CopyFits
      <4> QED BY <3>0, <3>2, <4>1, <4>2 DEF ServerFollows
    <3> QED BY <3>1, <3>2
  <2> QED BY <1>3, <2>1, <2>2, <2>3 DEF CopyFits, OnRow
<1> QED BY <1>3, <1>5, <1>7, <1>8 DEF StillFits, ImportFits, ImportTypes

\* A row of a locomotive goes on with its mapping.
LEMMA RowGoesOn ==
    ASSUME ImportStep, importJob # Import!NoJob, Import!Rest # {}, ~OnRow,
           NEW v \in VehicleIds, NEW saved \in Import!Vehicles, Import!Answered(Import!Current, v, saved),
           VehicleTable(server'), ServerFollows(v, saved),
           Brought(importJob.rows[Import!Current], saved.data)
    PROVE  StillFits
<1> DEFINE r == Import!Current
<1>1. CASE importJob.rows[r].loco = Import!None
  <2>1. Import!Done(r, v, saved)
    BY <1>1 DEF Import!Answered
  <2> QED BY <2>1, RowIsDone
<1>2. CASE importJob.rows[r].loco # Import!None
  <2>1. importJob' = [at |-> "map", rows |-> importJob.rows, vehicles |-> importJob.vehicles,
                      left |-> importJob.left, id |-> v, saved |-> saved]
        /\ UNCHANGED <<vehicles, importList, file, columns, rows>>
    BY <1>2 DEF Import!Answered
  <2>2. LoopJob(importJob) /\ JobFits
    BY DEF ImportStep, ImportFits, ImportTypes
  <2>3. r \in Import!Rest /\ RowTable(importJob.rows) /\ VehicleTable(importJob.vehicles)
    BY <2>2, CurrentIsLeft, JobTables
  <2>4. RowJob(importJob')
    BY <2>1, <2>3 DEF RowJob
  <2>5. JobFits'
    BY <2>1, <2>2 DEF JobFits
  <2>6. Import!Current' = Import!Current /\ Import!Rest' = Import!Rest
    BY <2>1 DEF Import!Current, Import!Rest
  <2>7. importJob.rows[r].loco \in Locos
    BY <1>2, <2>3 DEF RowTable, Import!Rows, Import!Rest
  <2>8. RowFits'
    BY <2>1, <2>6, <2>7 DEF RowFits
  <2>9. ViewTypes' /\ ReviewFits'
    BY <2>1 DEF ImportStep, ImportFits, ImportTypes, ViewTypes, ReviewFits
  <2>10. ASSUME ~unaware' PROVE CopyFits'
    <3>1. CopyFits /\ ~importJob.left
      BY <2>10 DEF ImportStep, ImportHistory, CopyFits
    <3>2. importList'.at = "sent" =>
            \A w \in DOMAIN importList'.vehicles :
              w \in DOMAIN server' /\ Agrees(importList'.vehicles[w].data, server'[w].data)
      BY <2>1, <2>10, ListFollows
    <3>3. OnRow' /\ importJob'.id = v /\ importJob'.saved = saved /\ importJob'.left = importJob.left
      BY <2>1 DEF OnRow
    <3> QED BY <2>1, <3>1, <3>2, <3>3 DEF CopyFits, ServerFollows
  <2> QED BY <2>4, <2>5, <2>8, <2>9, <2>10 DEF StillFits, ImportFits, ImportTypes, LoopJob
<1> QED BY <1>1, <1>2

\* An update brings the fields of the row and keeps the others that a file may bring.
LEMMA MergedFits ==
    ASSUME NEW old \in Import!Data, NEW x \in Import!Rows
    PROVE  /\ Import!Merged(old, x) \in Import!Data /\ Brought(x, Import!Merged(old, x))
           /\ \A k \in Import!Imported \ x.imported : Import!Merged(old, x)[k] = old[k]
<1>1. x.data \in Import!Data /\ x.imported \subseteq Import!Keys
  BY DEF Import!Rows
<1>2. Import!Request(old) \in Import!Data /\ \A k \in Import!Imported : Import!Request(old)[k] = old[k]
  BY DEF Import!Request, Import!Data, Import!Imported
<1>3. \A k \in Import!Keys : Import!Merged(old, x)[k] =
        IF k \in x.imported /\ x.data[k] # Import!Empty THEN x.data[k] ELSE Import!Request(old)[k]
  BY DEF Import!Merged
<1>4. Import!Merged(old, x) \in Import!Data
  BY <1>1, <1>2 DEF Import!Merged, Import!Data
<1> QED BY <1>1, <1>2, <1>3, <1>4, FiveKeys DEF Brought

\* What an update by row r stores as vehicle v.
UpdateData(r, v) == Import!Merged(importJob.vehicles[v].data, importJob.rows[r])
UpdateNumber(r, v) ==
    IF UpdateData(r, v)["number"] = Import!Empty THEN server[v].data["number"]
    ELSE UpdateData(r, v)["number"]
UpdateSaved(r, v) ==
    [server[v] EXCEPT !.data = [UpdateData(r, v) EXCEPT !["number"] = UpdateNumber(r, v)]]

LEMMA UpdateFits ==
    ASSUME ImportTypes, importJob # Import!NoJob, NEW r \in Import!Rest,
           NEW v \in DOMAIN importJob.vehicles, v \in DOMAIN server
    PROVE  /\ UpdateSaved(r, v) \in Import!Vehicles
           /\ Brought(importJob.rows[r], UpdateSaved(r, v).data)
           /\ \A k \in Import!Imported \ importJob.rows[r].imported :
                Import!Knows(v, k) => UpdateSaved(r, v).data[k] = server[v].data[k]
<1> DEFINE data == UpdateData(r, v)
           number == UpdateNumber(r, v)
<1>1. importJob.rows[r] \in Import!Rows /\ importJob.vehicles[v] \in Import!Vehicles
      /\ server[v] \in Import!Vehicles
  BY JobTables DEF ImportTypes, ViewTypes, RowTable, VehicleTable, Import!Rest
<1>2. data \in Import!Data /\ Brought(importJob.rows[r], data)
      /\ \A k \in Import!Imported \ importJob.rows[r].imported : data[k] = importJob.vehicles[v].data[k]
  <2>1. importJob.vehicles[v].data \in Import!Data
    BY <1>1 DEF Import!Vehicles
  <2> QED BY <1>1, <2>1, MergedFits DEF UpdateData
<1>3. number = IF data["number"] = Import!Empty THEN server[v].data["number"] ELSE data["number"]
  BY DEF UpdateNumber
<1>4. UpdateSaved(r, v) = [server[v] EXCEPT !.data = [data EXCEPT !["number"] = number]]
  BY DEF UpdateSaved
<1> HIDE DEF data, number
<1>5. server[v].data \in Import!Data
  BY <1>1 DEF Import!Vehicles
<1>6. number \in Values \cup {Import!Empty}
  BY <1>2, <1>3, <1>5, FiveKeys DEF Import!Data
<1>7. [data EXCEPT !["number"] = number] \in Import!Data
  BY <1>2, <1>6 DEF Import!Data
<1>8. UpdateSaved(r, v).data = [data EXCEPT !["number"] = number] /\ UpdateSaved(r, v) \in Import!Vehicles
  BY <1>1, <1>4, <1>7 DEF Import!Vehicles
<1>9. \A k \in Import!Keys : UpdateSaved(r, v).data[k] = IF k = "number" THEN number ELSE data[k]
  BY <1>2, <1>8 DEF Import!Data
<1>10. Brought(importJob.rows[r], UpdateSaved(r, v).data)
  <2>1. importJob.rows[r].imported \subseteq Import!Keys
    BY <1>1 DEF Import!Rows
  <2> QED BY <1>2, <1>3, <1>9, <2>1 DEF Brought
<1>11. ASSUME NEW k \in Import!Imported \ importJob.rows[r].imported,
              Import!Knows(v, k)
       PROVE  UpdateSaved(r, v).data[k] = server[v].data[k]
  BY <1>2, <1>3, <1>9, <1>11, FiveKeys DEF Import!Knows
<1> QED BY <1>8, <1>10, <1>11

\* The server after an update.
LEMMA UpdateOfServer ==
    ASSUME ImportTypes, NEW v \in DOMAIN server, NEW saved \in Import!Vehicles,
           server' = [server EXCEPT ![v] = saved]
    PROVE  VehicleTable(server') /\ ServerFollows(v, saved)
<1>1. VehicleTable(server')
  BY DEF ImportTypes, ViewTypes, VehicleTable
<1> QED BY <1>1 DEF ServerFollows

LEMMA UpdateStores ==
    ASSUME ImportStep, importJob.at = "next", Import!Rest # {}, Import!Updates(Import!Current),
           Import!UpdateVehicle(Import!Current, importJob.rows[Import!Current].dup)
    PROVE  StillFits
<1> DEFINE r == Import!Current
           v == importJob.rows[r].dup
<1>1. ImportTypes /\ importJob # Import!NoJob /\ ~OnRow
  BY DEF ImportStep, ImportFits, Import!NoJob, OnRow
<1>2. r \in Import!Rest
  BY <1>1, CurrentIsLeft DEF ImportTypes
<1>3. v \in DOMAIN importJob.vehicles
  BY DEF Import!Updates
<1>4. /\ v \in DOMAIN server /\ server' = [server EXCEPT ![v] = UpdateSaved(r, v)]
      /\ Import!Answered(r, v, UpdateSaved(r, v)) \/ Import!Failed(r)
  BY DEF Import!UpdateVehicle, UpdateSaved, UpdateData, UpdateNumber
<1>5. UpdateSaved(r, v) \in Import!Vehicles /\ Brought(importJob.rows[r], UpdateSaved(r, v).data)
  BY <1>1, <1>2, <1>3, <1>4, UpdateFits
<1>6. VehicleTable(server') /\ ServerFollows(v, UpdateSaved(r, v))
  BY <1>1, <1>4, <1>5, UpdateOfServer
<1>7. v \in VehicleIds
  BY <1>1, <1>4 DEF ImportTypes, ViewTypes, VehicleTable
<1>8. CASE Import!Answered(r, v, UpdateSaved(r, v))
  <2> HIDE DEF v
  <2> QED BY <1>1, <1>5, <1>6, <1>7, <1>8, RowGoesOn
<1>9. CASE Import!Failed(r)
  BY <1>1, <1>6, <1>9, RowFails
<1> QED BY <1>4, <1>8, <1>9

\* What row r makes with the number that was drawn or typed.
CreateSaved(r, number) ==
    [data |-> [importJob.rows[r].data EXCEPT !["number"] = number], locos |-> {}, cv |-> Import!None]

LEMMA CreateFits ==
    ASSUME ImportTypes, importJob # Import!NoJob, NEW r \in Import!Rest, NEW number \in Values,
           importJob.rows[r].data["number"] \in {number, Import!Empty}
    PROVE  CreateSaved(r, number) \in Import!Vehicles
           /\ Brought(importJob.rows[r], CreateSaved(r, number).data)
<1>1. importJob.rows[r] \in Import!Rows
  BY JobTables DEF ImportTypes, RowTable, Import!Rest
<1>2. importJob.rows[r].data \in Import!Data /\ importJob.rows[r].imported \subseteq Import!Keys
  BY <1>1 DEF Import!Rows
<1>3. [importJob.rows[r].data EXCEPT !["number"] = number] \in Import!Data
  BY <1>2 DEF Import!Data
<1>4. CreateSaved(r, number) \in Import!Vehicles
      /\ CreateSaved(r, number).data = [importJob.rows[r].data EXCEPT !["number"] = number]
  BY <1>3 DEF CreateSaved, Import!Vehicles
<1> QED BY <1>2, <1>4 DEF Brought, Import!Data

LEMMA CreateStores ==
    ASSUME ImportStep, importJob.at = "next", Import!Rest # {},
           NEW v \in VehicleIds, NEW n \in Values, Import!CreateVehicle(Import!Current, v, n)
    PROVE  StillFits
<1> DEFINE r == Import!Current
<1>1. ImportTypes /\ importJob # Import!NoJob /\ ~OnRow
  BY DEF ImportStep, ImportFits, Import!NoJob, OnRow
<1>2. r \in Import!Rest
  BY <1>1, CurrentIsLeft DEF ImportTypes
<1>3. /\ v \notin DOMAIN server /\ server' = Import!With(server, v, CreateSaved(r, n))
      /\ importJob.rows[r].data["number"] \in {n, Import!Empty}
      /\ Import!Answered(r, v, CreateSaved(r, n)) \/ Import!Failed(r)
  BY DEF Import!CreateVehicle, CreateSaved
<1>4. CreateSaved(r, n) \in Import!Vehicles /\ Brought(importJob.rows[r], CreateSaved(r, n).data)
  BY <1>1, <1>2, <1>3, CreateFits
<1>5. VehicleTable(server') /\ ServerFollows(v, CreateSaved(r, n))
  <2> DEFINE saved == CreateSaved(r, n)
  <2>1. saved \in Import!Vehicles /\ server' = Import!With(server, v, saved)
    BY <1>3, <1>4
  <2> HIDE DEF saved
  <2>2. VehicleTable(server')
    BY <1>1, <2>1 DEF ImportTypes, ViewTypes, VehicleTable, Import!With
  <2>3. ServerFollows(v, saved)
    BY <2>1, <2>2 DEF ServerFollows, Import!With
  <2> QED BY <2>2, <2>3 DEF saved
<1>6. CASE Import!Answered(r, v, CreateSaved(r, n))
  BY <1>1, <1>4, <1>5, <1>6, RowGoesOn
<1>7. CASE Import!Failed(r)
  BY <1>1, <1>5, <1>7, RowFails
<1> QED BY <1>3, <1>6, <1>7

LEMMA RowStores ==
    ASSUME ImportStep, Import!Store
    PROVE  StillFits
<1>1. importJob.at = "next" /\ Import!Rest # {}
  BY DEF Import!Store
<1>2. \/ Import!Updates(Import!Current)
         /\ Import!UpdateVehicle(Import!Current, importJob.rows[Import!Current].dup)
      \/ \E v \in VehicleIds, n \in Values : Import!CreateVehicle(Import!Current, v, n)
      \/ Import!Failed(Import!Current) /\ UNCHANGED server
  BY DEF Import!Store
<1>3. CASE Import!Failed(Import!Current) /\ UNCHANGED server
  <2>1. importJob # Import!NoJob /\ VehicleTable(server')
    BY <1>1, <1>3 DEF Import!NoJob, ImportStep, ImportFits, ImportTypes, ViewTypes
  <2> QED BY <1>1, <1>3, <2>1, RowFails
<1> QED BY <1>1, <1>2, <1>3, UpdateStores, CreateStores

\* A step of the server that changes no data, as far as the vehicle of the row goes.
LEMMA MappingOfServer ==
    ASSUME ImportTypes, DOMAIN server' = DOMAIN server,
           \A w \in DOMAIN server : server'[w] \in Import!Vehicles /\ server'[w].data = server[w].data,
           NEW v \in DOMAIN server, NEW saved, server[v].data = saved.data
    PROVE  VehicleTable(server') /\ ServerFollows(v, saved)
BY DEF ImportTypes, ViewTypes, VehicleTable, ServerFollows

LEMMA MappingStores ==
    ASSUME ImportStep, Import!UpsertMapping
    PROVE  StillFits
<1> DEFINE r == Import!Current
           l == importJob.rows[r].loco
<1>1. OnRow /\ importJob.at = "map"
  BY DEF Import!UpsertMapping, OnRow
<1>2. ImportTypes /\ importJob # Import!NoJob /\ RowJob(importJob) /\ JobFits
  BY <1>1 DEF ImportStep, ImportFits, ImportTypes, LoopJob, NextJob, Import!NoJob, OnRow
<1>3. Import!Rest # {} /\ l \in Locos /\ Brought(importJob.rows[r], importJob.saved.data)
  BY <1>1 DEF ImportStep, ImportFits, RowFits
<1> HIDE DEF l
<1>4. CASE Import!Failed(r) /\ UNCHANGED server
  <2>1. VehicleTable(server')
    BY <1>2, <1>4 DEF ImportTypes, ViewTypes
  <2> QED BY <1>2, <1>3, <1>4, <2>1, RowFails
<1>5. CASE /\ server' = [v \in DOMAIN server |->
                 [server[v] EXCEPT !.locos = IF v = importJob.id THEN @ \cup {l} ELSE @ \ {l}]]
           /\ \/ /\ importJob' = [importJob EXCEPT !.at = "cv", !.saved.locos = @ \cup {l}]
                 /\ UNCHANGED <<vehicles, importList, file, columns, rows>>
              \/ Import!Failed(r)
  <2>1. DOMAIN server' = DOMAIN server /\ \A w \in DOMAIN server :
          server'[w] \in Import!Vehicles /\ server'[w].data = server[w].data
    BY <1>2, <1>3, <1>5 DEF ImportTypes, ViewTypes, VehicleTable, Import!Vehicles
  <2>2. VehicleTable(server')
    BY <1>2, <2>1 DEF ImportTypes, ViewTypes, VehicleTable
  <2>3. CASE Import!Failed(r)
    BY <1>2, <1>3, <2>2, <2>3, RowFails
  <2>4. CASE /\ importJob' = [importJob EXCEPT !.at = "cv", !.saved.locos = @ \cup {l}]
             /\ UNCHANGED <<vehicles, importList, file, columns, rows>>
    <3>1. /\ importJob'.at = "cv" /\ importJob'.rows = importJob.rows /\ importJob'.id = importJob.id
          /\ importJob'.left = importJob.left /\ importJob'.saved.data = importJob.saved.data
          /\ RowJob(importJob')
      BY <1>2, <1>3, <2>4 DEF RowJob, Import!Vehicles
    <3>2. Import!Current' = Import!Current /\ Import!Rest' = Import!Rest /\ OnRow'
      BY <3>1 DEF Import!Current, Import!Rest, OnRow
    <3>3. RowFits'
      BY <1>1, <3>1, <3>2 DEF ImportStep, ImportFits, RowFits
    <3>4. JobFits'
      BY <1>2, <3>1 DEF JobFits
    <3>5. ViewTypes' /\ ReviewFits'
      BY <2>2, <2>4 DEF ImportStep, ImportFits, ImportTypes, ViewTypes, ReviewFits
    <3>6. ASSUME ~unaware' PROVE CopyFits'
      <4>1. CopyFits
        BY <3>6 DEF ImportStep, ImportHistory
      <4>2. importList'.at = "sent" =>
              \A w \in DOMAIN importList'.vehicles :
                w \in DOMAIN server' /\ Agrees(importList'.vehicles[w].data, server'[w].data)
        BY <2>4, <3>6, ListFollows
      <4> QED BY <1>1, <1>2, <2>1, <2>4, <3>1, <3>2, <4>1, <4>2 DEF CopyFits
    <3> QED BY <3>1, <3>3, <3>4, <3>5, <3>6 DEF StillFits, ImportFits, ImportTypes, LoopJob
  <2> QED BY <1>5, <2>3, <2>4
<1> QED BY <1>4, <1>5 DEF Import!UpsertMapping, l

LEMMA ValuesStore ==
    ASSUME ImportStep, Import!SaveCVs
    PROVE  StillFits
<1> DEFINE r == Import!Current
<1>1. OnRow /\ importJob.at = "cv"
  BY DEF Import!SaveCVs, OnRow
<1>2. ImportTypes /\ importJob # Import!NoJob /\ RowJob(importJob)
  BY <1>1 DEF ImportStep, ImportFits, ImportTypes, LoopJob, NextJob, Import!NoJob, OnRow
<1>3. Import!Rest # {} /\ importJob.rows[r].loco \in Locos
  BY <1>1 DEF ImportStep, ImportFits, RowFits
<1>4. CASE Import!Failed(r) /\ UNCHANGED server
  <2>1. VehicleTable(server')
    BY <1>2, <1>4 DEF ImportTypes, ViewTypes
  <2> QED BY <1>2, <1>3, <1>4, <2>1, RowFails
<1>5. CASE /\ server' = [server EXCEPT ![importJob.id].cv = importJob.rows[r].loco]
           /\ Import!Done(r, importJob.id, importJob.saved) \/ Import!Failed(r)
  <2>1. DOMAIN server' = DOMAIN server /\ \A w \in DOMAIN server :
          server'[w] \in Import!Vehicles /\ server'[w].data = server[w].data
    BY <1>2, <1>3, <1>5 DEF ImportTypes, ViewTypes, VehicleTable, Import!Vehicles
  <2>2. VehicleTable(server')
    BY <1>2, <2>1 DEF ImportTypes, ViewTypes, VehicleTable
  <2>3. CASE Import!Failed(r)
    BY <1>2, <1>3, <2>2, <2>3, RowFails
  <2>4. CASE Import!Done(r, importJob.id, importJob.saved)
    <3>1. ASSUME ~unaware' PROVE ServerFollows(importJob.id, importJob.saved)
      <4>1. importJob.id \in DOMAIN server /\ server[importJob.id].data = importJob.saved.data
        BY <1>1, <3>1 DEF ImportStep, ImportHistory, CopyFits
      <4> QED BY <1>2, <2>1, <4>1, MappingOfServer
    <3>2. importJob.id \in VehicleIds /\ importJob.saved \in Import!Vehicles
      BY <1>2 DEF RowJob
    <3> QED BY <1>2, <1>3, <2>2, <2>4, <3>1, <3>2, RowIsDone
  <2> QED BY <1>5, <2>3, <2>4
<1> QED BY <1>4, <1>5 DEF Import!SaveCVs

LEMMA LoopFinishes ==
    ASSUME ImportStep, Import!Finish
    PROVE  StillFits
<1>1. importJob.at = "next" /\ importJob' = Import!NoJob
      /\ UNCHANGED <<server, vehicles, importList, file, columns, rows>>
  BY DEF Import!Finish
<1>2. LoopJob(importJob') /\ JobFits' /\ RowFits' /\ ~OnRow'
  BY <1>1 DEF LoopJob, JobFits, RowFits, OnRow, Import!NoJob
<1>3. ViewTypes' /\ ReviewFits'
  BY <1>1 DEF ImportStep, ImportFits, ImportTypes, ViewTypes, ReviewFits
<1>4. ASSUME ~unaware' PROVE CopyFits'
  <2>1. CopyFits
    BY <1>4 DEF ImportStep, ImportHistory
  <2> QED BY <1>1, <1>2, <2>1 DEF CopyFits, OnRow
<1> QED BY <1>2, <1>3, <1>4 DEF StillFits, ImportFits, ImportTypes

LEMMA LoopBegins ==
    ASSUME ImportStep, Import!SaveSelected
    PROVE  StillFits
<1> DEFINE todo == [r \in Import!Todo |-> rows[r]]
<1>1. importJob = Import!NoJob /\ importJob' = Import!Job(todo, vehicles, FALSE)
      /\ UNCHANGED <<server, vehicles, importList, file, columns, rows>>
  BY DEF Import!SaveSelected
<1>2. RowTable(todo) /\ VehicleTable(vehicles)
  BY DEF ImportStep, ImportFits, ImportTypes, ViewTypes, RowTable, Import!Todo
<1>3. \A r \in DOMAIN todo : todo[r].mode = "create" => Import!Complete(todo[r].data)
  BY DEF ImportStep, ImportFits, ReviewFits, Storable, Import!Todo
<1> HIDE DEF todo
<1>4. NextJob(importJob') /\ importJob'.rows = todo /\ ~importJob'.left /\ importJob'.at = "next"
  <2> DEFINE left == FALSE
  <2> HIDE DEF left
  <2>1. importJob' = Import!Job(todo, vehicles, left)
    BY <1>1 DEF left
  <2>2. NextJob(importJob') /\ importJob'.rows = todo /\ importJob'.left = left /\ importJob'.at = "next"
    BY <1>2, <2>1, JobIsNext
  <2> QED BY <2>2 DEF left
<1>5. LoopJob(importJob') /\ JobFits' /\ RowFits' /\ ~OnRow'
  BY <1>3, <1>4 DEF LoopJob, JobFits, RowFits, OnRow
<1>6. ViewTypes' /\ ReviewFits'
  BY <1>1 DEF ImportStep, ImportFits, ImportTypes, ViewTypes, ReviewFits
<1>7. ASSUME ~unaware' PROVE CopyFits'
  <2>1. CopyFits /\ ~OnRow
    BY <1>1, <1>7 DEF ImportStep, ImportHistory, OnRow, Import!NoJob
  <2> QED BY <1>1, <1>4, <1>5, <2>1 DEF CopyFits
<1> QED BY <1>5, <1>6, <1>7 DEF StillFits, ImportFits, ImportTypes

----------------------------------------------------------------------------
(* The page.                                                               *)

LEMMA ImportStarts == ImportInit => ImportFits /\ importEdits \in Nat /\ CopyFits
<1> SUFFICES ASSUME ImportInit PROVE ImportFits /\ importEdits \in Nat /\ CopyFits
  OBVIOUS
<1>1. /\ server = Stored /\ vehicles = Import!NoRows /\ importList = [at |-> "asked"]
      /\ file = Import!NoFile /\ columns = <<>> /\ rows = Import!NoRows
      /\ importJob = Import!NoJob /\ importEdits = 0
  BY DEF ImportInit, Import!Init
<1>2. VehicleTable(server)
  BY <1>1, ConstantsMeet DEF Import!ConstantsFit, VehicleTable
<1>3. VehicleTable(vehicles) /\ RowTable(rows) /\ DOMAIN rows = {} /\ DOMAIN vehicles = {}
  BY <1>1 DEF VehicleTable, RowTable, Import!NoRows
<1>4. columns \in [DOMAIN file.header -> Import!Imported \cup {Import!None}]
  BY <1>1 DEF Import!NoFile
<1>5. ImportTypes
  BY <1>1, <1>2, <1>3, <1>4 DEF ImportTypes, ViewTypes, ListAnswer, LoopJob
<1>6. ReviewFits /\ JobFits /\ RowFits /\ CopyFits
  BY <1>1, <1>3 DEF ReviewFits, JobFits, RowFits, CopyFits, OnRow, Import!NoJob
<1> QED BY <1>1, <1>5, <1>6 DEF ImportFits

LEMMA EditsAreCounted ==
    ASSUME importEdits \in Nat, Import!Next
    PROVE  importEdits' \in Nat
<1>1. importEdits' = importEdits \/ importEdits' = importEdits + 1
  BY DEF Import!Next, Import!ServeList, Import!ListArrives, Import!Reopen, Import!TransferPanel,
         Import!ChooseFile, Import!LoadTable, Import!EcosPanel, Import!AddProbe, Import!MappingPanel,
         Import!SetColumnMapping, Import!ReviewPanel, Import!UpdateRow, Import!SetRowSelected,
         Import!SetRowMode, Import!SaveSelected, Import!Loop, Import!Store, Import!UpdateVehicle,
         Import!CreateVehicle, Import!Answered, Import!Failed, Import!Done, Import!UpsertMapping,
         Import!SaveCVs, Import!Finish, Import!OtherUser, Import!Correct
<1> QED BY <1>1

LEMMA ImportGoesOn ==
    ASSUME ImportStep, Import!Next
    PROVE  StillFits
<1>1. CASE Import!TransferPanel
  BY <1>1, TableLoads DEF Import!TransferPanel
<1>2. CASE Import!EcosPanel
  BY <1>2, ProbeAdds DEF Import!EcosPanel
<1>3. CASE Import!MappingPanel
  BY <1>3, ColumnMaps DEF Import!MappingPanel
<1>4. CASE Import!ReviewPanel
  BY <1>4, RowUpdates, RowSelects, RowModeChanges, LoopBegins DEF Import!ReviewPanel
<1>5. CASE Import!Loop
  BY <1>5, RowStores, MappingStores, ValuesStore, LoopFinishes DEF Import!Loop
<1> QED BY <1>1, <1>2, <1>3, <1>4, <1>5, ListServed, ListComes, ViewReopens, OthersEdit DEF Import!Next

LEMMA ImportInvariant == Spec => []ImportPage
<1>1. Init => ImportPage
  BY ImportStarts DEF Init, ImportPage
<1>2. ImportPage /\ [Next]_vars => ImportPage'
  <2> SUFFICES ASSUME ImportPage, [Next]_vars PROVE ImportPage'
    OBVIOUS
  <2>1. CASE page = "import" /\ Import!Next /\ ImportHistory /\ page' = page
    <3>1. ImportStep /\ importEdits' \in Nat
      BY <2>1, EditsAreCounted DEF ImportPage, ImportStep
    <3>2. StillFits
      BY <2>1, <3>1, ImportGoesOn
    <3> QED BY <3>1, <3>2 DEF StillFits, ImportPage
  <2>2. CASE page # "import" /\ page' = page
    BY <2>2 DEF ImportPage
  <2>3. CASE UNCHANGED vars
    <3>1. UNCHANGED <<page, importCore, unaware>>
      BY <2>3 DEF vars, importVars
    <3>2. UNCHANGED <<server, vehicles, importList, file, columns, rows, importJob, importEdits>>
      BY <3>1 DEF importCore
    <3>3. ImportFits' = ImportFits
      BY <3>2 DEF ImportFits, ImportTypes, ViewTypes, ReviewFits, JobFits, RowFits, OnRow,
                  Import!Rest, Import!Current
    <3>4. CopyFits' = CopyFits
      BY <3>2 DEF CopyFits, OnRow
    <3> QED BY <3>1, <3>2, <3>3, <3>4 DEF ImportPage
  <2>4. Next => \/ page = "import" /\ Import!Next /\ ImportHistory /\ page' = page
                \/ page # "import" /\ page' = page
    BY DEF Next
  <2> QED BY <2>1, <2>2, <2>3, <2>4
<1> QED BY <1>1, <1>2, PTL DEF Spec

\* What the loop will store fits, and what the view knows of the vehicles, all fields of the
\* list among it, is what the server has (LoopKnowsWhatItStores: ImportExportView.tsx:189 canSave, :343).
THEOREM LoopStoresWhatFits == Spec => []LoopKnowsWhatItStores
<1>1. ImportPage => LoopKnowsWhatItStores
  <2> SUFFICES ASSUME ImportPage, page = "import" PROVE Import!ReadyRows /\ CopyFollowsServer
    BY DEF LoopKnowsWhatItStores
  <2>1. Import!ReadyRows
    BY DEF ImportPage, ImportFits, ReviewFits, JobFits, Storable, Import!ReadyRows, Import!Rest
  <2>2. CopyFollowsServer
    BY DEF ImportPage, CopyFits, CopyFollowsServer, OnRow
  <2> QED BY <2>1, <2>2
<1> QED BY <1>1, ImportInvariant, PTL

----------------------------------------------------------------------------
(* What a step may not do.                                                 *)

\* Steps of the loop that store; every other step of the import leaves the data of the
\* vehicles alone, or is counted as an edit.
LEMMA OtherStepsKeepData ==
    ASSUME ImportFits, Import!Next, importEdits \in Nat, importEdits' = importEdits
    PROVE  Import!Store \/ (DOMAIN server' = DOMAIN server
                            /\ \A v \in DOMAIN server : server'[v].data = server[v].data)
<1>0. importEdits' # importEdits + 1
  OBVIOUS
<1>1. CASE Import!UpsertMapping \/ Import!SaveCVs
  <2>1. VehicleTable(server)
    BY DEF ImportFits, ImportTypes, ViewTypes
  <2> QED BY <1>1, <2>1 DEF Import!UpsertMapping, Import!SaveCVs, VehicleTable, Import!Vehicles
<1>2. CASE Import!ServeList \/ Import!ListArrives \/ Import!TransferPanel \/ Import!EcosPanel \/ Import!Finish
  BY <1>2 DEF Import!ServeList, Import!ListArrives, Import!TransferPanel, Import!ChooseFile,
              Import!EcosPanel, Import!AddProbe, Import!Finish
<1>3. CASE Import!Reopen \/ Import!MappingPanel \/ Import!ReviewPanel
  BY <1>3 DEF Import!Reopen, Import!MappingPanel, Import!SetColumnMapping, Import!ReviewPanel,
              Import!UpdateRow, Import!SetRowSelected, Import!SetRowMode, Import!SaveSelected
<1>4. ASSUME NEW v \in DOMAIN server, NEW k \in OtherKeys, NEW x \in Values, Import!OtherUser(v, k, x)
      PROVE  FALSE
  BY <1>0, <1>4 DEF Import!OtherUser, Import!Correct
<1> QED BY <1>1, <1>2, <1>3, <1>4 DEF Import!Next, Import!Loop

\* An update by a row keeps the fields that a file may bring but this row does not, if the
\* loop knows them (UpdatesKeepKnown: importExportHelpers.tsx:1443 mergeImportedVehicle).
THEOREM UpdatesKeepTheRest == Spec => UpdatesKeepKnown
<1>1. ImportPage /\ [Next]_vars => [page = "import" => Import!KeepsKnown]_vars
  <2> SUFFICES ASSUME ImportPage, Next, page = "import" PROVE Import!KeepsKnown
    OBVIOUS
  <2>1. ImportFits /\ importEdits \in Nat /\ Import!Next
    BY DEF ImportPage, Next
  <2> SUFFICES ASSUME NEW v \in DOMAIN server, Import!StoredByRow(v),
                      NEW k \in Import!Imported \ importJob.rows[Import!Current].imported,
                      Import!Knows(v, k)
               PROVE  server'[v].data[k] = server[v].data[k]
    BY DEF Import!KeepsKnown, Import!Keeps
  <2>2. /\ importJob # Import!NoJob /\ importEdits' = importEdits /\ v \in DOMAIN importJob.vehicles
        /\ server'[v].data # server[v].data
    BY DEF Import!StoredByRow
  <2>3. Import!Store
    BY <2>1, <2>2, OtherStepsKeepData
  <2> DEFINE r == Import!Current
             d == importJob.rows[r].dup
  <2>4. ImportTypes /\ Import!Rest # {}
    BY <2>1, <2>3 DEF ImportFits, Import!Store
  <2>5. r \in Import!Rest
    BY <2>2, <2>4, CurrentIsLeft DEF ImportTypes
  <2>6. \/ d \in DOMAIN server /\ server' = [server EXCEPT ![d] = UpdateSaved(r, d)]
        \/ \E w \in VehicleIds : w \notin DOMAIN server /\ \E x : server' = Import!With(server, w, x)
        \/ server' = server
    BY <2>3 DEF Import!Store, Import!UpdateVehicle, Import!CreateVehicle, UpdateSaved, UpdateData, UpdateNumber
  <2>7. d = v /\ server'[v] = UpdateSaved(r, v)
    BY <2>2, <2>6 DEF Import!With
  <2>8. UpdateSaved(r, v).data[k] = server[v].data[k]
    BY <2>2, <2>4, <2>5, UpdateFits
  <2> QED BY <2>7, <2>8
<1> QED BY <1>1, ImportInvariant, PTL DEF Spec, UpdatesKeepKnown

\* Row r turns to saved.
TurnsToSaved(r) ==
    /\ r \in DOMAIN rows' /\ r \in DOMAIN rows
    /\ rows'[r].status = "saved" /\ rows[r].status # "saved"

\* A vehicle has the fields that row x brings.
StoredSomewhere(x) ==
    \E v \in DOMAIN server' : \A k \in x.imported : x.data[k] # Import!Empty => server'[v].data[k] = x.data[k]

\* No panel makes a row saved.
LEMMA PanelsSaveNothing ==
    ASSUME ImportStep, NEW r, TurnsToSaved(r), Import!Next
    PROVE  Import!Loop
<1>1. RowTable(rows) /\ VehicleTable(vehicles) /\ ViewTypes
  BY DEF ImportStep, ImportFits, ImportTypes, ViewTypes
<1>2. ASSUME rows' = rows PROVE FALSE
  BY <1>2 DEF TurnsToSaved
<1>3. ASSUME NEW f \in Files \cup {Import!NoFile},
             NEW mapped \in [DOMAIN f.header -> Import!Imported \cup {Import!None}],
             rows' = Import!TableRows(f, mapped)
      PROVE  FALSE
  <2>1. r \in DOMAIN f.cells /\ rows'[r] = Import!TableRow(f.cells[r], mapped, vehicles)
    BY <1>3 DEF TurnsToSaved, Import!TableRows
  <2>2. rows'[r].status # "saved"
    BY <1>1, <2>1, TableRowFits
  <2> QED BY <2>2 DEF TurnsToSaved
<1>4. CASE Import!TransferPanel
  <2>1. PICK f \in Files \cup {Import!NoFile} : Import!ChooseFile(f)
    BY <1>4 DEF Import!TransferPanel
  <2>2. f.header \in Seq(DOMAIN Import!ColumnAliases)
    <3>1. CASE f \in Files
      BY <3>1, ConstantsMeet DEF Import!ConstantsFit
    <3>2. CASE f = Import!NoFile
      <4>1. f.header = << >>
        BY <3>2 DEF Import!NoFile
      <4> QED BY <4>1
    <3> QED BY <3>1, <3>2
  <2>3. Import!DefaultColumns(f) \in [DOMAIN f.header -> Import!Imported \cup {Import!None}]
    BY <2>2 DEF Import!DefaultColumns, Import!ColumnAliases, Import!Imported, Import!Keys
  <2>4. rows' = Import!TableRows(f, Import!DefaultColumns(f))
    BY <2>1 DEF Import!ChooseFile, Import!LoadTable
  <2> QED BY <1>3, <2>3, <2>4
<1>5. CASE Import!MappingPanel
  <2>1. file \in Files \cup {Import!NoFile}
        /\ columns \in [DOMAIN file.header -> Import!Imported \cup {Import!None}]
    BY <1>1 DEF ViewTypes
  <2>2. columns' \in [DOMAIN file.header -> Import!Imported \cup {Import!None}]
        /\ rows' = Import!TableRows(file, columns')
    BY <1>5, <2>1 DEF Import!MappingPanel, Import!SetColumnMapping
  <2> QED BY <1>3, <2>1, <2>2
<1>6. CASE Import!EcosPanel
  <2>1. PICK match \in [Locos -> VehicleIds \cup {Import!None}] :
          /\ \A l \in Locos : match[l] \in Import!Matches(l)
          /\ rows' = [q \in DOMAIN rows \cup Locos |->
                        IF q \in Locos THEN Import!EcosRow(q, match[q]) ELSE rows[q]]
    BY <1>6 DEF Import!EcosPanel, Import!AddProbe
  <2>2. r \in Locos /\ rows'[r] = Import!EcosRow(r, match[r])
    BY <2>1 DEF TurnsToSaved
  <2>3. rows'[r].status # "saved"
    BY <1>1, <2>1, <2>2, EcosRowFits
  <2> QED BY <2>3 DEF TurnsToSaved
<1>7. CASE Import!ReviewPanel
  <2>1. ASSUME NEW q \in DOMAIN rows, NEW k \in {"number", "maker"}, NEW x \in Values \cup {Import!Empty},
               Import!UpdateRow(q, k, x)
        PROVE  FALSE
    <3> DEFINE y == [rows[q] EXCEPT !.data[k] = x, !.imported = @ \cup {k}]
    <3>1. rows' = [rows EXCEPT ![q] = Import!Checked(y, vehicles)]
      BY <2>1, Zenon DEF Import!UpdateRow
    <3>2. y \in Import!Rows
      BY <1>1, FiveKeys DEF RowTable, Import!Rows, Import!Data
    <3> HIDE DEF y
    <3>3. Import!Checked(y, vehicles).status # "saved"
      BY <1>1, <3>2, CheckedFits
    <3> QED BY <3>1, <3>3 DEF TurnsToSaved
  <2>2. ASSUME NEW q \in DOMAIN rows, NEW selected \in BOOLEAN, Import!SetRowSelected(q, selected)
        PROVE  FALSE
    BY <1>1, <2>2 DEF Import!SetRowSelected, TurnsToSaved, RowTable, Import!Rows
  <2>3. ASSUME NEW q \in DOMAIN rows, NEW mode \in {"create", "update"}, Import!SetRowMode(q, mode)
        PROVE  FALSE
    BY <1>1, <2>3 DEF Import!SetRowMode, TurnsToSaved, RowTable, Import!Rows
  <2>4. CASE Import!SaveSelected
    BY <1>2, <2>4 DEF Import!SaveSelected
  <2> QED BY <1>7, <2>1, <2>2, <2>3, <2>4 DEF Import!ReviewPanel
<1>8. CASE Import!Reopen
  BY <1>8 DEF Import!Reopen, TurnsToSaved, Import!NoRows
<1>9. CASE Import!ServeList \/ Import!ListArrives
  BY <1>2, <1>9 DEF Import!ServeList, Import!ListArrives
<1>10. ASSUME NEW v \in DOMAIN server, NEW k \in OtherKeys, NEW x \in Values, Import!OtherUser(v, k, x)
       PROVE  FALSE
  BY <1>2, <1>10 DEF Import!OtherUser
<1> QED BY <1>4, <1>5, <1>6, <1>7, <1>8, <1>9, <1>10 DEF Import!Next

\* Nor does a row that failed become saved.
LEMMA FailedSavesNothing ==
    ASSUME ImportStep, NEW r, TurnsToSaved(r), NEW q, Import!Failed(q)
    PROVE  FALSE
<1>1. rows' = rows \/ (q \in DOMAIN rows /\ rows' = [rows EXCEPT ![q] = [rows[q] EXCEPT !.status = "error"]])
  BY DEF Import!Failed, Import!Mark
<1> QED BY <1>1 DEF TurnsToSaved, ImportStep, ImportFits, ImportTypes, ViewTypes, RowTable, Import!Rows

LEMMA DoneSavesIts ==
    ASSUME NEW r, TurnsToSaved(r), NEW q, NEW v, NEW saved, Import!Done(q, v, saved)
    PROVE  r = q
BY DEF Import!Done, Import!Mark, TurnsToSaved

LEMMA AnsweredIsDone ==
    ASSUME NEW r, TurnsToSaved(r), NEW q, NEW v, NEW saved, Import!Answered(q, v, saved)
    PROVE  r = q
<1>1. CASE importJob.rows[q].loco = Import!None
  BY <1>1, DoneSavesIts DEF Import!Answered
<1>2. CASE importJob.rows[q].loco # Import!None
  BY <1>2 DEF Import!Answered, TurnsToSaved
<1> QED BY <1>1, <1>2

LEMMA SavedIsStored ==
    ASSUME ImportStep, ~unaware, NEW r, TurnsToSaved(r), Import!Loop
    PROVE  StoredSomewhere(importJob.rows[r])
<1> DEFINE q == Import!Current
<1>1. ImportTypes
  BY DEF ImportStep, ImportFits
<1>2. CASE Import!Store
  <2>1. importJob # Import!NoJob /\ Import!Rest # {} /\ importJob.at = "next"
    BY <1>2 DEF Import!Store, Import!NoJob
  <2>2. q \in Import!Rest
    BY <1>1, <2>1, CurrentIsLeft DEF ImportTypes
  <2>3. CASE Import!Updates(q) /\ Import!UpdateVehicle(q, importJob.rows[q].dup)
    <3> DEFINE d == importJob.rows[q].dup
    <3>1. d \in DOMAIN importJob.vehicles /\ d \in DOMAIN server
          /\ server' = [server EXCEPT ![d] = UpdateSaved(q, d)]
          /\ Import!Answered(q, d, UpdateSaved(q, d))
      BY <2>3, FailedSavesNothing
         DEF Import!Updates, Import!UpdateVehicle, UpdateSaved, UpdateData, UpdateNumber
    <3>2. r = q
      BY <3>1, AnsweredIsDone
    <3>3. Brought(importJob.rows[q], UpdateSaved(q, d).data)
      BY <1>1, <2>1, <2>2, <3>1, UpdateFits
    <3>4. d \in DOMAIN server' /\ server'[d] = UpdateSaved(q, d)
      BY <3>1
    <3> QED BY <3>2, <3>3, <3>4 DEF StoredSomewhere, Brought
  <2>4. ASSUME NEW v \in VehicleIds, NEW n \in Values, Import!CreateVehicle(q, v, n)
        PROVE  StoredSomewhere(importJob.rows[r])
    <3>1. server' = Import!With(server, v, CreateSaved(q, n)) /\ Import!Answered(q, v, CreateSaved(q, n))
          /\ importJob.rows[q].data["number"] \in {n, Import!Empty}
      BY <2>4, FailedSavesNothing DEF Import!CreateVehicle, CreateSaved
    <3>2. r = q
      BY <3>1, AnsweredIsDone
    <3>3. Brought(importJob.rows[q], CreateSaved(q, n).data)
      BY <1>1, <2>1, <2>2, <3>1, CreateFits
    <3>4. v \in DOMAIN server' /\ server'[v] = CreateSaved(q, n)
      BY <3>1 DEF Import!With
    <3> QED BY <3>2, <3>3, <3>4 DEF StoredSomewhere, Brought
  <2> QED BY <1>2, <2>3, <2>4, FailedSavesNothing DEF Import!Store
<1>3. CASE Import!UpsertMapping
  <2>1. rows' = rows
    BY <1>3, FailedSavesNothing DEF Import!UpsertMapping
  <2> QED BY <2>1 DEF TurnsToSaved
<1>4. CASE Import!SaveCVs
  <2>1. server' = [server EXCEPT ![importJob.id].cv = importJob.rows[q].loco]
        /\ Import!Done(q, importJob.id, importJob.saved)
    BY <1>4, FailedSavesNothing DEF Import!SaveCVs
  <2>2. r = q
    BY <2>1, DoneSavesIts
  <2>3. OnRow
    BY <1>4 DEF Import!SaveCVs, OnRow
  <2>4. importJob.id \in DOMAIN server /\ server[importJob.id].data = importJob.saved.data
    BY <2>3 DEF ImportStep, CopyFits
  <2>5. Brought(importJob.rows[q], importJob.saved.data)
    BY <2>3 DEF ImportStep, ImportFits, RowFits
  <2>6. server[importJob.id] \in Import!Vehicles
    BY <1>1, <2>4 DEF ImportTypes, ViewTypes, VehicleTable
  <2>7. importJob.id \in DOMAIN server' /\ server'[importJob.id].data = server[importJob.id].data
    BY <2>1, <2>4, <2>6 DEF Import!Vehicles
  <2> QED BY <2>2, <2>4, <2>5, <2>7 DEF StoredSomewhere, Brought
<1>5. CASE Import!Finish
  BY <1>5 DEF Import!Finish, TurnsToSaved
<1> QED BY <1>2, <1>3, <1>4, <1>5 DEF Import!Loop

\* A row that turns to saved, if it still is what the loop started from, has its fields in a
\* vehicle (SavedRowsAreStored: ImportExportView.tsx:349).
THEOREM SavedMeansStored == Spec => SavedRowsAreStored
<1> DEFINE A == page = "import" => \A r \in DOMAIN rows' \cap DOMAIN rows :
                  /\ rows'[r].status = "saved" /\ rows[r].status # "saved"
                  /\ importJob.rows[r] = rows[r] /\ ~unaware
                  => \E v \in DOMAIN server' : \A k \in rows[r].imported :
                       rows[r].data[k] # Import!Empty => server'[v].data[k] = rows[r].data[k]
<1>1. ImportPage /\ [Next]_vars => [A]_vars
  <2> SUFFICES ASSUME ImportPage, Next, page = "import",
                      NEW r \in DOMAIN rows' \cap DOMAIN rows,
                      rows'[r].status = "saved", rows[r].status # "saved",
                      importJob.rows[r] = rows[r], ~unaware
               PROVE  \E v \in DOMAIN server' : \A k \in rows[r].imported :
                        rows[r].data[k] # Import!Empty => server'[v].data[k] = rows[r].data[k]
    OBVIOUS
  <2>1. ImportStep /\ Import!Next
    BY DEF ImportPage, Next, ImportStep
  <2>2. TurnsToSaved(r)
    BY DEF TurnsToSaved
  <2>3. StoredSomewhere(importJob.rows[r])
    BY <2>1, <2>2, PanelsSaveNothing, SavedIsStored
  <2> QED BY <2>3 DEF StoredSomewhere
<1>2. []ImportPage /\ [][Next]_vars => [][A]_vars
  BY <1>1, PTL
<1> QED BY <1>2, ImportInvariant DEF Spec, SavedRowsAreStored

----------------------------------------------------------------------------
(* What the dialog and the server have.                                    *)

HasPrimary(images) == images = <<>> \/ \E i \in DOMAIN images : images[i].primary
StoredImage == [id : ImageIds, stored : {TRUE}, primary : BOOLEAN]
StoredImages == {s \in Seq(StoredImage) : HasPrimary(s)}
ShownImage == {x \in Image : x.stored \/ x.id \in Suggested}
ShownImages == {s \in Seq(ShownImage) : HasPrimary(s)}

Has(images, id) == \E i \in DOMAIN images : images[i].id = id

----------------------------------------------------------------------------
(* Images.                                                                 *)

\* An image becomes primary where none is; which images there are stays.
LEMMA WithPrimaryKeeps ==
    ASSUME NEW s \in Seq(ShownImage)
    PROVE  /\ WithPrimary(s) \in ShownImages /\ DOMAIN WithPrimary(s) = DOMAIN s
           /\ \A i \in DOMAIN s : /\ WithPrimary(s)[i].id = s[i].id
                                  /\ WithPrimary(s)[i].stored = s[i].stored
<1>1. Len(s) \in Nat /\ DOMAIN s = 1 .. Len(s) /\ \A i \in DOMAIN s : s[i] \in ShownImage
  OBVIOUS
<1>2. CASE Primary(s) # {} \/ s = <<>>
  <2>1. WithPrimary(s) = s
    BY <1>2 DEF WithPrimary
  <2> QED BY <1>1, <1>2, <2>1 DEF ShownImages, HasPrimary, Primary
<1>3. CASE Primary(s) = {} /\ s # <<>>
  <2> DEFINE t == [s EXCEPT ![1].primary = TRUE]
  <2>1. WithPrimary(s) = t
    BY <1>3 DEF WithPrimary
  <2>2. 1 \in DOMAIN s
    BY <1>1, <1>3
  <2>3. \A i \in DOMAIN s : t[i] = IF i = 1 THEN [s[1] EXCEPT !.primary = TRUE] ELSE s[i]
    OBVIOUS
  <2>4. \A i \in DOMAIN s : t[i] \in ShownImage /\ t[i].id = s[i].id /\ t[i].stored = s[i].stored
    BY <1>1, <2>3 DEF ShownImage, Image
  <2>5. DOMAIN t = DOMAIN s /\ t[1].primary
    BY <1>1, <2>2, <2>3 DEF ShownImage, Image
  <2>6. t \in Seq(ShownImage)
    <3>1. t = [i \in 1 .. Len(s) |-> t[i]]
      BY <1>1
    <3> HIDE DEF t
    <3> QED BY <1>1, <2>4, <3>1
  <2> HIDE DEF t
  <2> QED BY <2>1, <2>2, <2>4, <2>5, <2>6 DEF ShownImages, HasPrimary
<1> QED BY <1>2, <1>3

\* What Without has kept of the first members.
KeptUpTo(f, s, id, n) ==
    f = [m \in 0 .. n |-> IF m = 0 THEN <<>>
                          ELSE IF s[m].id = id THEN f[m - 1] ELSE Append(f[m - 1], s[m])]

LEMMA KeptExists ==
    ASSUME NEW s, NEW id, NEW N \in Nat
    PROVE  \E f : KeptUpTo(f, s, id, N)
<1> DEFINE Bad == {n \in Nat : ~\E f : KeptUpTo(f, s, id, n)}
<1> SUFFICES ASSUME Bad # {} PROVE FALSE
  OBVIOUS
<1>1. PICK n \in Bad : \A m \in Bad : n <= m
  BY LeastNumber
<1>2. CASE n = 0
  <2> DEFINE f == [m \in 0 .. 0 |-> <<>>]
  <2>1. KeptUpTo(f, s, id, 0)
    BY DEF KeptUpTo
  <2> QED BY <2>1, <1>2
<1>3. CASE n # 0
  <2>1. n - 1 \in Nat /\ n - 1 \notin Bad
    BY <1>1, <1>3
  <2>2. PICK f : KeptUpTo(f, s, id, n - 1)
    BY <2>1
  <2> DEFINE last == IF s[n].id = id THEN f[n - 1] ELSE Append(f[n - 1], s[n])
             g == [m \in 0 .. n |-> IF m = n THEN last ELSE f[m]]
  <2>3. \A m \in 0 .. n - 1 : f[m] = IF m = 0 THEN <<>>
                                     ELSE IF s[m].id = id THEN f[m - 1] ELSE Append(f[m - 1], s[m])
    BY <2>1, <2>2 DEF KeptUpTo
  <2>4. ASSUME NEW m \in 0 .. n
        PROVE  g[m] = IF m = 0 THEN <<>>
                      ELSE IF s[m].id = id THEN g[m - 1] ELSE Append(g[m - 1], s[m])
    <3>1. CASE m = n
      <4>1. g[m] = last /\ g[m - 1] = f[m - 1] /\ m # 0
        BY <1>3, <3>1, <2>1
      <4> HIDE DEF g
      <4> QED BY <3>1, <4>1
    <3>2. CASE m # n
      <4>1. m \in 0 .. n - 1 /\ (m # 0 => m - 1 \in 0 .. n /\ m - 1 # n)
        BY <3>2
      <4>2. g[m] = f[m] /\ (m # 0 => g[m - 1] = f[m - 1])
        BY <4>1, <3>2
      <4> HIDE DEF g
      <4> QED BY <4>1, <4>2, <2>3
    <3> QED BY <3>1, <3>2
  <2>5. KeptUpTo(g, s, id, n)
    <3> DEFINE h == [m \in 0 .. n |-> IF m = 0 THEN <<>>
                                      ELSE IF s[m].id = id THEN g[m - 1] ELSE Append(g[m - 1], s[m])]
    <3>1. DOMAIN g = 0 .. n /\ DOMAIN h = 0 .. n /\ \A m \in 0 .. n : g[m] = h[m]
      BY <2>4
    <3>2. g = [m \in 0 .. n |-> g[m]] /\ h = [m \in 0 .. n |-> h[m]]
      OBVIOUS
    <3> HIDE DEF g
    <3> QED BY <2>4, <3>1 , <3>2 DEF KeptUpTo
  <2> QED BY <2>5, <1>1
<1> QED BY <1>2, <1>3

\* What is kept of the first members are those of them with another id.
KeptRight(f, s, id, S, n) ==
    /\ f[n] \in Seq(S)
    /\ \A i \in DOMAIN f[n] : f[n][i].id # id /\ \E j \in 1 .. n : f[n][i] = s[j]
    /\ \A j \in 1 .. n : s[j].id # id => \E i \in DOMAIN f[n] : f[n][i] = s[j]

LEMMA WithoutKeeps ==
    ASSUME NEW S, NEW s \in Seq(S), NEW id
    PROVE  /\ Without(s, id) \in Seq(S) /\ ~Has(Without(s, id), id)
           /\ \A i \in DOMAIN Without(s, id) : \E j \in DOMAIN s : Without(s, id)[i] = s[j]
           /\ \A j \in DOMAIN s : s[j].id # id => \E i \in DOMAIN Without(s, id) : Without(s, id)[i] = s[j]
<1> DEFINE N == Len(s)
           c == CHOOSE f : KeptUpTo(f, s, id, N)
           Bad == {n \in 0 .. N : ~KeptRight(c, s, id, S, n)}
<1>1. N \in Nat /\ DOMAIN s = 1 .. N /\ \A j \in 1 .. N : s[j] \in S
  OBVIOUS
<1>2. KeptUpTo(c, s, id, N)
  BY <1>1, KeptExists
<1>3. Without(s, id) = c[N]
  BY Zenon DEF Without, KeptUpTo
<1> HIDE DEF c, N
<1>4. \A m \in 0 .. N : c[m] = IF m = 0 THEN <<>>
                               ELSE IF s[m].id = id THEN c[m - 1] ELSE Append(c[m - 1], s[m])
  BY <1>1, <1>2 DEF KeptUpTo
<1>5. ASSUME NEW n \in 0 .. N, n = 0 \/ KeptRight(c, s, id, S, n - 1)
      PROVE  KeptRight(c, s, id, S, n)
  <2>1. CASE n = 0
    <3>1. c[n] = <<>>
      BY <1>4, <2>1
    <3> QED BY <3>1, <2>1 DEF KeptRight
  <2>2. CASE n # 0 /\ s[n].id = id
    <3>1. c[n] = c[n - 1]
      BY <1>4, <2>2
    <3>2. KeptRight(c, s, id, S, n - 1)
      BY <1>5, <2>2
    <3>3. \A m \in 1 .. n : s[m].id # id => m \in 1 .. n - 1
      BY <2>2
    <3>4. \A m \in 1 .. n - 1 : m \in 1 .. n
      OBVIOUS
    <3> QED BY <3>1, <3>2, <3>3, <3>4, Zenon DEF KeptRight
  <2>3. CASE n # 0 /\ s[n].id # id
    <3>1. PICK k : k = c[n - 1]
      OBVIOUS
    <3>2. n \in 1 .. N /\ c[n] = Append(k, s[n])
      <4>1. n \in 1 .. N
        BY <1>1, <2>3
      <4>2. c[n] = Append(c[n - 1], s[n])
        BY <1>4, <2>3, Zenon
      <4> QED BY <3>1, <4>1, <4>2
    <3>3. s[n] \in S
      BY <1>1, <3>2
    <3>4. KeptRight(c, s, id, S, n - 1)
      BY <1>5, <2>3
    <3>5. k \in Seq(S)
      BY <3>1, <3>4 DEF KeptRight
    <3>6. /\ c[n] \in Seq(S) /\ Len(k) + 1 \in DOMAIN c[n] /\ c[n][Len(k) + 1] = s[n]
          /\ \A i \in DOMAIN k : i \in DOMAIN c[n] /\ c[n][i] = k[i]
          /\ \A i \in DOMAIN c[n] : i \in DOMAIN k \/ i = Len(k) + 1
      BY <3>2, <3>3, <3>5
    <3>7. /\ \A m \in 1 .. n : m \in 1 .. n - 1 \/ m = n
          /\ \A m \in 1 .. n - 1 : m \in 1 .. n
          /\ n \in 1 .. n
      BY <2>3
    <3>8. ASSUME NEW i \in DOMAIN c[n]
          PROVE  c[n][i].id # id /\ \E j \in 1 .. n : c[n][i] = s[j]
      <4>1. CASE i = Len(k) + 1
        BY <2>3, <3>6, <3>7, <4>1
      <4>2. CASE i \in DOMAIN k
        <5>1. k[i].id # id /\ \E j \in 1 .. n - 1 : k[i] = s[j]
          BY <3>1, <3>4, <4>2, Zenon DEF KeptRight
        <5> QED BY <3>6, <3>7, <4>2, <5>1, Zenon
      <4> QED BY <3>6, <4>1, <4>2
    <3>9. \A j \in 1 .. n : s[j].id # id => \E i \in DOMAIN c[n] : c[n][i] = s[j]
      BY <2>3, <3>1, <3>4, <3>6, <3>7, Zenon DEF KeptRight
    <3> QED BY <3>6, <3>8, <3>9 DEF KeptRight
  <2> QED BY <2>1, <2>2, <2>3
<1>6. KeptRight(c, s, id, S, N)
  <2> SUFFICES ASSUME Bad # {} PROVE FALSE
    BY <1>1
  <2>1. PICK n \in Bad : \A m \in Bad : n <= m
    <3>1. Bad \subseteq Nat
      BY <1>1
    <3> HIDE DEF Bad
    <3> QED BY <3>1, LeastNumber
  <2>2. n = 0 \/ n - 1 \in (0 .. N) \ Bad
    BY <1>1, <2>1
  <2> QED BY <1>5, <2>1, <2>2
<1> QED BY <1>1, <1>3, <1>6 DEF KeptRight, Has

\* The first elements of a sequence
LEMMA FirstOf ==
    ASSUME NEW S, NEW s \in Seq(S), NEW m \in Nat
    PROVE  LET n == IF Len(s) < m THEN Len(s) ELSE m
               t == SubSeq(s, 1, n)
           IN  /\ t \in Seq(S) /\ DOMAIN t = {i \in DOMAIN s : i <= m}
               /\ \A i \in DOMAIN t : t[i] = s[i]
<1> DEFINE n == IF Len(s) < m THEN Len(s) ELSE m
           t == SubSeq(s, 1, n)
<1>1. n \in Nat /\ n <= Len(s) /\ Len(s) \in Nat
  OBVIOUS
<1>2. 1 .. n = {i \in 1 .. Len(s) : i <= m}
  BY <1>1
<1> HIDE DEF n
<1>3. t \in Seq(S) /\ Len(t) = n /\ \A i \in 1 .. n : t[i] = s[i]
  BY <1>1
<1>4. DOMAIN t = 1 .. n /\ DOMAIN s = 1 .. Len(s)
  BY <1>3
<1> QED BY <1>2, <1>3, <1>4 DEF n

\* A form may store the images up to the limit.
LEMMA FirstImagesKeep ==
    ASSUME NEW s \in Seq(ShownImage)
    PROVE  /\ FirstImages(s) \in Seq(ShownImage)
           /\ DOMAIN FirstImages(s) = {i \in DOMAIN s : i <= MaxImages}
           /\ \A i \in DOMAIN FirstImages(s) : FirstImages(s)[i] = s[i]
BY FirstOf, MaxImagesAssumption, Zenon DEF FirstImages

\* The server stores the images that it is sent up to the limit, one of them as the primary one.
LEMMA SavedKeeps ==
    ASSUME NEW s \in Seq(ShownImage)
    PROVE  /\ Saved(s) \in StoredImages /\ DOMAIN Saved(s) = {i \in DOMAIN s : i <= MaxImages}
           /\ \A i \in DOMAIN Saved(s) : Saved(s)[i].id = s[i].id
<1> DEFINE kept == FirstImages(s)
           first == WithPrimary(kept)
           least(i) == i \in Primary(first) /\ \A j \in Primary(first) : i <= j
           t == [i \in DOMAIN first |-> [id |-> first[i].id, stored |-> TRUE, primary |-> least(i)]]
<1>1. Saved(s) = t
  BY DEF Saved
<1>0. /\ kept \in Seq(ShownImage) /\ DOMAIN kept = {i \in DOMAIN s : i <= MaxImages}
      /\ \A i \in DOMAIN kept : kept[i] = s[i]
  BY FirstImagesKeep
<1> HIDE DEF kept
<1>2. /\ first \in ShownImages /\ DOMAIN first = DOMAIN kept
      /\ \A i \in DOMAIN kept : first[i].id = kept[i].id
  BY <1>0, WithPrimaryKeeps
<1> HIDE DEF first
<1>3. Len(first) \in Nat /\ DOMAIN first = 1 .. Len(first) /\ \A i \in DOMAIN first : first[i] \in Image
  BY <1>2 DEF ShownImages, ShownImage
<1>4. \A i \in DOMAIN first : t[i] \in StoredImage
  BY <1>3 DEF StoredImage, Image
<1>5. t \in Seq(StoredImage)
  BY <1>3, <1>4
<1>6. HasPrimary(t)
  <2>1. CASE first = <<>>
    <3>1. t = <<>>
      BY <1>5, <2>1
    <3> QED BY <3>1 DEF HasPrimary
  <2>2. CASE first # <<>>
    <3>1. Primary(first) # {} /\ Primary(first) \subseteq Nat
      BY <1>2, <1>3, <2>2 DEF ShownImages, HasPrimary, Primary
    <3>2. PICK i \in Primary(first) : \A j \in Primary(first) : i <= j
      BY <3>1, LeastNumber
    <3>3. i \in DOMAIN first
      BY DEF Primary
    <3>4. t[i].primary /\ i \in DOMAIN t
      BY <3>2, <3>3
    <3> QED BY <3>4 DEF HasPrimary
  <2> QED BY <2>1, <2>2
<1> QED BY <1>0, <1>1, <1>2, <1>5, <1>6 DEF StoredImages

\* An image that is uploaded comes to those that are there.
LEMMA UploadedKeeps ==
    ASSUME NEW s \in StoredImages, NEW id \in ImageIds, NEW primary \in BOOLEAN
    PROVE  LET t == Uploaded(s, id, primary)
           IN  /\ t \in StoredImages /\ DOMAIN t = DOMAIN s \cup {Len(s) + 1} /\ Len(t) = Len(s) + 1
               /\ t[Len(s) + 1].id = id
               /\ \A i \in DOMAIN s : t[i].id = s[i].id
<1> DEFINE first == primary \/ s = <<>>
           others == IF first THEN [i \in DOMAIN s |-> [s[i] EXCEPT !.primary = FALSE]] ELSE s
           new == [id |-> id, stored |-> TRUE, primary |-> first]
           t == Uploaded(s, id, primary)
<1>1. t = Append(others, new)
  BY DEF Uploaded
<1>2. s \in Seq(StoredImage) /\ HasPrimary(s) /\ Len(s) \in Nat /\ DOMAIN s = 1 .. Len(s)
  BY DEF StoredImages
<1>3. others \in Seq(StoredImage) /\ DOMAIN others = DOMAIN s /\ \A i \in DOMAIN s : others[i].id = s[i].id
  <2>1. CASE first
    <3>1. others = [i \in DOMAIN s |-> [s[i] EXCEPT !.primary = FALSE]]
      BY <2>1
    <3>2. ASSUME NEW i \in DOMAIN s
          PROVE  [s[i] EXCEPT !.primary = FALSE] \in StoredImage /\ [s[i] EXCEPT !.primary = FALSE].id = s[i].id
      <4>1. s[i] \in StoredImage
        BY <1>2
      <4> QED BY <4>1 DEF StoredImage
    <3> HIDE DEF others
    <3>3. DOMAIN others = 1 .. Len(s) /\ \A i \in DOMAIN s : others[i] \in StoredImage /\ others[i].id = s[i].id
      BY <1>2, <3>1, <3>2
    <3>4. others = [i \in 1 .. Len(s) |-> others[i]]
      BY <1>2, <3>1
    <3> QED BY <1>2, <3>3, <3>4
  <2>2. CASE ~first
    BY <1>2, <2>2
  <2> QED BY <2>1, <2>2
<1>4. Len(others) = Len(s)
  BY <1>2, <1>3
<1>5. new \in StoredImage /\ new.id = id /\ (first => new.primary)
  BY DEF StoredImage
<1>6. ~first => \E i \in DOMAIN s : others[i].primary
  BY <1>2 DEF HasPrimary
<1> HIDE DEF others, new, first
<1>7. /\ t \in Seq(StoredImage) /\ Len(t) = Len(s) + 1 /\ DOMAIN t = DOMAIN s \cup {Len(s) + 1}
      /\ t[Len(s) + 1] = new /\ \A i \in DOMAIN s : t[i] = others[i]
  BY <1>1, <1>2, <1>3, <1>4, <1>5
<1> HIDE DEF t
<1>8. HasPrimary(t)
  BY <1>5, <1>6, <1>7 DEF HasPrimary
<1> QED BY <1>3, <1>5, <1>7, <1>8 DEF StoredImages, t

----------------------------------------------------------------------------
(* Types of the dialog.                                                    *)

Vehicle == [text : Texts, details : BOOLEAN, flag : BOOLEAN, parts : SUBSET Parts, images : StoredImages]
SentForm == [text : Texts, details : BOOLEAN, flag : BOOLEAN]
Modes == {"create", "edit", "view"}
Fleet(t, n) == DOMAIN t \subseteq 1 .. n /\ \A v \in DOMAIN t : t[v] \in Vehicle

Dialogs(n) ==
    [open : BOOLEAN, mode : Modes, id : 0 .. n, form : [text : Texts \cup {Empty}, details : BOOLEAN, flag : BOOLEAN],
     pending : ShownImages, parts : SUBSET Parts]

Todos ==
    [do : {"put", "drop"}, key : Parts] \cup [do : {"dropImage"}, key : ImageIds]
        \cup [do : {"upload"}, key : {NoId}]
Jobs(n) ==
    {NotSaving}
        \cup [at : {"loop"}, id : 1 .. n, todo : Seq(Todos), primary : BOOLEAN]
        \cup [at : {"submit"}, mode : Modes, form : SentForm, images : ShownImages, id : 0 .. n]
        \cup [at : {"answer"}, id : 1 .. n, mode : Modes, vehicle : Vehicle]

OpeningKinds == {"view", "edit", "qr"}
DetailKinds == OpeningKinds \cup {"refresh"}
AnswerOK(x, n) ==
    /\ x \in [ask : DetailKinds \cup {"mark", "delete", "list"}, id : 0 .. n, read : BOOLEAN,
               vehicle : {x.vehicle}, shown : BOOLEAN]
    /\ x.ask # "list" => x.id \in 1 .. n
    /\ x.ask \in DetailKinds \cup {"mark"} => x.vehicle \in Vehicle
    /\ x.ask = "list" /\ x.read => Fleet(x.vehicle, n)

IsSeq(s) == s \in Seq({s[i] : i \in DOMAIN s})
AnswersOK(s, n) == IsSeq(s) /\ \A i \in DOMAIN s : AnswerOK(s[i], n)

DialogTypes ==
    /\ drawn \in 1 .. MaxVehicles /\ edits \in Nat
    /\ Fleet(fleet, drawn) /\ Fleet(list, drawn)
    /\ modal \in Dialogs(drawn)
    /\ job \in Jobs(drawn)
    /\ AnswersOK(answers, drawn)

----------------------------------------------------------------------------
(* The requests nothing waits for.                                         *)

LEMMA Appended ==
    ASSUME NEW s, IsSeq(s), NEW x
    PROVE  LET t == Append(s, x)
           IN  /\ IsSeq(t) /\ Len(s) \in Nat /\ DOMAIN s = 1 .. Len(s) /\ DOMAIN t = 1 .. Len(s) + 1
               /\ t[Len(s) + 1] = x /\ \A i \in DOMAIN s : t[i] = s[i]
<1> DEFINE S == {s[i] : i \in DOMAIN s} \cup {x}
           t == Append(s, x)
<1>1. s \in Seq(S) /\ x \in S
  <2>1. s \in Seq({s[i] : i \in DOMAIN s})
    BY DEF IsSeq
  <2>2. Len(s) \in Nat /\ DOMAIN s = 1 .. Len(s) /\ s = [i \in 1 .. Len(s) |-> s[i]]
    BY <2>1
  <2> QED BY <2>2
<1> HIDE DEF S
<1>2. /\ t \in Seq(S) /\ Len(s) \in Nat /\ DOMAIN s = 1 .. Len(s) /\ DOMAIN t = 1 .. Len(s) + 1
      /\ Len(t) = Len(s) + 1 /\ t[Len(s) + 1] = x /\ \A i \in DOMAIN s : t[i] = s[i]
  BY <1>1
<1> HIDE DEF t
<1>3. t = [i \in 1 .. Len(t) |-> t[i]]
  BY <1>2
<1>4. IsSeq(t)
  BY <1>2, <1>3 DEF IsSeq
<1> QED BY <1>2, <1>4 DEF t

LEMMA Removed ==
    ASSUME NEW s, IsSeq(s), NEW i \in DOMAIN s
    PROVE  LET t == RemoveAt(s, i)
           IN  /\ IsSeq(t) /\ Len(s) \in Nat /\ DOMAIN s = 1 .. Len(s) /\ DOMAIN t = 1 .. Len(s) - 1
               /\ \A j \in DOMAIN t : t[j] = IF j < i THEN s[j] ELSE s[j + 1]
<1> DEFINE S == {s[k] : k \in DOMAIN s}
           t == RemoveAt(s, i)
<1>1. s \in Seq(S) /\ Len(s) \in Nat /\ DOMAIN s = 1 .. Len(s)
  BY DEF IsSeq
<1> HIDE DEF S
<1>2. /\ SubSeq(s, 1, i - 1) \in Seq(S) /\ Len(SubSeq(s, 1, i - 1)) = i - 1
      /\ \A j \in 1 .. i - 1 : SubSeq(s, 1, i - 1)[j] = s[j]
  BY <1>1
<1>3. /\ SubSeq(s, i + 1, Len(s)) \in Seq(S) /\ Len(SubSeq(s, i + 1, Len(s))) = Len(s) - i
      /\ \A j \in 1 .. Len(s) - i : SubSeq(s, i + 1, Len(s))[j] = s[i + j]
  BY <1>1
<1>4. t = SubSeq(s, 1, i - 1) \o SubSeq(s, i + 1, Len(s))
  BY DEF RemoveAt
<1> HIDE DEF t
<1>5. t \in Seq(S) /\ Len(t) = Len(s) - 1
  <2>1. t \in Seq(S) /\ Len(t) = Len(SubSeq(s, 1, i - 1)) + Len(SubSeq(s, i + 1, Len(s)))
    BY <1>2, <1>3, <1>4
  <2> QED BY <1>1, <1>2, <1>3, <2>1
<1>6. DOMAIN t = 1 .. Len(s) - 1
  BY <1>5
<1>7. ASSUME NEW j \in DOMAIN t
      PROVE  t[j] = IF j < i THEN s[j] ELSE s[j + 1]
  <2>1. CASE j < i
    <3>1. t[j] = SubSeq(s, 1, i - 1)[j]
      BY <1>1, <1>2, <1>3, <1>4, <1>6, <2>1
    <3> QED BY <1>1, <1>2, <1>6, <2>1, <3>1
  <2>2. CASE ~(j < i)
    <3>1. t[j] = SubSeq(s, i + 1, Len(s))[j - (i - 1)]
      BY <1>1, <1>2, <1>3, <1>4, <1>6, <2>2
    <3>2. j - (i - 1) \in 1 .. Len(s) - i /\ i + (j - (i - 1)) = j + 1
      BY <1>1, <1>6, <2>2
    <3> QED BY <1>3, <2>2, <3>1, <3>2
  <2> QED BY <2>1, <2>2
<1>8. IsSeq(t)
  <2>1. t = [j \in 1 .. Len(t) |-> t[j]]
    BY <1>5
  <2> QED BY <1>5, <1>6, <2>1 DEF IsSeq
<1> QED BY <1>1, <1>6, <1>7, <1>8 DEF t

\* The answer x when the server has handled it
AnsweredBy(x, y, v) ==
    y.ask = x.ask /\ y.id = x.id /\ y.read = TRUE /\ y.vehicle = v /\ y.shown = x.shown

LEMMA ToldIs ==
    ASSUME NEW s, IsSeq(s), NEW n, NEW i \in DOMAIN s, AnswerOK(s[i], n), NEW v
    PROVE  LET t == [s EXCEPT ![i].read = TRUE, ![i].vehicle = v]
           IN  /\ IsSeq(t) /\ Len(s) \in Nat /\ DOMAIN s = 1 .. Len(s) /\ DOMAIN t = DOMAIN s
               /\ AnsweredBy(s[i], t[i], v) /\ DOMAIN t[i] = DOMAIN s[i]
               /\ t[i] \in [ask : {s[i].ask}, id : {s[i].id}, read : BOOLEAN, vehicle : {v}, shown : {s[i].shown}]
               /\ \A j \in DOMAIN s \ {i} : t[j] = s[j]
<1> DEFINE t == [s EXCEPT ![i].read = TRUE, ![i].vehicle = v]
<1>1. Len(s) \in Nat /\ DOMAIN s = 1 .. Len(s)
  BY DEF IsSeq
<1>2. t = [j \in DOMAIN s |-> IF j = i THEN [s[i] EXCEPT !.read = TRUE, !.vehicle = v] ELSE s[j]]
  OBVIOUS
<1>3. PICK x : x = s[i]
  OBVIOUS
<1>4. x \in [ask : {x.ask}, id : {x.id}, read : BOOLEAN, vehicle : {x.vehicle, v}, shown : {x.shown}]
  BY <1>3 DEF AnswerOK
<1>5. [x EXCEPT !.read = TRUE, !.vehicle = v]
        \in [ask : {x.ask}, id : {x.id}, read : {TRUE}, vehicle : {v}, shown : {x.shown}]
  BY <1>4
<1> HIDE DEF t
<1>6. DOMAIN t = 1 .. Len(s) /\ t = [j \in 1 .. Len(s) |-> t[j]]
  BY <1>1, <1>2
<1>7. IsSeq(t)
  BY <1>1, <1>6 DEF IsSeq
<1>8. t[i] \in [ask : {x.ask}, id : {x.id}, read : {TRUE}, vehicle : {v}, shown : {x.shown}]
  BY <1>2, <1>3, <1>5
<1>9. AnsweredBy(s[i], t[i], v) /\ DOMAIN t[i] = DOMAIN s[i]
  BY <1>3, <1>4, <1>8 DEF AnsweredBy
<1>10. \A j \in DOMAIN s \ {i} : t[j] = s[j]
  BY <1>2
<1>11. t[i] \in [ask : {s[i].ask}, id : {s[i].id}, read : BOOLEAN, vehicle : {v}, shown : {s[i].shown}]
  BY <1>3, <1>8
<1> QED BY <1>1, <1>6, <1>7, <1>9, <1>10, <1>11 DEF t

LEMMA AppendOK ==
    ASSUME NEW n, NEW s, AnswersOK(s, n), NEW x, AnswerOK(x, n)
    PROVE  AnswersOK(Append(s, x), n)
<1> DEFINE t == Append(s, x)
<1>1. IsSeq(t) /\ Len(s) \in Nat /\ DOMAIN s = 1 .. Len(s) /\ DOMAIN t = 1 .. Len(s) + 1
      /\ t[Len(s) + 1] = x /\ \A i \in DOMAIN s : t[i] = s[i]
  BY Appended DEF AnswersOK
<1> HIDE DEF t
<1>2. \A i \in DOMAIN t : t[i] = x \/ \E j \in DOMAIN s : t[i] = s[j]
  BY <1>1
<1> QED BY <1>1, <1>2 DEF AnswersOK, t

LEMMA RemoveOK ==
    ASSUME NEW n, NEW s, AnswersOK(s, n), NEW i \in DOMAIN s
    PROVE  AnswersOK(RemoveAt(s, i), n)
<1> DEFINE t == RemoveAt(s, i)
<1>1. /\ IsSeq(t) /\ Len(s) \in Nat /\ DOMAIN s = 1 .. Len(s) /\ DOMAIN t = 1 .. Len(s) - 1
      /\ \A j \in DOMAIN t : t[j] = IF j < i THEN s[j] ELSE s[j + 1]
  BY Removed DEF AnswersOK
<1> HIDE DEF t
<1>2. \A j \in DOMAIN t : \E k \in DOMAIN s : t[j] = s[k]
  BY <1>1
<1> QED BY <1>1, <1>2 DEF AnswersOK, t

LEMMA ToldOK ==
    ASSUME NEW n, NEW s, AnswersOK(s, n), NEW i \in DOMAIN s, NEW v,
           s[i].ask \in DetailKinds \cup {"mark"} => v \in Vehicle,
           s[i].ask = "list" => Fleet(v, n)
    PROVE  AnswersOK([s EXCEPT ![i].read = TRUE, ![i].vehicle = v], n)
<1> DEFINE t == [s EXCEPT ![i].read = TRUE, ![i].vehicle = v]
<1>0. AnswerOK(s[i], n) /\ IsSeq(s)
  BY DEF AnswersOK
<1>1. /\ IsSeq(t) /\ DOMAIN t = DOMAIN s
      /\ AnsweredBy(s[i], t[i], v)
      /\ t[i] \in [ask : {s[i].ask}, id : {s[i].id}, read : BOOLEAN, vehicle : {v}, shown : {s[i].shown}]
      /\ \A j \in DOMAIN s \ {i} : t[j] = s[j]
  BY <1>0, ToldIs
<1> HIDE DEF t
<1>2. AnswerOK(t[i], n)
  <2>1. t[i] \in [ask : DetailKinds \cup {"mark", "delete", "list"}, id : 0 .. n, read : BOOLEAN,
                  vehicle : {t[i].vehicle}, shown : BOOLEAN]
    BY <1>0, <1>1 DEF AnswerOK
  <2> QED BY <1>0, <1>1, <2>1 DEF AnswerOK, AnsweredBy
<1>3. \A j \in DOMAIN s \ {i} : AnswerOK(t[j], n)
  BY <1>1 DEF AnswersOK
<1> QED BY <1>1, <1>2, <1>3 DEF AnswersOK, t

\* What is known of fewer vehicles is known of more.
LEMMA MoreVehicles ==
    ASSUME NEW n \in Nat
    PROVE  /\ \A t : Fleet(t, n) => Fleet(t, n + 1)
           /\ Dialogs(n) \subseteq Dialogs(n + 1)
           /\ \A s : AnswersOK(s, n) => AnswersOK(s, n + 1)
<1>1. 0 .. n \subseteq 0 .. n + 1 /\ 1 .. n \subseteq 1 .. n + 1
  OBVIOUS
<1>2. ASSUME NEW t, Fleet(t, n) PROVE Fleet(t, n + 1)
  BY <1>1, <1>2 DEF Fleet
<1>3. Dialogs(n) \subseteq Dialogs(n + 1)
  BY <1>1 DEF Dialogs
<1>4. ASSUME NEW x, AnswerOK(x, n) PROVE AnswerOK(x, n + 1)
  <2>1. x.ask # "list" => x.id \in 1 .. n + 1
    BY <1>1, <1>4 DEF AnswerOK
  <2>2. x.ask = "list" /\ x.read => Fleet(x.vehicle, n + 1)
    BY <1>2, <1>4 DEF AnswerOK
  <2>3. x.id \in 0 .. n + 1
    BY <1>1, <1>4 DEF AnswerOK
  <2> QED BY <1>4, <2>1, <2>2, <2>3 DEF AnswerOK
<1> QED BY <1>2, <1>3, <1>4 DEF AnswersOK

----------------------------------------------------------------------------
(* The types are kept.                                                     *)

LEMMA FirstIsVehicle == FirstVehicle \in Vehicle
<1>1. FirstVehicle.images \in StoredImages
  BY FirstAssumption DEF StoredImages, StoredImage, HasPrimary
<1> QED BY <1>1, FirstAssumption DEF Vehicle

LEMMA ClosedFits == ASSUME NEW n \in Nat PROVE Closed \in Dialogs(n)
<1>1. <<>> \in ShownImages
  BY DEF ShownImages, HasPrimary
<1> QED BY <1>1 DEF Closed, Dialogs, NoForm, Modes, NoId

\* The rows of the list are vehicles.
LEMMA ListRowsFit == ASSUME NEW t, NEW n, Fleet(t, n) PROVE Fleet(ListRows(t), n)
<1>1. ASSUME NEW v \in Vehicle PROVE ListRow(v) \in Vehicle
  BY <1>1 DEF ListRow, Vehicle
<1> QED BY <1>1 DEF ListRows, Fleet

LEMMA StartTypes ==
    ASSUME EditorInit
    PROVE  DialogTypes
<1>1. Fleet(fleet, 1) /\ Fleet(list, 1)
  <2>1. Fleet(fleet, 1) /\ list = ListRows(fleet)
    BY FirstIsVehicle DEF EditorInit, Fleet
  <2> QED BY <2>1, ListRowsFit
<1>2. AnswersOK(answers, 1)
  BY DEF EditorInit, AnswersOK, IsSeq
<1>3. modal \in Dialogs(1) /\ job \in Jobs(1)
  BY ClosedFits DEF EditorInit, Jobs
<1> QED BY <1>1, <1>2, <1>3, BoundsAssumption DEF EditorInit, DialogTypes

LEMMA VehicleNumbers ==
    ASSUME DialogTypes
    PROVE  /\ drawn \in Nat /\ drawn >= 1 /\ modal.id \in 0 .. drawn
           /\ \A v \in DOMAIN fleet : v \in 1 .. drawn /\ fleet[v] \in Vehicle
           /\ \A v \in DOMAIN list : v \in 1 .. drawn /\ list[v] \in Vehicle
           /\ \A i \in DOMAIN answers : AnswerOK(answers[i], drawn)
           /\ modal \in Dialogs(drawn) /\ IsSeq(answers)
BY BoundsAssumption DEF DialogTypes, Fleet, Dialogs, AnswersOK

\* What is asked for
LEMMA AskFits ==
    ASSUME NEW n \in Nat, NEW v \in 1 .. n, NEW kind \in DetailKinds \cup {"delete"}
    PROVE  AnswerOK(Ask(kind, v), n)
<1>1. v \in 0 .. n /\ kind \in DetailKinds \cup {"mark", "delete", "list"} /\ (modal.id = v) \in BOOLEAN
  OBVIOUS
<1>2. kind # "list"
  BY DEF DetailKinds, OpeningKinds
<1> QED BY <1>1, <1>2, FirstIsVehicle DEF AnswerOK, Ask

LEMMA LoadFits == ASSUME NEW n \in Nat PROVE AnswerOK(Load, n)
BY DEF AnswerOK, Load, NoId, DetailKinds, OpeningKinds

MarkOf(v) == [Ask("mark", v) EXCEPT !.vehicle = [list[v] EXCEPT !.flag = ~list[v].flag]]

LEMMA MarkFits ==
    ASSUME NEW n \in Nat, NEW v \in 1 .. n, list[v] \in Vehicle
    PROVE  /\ AnswerOK(MarkOf(v), n)
           /\ MarkOf(v).ask = "mark" /\ MarkOf(v).id = v /\ MarkOf(v).shown = (modal.id = v)
<1> DEFINE w == [list[v] EXCEPT !.flag = ~list[v].flag]
           x == MarkOf(v)
<1>1. w \in Vehicle
  BY DEF Vehicle
<1>2. x = [Ask("mark", v) EXCEPT !.vehicle = w]
  BY DEF MarkOf
<1> HIDE DEF w
<1>3. (modal.id = v) \in BOOLEAN
  OBVIOUS
<1>4. Ask("mark", v) \in [ask : {"mark"}, id : {v}, read : BOOLEAN, vehicle : {FirstVehicle}, shown : {modal.id = v}]
  BY <1>3 DEF Ask
<1>5. x \in [ask : {"mark"}, id : {v}, read : BOOLEAN, vehicle : {w}, shown : {modal.id = v}]
  BY <1>2, <1>4
<1> HIDE DEF x
<1>6. AnswerOK(x, n)
  <2>1. x.ask = "mark" /\ x.id = v /\ x.vehicle = w /\ v \in 0 .. n
    BY <1>5
  <2>2. x \in [ask : DetailKinds \cup {"mark", "delete", "list"}, id : 0 .. n, read : BOOLEAN,
               vehicle : {x.vehicle}, shown : BOOLEAN]
    BY <1>3, <1>5, <2>1
  <2> QED BY <1>1, <2>1, <2>2 DEF AnswerOK
<1> QED BY <1>5, <1>6 DEF x

LEMMA AsksTypes ==
    ASSUME DialogTypes, NEW x, AnswerOK(x, drawn), answers' = Append(answers, x), edits' \in Nat,
           UNCHANGED <<fleet, drawn, list, modal, job>>
    PROVE  DialogTypes'
BY AppendOK DEF DialogTypes

LEMMA ModalTypes ==
    ASSUME DialogTypes, modal' \in Dialogs(drawn), edits' \in Nat,
           UNCHANGED <<fleet, drawn, list, job, answers>>
    PROVE  DialogTypes'
BY DEF DialogTypes

LEMMA JobTypes ==
    ASSUME DialogTypes, job' \in Jobs(drawn), edits' \in Nat,
           UNCHANGED <<fleet, drawn, list, modal, answers>>
    PROVE  DialogTypes'
BY DEF DialogTypes

LEMMA EditCounts == ASSUME DialogTypes, Edit PROVE edits' \in Nat /\ edits' # edits
BY DEF DialogTypes, Edit

LEMMA PanelTypes ==
    ASSUME DialogTypes, InventoryPanel \/ ReadOnlyView \/ CloseModal
    PROVE  DialogTypes'
<1>0. edits \in Nat /\ drawn \in Nat
  BY VehicleNumbers DEF DialogTypes
<1>1. CASE Reload
  BY <1>0, <1>1, EditCounts, LoadFits, AsksTypes DEF Reload
<1>2. CASE OpenCreate
  <2>1. [Closed EXCEPT !.open = TRUE] \in Dialogs(drawn)
    BY <1>0, ClosedFits DEF Dialogs
  <2> QED BY <1>0, <1>2, <2>1, ModalTypes DEF OpenCreate
<1>3. ASSUME NEW v \in DOMAIN list, NEW kind \in {"view", "edit", "qr"}, OpenVehicle(v, kind)
      PROVE  DialogTypes'
  <2>1. AnswerOK(Ask(kind, v), drawn)
    BY <1>0, VehicleNumbers, AskFits DEF DetailKinds, OpeningKinds
  <2> QED BY <1>3, <2>1, EditCounts, AsksTypes DEF OpenVehicle
<1>4. ASSUME NEW v \in DOMAIN list, UpdateVehicleExhibitionFlag(v)
      PROVE  DialogTypes'
  <2>1. AnswerOK(MarkOf(v), drawn)
    BY <1>0, VehicleNumbers, MarkFits
  <2>2. answers' = Append(answers, MarkOf(v)) /\ Edit /\ UNCHANGED <<fleet, drawn, list, modal, job>>
    BY <1>4 DEF UpdateVehicleExhibitionFlag, MarkOf
  <2> QED BY <2>1, <2>2, EditCounts, AsksTypes
<1>5. ASSUME NEW v \in DOMAIN list, ConfirmDelete(v)
      PROVE  DialogTypes'
  <2>1. AnswerOK(Ask("delete", v), drawn)
    BY <1>0, VehicleNumbers, AskFits
  <2> QED BY <1>5, <2>1, EditCounts, AsksTypes DEF ConfirmDelete
<1>6. CASE ReadOnlyView
  <2>1. modal.id \in 1 .. drawn
    BY <1>6, VehicleNumbers DEF ReadOnlyView, NoId
  <2>2. AnswerOK(Ask("edit", modal.id), drawn)
    BY <1>0, <2>1, AskFits DEF DetailKinds, OpeningKinds
  <2> QED BY <1>6, <2>2, EditCounts, AsksTypes DEF ReadOnlyView
<1>7. CASE CloseModal
  BY <1>0, <1>7, ClosedFits, ModalTypes DEF CloseModal
<1> QED BY <1>1, <1>2, <1>3, <1>4, <1>5, <1>6, <1>7 DEF InventoryPanel

----------------------------------------------------------------------------
(* The form and its images.                                                *)

\* The images of s are among those of t.
Among(s, t) ==
    \A i \in DOMAIN s : \E j \in DOMAIN t : s[i].id = t[j].id /\ s[i].stored = t[j].stored

\* The user has changed what the dialog shows of its vehicle.
Reworked ==
    /\ UNCHANGED <<fleet, drawn, list, job, answers>>
    /\ modal.open /\ edits' # edits /\ edits' \in Nat
    /\ modal' \in Dialogs(drawn)
    /\ modal'.open = modal.open /\ modal'.mode = modal.mode /\ modal'.id = modal.id
    /\ modal'.parts = modal.parts

LEMMA PendingChanges ==
    ASSUME DialogTypes, Typing, NEW s \in ShownImages, modal' = [modal EXCEPT !.pending = s]
    PROVE  Reworked /\ modal'.pending = s
<1>1. modal \in Dialogs(drawn)
  BY VehicleNumbers
<1>2. modal' \in Dialogs(drawn) /\ modal'.pending = s
      /\ modal'.open = modal.open /\ modal'.mode = modal.mode /\ modal'.id = modal.id
      /\ modal'.parts = modal.parts
  BY <1>1 DEF Dialogs
<1> QED BY <1>2, EditCounts DEF Reworked, Typing

LEMMA PendingImages ==
    ASSUME DialogTypes
    PROVE  LET s == modal.pending
           IN  /\ s \in ShownImages /\ s \in Seq(ShownImage) /\ HasPrimary(s)
               /\ Len(s) \in Nat /\ DOMAIN s = 1 .. Len(s)
               /\ \A i \in DOMAIN s : s[i] \in ShownImage
<1>1. modal.pending \in ShownImages
  BY VehicleNumbers DEF Dialogs
<1> QED BY <1>1 DEF ShownImages

LEMMA TextIsTyped ==
    ASSUME DialogTypes, NEW t \in Texts, NEW d \in BOOLEAN, Update(t, d)
    PROVE  Reworked /\ modal'.pending = modal.pending
<1>1. modal \in Dialogs(drawn)
  BY VehicleNumbers
<1>2. modal' = [modal EXCEPT !.form = [modal.form EXCEPT !.text = t, !.details = d]]
  BY DEF Update
<1>3. [modal.form EXCEPT !.text = t, !.details = d]
        \in [text : Texts \cup {Empty}, details : BOOLEAN, flag : BOOLEAN]
  BY <1>1 DEF Dialogs
<1>4. modal' \in Dialogs(drawn) /\ modal'.pending = modal.pending
      /\ modal'.open = modal.open /\ modal'.mode = modal.mode /\ modal'.id = modal.id
      /\ modal'.parts = modal.parts
  BY <1>1, <1>2, <1>3 DEF Dialogs
<1> QED BY <1>4, EditCounts DEF Reworked, Typing, Update

LEMMA PrimaryIsSet ==
    ASSUME DialogTypes, NEW i \in DOMAIN modal.pending, SetPrimaryPendingImage(i)
    PROVE  Reworked /\ Among(modal'.pending, modal.pending) /\ Among(modal.pending, modal'.pending)
<1> DEFINE s == modal.pending
           t == [j \in DOMAIN s |-> [s[j] EXCEPT !.primary = (i = j)]]
<1>1. Len(s) \in Nat /\ DOMAIN s = 1 .. Len(s) /\ \A j \in DOMAIN s : s[j] \in ShownImage
  BY PendingImages
<1>2. Typing /\ modal' = [modal EXCEPT !.pending = t]
  BY DEF SetPrimaryPendingImage
<1>3. ASSUME NEW j \in DOMAIN s
      PROVE  /\ t[j] \in ShownImage /\ t[j].id = s[j].id /\ t[j].stored = s[j].stored
             /\ t[j].primary = (i = j)
  <2>1. s[j] \in Image /\ (s[j].stored \/ s[j].id \in Suggested) /\ (i = j) \in BOOLEAN
    BY <1>1 DEF ShownImage
  <2>2. t[j] = [s[j] EXCEPT !.primary = (i = j)]
    OBVIOUS
  <2> HIDE DEF t
  <2>3. t[j] \in Image /\ t[j].id = s[j].id /\ t[j].stored = s[j].stored /\ t[j].primary = (i = j)
    BY <2>1, <2>2 DEF Image
  <2> QED BY <2>1, <2>3 DEF ShownImage
<1>4. DOMAIN t = 1 .. Len(s)
  BY <1>1
<1> HIDE DEF t
<1>5. t \in Seq(ShownImage) /\ HasPrimary(t)
  <2>1. t = [j \in 1 .. Len(s) |-> t[j]]
    BY <1>1 DEF t
  <2>2. t \in Seq(ShownImage)
    <3>1. \A j \in 1 .. Len(s) : t[j] \in ShownImage
      BY <1>1, <1>3
    <3> QED BY <1>1, <2>1, <3>1
  <2>3. t[i].primary
    BY <1>3
  <2> QED BY <1>1, <1>4, <2>2, <2>3 DEF HasPrimary
<1>6. t \in ShownImages
  BY <1>5 DEF ShownImages
<1>7. Reworked /\ modal'.pending = t
  BY <1>2, <1>6, PendingChanges
<1> QED BY <1>1, <1>3, <1>4, <1>7 DEF Among

LEMMA ImagesMove ==
    ASSUME DialogTypes, NEW i \in DOMAIN modal.pending, MovePendingImage(i)
    PROVE  Reworked /\ Among(modal'.pending, modal.pending) /\ Among(modal.pending, modal'.pending)
<1> DEFINE s == modal.pending
           t == [s EXCEPT ![i] = s[i + 1], ![i + 1] = s[i]]
<1>1. Len(s) \in Nat /\ DOMAIN s = 1 .. Len(s) /\ \A j \in DOMAIN s : s[j] \in ShownImage
  BY PendingImages
<1>2. Typing /\ i + 1 \in DOMAIN s
  BY DEF MovePendingImage
<1>3. modal' = [modal EXCEPT !.pending = t]
  BY DEF MovePendingImage
<1>4. DOMAIN t = 1 .. Len(s) /\ t = [j \in 1 .. Len(s) |-> t[j]]
  BY <1>1
<1>5. \A j \in DOMAIN s : t[j] = IF j = i THEN s[i + 1] ELSE IF j = i + 1 THEN s[i] ELSE s[j]
  BY <1>1, <1>2
<1> HIDE DEF t
<1>6. \A j \in DOMAIN t : \E k \in DOMAIN s : t[j] = s[k]
  BY <1>1, <1>2, <1>4, <1>5
<1>7. \A k \in DOMAIN s : \E j \in DOMAIN t : t[j] = s[k]
  <2> SUFFICES ASSUME NEW k \in DOMAIN s PROVE \E j \in DOMAIN t : t[j] = s[k]
    OBVIOUS
  <2>1. t[i] = s[i + 1] /\ t[i + 1] = s[i] /\ i \in DOMAIN t /\ i + 1 \in DOMAIN t
    BY <1>1, <1>2, <1>4, <1>5
  <2>2. k # i /\ k # i + 1 => t[k] = s[k] /\ k \in DOMAIN t
    BY <1>1, <1>4, <1>5
  <2> QED BY <2>1, <2>2
<1>8. t \in Seq(ShownImage)
  <2>1. \A j \in 1 .. Len(s) : t[j] \in ShownImage
    BY <1>1, <1>4, <1>6
  <2> QED BY <1>1, <1>4, <2>1
<1>9. HasPrimary(t)
  BY <1>1, <1>4, <1>7, <1>2, PendingImages DEF HasPrimary
<1>10. t \in ShownImages
  BY <1>8, <1>9 DEF ShownImages
<1>11. Reworked /\ modal'.pending = t
  BY <1>2, <1>3, <1>10, PendingChanges
<1> QED BY <1>6, <1>7, <1>11 DEF Among

\* Images s get another one, or lose one, and keep a primary one.
LEMMA OneMoreFits ==
    ASSUME NEW s \in Seq(ShownImage), NEW x \in ShownImage
    PROVE  LET t == WithPrimary(Append(s, x))
           IN  /\ t \in ShownImages /\ Among(s, t)
               /\ \A i \in DOMAIN t : \/ t[i].id = x.id /\ t[i].stored = x.stored
                                      \/ \E j \in DOMAIN s : t[i].id = s[j].id /\ t[i].stored = s[j].stored
<1> DEFINE u == Append(s, x)
           t == WithPrimary(u)
<1>1. /\ u \in Seq(ShownImage) /\ Len(s) + 1 \in DOMAIN u /\ u[Len(s) + 1] = x
      /\ \A i \in DOMAIN s : i \in DOMAIN u /\ u[i] = s[i]
      /\ \A i \in DOMAIN u : i \in DOMAIN s \/ i = Len(s) + 1
  OBVIOUS
<1> HIDE DEF u
<1>2. /\ t \in ShownImages /\ DOMAIN t = DOMAIN u
      /\ \A i \in DOMAIN u : t[i].id = u[i].id /\ t[i].stored = u[i].stored
  BY <1>1, WithPrimaryKeeps
<1> HIDE DEF t
<1>3. Among(s, t)
  BY <1>1, <1>2 DEF Among
<1>4. ASSUME NEW i \in DOMAIN t
      PROVE  \/ t[i].id = x.id /\ t[i].stored = x.stored
             \/ \E j \in DOMAIN s : t[i].id = s[j].id /\ t[i].stored = s[j].stored
  BY <1>1, <1>2
<1> QED BY <1>2, <1>3, <1>4 DEF t, u

LEMMA OneLessFits ==
    ASSUME NEW s \in Seq(ShownImage), NEW id
    PROVE  LET t == WithPrimary(Without(s, id))
           IN  /\ t \in ShownImages /\ Among(t, s) /\ ~Has(t, id)
               /\ \A j \in DOMAIN s : s[j].id # id => Has(t, s[j].id)
<1> DEFINE u == Without(s, id)
           t == WithPrimary(u)
<1>1. /\ u \in Seq(ShownImage) /\ ~Has(u, id)
      /\ \A i \in DOMAIN u : \E j \in DOMAIN s : u[i] = s[j]
      /\ \A j \in DOMAIN s : s[j].id # id => \E i \in DOMAIN u : u[i] = s[j]
  BY WithoutKeeps
<1> HIDE DEF u
<1>2. /\ t \in ShownImages /\ DOMAIN t = DOMAIN u
      /\ \A i \in DOMAIN u : t[i].id = u[i].id /\ t[i].stored = u[i].stored
  BY <1>1, WithPrimaryKeeps
<1> HIDE DEF t
<1>3. Among(t, s)
  BY <1>1, <1>2 DEF Among
<1>4. ~Has(t, id)
  BY <1>1, <1>2 DEF Has
<1>5. \A j \in DOMAIN s : s[j].id # id => Has(t, s[j].id)
  BY <1>1, <1>2 DEF Has
<1> QED BY <1>2, <1>3, <1>4, <1>5 DEF t, u

LEMMA ImageIsAdded ==
    ASSUME DialogTypes, NEW id \in Suggested, AddPendingImage(id)
    PROVE  /\ Reworked /\ Among(modal.pending, modal'.pending) /\ ~Has(modal.pending, id)
           /\ \A i \in DOMAIN modal'.pending :
                \/ modal'.pending[i].id = id /\ ~modal'.pending[i].stored
                \/ \E j \in DOMAIN modal.pending : /\ modal'.pending[i].id = modal.pending[j].id
                                                   /\ modal'.pending[i].stored = modal.pending[j].stored
<1> DEFINE x == [id |-> id, stored |-> FALSE, primary |-> FALSE]
           t == WithPrimary(Append(modal.pending, x))
<1>1. x \in ShownImage /\ x.id = id /\ ~x.stored
  BY ImagesAssumption DEF ShownImage, Image
<1>2. Typing /\ modal' = [modal EXCEPT !.pending = t]
  BY DEF AddPendingImage
<1> HIDE DEF x
<1>3. /\ t \in ShownImages /\ Among(modal.pending, t)
      /\ \A i \in DOMAIN t : \/ t[i].id = x.id /\ t[i].stored = x.stored
                             \/ \E j \in DOMAIN modal.pending :
                                  t[i].id = modal.pending[j].id /\ t[i].stored = modal.pending[j].stored
  BY <1>1, PendingImages, OneMoreFits
<1> HIDE DEF t
<1>4. Reworked /\ modal'.pending = t
  BY <1>2, <1>3, PendingChanges
<1>5. ~Has(modal.pending, id)
  BY DEF AddPendingImage, Has
<1> QED BY <1>1, <1>3, <1>4, <1>5

Forgets(id) == Typing /\ modal' = [modal EXCEPT !.pending = WithPrimary(Without(modal.pending, id))]

LEMMA ImageIsForgotten ==
    ASSUME DialogTypes, NEW id, Forgets(id)
    PROVE  /\ Reworked /\ Among(modal'.pending, modal.pending)
           /\ \A j \in DOMAIN modal.pending :
                modal.pending[j].id # id => Has(modal'.pending, modal.pending[j].id)
<1> DEFINE t == WithPrimary(Without(modal.pending, id))
<1>1. /\ t \in ShownImages /\ Among(t, modal.pending)
      /\ \A j \in DOMAIN modal.pending : modal.pending[j].id # id => Has(t, modal.pending[j].id)
  BY PendingImages, OneLessFits
<1>2. Typing /\ modal' = [modal EXCEPT !.pending = t]
  BY DEF Forgets
<1> HIDE DEF t
<1>3. Reworked /\ modal'.pending = t
  BY <1>1, <1>2, PendingChanges
<1> QED BY <1>1, <1>3

\* A loop of requests begins, or an image that is not stored is forgotten.
LoopStarts(todo) ==
    /\ edits' # edits /\ edits' \in Nat /\ modal.open /\ ~Readonly /\ job = NotSaving /\ modal.id # NoId
    /\ job' = [at |-> "loop", id |-> modal.id, todo |-> todo, primary |-> modal.pending = <<>>]
    /\ UNCHANGED <<fleet, drawn, list, modal, answers>>

LEMMA RequestsBegin ==
    ASSUME DialogTypes, NEW todo \in Seq(Todos), Loop(todo)
    PROVE  LoopStarts(todo) /\ job' \in Jobs(drawn)
<1>1. modal.id \in 1 .. drawn
  BY VehicleNumbers DEF Loop, NoId
<1>2. (modal.pending = <<>>) \in BOOLEAN
  OBVIOUS
<1>3. LoopStarts(todo)
  BY EditCounts DEF Loop, LoopStarts
<1> QED BY <1>1, <1>2, <1>3 DEF LoopStarts, Jobs

LEMMA ImageIsRemoved ==
    ASSUME DialogTypes, NEW i \in DOMAIN modal.pending, RemovePendingImage(i)
    PROVE  \/ \E todo \in Seq(Todos) : Loop(todo)
           \/ /\ ~(modal.pending[i].stored /\ modal.id # NoId)
              /\ Forgets(modal.pending[i].id)
<1>1. modal.pending[i].id \in ImageIds
  BY PendingImages DEF ShownImage, Image
<1>2. CASE Loop(<<Request("dropImage", modal.pending[i].id)>>)
  <2>1. <<Request("dropImage", modal.pending[i].id)>> \in Seq(Todos)
    BY <1>1 DEF Todos, Request
  <2> QED BY <1>2, <2>1
<1> QED BY <1>2 DEF RemovePendingImage, Forgets

\* Whatever a tab begins is a loop of requests, or the form changes.
LEMMA PutsAreTodos ==
    ASSUME NEW ps \in Several
    PROVE  [i \in DOMAIN ps |-> Request("put", ps[i])] \in Seq(Todos)
<1>1. CASE ps \in {<<p>> : p \in Parts}
  <2>1. PICK p \in Parts : ps = <<p>>
    BY <1>1
  <2>2. DOMAIN ps = 1 .. 1 /\ ps[1] = p
    BY <2>1
  <2>3. \A i \in 1 .. 1 : Request("put", ps[i]) \in Todos
    BY <2>2 DEF Request, Todos
  <2> QED BY <2>2, <2>3
<1>2. CASE ps \in Parts \X Parts
  <2>1. DOMAIN ps = 1 .. 2 /\ ps[1] \in Parts /\ ps[2] \in Parts
    BY <1>2
  <2>2. \A i \in 1 .. 2 : Request("put", ps[i]) \in Todos
    BY <2>1 DEF Request, Todos
  <2> QED BY <2>1, <2>2
<1> QED BY <1>1, <1>2 DEF Several

LEMMA OnePutIsTodo ==
    ASSUME NEW p \in Parts
    PROVE  /\ [i \in DOMAIN <<p>> |-> Request("put", <<p>>[i])] \in Seq(Todos)
           /\ <<Request("drop", p)>> \in Seq(Todos)
<1>1. <<p>> \in Several
  BY DEF Several
<1>2. <<Request("drop", p)>> \in Seq(Todos)
  BY DEF Request, Todos
<1> QED BY <1>1, <1>2, PutsAreTodos

SomeLoop == \E todo \in Seq(Todos) : Loop(todo)

LEMMA PartTabsLoop ==
    ASSUME AttachmentsTab \/ MaintenanceTab \/ FunctionsTab \/ CVFilesTab
    PROVE  SomeLoop
<1>1. ASSUME NEW ps \in Several, PutParts(ps)
      PROVE  SomeLoop
  BY <1>1, PutsAreTodos DEF PutParts, SomeLoop
<1>2. ASSUME NEW p \in Parts, PutPart(p) \/ DropPart(p)
      PROVE  SomeLoop
  BY <1>2, OnePutIsTodo DEF PutPart, PutParts, DropPart, SomeLoop
<1>3. CASE AttachmentsTab
  BY <1>1, <1>2, <1>3 DEF AttachmentsTab, UploadAttachment, SaveAttachment, DeleteAttachment
<1>4. CASE MaintenanceTab
  BY <1>2, <1>4 DEF MaintenanceTab, SaveMaintenance, CompleteMaintenance, DeleteMaintenance
<1>5. CASE FunctionsTab
  BY <1>1, <1>2, <1>5 DEF FunctionsTab, SaveFunction, DeleteFunction, ImportFunctions
<1>6. CASE CVFilesTab
  BY <1>1, <1>2, <1>6
     DEF CVFilesTab, ConfirmCVFileUpload, ApplyCVFileFunctionSuggestions, DeleteCVFile
<1> QED BY <1>3, <1>4, <1>5, <1>6

\* What the user does in the dialog: it changes what is shown of the vehicle, begins a loop
\* or sends the form.
FormStep ==
    \/ \E t \in Texts, d \in BOOLEAN : Update(t, d)
    \/ \E id \in Suggested : AddPendingImage(id)
    \/ \E i \in DOMAIN modal.pending :
         SetPrimaryPendingImage(i) \/ MovePendingImage(i)
    \/ \E i \in DOMAIN modal.pending :
         ~(modal.pending[i].stored /\ modal.id # NoId) /\ Forgets(modal.pending[i].id)

LEMMA TabsWork ==
    ASSUME DialogTypes,
           \/ \E t \in Texts, d \in BOOLEAN : Update(t, d)
           \/ \E id \in Suggested : AddPendingImage(id)
           \/ UploadsTab \/ AttachmentsTab \/ MaintenanceTab \/ FunctionsTab \/ CVFilesTab
    PROVE  FormStep \/ SomeLoop
<1>1. ASSUME NEW n \in 1 .. 2, UploadImages(n)
      PROVE  SomeLoop
  <2>1. \A i \in 1 .. n : Request("upload", NoId) \in Todos
    BY DEF Request, Todos
  <2>2. [i \in 1 .. n |-> Request("upload", NoId)] \in Seq(Todos)
    BY <2>1
  <2> QED BY <1>1, <2>2 DEF UploadImages, SomeLoop
<1>2. CASE UploadsTab
  BY <1>1, <1>2, ImageIsRemoved DEF UploadsTab, FormStep, SomeLoop
<1> QED BY <1>2, PartTabsLoop DEF FormStep

LEMMA FormStepTypes == ASSUME DialogTypes, FormStep PROVE Reworked /\ DialogTypes'
<1>1. Reworked
  BY TextIsTyped, ImageIsAdded, PrimaryIsSet, ImagesMove, ImageIsForgotten DEF FormStep
<1> QED BY <1>1, ModalTypes DEF Reworked

LEMMA LoopTypes == ASSUME DialogTypes, SomeLoop PROVE DialogTypes'
<1>1. PICK todo \in Seq(Todos) : Loop(todo)
  BY DEF SomeLoop
<1>2. LoopStarts(todo) /\ job' \in Jobs(drawn)
  BY <1>1, RequestsBegin
<1> QED BY <1>2, JobTypes DEF LoopStarts

----------------------------------------------------------------------------
(* The save and the loops.                                                 *)

\* What is sent.
SubmitStarts ==
    /\ edits' # edits /\ edits' \in Nat /\ modal.open /\ ~Readonly /\ job = NotSaving
    /\ job' \in Jobs(drawn) /\ job'.at = "submit" /\ job'.mode = modal.mode /\ job'.images = modal.pending
    /\ job'.id = IF modal.mode = "edit" THEN modal.id ELSE NoId
    /\ UNCHANGED <<fleet, drawn, list, modal, answers>>

LEMMA SubmitBegins ==
    ASSUME DialogTypes, Submit
    PROVE  SubmitStarts /\ DialogTypes'
<1>1. modal \in Dialogs(drawn) /\ drawn \in Nat /\ edits' # edits /\ edits' \in Nat
  BY VehicleNumbers, EditCounts DEF Submit
<1>2. modal.form \in SentForm /\ modal.mode \in Modes /\ modal.pending \in ShownImages
  BY <1>1 DEF Submit, Dialogs, SentForm
<1>3. (IF modal.mode = "edit" THEN modal.id ELSE NoId) \in 0 .. drawn
  BY <1>1 DEF Dialogs, NoId
<1>4. job' = [at |-> "submit", mode |-> modal.mode, form |-> modal.form, images |-> modal.pending,
              id |-> IF modal.mode = "edit" THEN modal.id ELSE NoId]
  BY DEF Submit
<1>5. job' \in Jobs(drawn)
  BY <1>2, <1>3, <1>4 DEF Jobs
<1>6. SubmitStarts
  BY <1>1, <1>4, <1>5 DEF Submit, SubmitStarts
<1> QED BY <1>5, <1>6, JobTypes DEF SubmitStarts

LEMMA JobKinds ==
    ASSUME NEW n, NEW x \in Jobs(n)
    PROVE  /\ x.at \in {"none", "submit", "answer", "loop"}
           /\ x.at = "none" => x = NotSaving
           /\ x.at = "submit" =>
                x \in [at : {"submit"}, mode : Modes, form : SentForm, images : ShownImages, id : 0 .. n]
           /\ x.at = "answer" => x \in [at : {"answer"}, id : 1 .. n, mode : Modes, vehicle : Vehicle]
           /\ x.at = "loop" => x \in [at : {"loop"}, id : 1 .. n, todo : Seq(Todos), primary : BOOLEAN]
BY DEF Jobs, NotSaving

LEMMA FormIsStored ==
    ASSUME NEW v \in Vehicle, NEW form \in SentForm, NEW images \in Seq(ShownImage)
    PROVE  WithForm(v, form, images) \in Vehicle /\ WithForm(v, form, images).images = Saved(images)
           /\ WithForm(v, form, images).parts = v.parts
<1>1. Saved(images) \in StoredImages
  BY SavedKeeps
<1> QED BY <1>1 DEF WithForm, Vehicle, SentForm

\* The server made or changed a vehicle, and answers if it can.
SaveHandled(id, w) ==
    /\ w \in Vehicle
    /\ \A v \in DOMAIN fleet \ {id} : fleet'[v] = fleet[v]
    /\ DOMAIN fleet' = DOMAIN fleet \cup {id} /\ fleet'[id] = w
    /\ w.images = Saved(job.images)
    /\ job' = NotSaving \/ (job'.at = "answer" /\ job'.id = id /\ job'.mode = job.mode /\ job'.vehicle = w)
    /\ UNCHANGED <<list, modal, answers, edits>>

LEMMA CreateIsHandled ==
    ASSUME DialogTypes, SubmitCreates
    PROVE  /\ DialogTypes' /\ drawn' = drawn + 1 /\ drawn + 1 \notin DOMAIN fleet
           /\ \E w : SaveHandled(drawn + 1, w)
<1> DEFINE w == WithForm([FirstVehicle EXCEPT !.parts = {}], job.form, job.images)
<1>1. job.form \in SentForm /\ job.images \in Seq(ShownImage)
  BY JobKinds DEF DialogTypes, SubmitCreates, ShownImages
<1>2. [FirstVehicle EXCEPT !.parts = {}] \in Vehicle
  BY FirstIsVehicle DEF Vehicle
<1>3. w \in Vehicle /\ w.images = Saved(job.images)
  BY <1>1, <1>2, FormIsStored
<1>4. drawn \in Nat /\ drawn' = drawn + 1 /\ drawn + 1 \in 1 .. MaxVehicles
  BY VehicleNumbers, BoundsAssumption DEF SubmitCreates
<1>5. drawn + 1 \notin DOMAIN fleet
  BY <1>4 DEF DialogTypes, Fleet
<1>6. /\ \A v \in DOMAIN fleet \ {drawn + 1} : fleet'[v] = fleet[v]
      /\ DOMAIN fleet' = DOMAIN fleet \cup {drawn + 1} /\ fleet'[drawn + 1] = w
  BY DEF SubmitCreates
<1>7. job' \in {[at |-> "answer", id |-> drawn + 1, mode |-> job.mode, vehicle |-> fleet'[drawn + 1]],
                NotSaving}
  BY DEF SubmitCreates
<1> HIDE DEF w
<1>8. SaveHandled(drawn + 1, w)
  BY <1>3, <1>6, <1>7 DEF SaveHandled, SubmitCreates
<1>9. Fleet(fleet', drawn + 1)
  BY <1>3, <1>4, <1>6 DEF Fleet, DialogTypes
<1>10. job' \in Jobs(drawn + 1)
  <2>1. job.mode \in Modes
    BY JobKinds DEF DialogTypes, SubmitCreates
  <2> QED BY <1>3, <1>4, <1>6, <1>7, <2>1 DEF Jobs
<1>11. DialogTypes'
  <2>1. UNCHANGED <<list, modal, answers, edits>>
    BY DEF SubmitCreates
  <2>2. Fleet(list, drawn + 1) /\ modal \in Dialogs(drawn + 1) /\ AnswersOK(answers, drawn + 1)
    BY <1>4, MoreVehicles DEF DialogTypes
  <2> QED BY <1>4, <1>9, <1>10, <2>1, <2>2 DEF DialogTypes
<1> QED BY <1>4, <1>5, <1>8, <1>11

LEMMA ChangeIsHandled ==
    ASSUME DialogTypes, SubmitChanges
    PROVE  /\ DialogTypes' /\ drawn' = drawn /\ job.id \in DOMAIN fleet
           /\ \E w : SaveHandled(job.id, w) /\ w.parts = fleet[job.id].parts
<1> DEFINE w == WithForm(fleet[job.id], job.form, job.images)
<1>1. job.form \in SentForm /\ job.images \in Seq(ShownImage) /\ job.mode \in Modes
  BY JobKinds DEF DialogTypes, SubmitChanges, ShownImages
<1>2. job.id \in DOMAIN fleet /\ job.id \in 1 .. drawn /\ fleet[job.id] \in Vehicle
  BY VehicleNumbers DEF SubmitChanges
<1>3. w \in Vehicle /\ w.images = Saved(job.images) /\ w.parts = fleet[job.id].parts
  BY <1>1, <1>2, FormIsStored
<1>4. fleet' = [fleet EXCEPT ![job.id] = w]
  BY DEF SubmitChanges
<1>5. job' \in {[at |-> "answer", id |-> job.id, mode |-> job.mode, vehicle |-> fleet'[job.id]], NotSaving}
  BY DEF SubmitChanges
<1> HIDE DEF w
<1>6. SaveHandled(job.id, w)
  BY <1>2, <1>3, <1>4, <1>5 DEF SaveHandled, SubmitChanges
<1>7. Fleet(fleet', drawn)
  BY <1>2, <1>3, <1>4 DEF Fleet, DialogTypes
<1>8. job' \in Jobs(drawn)
  BY <1>1, <1>2, <1>3, <1>4, <1>5 DEF Jobs
<1>9. DialogTypes'
  BY <1>7, <1>8 DEF DialogTypes, SubmitChanges
<1> QED BY <1>2, <1>3, <1>6, <1>9 DEF SubmitChanges

\* A dialog that shows a vehicle as it was answered.
LEMMA DetailFits ==
    ASSUME DialogTypes, NEW w \in Vehicle, NEW id \in 0 .. drawn
    PROVE  LET d == Detail(w, id)
           IN  /\ d \in Dialogs(drawn) /\ d.open = modal.open /\ d.mode = modal.mode
               /\ d.id = id /\ d.pending = w.images /\ d.parts = w.parts
<1>1. modal \in Dialogs(drawn)
  BY VehicleNumbers
<1>2. w.images \in ShownImages /\ w.parts \in SUBSET Parts
  <2>1. w.images \in Seq(StoredImage) /\ HasPrimary(w.images)
    BY DEF Vehicle, StoredImages
  <2>2. StoredImage \subseteq ShownImage
    BY DEF StoredImage, ShownImage, Image
  <2>3. w.images \in Seq(ShownImage)
    BY <2>1, <2>2
  <2> QED BY <2>1, <2>3 DEF ShownImages, Vehicle
<1>3. FormOf(w) \in [text : Texts \cup {Empty}, details : BOOLEAN, flag : BOOLEAN]
  BY DEF FormOf, Vehicle
<1> QED BY <1>1, <1>2, <1>3 DEF Detail, Dialogs

LEMMA ImagesOfVehicle ==
    ASSUME NEW w \in Vehicle
    PROVE  /\ w.images \in StoredImages /\ w.images \in Seq(ShownImage)
           /\ Len(w.images) \in Nat /\ DOMAIN w.images = 1 .. Len(w.images)
           /\ \A i \in DOMAIN w.images : w.images[i].stored /\ w.images[i].id \in ImageIds
<1>1. w.images \in Seq(StoredImage) /\ w.images \in StoredImages
  BY DEF Vehicle, StoredImages
<1>2. StoredImage \subseteq ShownImage
  BY DEF StoredImage, ShownImage, Image
<1>3. w.images \in Seq(ShownImage)
  BY <1>1, <1>2
<1>4. Len(w.images) \in Nat /\ DOMAIN w.images = 1 .. Len(w.images)
  BY <1>1
<1>5. \A i \in DOMAIN w.images : w.images[i] \in StoredImage
  BY <1>1, <1>4
<1> QED BY <1>1, <1>3, <1>4, <1>5 DEF StoredImage

LEMMA LoopFacts ==
    ASSUME DialogTypes, job.at = "loop"
    PROVE  /\ job \in [at : {"loop"}, id : 1 .. drawn, todo : Seq(Todos), primary : BOOLEAN]
           /\ job.todo # <<>> =>
                /\ Rest \in [at : {"loop"}, id : {job.id}, todo : Seq(Todos), primary : BOOLEAN]
                /\ Rest \in Jobs(drawn) /\ Head(job.todo) \in Todos
<1>1. job \in [at : {"loop"}, id : 1 .. drawn, todo : Seq(Todos), primary : BOOLEAN]
  BY JobKinds DEF DialogTypes
<1>2. ASSUME job.todo # <<>>
      PROVE  /\ Rest \in [at : {"loop"}, id : {job.id}, todo : Seq(Todos), primary : BOOLEAN]
             /\ Rest \in Jobs(drawn) /\ Head(job.todo) \in Todos
  <2>1. Tail(job.todo) \in Seq(Todos) /\ Head(job.todo) \in Todos
    BY <1>1, <1>2
  <2>2. Rest \in [at : {"loop"}, id : {job.id}, todo : Seq(Todos), primary : BOOLEAN]
    BY <1>1, <2>1 DEF Rest
  <2>3. Rest \in Jobs(drawn)
    BY <1>1, <2>2 DEF Jobs
  <2> QED BY <2>1, <2>2, <2>3
<1> QED BY <1>1, <1>2

\* A request of the loop changed its vehicle to w; the loop goes on or ends.
LoopHandled(w) ==
    /\ job.at = "loop" /\ job.id \in DOMAIN fleet /\ w \in Vehicle
    /\ fleet' = [fleet EXCEPT ![job.id] = w]
    /\ \/ job'.at = "loop" /\ job'.id = job.id
       \/ job' = NotSaving /\ UNCHANGED modal
    /\ UNCHANGED <<drawn, list, answers, edits>>

LEMMA LoopHandledTypes ==
    ASSUME DialogTypes, NEW w, LoopHandled(w), job' \in Jobs(drawn), modal' \in Dialogs(drawn)
    PROVE  DialogTypes'
<1>1. Fleet(fleet', drawn)
  BY DEF LoopHandled, Fleet, DialogTypes
<1> QED BY <1>1 DEF DialogTypes, LoopHandled

\* The images that the dialog shows change, and nothing else of it.
ShowsImages(s) ==
    modal' \in Dialogs(drawn) /\ modal'.pending = s /\ modal'.open = modal.open /\ modal'.mode = modal.mode
    /\ modal'.id = modal.id /\ modal'.parts = modal.parts

LEMMA ShowsImagesFits ==
    ASSUME DialogTypes, NEW s \in ShownImages, modal' = [modal EXCEPT !.pending = s]
    PROVE  ShowsImages(s)
<1>1. modal \in Dialogs(drawn)
  BY VehicleNumbers
<1> QED BY <1>1 DEF Dialogs, ShowsImages

LEMMA UploadIsHandled ==
    ASSUME DialogTypes, UploadNext
    PROVE  /\ DialogTypes'
           /\ \E id, w :
                /\ id \in ImageIds \ Suggested
                /\ \A v \in DOMAIN fleet : ~Has(fleet[v].images, id)
                /\ LoopHandled(w) /\ w.parts = fleet[job.id].parts
                /\ \A i \in DOMAIN w.images : w.images[i].id = id \/ Has(fleet[job.id].images, w.images[i].id)
                /\ \/ modal' = modal
                   \/ \E s : /\ job'.at = "loop" /\ ShowsImages(s)
                             /\ \A i \in DOMAIN s : \/ s[i].id = id /\ s[i].stored
                                                    \/ \E j \in DOMAIN modal.pending :
                                                         /\ s[i].id = modal.pending[j].id
                                                         /\ s[i].stored = modal.pending[j].stored
<1>1. PICK id \in ImageIds \ Suggested :
        /\ \A v \in DOMAIN fleet : Without(fleet[v].images, id) = fleet[v].images
        /\ fleet' = [fleet EXCEPT ![job.id].images = Uploaded(@, id, job.primary)]
        /\ \/ /\ job' = Rest
              /\ modal' = [modal EXCEPT !.pending = WithPrimary(Append(@, Last(fleet'[job.id].images)))]
           \/ job' = NotSaving /\ UNCHANGED modal
  BY DEF UploadNext
<1>2. job.at = "loop" /\ job.todo # <<>> /\ job.id \in DOMAIN fleet /\ UNCHANGED <<drawn, list, answers, edits>>
  BY DEF UploadNext, NextRequest
<1> DEFINE old == fleet[job.id].images
           new == Uploaded(old, id, job.primary)
           w == [fleet[job.id] EXCEPT !.images = new]
<1>3. fleet[job.id] \in Vehicle /\ \A v \in DOMAIN fleet : fleet[v] \in Vehicle
  BY <1>2, VehicleNumbers
<1>4. /\ new \in StoredImages /\ DOMAIN new = DOMAIN old \cup {Len(old) + 1} /\ Len(new) = Len(old) + 1
      /\ new[Len(old) + 1].id = id
      /\ \A i \in DOMAIN old : new[i].id = old[i].id
  <2>1. job.primary \in BOOLEAN /\ old \in StoredImages
    BY <1>2, <1>3, LoopFacts, ImagesOfVehicle
  <2>2. PICK o, p : o = old /\ p = job.primary
    OBVIOUS
  <2>3. o \in StoredImages /\ p \in BOOLEAN /\ id \in ImageIds
    BY <2>1, <2>2
  <2>4. LET t == Uploaded(o, id, p)
        IN  /\ t \in StoredImages /\ DOMAIN t = DOMAIN o \cup {Len(o) + 1} /\ Len(t) = Len(o) + 1
            /\ t[Len(o) + 1].id = id
            /\ \A i \in DOMAIN o : t[i].id = o[i].id
    BY <2>3, UploadedKeeps
  <2> QED BY <2>2, <2>4
<1>5. ASSUME NEW v \in DOMAIN fleet PROVE ~Has(fleet[v].images, id)
  <2>1. ~Has(Without(fleet[v].images, id), id)
    BY <1>3, ImagesOfVehicle, WithoutKeeps
  <2> QED BY <1>1, <2>1
<1>6. fleet' = [fleet EXCEPT ![job.id] = w]
  BY <1>1
<1> HIDE DEF new
<1>7. w \in Vehicle /\ w.images = new /\ w.parts = fleet[job.id].parts
  BY <1>3, <1>4 DEF Vehicle
<1>8. fleet'[job.id].images = new
  BY <1>2, <1>6, <1>7
<1> HIDE DEF w
<1>9. Len(old) \in Nat /\ Last(new) = new[Len(old) + 1] /\ Last(new) \in ShownImage /\ Last(new).stored
  <2>1. Len(new) = Len(old) + 1 /\ new \in Seq(StoredImage) /\ Len(old) \in Nat
    BY <1>3, <1>4, ImagesOfVehicle DEF StoredImages
  <2>2. new[Len(old) + 1] \in StoredImage
    BY <2>1
  <2> QED BY <2>1, <2>2 DEF Last, StoredImage, ShownImage, Image
<1>10. \A i \in DOMAIN new : new[i].id = id \/ Has(old, new[i].id)
  BY <1>4 DEF Has
<1> DEFINE s == WithPrimary(Append(modal.pending, Last(new)))
<1>11. /\ s \in ShownImages
       /\ \A i \in DOMAIN s : \/ s[i].id = id /\ s[i].stored
                              \/ \E j \in DOMAIN modal.pending :
                                   s[i].id = modal.pending[j].id /\ s[i].stored = modal.pending[j].stored
  <2>1. PICK x : x = Last(new)
    OBVIOUS
  <2>2. x \in ShownImage /\ x.id = id /\ x.stored
    BY <1>4, <1>9, <2>1
  <2>3. LET t == WithPrimary(Append(modal.pending, x))
        IN  /\ t \in ShownImages
            /\ \A i \in DOMAIN t : \/ t[i].id = x.id /\ t[i].stored = x.stored
                                   \/ \E j \in DOMAIN modal.pending :
                                        t[i].id = modal.pending[j].id /\ t[i].stored = modal.pending[j].stored
    BY <2>2, PendingImages, OneMoreFits
  <2> QED BY <2>1, <2>2, <2>3
<1>12. \/ job' = Rest /\ modal' = [modal EXCEPT !.pending = s]
       \/ job' = NotSaving /\ UNCHANGED modal
  BY <1>1, <1>8
<1> HIDE DEF s
<1>13. CASE job' = Rest /\ modal' = [modal EXCEPT !.pending = s]
  <2>1. ShowsImages(s)
    BY <1>11, <1>13, ShowsImagesFits
  <2>2. job'.at = "loop" /\ job'.id = job.id /\ job' \in Jobs(drawn)
    BY <1>2, <1>13, LoopFacts
  <2>3. LoopHandled(w)
    BY <1>2, <1>6, <1>7, <2>2 DEF LoopHandled
  <2>4. DialogTypes'
    BY <2>1, <2>2, <2>3, LoopHandledTypes DEF ShowsImages
  <2> QED BY <1>5, <1>7, <1>10, <1>11, <2>1, <2>2, <2>3, <2>4
<1>14. CASE job' = NotSaving /\ UNCHANGED modal
  <2>1. LoopHandled(w)
    BY <1>2, <1>6, <1>7, <1>14 DEF LoopHandled
  <2>2. DialogTypes'
    BY <1>14, <2>1, LoopHandledTypes, VehicleNumbers DEF Jobs
  <2> QED BY <1>5, <1>7, <1>10, <1>14, <2>1, <2>2
<1> QED BY <1>12, <1>13, <1>14

LEMMA DropImageIsHandled ==
    ASSUME DialogTypes, DropImageNext
    PROVE  /\ DialogTypes'
           /\ \E w :
                /\ LoopHandled(w) /\ w.parts = fleet[job.id].parts
                /\ \A i \in DOMAIN w.images : Has(fleet[job.id].images, w.images[i].id)
                /\ \/ modal' = modal
                   \/ \E s : job'.at = "loop" /\ ShowsImages(s) /\ Among(s, modal.pending)
<1>1. job.at = "loop" /\ job.todo # <<>> /\ job.id \in DOMAIN fleet /\ UNCHANGED <<drawn, list, answers, edits>>
  BY DEF DropImageNext, NextRequest
<1> DEFINE old == fleet[job.id].images
           new == WithPrimary(Without(old, Key))
           w == [fleet[job.id] EXCEPT !.images = new]
           s == WithPrimary(Without(modal.pending, Key))
<1>2. fleet[job.id] \in Vehicle
  BY <1>1, VehicleNumbers
<1>3. fleet' = [fleet EXCEPT ![job.id] = w]
  BY DEF DropImageNext
<1>4. new \in StoredImages /\ Among(new, old)
  <2>1. old \in Seq(ShownImage) /\ \A i \in DOMAIN old : old[i].stored
    BY <1>2, ImagesOfVehicle
  <2>2. new \in ShownImages /\ Among(new, old)
    BY <2>1, OneLessFits
  <2> HIDE DEF new
  <2>3. new \in Seq(ShownImage) /\ HasPrimary(new)
    BY <2>2 DEF ShownImages
  <2>4. Len(new) \in Nat /\ DOMAIN new = 1 .. Len(new) /\ new = [i \in 1 .. Len(new) |-> new[i]]
        /\ \A i \in DOMAIN new : new[i] \in ShownImage
    BY <2>3
  <2>5. \A i \in DOMAIN new : new[i].stored
    BY <2>1, <2>2 DEF Among
  <2>6. \A i \in 1 .. Len(new) : new[i] \in StoredImage
    BY <2>4, <2>5 DEF StoredImage, ShownImage, Image
  <2>7. new \in Seq(StoredImage)
    BY <2>4, <2>6
  <2> QED BY <2>2, <2>3, <2>7 DEF StoredImages
<1> HIDE DEF new
<1>5. w \in Vehicle /\ w.images = new /\ w.parts = fleet[job.id].parts
  BY <1>2, <1>4 DEF Vehicle
<1> HIDE DEF w
<1>6. \A i \in DOMAIN w.images : Has(old, w.images[i].id)
  BY <1>4, <1>5 DEF Among, Has
<1>7. s \in ShownImages /\ Among(s, modal.pending)
  BY PendingImages, OneLessFits
<1>8. \/ job' = Rest /\ modal' = [modal EXCEPT !.pending = s]
      \/ job' = NotSaving /\ UNCHANGED modal
  BY DEF DropImageNext
<1> HIDE DEF s
<1>9. CASE job' = Rest /\ modal' = [modal EXCEPT !.pending = s]
  <2>1. ShowsImages(s)
    BY <1>7, <1>9, ShowsImagesFits
  <2>2. job'.at = "loop" /\ job'.id = job.id /\ job' \in Jobs(drawn)
    BY <1>1, <1>9, LoopFacts
  <2>3. LoopHandled(w)
    BY <1>1, <1>3, <1>5, <2>2 DEF LoopHandled
  <2>4. DialogTypes'
    BY <2>1, <2>2, <2>3, LoopHandledTypes DEF ShowsImages
  <2> QED BY <1>5, <1>6, <1>7, <2>1, <2>2, <2>3, <2>4
<1>10. CASE job' = NotSaving /\ UNCHANGED modal
  <2>1. LoopHandled(w)
    BY <1>1, <1>3, <1>5, <1>10 DEF LoopHandled
  <2>2. DialogTypes'
    BY <1>10, <2>1, LoopHandledTypes, VehicleNumbers DEF Jobs
  <2> QED BY <1>5, <1>6, <1>10, <2>1, <2>2
<1> QED BY <1>8, <1>9, <1>10

LEMMA PartIsHandled ==
    ASSUME DialogTypes, PartNext
    PROVE  /\ DialogTypes' /\ modal' = modal
           /\ \E w : LoopHandled(w) /\ w.images = fleet[job.id].images
<1>1. job.at = "loop" /\ job.todo # <<>> /\ job.id \in DOMAIN fleet
      /\ UNCHANGED <<drawn, list, modal, answers, edits>> /\ Head(job.todo).do \in {"put", "drop"}
  BY DEF PartNext, NextRequest
<1> DEFINE old == fleet[job.id].parts
           new == IF Head(job.todo).do = "put" THEN old \cup {Key} ELSE old \ {Key}
           w == [fleet[job.id] EXCEPT !.parts = new]
<1>2. fleet[job.id] \in Vehicle
  BY <1>1, VehicleNumbers
<1>3. fleet' = [fleet EXCEPT ![job.id] = w]
  BY DEF PartNext
<1>4. new \in SUBSET Parts
  <2>1. Key \in Parts
    BY <1>1, LoopFacts DEF Todos, Key
  <2> QED BY <1>2, <2>1 DEF Vehicle
<1> HIDE DEF new
<1>5. w \in Vehicle /\ w.images = fleet[job.id].images
  BY <1>2, <1>4 DEF Vehicle
<1> HIDE DEF w
<1>6. job' \in Jobs(drawn) /\ (job' = NotSaving \/ (job'.at = "loop" /\ job'.id = job.id))
  <2>1. job' \in {Rest, NotSaving}
    BY DEF PartNext
  <2> QED BY <1>1, <2>1, LoopFacts DEF Jobs
<1>7. LoopHandled(w)
  BY <1>1, <1>3, <1>5, <1>6 DEF LoopHandled
<1>8. DialogTypes'
  BY <1>1, <1>6, <1>7, LoopHandledTypes, VehicleNumbers
<1> QED BY <1>1, <1>5, <1>7, <1>8

\* The save is answered, a loop is over, or either fails.
LEMMA JobEndTypes ==
    ASSUME DialogTypes, SubmitAnswered \/ LoopDone \/ JobFails
    PROVE  DialogTypes'
<1>0. NotSaving \in Jobs(drawn) /\ drawn \in Nat
  BY VehicleNumbers DEF Jobs
<1>1. CASE SubmitAnswered
  <2>1. job.vehicle \in Vehicle /\ job.id \in 0 .. drawn
    BY <1>1, JobKinds DEF DialogTypes, SubmitAnswered
  <2>2. Detail(job.vehicle, job.id) \in Dialogs(drawn)
    BY <2>1, DetailFits
  <2>3. [Detail(job.vehicle, job.id) EXCEPT !.mode = "view"] \in Dialogs(drawn)
    BY <2>2 DEF Dialogs, Modes
  <2>4. modal' \in Dialogs(drawn)
    BY <1>0, <1>1, <2>3, ClosedFits DEF SubmitAnswered
  <2>5. AnswersOK(answers', drawn)
    BY <1>0, <1>1, LoadFits, AppendOK DEF SubmitAnswered, DialogTypes
  <2> QED BY <1>0, <1>1, <2>4, <2>5 DEF SubmitAnswered, DialogTypes
<1>2. CASE LoopDone
  <2>1. job.id \in 1 .. drawn
    BY <1>2, LoopFacts DEF LoopDone
  <2>2. AnswerOK(Ask("refresh", job.id), drawn)
    BY <1>0, <2>1, AskFits DEF DetailKinds
  <2>3. AnswersOK(answers', drawn)
    BY <1>2, <2>2, AppendOK DEF LoopDone, DialogTypes
  <2> QED BY <1>0, <1>2, <2>3 DEF LoopDone, DialogTypes
<1>3. CASE JobFails
  BY <1>0, <1>3 DEF JobFails, DialogTypes
<1> QED BY <1>1, <1>2, <1>3

LEMMA MarkIsStored ==
    ASSUME DialogTypes, NEW i \in DOMAIN answers, PutMark(i)
    PROVE  LET id == answers[i].id
               w == WithForm(fleet[id], FormOf(answers[i].vehicle), <<>>)
           IN  /\ ~answers[i].read /\ answers[i].ask = "mark" /\ id \in DOMAIN fleet
               /\ w \in Vehicle /\ w.images = <<>> /\ w.parts = fleet[id].parts
               /\ fleet' = [fleet EXCEPT ![id] = w] /\ fleet'[id] = w /\ Told(i, w)
               /\ UNCHANGED <<drawn, list, modal, job, edits>>
<1> DEFINE id == answers[i].id
           w == WithForm(fleet[id], FormOf(answers[i].vehicle), <<>>)
<1>1. ~answers[i].read /\ answers[i].ask = "mark" /\ id \in DOMAIN fleet
      /\ UNCHANGED <<drawn, list, modal, job, edits>>
  BY DEF PutMark, Asked
<1>2. answers[i].vehicle \in Vehicle /\ fleet[id] \in Vehicle
  BY <1>1, VehicleNumbers DEF AnswerOK
<1>3. FormOf(answers[i].vehicle) \in SentForm
  BY <1>2 DEF FormOf, SentForm, Vehicle
<1>4. <<>> \in Seq(ShownImage)
  OBVIOUS
<1>5. w \in Vehicle /\ w.images = Saved(<<>>) /\ w.parts = fleet[id].parts
  BY <1>2, <1>3, <1>4, FormIsStored
<1>6. Saved(<<>>) = <<>>
  <2>1. Saved(<<>>) \in StoredImages /\ DOMAIN Saved(<<>>) = {j \in DOMAIN <<>> : j <= MaxImages}
    BY <1>4, SavedKeeps
  <2>2. Saved(<<>>) \in Seq(StoredImage) /\ DOMAIN Saved(<<>>) = {}
    BY <2>1 DEF StoredImages
  <2> QED BY <2>2
<1>7. fleet' = [fleet EXCEPT ![id] = w] /\ Told(i, fleet'[id])
  BY DEF PutMark
<1> HIDE DEF w
<1>8. fleet'[id] = w
  BY <1>1, <1>7
<1> QED BY <1>1, <1>5, <1>6, <1>7, <1>8 DEF w

LEMMA ServingTypes ==
    ASSUME DialogTypes, NEW i \in DOMAIN answers, Serving(i)
    PROVE  DialogTypes'
<1>0. AnswersOK(answers, drawn)
  BY DEF DialogTypes
<1>1. CASE GetVehicle(i)
  <2>1. fleet[answers[i].id] \in Vehicle /\ answers[i].ask \in DetailKinds
    BY <1>1, VehicleNumbers DEF GetVehicle, Asked, DetailKinds, OpeningKinds
  <2>2. AnswersOK(answers', drawn)
    BY <1>0, <1>1, <2>1, ToldOK DEF GetVehicle, Told, DetailKinds, OpeningKinds
  <2> QED BY <1>1, <2>2 DEF GetVehicle, DialogTypes
<1>2. CASE GetVehicles(i)
  <2>1. answers[i].ask = "list" /\ Fleet(ListRows(fleet), drawn)
    BY <1>2, ListRowsFit DEF GetVehicles, Asked, DialogTypes
  <2>2. AnswersOK(answers', drawn)
    BY <1>0, <1>2, <2>1, ToldOK DEF GetVehicles, Told, DetailKinds, OpeningKinds
  <2> QED BY <1>2, <2>2 DEF GetVehicles, DialogTypes
<1>3. CASE PutMark(i)
  <2> DEFINE id == answers[i].id
             w == WithForm(fleet[id], FormOf(answers[i].vehicle), <<>>)
  <2>1. /\ answers[i].ask = "mark" /\ id \in DOMAIN fleet /\ w \in Vehicle
        /\ fleet' = [fleet EXCEPT ![id] = w] /\ Told(i, w)
        /\ UNCHANGED <<drawn, list, modal, job, edits>>
    BY <1>3, MarkIsStored
  <2> HIDE DEF w
  <2>2. AnswersOK(answers', drawn)
    BY <1>0, <2>1, ToldOK DEF Told
  <2>3. Fleet(fleet', drawn)
    BY <2>1 DEF Fleet, DialogTypes
  <2> QED BY <2>1, <2>2, <2>3 DEF DialogTypes
<1>4. CASE DeleteVehicle(i)
  <2>1. answers[i].ask = "delete"
    BY <1>4 DEF DeleteVehicle, Asked
  <2>2. AnswersOK(answers', drawn)
    BY <1>0, <1>4, <2>1, ToldOK DEF DeleteVehicle, Told, DetailKinds, OpeningKinds
  <2>3. Fleet(fleet', drawn)
    BY <1>4 DEF DeleteVehicle, Fleet, DialogTypes
  <2> QED BY <1>4, <2>2, <2>3 DEF DeleteVehicle, DialogTypes
<1> QED BY <1>1, <1>2, <1>3, <1>4 DEF Serving

\* The dialog shows a vehicle that was answered.
ShowsVehicle(w, id) ==
    modal' \in Dialogs(drawn) /\ modal'.id = id /\ modal'.pending = w.images /\ modal'.parts = w.parts

LEMMA VehicleIsShown ==
    ASSUME DialogTypes, NEW i \in DOMAIN answers, DetailShown(i)
    PROVE  /\ answers[i].ask \in OpeningKinds /\ answers[i].read /\ answers[i].vehicle \in Vehicle
           /\ answers[i].id \in 1 .. drawn
           /\ ShowsVehicle(answers[i].vehicle, answers[i].id)
           /\ modal'.open /\ modal'.mode # "create"
           /\ answers' = Rid(i) /\ UNCHANGED <<fleet, drawn, list, job, edits>>
<1> DEFINE w == answers[i].vehicle
           d == Detail(w, answers[i].id)
           m == IF answers[i].ask = "edit" THEN "edit" ELSE "view"
<1>1. answers[i].ask \in OpeningKinds /\ answers[i].read
  BY DEF DetailShown, Come, OpeningKinds
<1>2. w \in Vehicle /\ answers[i].id \in 1 .. drawn /\ answers[i].id \in 0 .. drawn
  BY <1>1, VehicleNumbers DEF AnswerOK, DetailKinds, OpeningKinds
<1>3. d \in Dialogs(drawn) /\ d.id = answers[i].id /\ d.pending = w.images /\ d.parts = w.parts
  BY <1>2, DetailFits
<1>4. modal' = [d EXCEPT !.open = TRUE, !.mode = m] /\ answers' = Rid(i)
      /\ UNCHANGED <<fleet, drawn, list, job, edits>>
  BY DEF DetailShown
<1> HIDE DEF d
<1>5. ShowsVehicle(w, answers[i].id) /\ modal'.open /\ modal'.mode # "create"
  BY <1>3, <1>4 DEF Dialogs, Modes, ShowsVehicle
<1> QED BY <1>1, <1>2, <1>4, <1>5

LEMMA RefreshIsShown ==
    ASSUME DialogTypes, NEW i \in DOMAIN answers, RefreshShown(i)
    PROVE  /\ answers[i].ask = "refresh" /\ answers[i].read /\ answers[i].vehicle \in Vehicle
           /\ answers[i].id \in 1 .. drawn
           /\ ShowsVehicle(answers[i].vehicle, answers[i].id)
           /\ modal'.open = modal.open /\ modal'.mode = modal.mode
           /\ answers' = Append(Rid(i), Load) /\ UNCHANGED <<fleet, drawn, list, job, edits>>
<1>1. answers[i].ask = "refresh" /\ answers[i].read
  BY DEF RefreshShown, Come
<1>2. answers[i].vehicle \in Vehicle /\ answers[i].id \in 1 .. drawn /\ answers[i].id \in 0 .. drawn
  BY <1>1, VehicleNumbers DEF AnswerOK, DetailKinds
<1>3. modal' = Detail(answers[i].vehicle, answers[i].id) /\ answers' = Append(Rid(i), Load)
      /\ UNCHANGED <<fleet, drawn, list, job, edits>>
  BY DEF RefreshShown
<1> QED BY <1>1, <1>2, <1>3, DetailFits DEF ShowsVehicle

LEMMA ShowingTypes ==
    ASSUME DialogTypes, NEW i \in DOMAIN answers, Showing(i) \/ AnswerLost(i)
    PROVE  DialogTypes'
<1>0. AnswersOK(Rid(i), drawn) /\ AnswersOK(Append(Rid(i), Load), drawn)
  <2>1. AnswersOK(RemoveAt(answers, i), drawn) /\ AnswerOK(Load, drawn)
    BY RemoveOK, LoadFits, VehicleNumbers DEF DialogTypes
  <2> QED BY <2>1, AppendOK DEF Rid
<1>1. CASE DetailShown(i)
  BY <1>0, <1>1, VehicleIsShown DEF DialogTypes, ShowsVehicle
<1>2. CASE RefreshShown(i)
  BY <1>0, <1>2, RefreshIsShown DEF DialogTypes, ShowsVehicle
<1>3. CASE ListShown(i)
  <2>1. Fleet(answers[i].vehicle, drawn)
    BY <1>3, VehicleNumbers DEF ListShown, Come, AnswerOK
  <2> QED BY <1>0, <1>3, <2>1 DEF ListShown, DialogTypes
<1>4. CASE MarkShown(i)
  <2>1. answers[i].vehicle \in Vehicle /\ answers[i].id \in 0 .. drawn
    BY <1>4, VehicleNumbers DEF MarkShown, Come, AnswerOK
  <2>2. modal' \in Dialogs(drawn)
    BY <1>4, <2>1, DetailFits, VehicleNumbers DEF MarkShown
  <2>3. Fleet(list', drawn)
    BY <1>4, <2>1 DEF MarkShown, Fleet, DialogTypes
  <2> QED BY <1>0, <1>4, <2>2, <2>3 DEF MarkShown, DialogTypes
<1>5. CASE DeleteShown(i)
  <2>1. modal' \in Dialogs(drawn)
    BY <1>5, ClosedFits, VehicleNumbers DEF DeleteShown
  <2> QED BY <1>0, <1>5, <2>1 DEF DeleteShown, DialogTypes
<1>6. CASE AnswerLost(i)
  BY <1>0, <1>6 DEF AnswerLost, DialogTypes
<1> QED BY <1>1, <1>2, <1>3, <1>4, <1>5, <1>6 DEF Showing

LEMMA OtherUserSaves ==
    ASSUME DialogTypes, NEW v \in DOMAIN fleet, NEW t \in Texts, OtherUser(v, t)
    PROVE  DialogTypes' /\ edits' # edits
           /\ DOMAIN fleet' = DOMAIN fleet
           /\ \A u \in DOMAIN fleet : fleet'[u].images = fleet[u].images /\ fleet'[u].parts = fleet[u].parts
<1> DEFINE w == [fleet[v] EXCEPT !.text = t]
<1>1. fleet[v] \in Vehicle
  BY VehicleNumbers
<1>2. fleet' = [fleet EXCEPT ![v] = w] /\ UNCHANGED <<drawn, list, modal, job, answers>>
  BY DEF OtherUser
<1>3. w \in Vehicle /\ w.images = fleet[v].images /\ w.parts = fleet[v].parts
  BY <1>1 DEF Vehicle
<1> HIDE DEF w
<1>4. Fleet(fleet', drawn)
  BY <1>2, <1>3 DEF Fleet, DialogTypes
<1>5. edits' \in Nat /\ edits' # edits
  BY EditCounts DEF OtherUser
<1>6. DialogTypes'
  BY <1>2, <1>4, <1>5 DEF DialogTypes
<1> QED BY <1>2, <1>3, <1>5, <1>6

LEMMA SavingTypes ==
    ASSUME DialogTypes, Saving
    PROVE  DialogTypes'
BY CreateIsHandled, ChangeIsHandled, JobEndTypes, UploadIsHandled, DropImageIsHandled, PartIsHandled
   DEF Saving

LEMMA DialogTypesAreKept ==
    ASSUME DialogTypes, EditorNext
    PROVE  DialogTypes'
<1>1. CASE \/ \E t \in Texts, d \in BOOLEAN : Update(t, d)
           \/ \E id \in Suggested : AddPendingImage(id)
           \/ UploadsTab \/ AttachmentsTab \/ MaintenanceTab \/ FunctionsTab \/ CVFilesTab
  BY <1>1, TabsWork, FormStepTypes, LoopTypes
<1>2. CASE InventoryPanel \/ ReadOnlyView \/ CloseModal
  BY <1>2, PanelTypes
<1>3. CASE Submit \/ Saving
  BY <1>3, SubmitBegins, SavingTypes
<1>4. CASE \E i \in DOMAIN answers : Serving(i) \/ Showing(i) \/ AnswerLost(i)
  BY <1>4, ServingTypes, ShowingTypes
<1>5. CASE \E v \in DOMAIN fleet, t \in Texts : OtherUser(v, t)
  BY <1>5, OtherUserSaves
<1> QED BY <1>1, <1>2, <1>3, <1>4, <1>5 DEF EditorNext

----------------------------------------------------------------------------
(* What holds while the user waits for what is under way.                  *)

\* None of the images, but those that a shop offers, is in another vehicle of t than v.
FreeIn(t, images, v) ==
    \A i \in DOMAIN images : images[i].id \notin Suggested =>
       \A w \in DOMAIN t \ {v} : ~Has(t[w].images, images[i].id)

NoneAsks(s, kinds) == \A i \in DOMAIN s : s[i].ask \notin kinds

DialogPlace ==
    /\ modal.open \/ modal = Closed
    /\ modal.open => (modal.mode = "create" <=> modal.id = NoId)
    /\ modal.id = NoId => \A i \in DOMAIN modal.pending : ~modal.pending[i].stored

\* A save and a loop of requests are for the vehicle that the dialog shows.
JobPlace ==
    job.at # "none" =>
      /\ modal.open /\ modal.mode # "view" /\ NoneAsks(answers, OpeningKinds)
      /\ job.at = "loop" => job.id = modal.id
      /\ job.at \in {"submit", "answer"} => job.mode = modal.mode /\ NoneAsks(answers, {"refresh"})
      /\ job.at = "submit" =>
           job.id = modal.id /\ (job.id = NoId => \A i \in DOMAIN job.images : ~job.images[i].stored)
      /\ job.at = "answer" /\ modal.mode # "create" => job.id = modal.id

\* So is a refresh; a mark and a delete are for none that it shows.
AnswerPlace(x, m, t) ==
    /\ x.ask \in {"mark", "delete"} => ~x.shown
    /\ x.ask = "refresh" => m.open /\ x.id = m.id
    /\ x.ask \in DetailKinds /\ x.read => FreeIn(t, x.vehicle.images, x.id)
AnswersPlace == \A i \in DOMAIN answers : AnswerPlace(answers[i], modal, fleet)

ImagesPlace ==
    /\ \A v \in DOMAIN fleet : FreeIn(fleet, fleet[v].images, v)
    /\ FreeIn(fleet, modal.pending, modal.id)
    /\ job.at = "submit" => FreeIn(fleet, job.images, job.id)
    /\ job.at = "answer" => FreeIn(fleet, job.vehicle.images, job.id)

Calm == DialogPlace /\ JobPlace /\ AnswersPlace /\ ImagesPlace

\* The step of a user who waits.
Patient ==
    /\ UnderWay /\ job'.at = job.at /\ modal.open => modal'.open /\ modal'.id = modal.id
    /\ UnderWay /\ job.at = "none" => job'.at # "submit"
    /\ Opening => edits' = edits

LEMMA NotHurriedIsPatient == ASSUME ~Hurries PROVE Patient
BY DEF Hurries, Patient

CalmStep == DialogTypes /\ DialogTypes' /\ Calm /\ Patient

LEMMA AppendMembers ==
    ASSUME NEW s, IsSeq(s), NEW x
    PROVE  LET t == Append(s, x)
           IN  /\ \A i \in DOMAIN t : t[i] = x \/ \E j \in DOMAIN s : t[i] = s[j]
               /\ \A j \in DOMAIN s : j \in DOMAIN t /\ t[j] = s[j]
               /\ Len(s) + 1 \in DOMAIN t /\ t[Len(s) + 1] = x
<1> DEFINE t == Append(s, x)
<1>1. /\ Len(s) \in Nat /\ DOMAIN s = 1 .. Len(s) /\ DOMAIN t = 1 .. Len(s) + 1
      /\ t[Len(s) + 1] = x /\ \A i \in DOMAIN s : t[i] = s[i]
  BY Appended
<1> HIDE DEF t
<1> QED BY <1>1 DEF t

LEMMA RemoveMembers ==
    ASSUME NEW s, IsSeq(s), NEW i \in DOMAIN s
    PROVE  LET t == RemoveAt(s, i)
           IN  /\ IsSeq(t)
               /\ \A j \in DOMAIN t : \E k \in DOMAIN s : k # i /\ t[j] = s[k]
               /\ \A k \in DOMAIN s \ {i} : \E j \in DOMAIN t : t[j] = s[k]
<1> DEFINE t == RemoveAt(s, i)
<1>1. /\ IsSeq(t) /\ Len(s) \in Nat /\ DOMAIN s = 1 .. Len(s) /\ DOMAIN t = 1 .. Len(s) - 1
      /\ \A j \in DOMAIN t : t[j] = IF j < i THEN s[j] ELSE s[j + 1]
  BY Removed
<1> HIDE DEF t
<1>2. ASSUME NEW j \in DOMAIN t PROVE \E k \in DOMAIN s : k # i /\ t[j] = s[k]
  BY <1>1
<1>3. ASSUME NEW k \in DOMAIN s \ {i} PROVE \E j \in DOMAIN t : t[j] = s[k]
  <2>1. CASE k < i
    <3>1. k \in DOMAIN t /\ t[k] = s[k]
      BY <1>1, <2>1
    <3> QED BY <3>1
  <2>2. CASE k > i
    <3>1. k - 1 \in DOMAIN t /\ t[k - 1] = s[k]
      BY <1>1, <2>2
    <3> QED BY <3>1
  <2> QED BY <1>1, <2>1, <2>2
<1> QED BY <1>1, <1>2, <1>3 DEF t

\* The server's answer to one of them
LEMMA ToldMembers ==
    ASSUME DialogTypes, NEW i \in DOMAIN answers, NEW v, Told(i, v)
    PROVE  /\ DOMAIN answers' = DOMAIN answers
           /\ AnsweredBy(answers[i], answers'[i], v)
           /\ \A j \in DOMAIN answers \ {i} : answers'[j] = answers[j]
           /\ \A j \in DOMAIN answers : answers'[j].ask = answers[j].ask
<1>1. IsSeq(answers) /\ AnswerOK(answers[i], drawn)
  BY VehicleNumbers
<1>2. answers' = [answers EXCEPT ![i].read = TRUE, ![i].vehicle = v]
  BY DEF Told
<1>3. LET t == [answers EXCEPT ![i].read = TRUE, ![i].vehicle = v]
      IN  /\ DOMAIN t = DOMAIN answers /\ AnsweredBy(answers[i], t[i], v)
          /\ \A j \in DOMAIN answers \ {i} : t[j] = answers[j]
  BY <1>1, ToldIs
<1> QED BY <1>2, <1>3 DEF AnsweredBy

LEMMA FreeShrinks ==
    ASSUME NEW t, NEW u, DOMAIN u \subseteq DOMAIN t,
           \A w \in DOMAIN u : \A x : Has(u[w].images, x) => Has(t[w].images, x),
           NEW s, NEW v, FreeIn(t, s, v)
    PROVE  FreeIn(u, s, v)
BY DEF FreeIn

LEMMA FreeAmong ==
    ASSUME NEW t, NEW s, NEW r, NEW v, FreeIn(t, s, v),
           \A i \in DOMAIN r : r[i].id \in Suggested \/ Has(s, r[i].id)
    PROVE  FreeIn(t, r, v)
BY DEF FreeIn, Has

LEMMA UnstoredAreFree ==
    ASSUME NEW s \in ShownImages, \A i \in DOMAIN s : ~s[i].stored, NEW t, NEW v
    PROVE  FreeIn(t, s, v)
<1>1. \A i \in DOMAIN s : s[i] \in ShownImage
  BY DEF ShownImages
<1> QED BY <1>1 DEF FreeIn, ShownImage

LEMMA AmongHas ==
    ASSUME NEW r, NEW s, Among(r, s)
    PROVE  \A i \in DOMAIN r : Has(s, r[i].id)
BY DEF Among, Has

\* Fewer images, or fewer vehicles
Shrinks(t, u) ==
    DOMAIN u \subseteq DOMAIN t /\ \A w \in DOMAIN u : \A x : Has(u[w].images, x) => Has(t[w].images, x)

LEMMA ShrinkingKeepsPlace ==
    ASSUME NEW t, NEW u, Shrinks(t, u), NEW m
    PROVE  /\ \A s, v : FreeIn(t, s, v) => FreeIn(u, s, v)
           /\ \A x : AnswerPlace(x, m, t) => AnswerPlace(x, m, u)
           /\ (\A v \in DOMAIN t : FreeIn(t, t[v].images, v)) => \A v \in DOMAIN u : FreeIn(u, u[v].images, v)
<1>1. ASSUME NEW s, NEW v, FreeIn(t, s, v) PROVE FreeIn(u, s, v)
  BY <1>1, FreeShrinks DEF Shrinks
<1>2. ASSUME NEW x, AnswerPlace(x, m, t) PROVE AnswerPlace(x, m, u)
  BY <1>1, <1>2 DEF AnswerPlace
<1>3. ASSUME \A v \in DOMAIN t : FreeIn(t, t[v].images, v), NEW v \in DOMAIN u
      PROVE  FreeIn(u, u[v].images, v)
  <2>1. \A i \in DOMAIN u[v].images : Has(t[v].images, u[v].images[i].id)
    BY DEF Shrinks, Has
  <2>2. FreeIn(t, u[v].images, v)
    BY <1>3, <2>1, FreeAmong DEF Shrinks
  <2> QED BY <1>1, <2>2
<1> QED BY <1>1, <1>2, <1>3

\* The server has fewer images or vehicles, and the client knows of nothing else.
LEMMA ShrinkingIsCalm ==
    ASSUME CalmStep, Shrinks(fleet, fleet'), UNCHANGED <<modal, job>>,
           \A j \in DOMAIN answers' : AnswerPlace(answers'[j], modal, fleet'),
           \A kinds : NoneAsks(answers, kinds) => NoneAsks(answers', kinds)
    PROVE  Calm'
<1>1. DialogPlace'
  BY DEF CalmStep, Calm, DialogPlace
<1>2. JobPlace'
  BY DEF CalmStep, Calm, JobPlace
<1>3. AnswersPlace'
  BY DEF AnswersPlace
<1>4. ImagesPlace'
  BY ShrinkingKeepsPlace DEF CalmStep, Calm, ImagesPlace
<1> QED BY <1>1, <1>2, <1>3, <1>4 DEF Calm

LEMMA ServingIsCalm ==
    ASSUME CalmStep, NEW i \in DOMAIN answers, Serving(i)
    PROVE  Calm'
<1>0. DialogTypes /\ Calm /\ \A j \in DOMAIN answers : AnswerPlace(answers[j], modal, fleet)
  BY DEF CalmStep, Calm, AnswersPlace
<1>1. CASE GetVehicle(i)
  <2> DEFINE w == fleet[answers[i].id]
  <2>1. Told(i, w) /\ answers[i].id \in DOMAIN fleet /\ UNCHANGED <<fleet, modal, job>>
    BY <1>1 DEF GetVehicle
  <2>2. FreeIn(fleet, w.images, answers[i].id)
    BY <1>0, <2>1 DEF Calm, ImagesPlace
  <2>3. /\ DOMAIN answers' = DOMAIN answers /\ AnsweredBy(answers[i], answers'[i], w)
        /\ \A j \in DOMAIN answers \ {i} : answers'[j] = answers[j]
        /\ \A j \in DOMAIN answers : answers'[j].ask = answers[j].ask
    BY <1>0, <2>1, ToldMembers
  <2> HIDE DEF w
  <2>4. AnswerPlace(answers'[i], modal, fleet)
    BY <1>0, <2>2, <2>3 DEF AnswerPlace, AnsweredBy
  <2>5. \A j \in DOMAIN answers' : AnswerPlace(answers'[j], modal, fleet')
    BY <1>0, <2>1, <2>3, <2>4
  <2>6. \A kinds : NoneAsks(answers, kinds) => NoneAsks(answers', kinds)
    BY <2>3 DEF NoneAsks
  <2>7. Shrinks(fleet, fleet')
    BY <2>1 DEF Shrinks
  <2> QED BY <2>1, <2>5, <2>6, <2>7, ShrinkingIsCalm
<1>2. CASE GetVehicles(i)
  <2>1. Told(i, ListRows(fleet)) /\ UNCHANGED <<fleet, modal, job>> /\ answers[i].ask = "list"
    BY <1>2 DEF GetVehicles, Asked
  <2>3. /\ DOMAIN answers' = DOMAIN answers /\ AnsweredBy(answers[i], answers'[i], ListRows(fleet))
        /\ \A j \in DOMAIN answers \ {i} : answers'[j] = answers[j]
        /\ \A j \in DOMAIN answers : answers'[j].ask = answers[j].ask
    BY <1>0, <2>1, ToldMembers
  <2>4. AnswerPlace(answers'[i], modal, fleet)
    BY <1>0, <2>1, <2>3 DEF AnswerPlace, AnsweredBy, DetailKinds, OpeningKinds
  <2>5. \A j \in DOMAIN answers' : AnswerPlace(answers'[j], modal, fleet')
    BY <1>0, <2>1, <2>3, <2>4
  <2>6. \A kinds : NoneAsks(answers, kinds) => NoneAsks(answers', kinds)
    BY <2>3 DEF NoneAsks
  <2>7. Shrinks(fleet, fleet')
    BY <2>1 DEF Shrinks
  <2> QED BY <2>1, <2>5, <2>6, <2>7, ShrinkingIsCalm
<1>3. CASE PutMark(i)
  <2> DEFINE id == answers[i].id
             w == WithForm(fleet[id], FormOf(answers[i].vehicle), <<>>)
  <2>1. /\ answers[i].ask = "mark" /\ id \in DOMAIN fleet /\ w.images = <<>>
        /\ fleet' = [fleet EXCEPT ![id] = w] /\ Told(i, w) /\ UNCHANGED <<modal, job>>
    BY <1>0, <1>3, MarkIsStored
  <2> HIDE DEF w
  <2>3. /\ DOMAIN answers' = DOMAIN answers /\ AnsweredBy(answers[i], answers'[i], w)
        /\ \A j \in DOMAIN answers \ {i} : answers'[j] = answers[j]
        /\ \A j \in DOMAIN answers : answers'[j].ask = answers[j].ask
    BY <1>0, <2>1, ToldMembers
  <2>4. AnswerPlace(answers'[i], modal, fleet)
    BY <1>0, <2>1, <2>3 DEF AnswerPlace, AnsweredBy, DetailKinds, OpeningKinds
  <2>7. Shrinks(fleet, fleet')
    BY <2>1 DEF Shrinks, Has
  <2>5. \A j \in DOMAIN answers' : AnswerPlace(answers'[j], modal, fleet')
    <3>1. \A x : AnswerPlace(x, modal, fleet) => AnswerPlace(x, modal, fleet')
      BY <2>7, ShrinkingKeepsPlace
    <3> QED BY <1>0, <2>3, <2>4, <3>1
  <2>6. \A kinds : NoneAsks(answers, kinds) => NoneAsks(answers', kinds)
    BY <2>3 DEF NoneAsks
  <2> QED BY <2>1, <2>5, <2>6, <2>7, ShrinkingIsCalm
<1>4. CASE DeleteVehicle(i)
  <2>1. /\ Told(i, <<>>) /\ UNCHANGED <<modal, job>> /\ answers[i].ask = "delete"
        /\ fleet' = [v \in DOMAIN fleet \ {answers[i].id} |-> fleet[v]]
    BY <1>4 DEF DeleteVehicle, Asked
  <2>3. /\ DOMAIN answers' = DOMAIN answers /\ AnsweredBy(answers[i], answers'[i], <<>>)
        /\ \A j \in DOMAIN answers \ {i} : answers'[j] = answers[j]
        /\ \A j \in DOMAIN answers : answers'[j].ask = answers[j].ask
    BY <1>0, <2>1, ToldMembers
  <2>4. AnswerPlace(answers'[i], modal, fleet)
    BY <1>0, <2>1, <2>3 DEF AnswerPlace, AnsweredBy, DetailKinds, OpeningKinds
  <2>7. Shrinks(fleet, fleet')
    BY <2>1 DEF Shrinks
  <2>5. \A j \in DOMAIN answers' : AnswerPlace(answers'[j], modal, fleet')
    <3>1. \A x : AnswerPlace(x, modal, fleet) => AnswerPlace(x, modal, fleet')
      BY <2>7, ShrinkingKeepsPlace
    <3> QED BY <1>0, <2>3, <2>4, <3>1
  <2>6. \A kinds : NoneAsks(answers, kinds) => NoneAsks(answers', kinds)
    BY <2>3 DEF NoneAsks
  <2> QED BY <2>1, <2>5, <2>6, <2>7, ShrinkingIsCalm
<1> QED BY <1>1, <1>2, <1>3, <1>4 DEF Serving

\* The client asks for more.
LEMMA AsksIsCalm ==
    ASSUME CalmStep, NEW x, answers' = Append(answers, x), UNCHANGED <<fleet, modal, job>>,
           job = NotSaving, ~x.read \/ x.ask \notin DetailKinds, x.ask # "refresh",
           x.ask \in {"mark", "delete"} => ~x.shown
    PROVE  Calm'
<1>1. /\ \A i \in DOMAIN answers' : answers'[i] = x \/ \E j \in DOMAIN answers : answers'[i] = answers[j]
  BY AppendMembers DEF CalmStep, DialogTypes, AnswersOK
<1>2. AnswerPlace(x, modal, fleet)
  BY DEF AnswerPlace
<1>3. AnswersPlace'
  BY <1>1, <1>2 DEF CalmStep, Calm, AnswersPlace
<1>4. DialogPlace' /\ ImagesPlace' /\ JobPlace'
  BY DEF CalmStep, Calm, DialogPlace, ImagesPlace, JobPlace, NotSaving
<1> QED BY <1>3, <1>4 DEF Calm

\* A dialog that is closed shows no vehicle.
LEMMA ClosedDialog ==
    ASSUME DialogTypes, Calm, ~modal.open
    PROVE  /\ modal = Closed /\ modal.id = NoId /\ job = NotSaving
           /\ \A i \in DOMAIN answers : answers[i].ask # "refresh"
           /\ \A v \in DOMAIN list : (modal.id = v) = FALSE
<1>1. modal = Closed /\ modal.id = NoId
  BY DEF Calm, DialogPlace, Closed
<1>2. job = NotSaving
  BY JobKinds DEF Calm, JobPlace, DialogTypes
<1>3. \A i \in DOMAIN answers : answers[i].ask # "refresh"
  BY DEF Calm, AnswersPlace, AnswerPlace
<1>4. \A v \in DOMAIN list : (modal.id = v) = FALSE
  BY <1>1, VehicleNumbers DEF NoId
<1> QED BY <1>1, <1>2, <1>3, <1>4

\* The list asks, or the dialog for what it shows.
LEMMA PanelIsCalm ==
    ASSUME CalmStep, InventoryPanel \/ ReadOnlyView \/ CloseModal
    PROVE  Calm'
<1>0. DialogTypes /\ Calm /\ Patient
  BY DEF CalmStep
<1>1. CASE Reload
  <2>1. answers' = Append(answers, Load) /\ UNCHANGED <<fleet, modal, job>>
    BY <1>1 DEF Reload
  <2>2. \A i \in DOMAIN answers' : answers'[i] = Load \/ \E j \in DOMAIN answers : answers'[i] = answers[j]
    BY <1>0, <2>1, AppendMembers DEF DialogTypes, AnswersOK
  <2>3. AnswerPlace(Load, modal, fleet) /\ Load.ask = "list"
    BY DEF AnswerPlace, Load, DetailKinds, OpeningKinds
  <2>4. AnswersPlace'
    BY <1>0, <2>1, <2>2, <2>3 DEF Calm, AnswersPlace
  <2>5. \A kinds : "list" \notin kinds /\ NoneAsks(answers, kinds) => NoneAsks(answers', kinds)
    BY <2>2, <2>3 DEF NoneAsks
  <2>6. JobPlace'
    BY <1>0, <2>1, <2>5 DEF Calm, JobPlace, OpeningKinds
  <2>7. DialogPlace' /\ ImagesPlace'
    BY <1>0, <2>1 DEF Calm, DialogPlace, ImagesPlace
  <2> QED BY <2>4, <2>6, <2>7 DEF Calm
<1>2. CASE OpenCreate
  <2>1. modal = Closed /\ job = NotSaving /\ \A i \in DOMAIN answers : answers[i].ask # "refresh"
    BY <1>0, <1>2, ClosedDialog DEF OpenCreate
  <2>2. modal' = [Closed EXCEPT !.open = TRUE] /\ UNCHANGED <<fleet, list, job, answers>>
    BY <1>2 DEF OpenCreate
  <2>3. modal'.open /\ modal'.mode = "create" /\ modal'.id = NoId /\ modal'.pending = <<>>
    BY <2>2 DEF Closed
  <2>4. DialogPlace' /\ JobPlace'
    BY <2>1, <2>2, <2>3 DEF DialogPlace, JobPlace, NotSaving
  <2>5. AnswersPlace'
    BY <1>0, <2>1, <2>2 DEF Calm, AnswersPlace, AnswerPlace
  <2>6. ImagesPlace'
    BY <1>0, <2>1, <2>2, <2>3 DEF Calm, ImagesPlace, NotSaving, FreeIn
  <2> QED BY <2>4, <2>5, <2>6 DEF Calm
<1>3. ASSUME NEW v \in DOMAIN list, NEW kind \in {"view", "edit", "qr"}, OpenVehicle(v, kind)
      PROVE  Calm'
  <2>1. job = NotSaving
    BY <1>0, <1>3, ClosedDialog DEF OpenVehicle
  <2>2. Ask(kind, v).ask = kind /\ ~Ask(kind, v).read
    BY DEF Ask
  <2> QED BY <1>3, <2>1, <2>2, AsksIsCalm DEF OpenVehicle
<1>4. ASSUME NEW v \in DOMAIN list, UpdateVehicleExhibitionFlag(v)
      PROVE  Calm'
  <2>1. job = NotSaving /\ (modal.id = v) = FALSE
    BY <1>0, <1>4, ClosedDialog DEF UpdateVehicleExhibitionFlag
  <2>2. answers' = Append(answers, MarkOf(v)) /\ UNCHANGED <<fleet, modal, job>>
    BY <1>4 DEF UpdateVehicleExhibitionFlag, MarkOf
  <2>3. MarkOf(v).ask = "mark" /\ ~MarkOf(v).shown
    BY <1>0, <2>1, VehicleNumbers, MarkFits
  <2> QED BY <2>1, <2>2, <2>3, AsksIsCalm DEF DetailKinds, OpeningKinds
<1>5. ASSUME NEW v \in DOMAIN list, ConfirmDelete(v)
      PROVE  Calm'
  <2>1. job = NotSaving /\ (modal.id = v) = FALSE
    BY <1>0, <1>5, ClosedDialog DEF ConfirmDelete
  <2>2. answers' = Append(answers, Ask("delete", v)) /\ UNCHANGED <<fleet, modal, job>>
    BY <1>5 DEF ConfirmDelete
  <2>3. Ask("delete", v).ask = "delete" /\ ~Ask("delete", v).shown /\ ~Ask("delete", v).read
    BY <2>1 DEF Ask
  <2> QED BY <2>1, <2>2, <2>3, AsksIsCalm
<1>6. CASE ReadOnlyView
  <2>1. job = NotSaving
    BY <1>0, <1>6, JobKinds DEF ReadOnlyView, Readonly, Calm, JobPlace, DialogTypes
  <2>2. Ask("edit", modal.id).ask = "edit" /\ ~Ask("edit", modal.id).read
    BY DEF Ask
  <2> QED BY <1>6, <2>1, <2>2, AsksIsCalm DEF ReadOnlyView
<1>7. CASE CloseModal
  <2>1. modal' = Closed /\ modal.open /\ UNCHANGED <<fleet, list, job, answers>>
    BY <1>7 DEF CloseModal
  <2>2. ~modal'.open /\ modal'.id = NoId /\ modal'.pending = <<>>
    BY <2>1 DEF Closed
  <2>3. ~UnderWay
    BY <1>0, <2>1, <2>2 DEF Patient
  <2>4. job.at = "none" /\ \A i \in DOMAIN answers : answers[i].ask # "refresh"
    BY <2>3 DEF UnderWay
  <2>5. DialogPlace' /\ JobPlace'
    BY <2>1, <2>2, <2>4 DEF DialogPlace, JobPlace
  <2>6. AnswersPlace'
    BY <1>0, <2>1, <2>4 DEF Calm, AnswersPlace, AnswerPlace
  <2>7. ImagesPlace'
    BY <1>0, <2>1, <2>2, <2>4 DEF Calm, ImagesPlace, FreeIn
  <2> QED BY <2>5, <2>6, <2>7 DEF Calm
<1> QED BY <1>1, <1>2, <1>3, <1>4, <1>5, <1>6, <1>7 DEF InventoryPanel

\* The user changes what the dialog shows of its vehicle.
LEMMA FormIsCalm ==
    ASSUME CalmStep, FormStep
    PROVE  Calm'
<1>0. DialogTypes /\ DialogTypes' /\ Calm /\ Reworked
  BY FormStepTypes DEF CalmStep
<1>1. \A i \in DOMAIN modal'.pending :
        \/ modal'.pending[i].id \in Suggested /\ ~modal'.pending[i].stored
        \/ \E j \in DOMAIN modal.pending : /\ modal'.pending[i].id = modal.pending[j].id
                                           /\ modal'.pending[i].stored = modal.pending[j].stored
  BY <1>0, TextIsTyped, ImageIsAdded, PrimaryIsSet, ImagesMove, ImageIsForgotten DEF FormStep, Among
<1>2. DialogPlace'
  BY <1>0, <1>1 DEF Calm, DialogPlace, Reworked
<1>3. JobPlace'
  BY <1>0 DEF Calm, JobPlace, Reworked
<1>4. AnswersPlace'
  BY <1>0 DEF Calm, AnswersPlace, AnswerPlace, Reworked
<1>5. ImagesPlace'
  <2>1. FreeIn(fleet, modal'.pending, modal.id)
    <3>1. \A i \in DOMAIN modal'.pending :
            modal'.pending[i].id \in Suggested \/ Has(modal.pending, modal'.pending[i].id)
      BY <1>1 DEF Has
    <3>2. FreeIn(fleet, modal.pending, modal.id)
      BY <1>0 DEF Calm, ImagesPlace
    <3> QED BY <3>1, <3>2, FreeAmong
  <2> QED BY <1>0, <2>1 DEF Calm, ImagesPlace, Reworked
<1> QED BY <1>2, <1>3, <1>4, <1>5 DEF Calm

\* A save or a loop begins: for the vehicle of the dialog, when none is being opened.
LEMMA BeginIsCalm ==
    ASSUME CalmStep, Submit \/ SomeLoop
    PROVE  Calm'
<1>0. DialogTypes /\ Calm /\ Patient
  BY DEF CalmStep
<1>1. /\ edits' # edits /\ modal.open /\ modal.mode # "view" /\ job = NotSaving
      /\ UNCHANGED <<fleet, modal, answers>>
      /\ \/ /\ job'.at = "submit" /\ job'.mode = modal.mode /\ job'.images = modal.pending
            /\ job'.id = IF modal.mode = "edit" THEN modal.id ELSE NoId
         \/ job'.at = "loop" /\ job'.id = modal.id
  <2>1. CASE Submit
    BY <1>0, <2>1, SubmitBegins DEF SubmitStarts, Readonly
  <2>2. CASE SomeLoop
    <3>1. PICK todo \in Seq(Todos) : Loop(todo)
      BY <2>2 DEF SomeLoop
    <3>2. LoopStarts(todo)
      BY <1>0, <3>1, RequestsBegin
    <3> QED BY <3>2 DEF LoopStarts, Readonly
  <2> QED BY <2>1, <2>2
<1>2. NoneAsks(answers, OpeningKinds)
  BY <1>0, <1>1 DEF Patient, Opening, NoneAsks, OpeningKinds
<1>3. job'.at = "submit" => NoneAsks(answers, {"refresh"})
  BY <1>0, <1>1 DEF Patient, UnderWay, NoneAsks, NotSaving
<1>4. modal.mode \in Modes /\ (modal.mode = "create" <=> modal.id = NoId)
  BY <1>0, <1>1, VehicleNumbers DEF Calm, DialogPlace, Dialogs
<1>5. job'.at = "submit" => job'.id = modal.id
  BY <1>1, <1>4 DEF Modes
<1>6. JobPlace'
  <2>1. job'.at = "submit" => (job'.id = NoId => \A i \in DOMAIN job'.images : ~job'.images[i].stored)
    BY <1>0, <1>1, <1>5 DEF Calm, DialogPlace
  <2> QED BY <1>1, <1>2, <1>3, <1>5, <2>1 DEF JobPlace
<1>7. DialogPlace' /\ AnswersPlace'
  BY <1>0, <1>1 DEF Calm, DialogPlace, AnswersPlace
<1>8. ImagesPlace'
  BY <1>0, <1>1, <1>5 DEF Calm, ImagesPlace
<1> QED BY <1>6, <1>7, <1>8 DEF Calm

\* One vehicle, known or new, gets images that no other has.
LEMMA OneChanges ==
    ASSUME NEW t, NEW u, NEW id \in DOMAIN u,
           \A w \in DOMAIN u \ {id} : w \in DOMAIN t /\ u[w] = t[w],
           FreeIn(t, u[id].images, id)
    PROVE  /\ \A s : FreeIn(t, s, id) => FreeIn(u, s, id)
           /\ (\A v \in DOMAIN t : FreeIn(t, t[v].images, v)) => \A v \in DOMAIN u : FreeIn(u, u[v].images, v)
<1>1. ASSUME NEW s, FreeIn(t, s, id) PROVE FreeIn(u, s, id)
  BY <1>1 DEF FreeIn
<1>2. ASSUME \A v \in DOMAIN t : FreeIn(t, t[v].images, v), NEW v \in DOMAIN u, v # id
      PROVE  FreeIn(u, u[v].images, v)
  <2> SUFFICES ASSUME NEW i \in DOMAIN u[v].images, u[v].images[i].id \notin Suggested,
                      NEW w \in DOMAIN u \ {v}, Has(u[w].images, u[v].images[i].id)
               PROVE  FALSE
    BY DEF FreeIn
  <2>1. v \in DOMAIN t /\ u[v] = t[v]
    BY <1>2
  <2>2. CASE w = id
    <3>1. PICK j \in DOMAIN u[id].images : u[id].images[j].id = u[v].images[i].id
      BY <2>2 DEF Has
    <3>2. ~Has(t[v].images, u[id].images[j].id)
      BY <1>2, <2>1, <3>1 DEF FreeIn
    <3> QED BY <2>1, <3>1, <3>2 DEF Has
  <2>3. CASE w # id
    <3>1. w \in DOMAIN t \ {v} /\ u[w] = t[w]
      BY <2>3
    <3>2. FreeIn(t, t[v].images, v)
      BY <1>2, <2>1
    <3> QED BY <2>1, <3>1, <3>2 DEF FreeIn
  <2> QED BY <2>2, <2>3
<1> QED BY <1>1, <1>2

LEMMA SavedAreSent ==
    ASSUME DialogTypes, job.at = "submit"
    PROVE  /\ DOMAIN Saved(job.images) = {i \in DOMAIN job.images : i <= MaxImages}
           /\ \A i \in DOMAIN Saved(job.images) : Saved(job.images)[i].id = job.images[i].id
           /\ job.images \in ShownImages /\ \A i \in DOMAIN job.images : job.images[i] \in ShownImage
<1>1. job.images \in ShownImages
  BY JobKinds DEF DialogTypes
<1>2. job.images \in Seq(ShownImage)
  BY <1>1 DEF ShownImages
<1>3. \A i \in DOMAIN job.images : job.images[i] \in ShownImage
  BY <1>2
<1>4. /\ DOMAIN Saved(job.images) = {i \in DOMAIN job.images : i <= MaxImages}
      /\ \A i \in DOMAIN Saved(job.images) : Saved(job.images)[i].id = job.images[i].id
  BY <1>2, SavedKeeps
<1> QED BY <1>1, <1>3, <1>4

\* The server saves what was sent.
LEMMA SavedIsCalm ==
    ASSUME CalmStep, SubmitCreates \/ SubmitChanges
    PROVE  Calm'
<1>0. DialogTypes /\ Calm /\ job.at = "submit"
  BY DEF CalmStep, SubmitCreates, SubmitChanges
<1>1. PICK id, w : /\ SaveHandled(id, w)
                   /\ \/ id = drawn + 1 /\ job.id = NoId
                      \/ id = job.id /\ id \in DOMAIN fleet
  BY <1>0, CreateIsHandled, ChangeIsHandled DEF SubmitCreates
<1>2. /\ modal.open /\ modal.mode # "view" /\ NoneAsks(answers, DetailKinds) /\ job.id = modal.id
      /\ job.mode = modal.mode
      /\ job.id = NoId => \A i \in DOMAIN job.images : ~job.images[i].stored
  BY <1>0 DEF Calm, JobPlace, NoneAsks, DetailKinds
<1>3. FreeIn(fleet, w.images, id)
  <2>1. w.images = Saved(job.images)
    BY <1>1 DEF SaveHandled
  <2>2. CASE id = job.id
    <3>1. FreeIn(fleet, job.images, id)
      BY <1>0, <2>2 DEF Calm, ImagesPlace
    <3>2. \A i \in DOMAIN w.images : Has(job.images, w.images[i].id)
      BY <1>0, <2>1, SavedAreSent DEF Has
    <3> QED BY <3>1, <3>2, FreeAmong
  <2>3. CASE job.id = NoId
    <3>1. \A i \in DOMAIN w.images : w.images[i].id \in Suggested
      BY <1>0, <1>2, <2>1, <2>3, SavedAreSent DEF ShownImage
    <3> QED BY <3>1 DEF FreeIn
  <2> QED BY <1>1, <2>2, <2>3
<1>4. /\ id \in DOMAIN fleet' /\ fleet'[id] = w
      /\ \A v \in DOMAIN fleet' \ {id} : v \in DOMAIN fleet /\ fleet'[v] = fleet[v]
  BY <1>1 DEF SaveHandled
<1>5. /\ \A s : FreeIn(fleet, s, id) => FreeIn(fleet', s, id)
      /\ \A v \in DOMAIN fleet' : FreeIn(fleet', fleet'[v].images, v)
  BY <1>0, <1>3, <1>4, OneChanges DEF Calm, ImagesPlace
<1>6. UNCHANGED <<modal, answers>>
      /\ (job' = NotSaving \/ (job'.at = "answer" /\ job'.id = id /\ job'.mode = job.mode /\ job'.vehicle = w))
  BY <1>1 DEF SaveHandled
<1>7. DialogPlace'
  BY <1>0, <1>6 DEF Calm, DialogPlace
<1>8. JobPlace'
  <2>1. modal.mode # "create" => id = modal.id
    BY <1>0, <1>1, <1>2 DEF Calm, DialogPlace
  <2> QED BY <1>2, <1>6, <2>1 DEF JobPlace, NotSaving, NoneAsks, DetailKinds
<1>9. AnswersPlace'
  BY <1>0, <1>2, <1>6 DEF Calm, AnswersPlace, AnswerPlace, NoneAsks, DetailKinds
<1>10. ImagesPlace'
  <2>1. FreeIn(fleet', modal.pending, modal.id)
    <3>1. CASE id = modal.id
      BY <1>0, <1>5, <3>1 DEF Calm, ImagesPlace
    <3>2. CASE modal.id = NoId
      BY <1>0, <3>2, UnstoredAreFree, PendingImages DEF Calm, DialogPlace
    <3> QED BY <1>1, <1>2, <3>1, <3>2
  <2>2. FreeIn(fleet', w.images, id)
    BY <1>3, <1>5
  <2> QED BY <1>5, <1>6, <2>1, <2>2 DEF ImagesPlace, NotSaving
<1> QED BY <1>7, <1>8, <1>9, <1>10 DEF Calm

\* A request of a loop changed its vehicle, which is the one of the dialog.
LEMMA LoopIsCalm ==
    ASSUME CalmStep, NEW w, LoopHandled(w), FreeIn(fleet, w.images, job.id),
           modal' = modal \/ \E s : ShowsImages(s) /\ FreeIn(fleet, s, modal.id)
    PROVE  Calm'
<1>0. /\ DialogTypes /\ Calm /\ job.at = "loop" /\ job.id \in DOMAIN fleet
      /\ fleet' = [fleet EXCEPT ![job.id] = w] /\ UNCHANGED answers
      /\ job' = NotSaving \/ (job'.at = "loop" /\ job'.id = job.id)
  BY DEF CalmStep, LoopHandled
<1>1. modal.open /\ modal.mode # "view" /\ NoneAsks(answers, OpeningKinds) /\ job.id = modal.id /\ job.id # NoId
  BY <1>0, VehicleNumbers DEF Calm, JobPlace, NoId
<1>2. modal'.open = modal.open /\ modal'.mode = modal.mode /\ modal'.id = modal.id
      /\ FreeIn(fleet, modal'.pending, modal.id)
  BY <1>0 DEF ShowsImages, Calm, ImagesPlace
<1>3. /\ \A s : FreeIn(fleet, s, job.id) => FreeIn(fleet', s, job.id)
      /\ \A v \in DOMAIN fleet' : FreeIn(fleet', fleet'[v].images, v)
  <2>1. job.id \in DOMAIN fleet' /\ fleet'[job.id] = w
        /\ \A v \in DOMAIN fleet' \ {job.id} : v \in DOMAIN fleet /\ fleet'[v] = fleet[v]
    BY <1>0
  <2>2. FreeIn(fleet, fleet'[job.id].images, job.id)
    BY <2>1
  <2>3. \A v \in DOMAIN fleet : FreeIn(fleet, fleet[v].images, v)
    BY <1>0 DEF Calm, ImagesPlace
  <2> QED BY <2>1, <2>2, <2>3, OneChanges
<1>4. DialogPlace'
  BY <1>0, <1>1, <1>2 DEF Calm, DialogPlace
<1>5. JobPlace'
  BY <1>0, <1>1, <1>2 DEF JobPlace, NotSaving
<1>6. AnswersPlace'
  BY <1>0, <1>1, <1>2, <1>3 DEF Calm, AnswersPlace, AnswerPlace, NoneAsks, DetailKinds
<1>7. ImagesPlace'
  <2>1. FreeIn(fleet', modal'.pending, modal'.id)
    BY <1>1, <1>2, <1>3
  <2>2. job'.at \notin {"submit", "answer"}
    BY <1>0 DEF NotSaving
  <2> QED BY <1>3, <2>1, <2>2 DEF ImagesPlace
<1> QED BY <1>4, <1>5, <1>6, <1>7 DEF Calm

LEMMA LoopsAreCalm ==
    ASSUME CalmStep, UploadNext \/ DropImageNext \/ PartNext
    PROVE  Calm'
<1>0. DialogTypes /\ Calm
  BY DEF CalmStep
<1>1. job.at = "loop" /\ job.id \in DOMAIN fleet /\ job.id = modal.id
  BY <1>0 DEF UploadNext, DropImageNext, PartNext, NextRequest, Calm, JobPlace
<1>2. FreeIn(fleet, fleet[job.id].images, job.id) /\ FreeIn(fleet, modal.pending, modal.id)
  BY <1>0, <1>1 DEF Calm, ImagesPlace
<1>3. CASE UploadNext
  <2>1. PICK id, w :
                /\ id \in ImageIds \ Suggested
                /\ \A v \in DOMAIN fleet : ~Has(fleet[v].images, id)
                /\ LoopHandled(w) /\ w.parts = fleet[job.id].parts
                /\ \A i \in DOMAIN w.images : w.images[i].id = id \/ Has(fleet[job.id].images, w.images[i].id)
                /\ \/ modal' = modal
                   \/ \E s : /\ job'.at = "loop" /\ ShowsImages(s)
                             /\ \A i \in DOMAIN s : \/ s[i].id = id /\ s[i].stored
                                                    \/ \E j \in DOMAIN modal.pending :
                                                         /\ s[i].id = modal.pending[j].id
                                                         /\ s[i].stored = modal.pending[j].stored
    BY <1>0, <1>3, UploadIsHandled
  <2>2. FreeIn(fleet, w.images, job.id)
    BY <1>2, <2>1 DEF FreeIn, Has
  <2>3. ASSUME NEW s, \A i \in DOMAIN s : s[i].id = id \/ \E j \in DOMAIN modal.pending : s[i].id = modal.pending[j].id
        PROVE  FreeIn(fleet, s, modal.id)
    BY <1>2, <2>1, <2>3 DEF FreeIn
  <2>4. modal' = modal \/ \E s : ShowsImages(s) /\ FreeIn(fleet, s, modal.id)
    BY <2>1, <2>3
  <2> QED BY <2>1, <2>2, <2>4, LoopIsCalm
<1>4. CASE DropImageNext
  <2>1. PICK w :
          /\ LoopHandled(w) /\ w.parts = fleet[job.id].parts
          /\ \A i \in DOMAIN w.images : Has(fleet[job.id].images, w.images[i].id)
          /\ \/ modal' = modal
             \/ \E s : job'.at = "loop" /\ ShowsImages(s) /\ Among(s, modal.pending)
    BY <1>0, <1>4, DropImageIsHandled
  <2>2. FreeIn(fleet, w.images, job.id)
    BY <1>2, <2>1, FreeAmong
  <2>3. modal' = modal \/ \E s : ShowsImages(s) /\ FreeIn(fleet, s, modal.id)
    BY <1>2, <2>1, FreeAmong, AmongHas
  <2> QED BY <2>1, <2>2, <2>3, LoopIsCalm
<1>5. CASE PartNext
  <2>1. PICK w : LoopHandled(w) /\ w.images = fleet[job.id].images
    BY <1>0, <1>5, PartIsHandled
  <2>2. modal' = modal /\ FreeIn(fleet, w.images, job.id)
    BY <1>0, <1>2, <1>5, <2>1, PartIsHandled
  <2> QED BY <2>1, <2>2, LoopIsCalm
<1> QED BY <1>3, <1>4, <1>5

\* Another list is asked for.
LEMMA LoadAppended ==
    ASSUME NEW s, IsSeq(s), NEW m, NEW t, \A i \in DOMAIN s : AnswerPlace(s[i], m, t)
    PROVE  /\ \A i \in DOMAIN Append(s, Load) : AnswerPlace(Append(s, Load)[i], m, t)
           /\ \A kinds : "list" \notin kinds /\ NoneAsks(s, kinds) => NoneAsks(Append(s, Load), kinds)
<1> DEFINE u == Append(s, Load)
<1>1. \A i \in DOMAIN u : u[i] = Load \/ \E j \in DOMAIN s : u[i] = s[j]
  BY AppendMembers
<1> HIDE DEF u
<1>2. AnswerPlace(Load, m, t) /\ Load.ask = "list"
  BY DEF AnswerPlace, Load, DetailKinds, OpeningKinds
<1>3. \A i \in DOMAIN u : AnswerPlace(u[i], m, t)
  BY <1>1, <1>2
<1>4. \A kinds : "list" \notin kinds /\ NoneAsks(s, kinds) => NoneAsks(u, kinds)
  BY <1>1, <1>2 DEF NoneAsks
<1> QED BY <1>3, <1>4 DEF u

LEMMA JobEndIsCalm ==
    ASSUME CalmStep, SubmitAnswered \/ LoopDone \/ JobFails
    PROVE  Calm'
<1>0. DialogTypes /\ Calm /\ IsSeq(answers) /\ \A i \in DOMAIN answers : AnswerPlace(answers[i], modal, fleet)
  BY DEF CalmStep, DialogTypes, AnswersOK, Calm, AnswersPlace
<1>1. CASE SubmitAnswered
  <2>1. /\ job.at = "answer" /\ job' = NotSaving /\ answers' = Append(answers, Load)
        /\ UNCHANGED <<fleet, list>>
        /\ modal' = IF job.mode = "create" THEN Closed ELSE [Detail(job.vehicle, job.id) EXCEPT !.mode = "view"]
    BY <1>1 DEF SubmitAnswered
  <2>2. /\ modal.open /\ job.mode = modal.mode /\ NoneAsks(answers, {"refresh"})
        /\ modal.mode # "create" => job.id = modal.id
    BY <1>0, <2>1 DEF Calm, JobPlace
  <2>3. job.vehicle \in Vehicle /\ job.id \in 1 .. drawn /\ job.id \in 0 .. drawn
    BY <1>0, <2>1, JobKinds, VehicleNumbers DEF DialogTypes
  <2>4. FreeIn(fleet, job.vehicle.images, job.id)
    BY <1>0, <2>1 DEF Calm, ImagesPlace
  <2>5. \/ modal' = Closed
        \/ /\ modal'.open /\ modal'.mode = "view" /\ modal'.id = job.id
           /\ modal'.pending = job.vehicle.images
    <3> DEFINE d == Detail(job.vehicle, job.id)
    <3>1. d \in Dialogs(drawn) /\ d.open = modal.open /\ d.id = job.id /\ d.pending = job.vehicle.images
      BY <1>0, <2>3, DetailFits
    <3>2. modal' = Closed \/ modal' = [d EXCEPT !.mode = "view"]
      BY <2>1
    <3> HIDE DEF d
    <3> QED BY <2>2, <3>1, <3>2 DEF Dialogs
  <2>6. DialogPlace'
    BY <2>3, <2>5 DEF DialogPlace, Closed, NoId
  <2>7. JobPlace'
    BY <2>1 DEF JobPlace, NotSaving
  <2>8. AnswersPlace'
    <3>1. \A i \in DOMAIN answers : AnswerPlace(answers[i], modal', fleet)
      BY <1>0, <2>2 DEF AnswerPlace, NoneAsks
    <3> QED BY <1>0, <2>1, <3>1, LoadAppended DEF AnswersPlace
  <2>9. ImagesPlace'
    <3>1. FreeIn(fleet, modal'.pending, modal'.id)
      BY <2>4, <2>5 DEF Closed, FreeIn
    <3> QED BY <1>0, <2>1, <3>1 DEF Calm, ImagesPlace, NotSaving
  <2> QED BY <2>6, <2>7, <2>8, <2>9 DEF Calm
<1>2. CASE LoopDone
  <2> DEFINE x == Ask("refresh", job.id)
  <2>1. /\ job.at = "loop" /\ job' = NotSaving /\ answers' = Append(answers, x)
        /\ UNCHANGED <<fleet, list, modal>>
    BY <1>2 DEF LoopDone
  <2>2. modal.open /\ job.id = modal.id
    BY <1>0, <2>1 DEF Calm, JobPlace
  <2>3. AnswerPlace(x, modal, fleet)
    BY <2>2 DEF Ask, AnswerPlace
  <2> HIDE DEF x
  <2>4. AnswersPlace'
    BY <1>0, <2>1, <2>3, AppendMembers DEF AnswersPlace
  <2>5. DialogPlace' /\ JobPlace' /\ ImagesPlace'
    BY <1>0, <2>1 DEF Calm, DialogPlace, JobPlace, ImagesPlace, NotSaving
  <2> QED BY <2>4, <2>5 DEF Calm
<1>3. CASE JobFails
  BY <1>0, <1>3 DEF JobFails, Calm, DialogPlace, JobPlace, ImagesPlace, AnswersPlace, NotSaving
<1> QED BY <1>1, <1>2, <1>3

\* An answer comes, or is lost.
LEMMA ShowingIsCalm ==
    ASSUME CalmStep, NEW i \in DOMAIN answers, Showing(i) \/ AnswerLost(i)
    PROVE  Calm'
<1>0. /\ DialogTypes /\ Calm /\ Patient /\ IsSeq(answers)
      /\ \A j \in DOMAIN answers : AnswerPlace(answers[j], modal, fleet)
  BY DEF CalmStep, DialogTypes, AnswersOK, Calm, AnswersPlace
<1>1. /\ IsSeq(Rid(i))
      /\ \A m : (\A k \in DOMAIN answers \ {i} : AnswerPlace(answers[k], m, fleet)) =>
                  \A j \in DOMAIN Rid(i) : AnswerPlace(Rid(i)[j], m, fleet)
      /\ \A kinds : NoneAsks(answers, kinds) => NoneAsks(Rid(i), kinds)
  <2> DEFINE t == RemoveAt(answers, i)
  <2>1. IsSeq(t) /\ \A j \in DOMAIN t : \E k \in DOMAIN answers : k # i /\ t[j] = answers[k]
    BY <1>0, RemoveMembers
  <2> HIDE DEF t
  <2>2. ASSUME NEW m, \A k \in DOMAIN answers \ {i} : AnswerPlace(answers[k], m, fleet)
        PROVE  \A j \in DOMAIN t : AnswerPlace(t[j], m, fleet)
    BY <2>1, <2>2
  <2>3. \A kinds : NoneAsks(answers, kinds) => NoneAsks(t, kinds)
    BY <2>1 DEF NoneAsks
  <2> QED BY <2>1, <2>2, <2>3 DEF Rid, t
<1>2. \A m : (\A k \in DOMAIN answers \ {i} : AnswerPlace(answers[k], m, fleet)) =>
         \A j \in DOMAIN Append(Rid(i), Load) : AnswerPlace(Append(Rid(i), Load)[j], m, fleet)
  <2> SUFFICES ASSUME NEW m, \A k \in DOMAIN answers \ {i} : AnswerPlace(answers[k], m, fleet)
               PROVE  \A j \in DOMAIN Append(Rid(i), Load) : AnswerPlace(Append(Rid(i), Load)[j], m, fleet)
    OBVIOUS
  <2> QED BY <1>1, LoadAppended
<1>3. /\ NoneAsks(answers, OpeningKinds) => /\ NoneAsks(Rid(i), OpeningKinds)
                                            /\ NoneAsks(Append(Rid(i), Load), OpeningKinds)
      /\ NoneAsks(answers, {"refresh"}) => /\ NoneAsks(Rid(i), {"refresh"})
                                           /\ NoneAsks(Append(Rid(i), Load), {"refresh"})
  <2>1. \A j \in DOMAIN Append(Rid(i), Load) :
          Append(Rid(i), Load)[j] = Load \/ \E k \in DOMAIN Rid(i) : Append(Rid(i), Load)[j] = Rid(i)[k]
    BY <1>1, AppendMembers
  <2>2. \A kinds : "list" \notin kinds /\ NoneAsks(Rid(i), kinds) => NoneAsks(Append(Rid(i), Load), kinds)
    BY <2>1 DEF NoneAsks, Load
  <2> QED BY <1>1, <2>2 DEF OpeningKinds
<1>4. CASE DetailShown(i)
  <2>1. /\ answers[i].ask \in OpeningKinds /\ answers[i].read /\ answers[i].vehicle \in Vehicle
        /\ answers[i].id \in 1 .. drawn
        /\ ShowsVehicle(answers[i].vehicle, answers[i].id)
        /\ modal'.open /\ modal'.mode # "create"
        /\ answers' = Rid(i) /\ UNCHANGED <<fleet, drawn, list, job, edits>>
    BY <1>0, <1>4, VehicleIsShown
  <2>2. job.at = "none"
    BY <1>0, <2>1 DEF Calm, JobPlace, NoneAsks
  <2>3. modal'.id = answers[i].id /\ modal'.id # NoId
    BY <1>0, <2>1, VehicleNumbers DEF ShowsVehicle, NoId
  <2>4. DialogPlace' /\ JobPlace'
    BY <2>1, <2>2, <2>3 DEF DialogPlace, JobPlace
  <2>5. AnswersPlace'
    <3>1. ASSUME NEW k \in DOMAIN answers, answers[k].ask = "refresh"
          PROVE  answers[k].id = modal'.id
      <4>1. UnderWay /\ modal.open /\ answers[k].id = modal.id
        BY <1>0, <3>1 DEF UnderWay, AnswerPlace
      <4> QED BY <1>0, <2>1, <4>1 DEF Patient
    <3>2. \A k \in DOMAIN answers : AnswerPlace(answers[k], modal', fleet)
      BY <1>0, <2>1, <3>1 DEF AnswerPlace
    <3> QED BY <1>1, <2>1, <3>2 DEF AnswersPlace
  <2>6. ImagesPlace'
    <3>1. FreeIn(fleet, answers[i].vehicle.images, answers[i].id)
      BY <1>0, <2>1 DEF AnswerPlace, DetailKinds
    <3> QED BY <1>0, <2>1, <2>2, <3>1 DEF Calm, ImagesPlace, ShowsVehicle
  <2> QED BY <2>4, <2>5, <2>6 DEF Calm
<1>5. CASE RefreshShown(i)
  <2>1. /\ answers[i].ask = "refresh" /\ answers[i].read /\ answers[i].vehicle \in Vehicle
        /\ answers[i].id \in 1 .. drawn
        /\ ShowsVehicle(answers[i].vehicle, answers[i].id)
        /\ modal'.open = modal.open /\ modal'.mode = modal.mode
        /\ answers' = Append(Rid(i), Load) /\ UNCHANGED <<fleet, drawn, list, job, edits>>
    BY <1>0, <1>5, RefreshIsShown
  <2>2. modal.open /\ modal'.id = modal.id /\ modal'.id # NoId
    BY <1>0, <2>1, VehicleNumbers DEF AnswerPlace, ShowsVehicle, NoId
  <2>3. DialogPlace'
    BY <1>0, <2>1, <2>2 DEF Calm, DialogPlace
  <2>4. JobPlace'
    BY <1>0, <1>3, <2>1, <2>2 DEF Calm, JobPlace
  <2>5. AnswersPlace'
    <3>1. \A k \in DOMAIN answers : AnswerPlace(answers[k], modal', fleet)
      BY <1>0, <2>1, <2>2 DEF AnswerPlace
    <3> QED BY <1>2, <2>1, <3>1 DEF AnswersPlace
  <2>6. ImagesPlace'
    <3>1. FreeIn(fleet, answers[i].vehicle.images, answers[i].id)
      BY <1>0, <2>1 DEF AnswerPlace, DetailKinds
    <3> QED BY <1>0, <2>1, <3>1 DEF Calm, ImagesPlace, ShowsVehicle
  <2> QED BY <2>3, <2>4, <2>5, <2>6 DEF Calm
<1>6. CASE ListShown(i) \/ MarkShown(i) \/ DeleteShown(i) \/ AnswerLost(i)
  <2>1. UNCHANGED <<fleet, modal, job>> /\ answers' \in {Rid(i), Append(Rid(i), Load)}
    BY <1>0, <1>6 DEF ListShown, MarkShown, DeleteShown, AnswerLost, Come, AnswerPlace
  <2>2. DialogPlace' /\ ImagesPlace'
    BY <1>0, <2>1 DEF Calm, DialogPlace, ImagesPlace
  <2>3. JobPlace'
    BY <1>0, <1>3, <2>1 DEF Calm, JobPlace
  <2>4. AnswersPlace'
    BY <1>0, <1>1, <1>2, <2>1 DEF AnswersPlace
  <2> QED BY <2>2, <2>3, <2>4 DEF Calm
<1> QED BY <1>4, <1>5, <1>6 DEF Showing

LEMMA OtherUserIsCalm ==
    ASSUME CalmStep, NEW v \in DOMAIN fleet, NEW t \in Texts, OtherUser(v, t)
    PROVE  Calm'
<1>1. /\ DialogTypes /\ Calm
      /\ DOMAIN fleet' = DOMAIN fleet
      /\ \A u \in DOMAIN fleet : fleet'[u].images = fleet[u].images
  BY OtherUserSaves DEF CalmStep
<1>2. UNCHANGED <<modal, job, answers>>
  BY DEF OtherUser
<1>3. Shrinks(fleet, fleet')
  BY <1>1 DEF Shrinks
<1>4. \A x : AnswerPlace(x, modal, fleet) => AnswerPlace(x, modal, fleet')
  BY <1>3, ShrinkingKeepsPlace
<1>5. \A j \in DOMAIN answers' : AnswerPlace(answers'[j], modal, fleet')
  BY <1>1, <1>2, <1>4 DEF Calm, AnswersPlace
<1> QED BY <1>2, <1>3, <1>5, ShrinkingIsCalm

LEMMA CalmIsKept ==
    ASSUME CalmStep, EditorNext
    PROVE  Calm'
<1>0. DialogTypes
  BY DEF CalmStep
<1>1. CASE \/ \E t \in Texts, d \in BOOLEAN : Update(t, d)
           \/ \E id \in Suggested : AddPendingImage(id)
           \/ UploadsTab \/ AttachmentsTab \/ MaintenanceTab \/ FunctionsTab \/ CVFilesTab
  BY <1>0, <1>1, TabsWork, FormIsCalm, BeginIsCalm
<1>2. CASE InventoryPanel \/ ReadOnlyView \/ CloseModal
  BY <1>2, PanelIsCalm
<1>3. CASE Submit \/ Saving
  BY <1>3, BeginIsCalm, SavedIsCalm, LoopsAreCalm, JobEndIsCalm DEF Saving
<1>4. CASE \E i \in DOMAIN answers : Serving(i) \/ Showing(i) \/ AnswerLost(i)
  BY <1>4, ServingIsCalm, ShowingIsCalm
<1>5. CASE \E v \in DOMAIN fleet, t \in Texts : OtherUser(v, t)
  BY <1>5, OtherUserIsCalm
<1> QED BY <1>1, <1>2, <1>3, <1>4, <1>5 DEF EditorNext

LEMMA StartIsCalm == ASSUME EditorInit PROVE Calm
<1>1. modal = Closed /\ job = NotSaving /\ answers = <<>> /\ DOMAIN fleet = {1}
  BY DEF EditorInit
<1>2. modal.id = NoId /\ modal.pending = <<>> /\ ~modal.open
  BY <1>1 DEF Closed
<1> QED BY <1>1, <1>2 DEF Calm, DialogPlace, JobPlace, AnswersPlace, ImagesPlace, NotSaving, FreeIn

----------------------------------------------------------------------------
(* What holds as long as everything comes in turn.                         *)

\* The images cover those of the vehicle, and so do the parts.
Covers(t, images, id) == \A k \in DOMAIN t[id].images : Has(images, t[id].images[k].id)
FitsIn(t, parts, images, id) == id \in DOMAIN t => parts = t[id].parts /\ Covers(t, images, id)

\* With nothing under way the dialog shows what is stored, and what is not stored besides.
DialogFits ==
    job.at = "none" /\ NoneAsks(answers, {"refresh"}) =>
      /\ FitsIn(fleet, modal.parts, modal.pending, modal.id)
      /\ modal.id \in DOMAIN fleet =>
           \A i \in DOMAIN modal.pending : ~modal.pending[i].stored =>
             ~Has(fleet[modal.id].images, modal.pending[i].id)

SaveFits ==
    /\ job.at = "submit" /\ job.id \in DOMAIN fleet => Covers(fleet, job.images, job.id)
    /\ job.at = "answer" => FitsIn(fleet, job.vehicle.parts, job.vehicle.images, job.id)

\* An answer is up to date, of several refreshes the last.
LastRefresh(s, i) == s[i].ask = "refresh" /\ \A j \in DOMAIN s : j > i => s[j].ask # "refresh"
AnswersFit ==
    \A i \in DOMAIN answers :
      /\ answers[i].read
      /\ answers[i].ask \in OpeningKinds \/ (job.at # "loop" /\ LastRefresh(answers, i))
      => FitsIn(fleet, answers[i].vehicle.parts, answers[i].vehicle.images, answers[i].id)

InStep == DialogFits /\ SaveFits /\ AnswersFit

\* A step in turn
Ordered ==
    /\ \A i \in DOMAIN answers : Serving(i) \/ Showing(i) \/ AnswerLost(i) => i = 1
    /\ answers # <<>> /\ AnswerLost(1) => Showing(1)
    /\ job.at # "none" /\ job'.at = "none" => answers' # answers
    /\ edits' # edits => fleet' = fleet

LEMMA InTurnIsOrdered == ASSUME ~OutOfTurn PROVE Ordered
BY DEF OutOfTurn, Ordered

TurnStep == CalmStep /\ InStep /\ Ordered

\* The client asks for more.
LEMMA AsksFitTurn ==
    ASSUME TurnStep, NEW x, answers' = Append(answers, x), UNCHANGED <<fleet, modal, job>>,
           ~x.read \/ x.ask \notin DetailKinds
    PROVE  InStep'
<1>0. InStep /\ IsSeq(answers)
  BY DEF TurnStep, CalmStep, DialogTypes, AnswersOK
<1>1. /\ Len(answers) \in Nat /\ DOMAIN answers = 1 .. Len(answers)
      /\ DOMAIN answers' = 1 .. Len(answers) + 1 /\ answers'[Len(answers) + 1] = x
      /\ \A i \in DOMAIN answers : answers'[i] = answers[i]
  BY <1>0, Appended
<1>2. NoneAsks(answers', {"refresh"}) => NoneAsks(answers, {"refresh"})
  BY <1>1 DEF NoneAsks
<1>3. DialogFits' /\ SaveFits'
  BY <1>0, <1>2 DEF InStep, DialogFits, SaveFits
<1>4. AnswersFit'
  <2> SUFFICES ASSUME NEW i \in DOMAIN answers', answers'[i].read,
                      answers'[i].ask \in OpeningKinds \/ (job.at # "loop" /\ LastRefresh(answers', i))
               PROVE  FitsIn(fleet, answers'[i].vehicle.parts, answers'[i].vehicle.images, answers'[i].id)
    BY DEF AnswersFit
  <2>1. i # Len(answers) + 1
    BY <1>1 DEF LastRefresh, DetailKinds
  <2>2. i \in DOMAIN answers /\ answers'[i] = answers[i]
    BY <1>1, <2>1
  <2>3. LastRefresh(answers', i) => LastRefresh(answers, i)
    BY <1>1, <2>2 DEF LastRefresh
  <2> QED BY <1>0, <2>2, <2>3 DEF InStep, AnswersFit
<1> QED BY <1>3, <1>4 DEF InStep

LEMMA NoIdIsNoVehicle == ASSUME DialogTypes PROVE NoId \notin DOMAIN fleet
BY VehicleNumbers DEF NoId

LEMMA PanelFits ==
    ASSUME TurnStep, InventoryPanel \/ ReadOnlyView \/ CloseModal
    PROVE  InStep'
<1>0. InStep /\ DialogTypes
  BY DEF TurnStep, CalmStep
<1>1. CASE Reload
  BY <1>1, AsksFitTurn DEF Reload, Load, DetailKinds, OpeningKinds
<1>2. CASE OpenCreate \/ CloseModal
  <2>1. modal'.id = NoId /\ UNCHANGED <<fleet, list, job, answers>>
    BY <1>2 DEF OpenCreate, CloseModal, Closed
  <2> QED BY <1>0, <2>1, NoIdIsNoVehicle DEF InStep, DialogFits, SaveFits, AnswersFit, FitsIn
<1>3. ASSUME NEW v \in DOMAIN list, NEW kind \in {"view", "edit", "qr"}, OpenVehicle(v, kind)
      PROVE  InStep'
  BY <1>3, AsksFitTurn DEF OpenVehicle, Ask
<1>4. ASSUME NEW v \in DOMAIN list, UpdateVehicleExhibitionFlag(v)
      PROVE  InStep'
  <2>1. answers' = Append(answers, MarkOf(v)) /\ UNCHANGED <<fleet, modal, job>>
    BY <1>4 DEF UpdateVehicleExhibitionFlag, MarkOf
  <2>2. MarkOf(v).ask = "mark"
    BY <1>0, VehicleNumbers, MarkFits
  <2> QED BY <2>1, <2>2, AsksFitTurn DEF DetailKinds, OpeningKinds
<1>5. ASSUME NEW v \in DOMAIN list, ConfirmDelete(v)
      PROVE  InStep'
  BY <1>5, AsksFitTurn DEF ConfirmDelete, Ask
<1>6. CASE ReadOnlyView
  BY <1>6, AsksFitTurn DEF ReadOnlyView, Ask
<1> QED BY <1>1, <1>2, <1>3, <1>4, <1>5, <1>6 DEF InventoryPanel

LEMMA FormFits ==
    ASSUME TurnStep, FormStep
    PROVE  InStep'
<1>0. DialogTypes /\ InStep /\ Reworked
  BY FormStepTypes DEF TurnStep, CalmStep
<1>1. UNCHANGED <<fleet, job, answers>> /\ modal'.id = modal.id /\ modal'.parts = modal.parts
  BY <1>0 DEF Reworked
<1>2. SaveFits' /\ AnswersFit'
  BY <1>0, <1>1 DEF InStep, SaveFits, AnswersFit
<1>3. ASSUME job.at = "none", NoneAsks(answers, {"refresh"}), modal.id \in DOMAIN fleet
      PROVE  /\ modal.parts = fleet[modal.id].parts /\ Covers(fleet, modal'.pending, modal.id)
             /\ \A i \in DOMAIN modal'.pending : ~modal'.pending[i].stored =>
                  ~Has(fleet[modal.id].images, modal'.pending[i].id)
  <2> DEFINE s == modal.pending
             t == modal'.pending
             own == fleet[modal.id].images
  <2>1. /\ modal.parts = fleet[modal.id].parts
        /\ \A k \in DOMAIN own : Has(s, own[k].id)
        /\ \A i \in DOMAIN s : ~s[i].stored => ~Has(own, s[i].id)
    BY <1>0, <1>3 DEF InStep, DialogFits, FitsIn, Covers
  <2> HIDE DEF s, t, own
  <2>2. CASE Among(t, s) /\ Among(s, t)
    BY <2>1, <2>2 DEF Among, Has, Covers, s, t, own
  <2>3. CASE \E x \in Texts, d \in BOOLEAN : Update(x, d)
    <3>1. t = s
      BY <1>0, <2>3, TextIsTyped DEF s, t
    <3> QED BY <2>1, <3>1 DEF Covers, s, t, own
  <2>4. CASE \E id \in Suggested : AddPendingImage(id)
    <3>1. PICK id : /\ Among(s, t) /\ ~Has(s, id)
                    /\ \A i \in DOMAIN t : \/ t[i].id = id /\ ~t[i].stored
                                           \/ \E j \in DOMAIN s : t[i].id = s[j].id /\ t[i].stored = s[j].stored
      BY <1>0, <2>4, ImageIsAdded DEF s, t
    <3>2. ~Has(own, id)
      BY <2>1, <3>1 DEF Has
    <3>3. \A k \in DOMAIN own : Has(t, own[k].id)
      BY <2>1, <3>1 DEF Among, Has
    <3>4. \A i \in DOMAIN t : ~t[i].stored => ~Has(own, t[i].id)
      BY <2>1, <3>1, <3>2
    <3> QED BY <2>1, <3>3, <3>4 DEF Covers, s, t, own
  <2>5. CASE \E i \in DOMAIN s : SetPrimaryPendingImage(i) \/ MovePendingImage(i)
    BY <1>0, <2>2, <2>5, PrimaryIsSet, ImagesMove DEF s, t
  <2>6. CASE \E i \in DOMAIN s : ~(s[i].stored /\ modal.id # NoId) /\ Forgets(s[i].id)
    <3>1. PICK i \in DOMAIN s : ~(s[i].stored /\ modal.id # NoId) /\ Forgets(s[i].id)
      BY <2>6
    <3>2. ~s[i].stored
      BY <1>0, <1>3, <3>1, NoIdIsNoVehicle
    <3>3. Among(t, s) /\ \A j \in DOMAIN s : s[j].id # s[i].id => Has(t, s[j].id)
      BY <1>0, <3>1, ImageIsForgotten DEF s, t
    <3>4. ~Has(own, s[i].id)
      BY <2>1, <3>2
    <3>5. \A k \in DOMAIN own : Has(t, own[k].id)
      BY <2>1, <3>3, <3>4 DEF Has
    <3>6. \A j \in DOMAIN t : ~t[j].stored => ~Has(own, t[j].id)
      BY <2>1, <3>3 DEF Among
    <3> QED BY <2>1, <3>5, <3>6 DEF Covers, s, t, own
  <2> QED BY <2>3, <2>4, <2>5, <2>6 DEF FormStep, s
<1>4. DialogFits'
  BY <1>1, <1>3 DEF DialogFits, FitsIn
<1> QED BY <1>2, <1>4 DEF InStep

LEMMA BeginFits ==
    ASSUME TurnStep, Submit \/ SomeLoop
    PROVE  InStep'
<1>0. DialogTypes /\ Calm /\ Patient /\ InStep
  BY DEF TurnStep, CalmStep
<1>1. CASE Submit
  <2>1. /\ job = NotSaving /\ job'.at = "submit" /\ job'.images = modal.pending
        /\ job'.id = IF modal.mode = "edit" THEN modal.id ELSE NoId
        /\ UNCHANGED <<fleet, modal, answers>>
    BY <1>0, <1>1, SubmitBegins DEF SubmitStarts
  <2>2. NoneAsks(answers, {"refresh"})
    BY <1>0, <2>1 DEF Patient, UnderWay, NoneAsks, NotSaving
  <2>3. job'.id \in DOMAIN fleet => Covers(fleet, job'.images, job'.id)
    BY <1>0, <2>1, <2>2, NoIdIsNoVehicle DEF InStep, DialogFits, FitsIn, NotSaving
  <2>4. DialogFits' /\ SaveFits'
    BY <2>1, <2>3 DEF DialogFits, SaveFits
  <2>5. AnswersFit'
    BY <1>0, <2>1 DEF InStep, AnswersFit, NotSaving
  <2> QED BY <2>4, <2>5 DEF InStep
<1>2. CASE SomeLoop
  <2>1. PICK todo \in Seq(Todos) : Loop(todo)
    BY <1>2 DEF SomeLoop
  <2>2. job'.at = "loop" /\ UNCHANGED <<fleet, modal, answers>>
    BY <2>1 DEF Loop
  <2> QED BY <1>0, <2>2 DEF InStep, DialogFits, SaveFits, AnswersFit
<1> QED BY <1>1, <1>2

LEMMA OwnVehicleFits == ASSUME NEW t, NEW id PROVE FitsIn(t, t[id].parts, t[id].images, id)
BY DEF FitsIn, Covers, Has

\* The server saves what was sent.
LEMMA SaveFitsTurn ==
    ASSUME TurnStep, SubmitCreates \/ SubmitChanges
    PROVE  InStep'
<1>0. DialogTypes /\ Calm /\ Ordered /\ job.at = "submit"
  BY DEF TurnStep, CalmStep, SubmitCreates, SubmitChanges
<1>1. PICK id, w : SaveHandled(id, w)
  BY <1>0, CreateIsHandled, ChangeIsHandled
<1>2. fleet'[id] = w /\ UNCHANGED <<modal, answers>>
      /\ (job' = NotSaving \/ (job'.at = "answer" /\ job'.id = id /\ job'.vehicle = w))
  BY <1>1 DEF SaveHandled
<1>3. job'.at = "answer" /\ job'.id = id /\ job'.vehicle = w
  BY <1>0, <1>2 DEF Ordered, NotSaving
<1>4. FitsIn(fleet', w.parts, w.images, id)
  BY <1>2, OwnVehicleFits
<1>5. NoneAsks(answers, DetailKinds)
  BY <1>0 DEF Calm, JobPlace, NoneAsks, DetailKinds
<1>6. AnswersFit'
  BY <1>2, <1>5 DEF AnswersFit, NoneAsks, LastRefresh, DetailKinds
<1>7. DialogFits' /\ SaveFits'
  BY <1>3, <1>4 DEF DialogFits, SaveFits
<1> QED BY <1>6, <1>7 DEF InStep

\* A loop goes on.
LEMMA LoopFitsTurn ==
    ASSUME TurnStep, UploadNext \/ DropImageNext \/ PartNext
    PROVE  InStep'
<1>0. DialogTypes /\ Calm /\ Ordered
  BY DEF TurnStep, CalmStep
<1>1. PICK w : LoopHandled(w)
  BY <1>0, UploadIsHandled, DropImageIsHandled, PartIsHandled
<1>2. job.at = "loop" /\ job'.at = "loop" /\ UNCHANGED answers
  BY <1>0, <1>1 DEF LoopHandled, Ordered, NotSaving
<1>3. NoneAsks(answers, OpeningKinds)
  BY <1>0, <1>2 DEF Calm, JobPlace
<1> QED BY <1>2, <1>3 DEF InStep, DialogFits, SaveFits, AnswersFit, NoneAsks

LEMMA JobEndFits ==
    ASSUME TurnStep, SubmitAnswered \/ LoopDone \/ JobFails
    PROVE  InStep'
<1>0. DialogTypes /\ Calm /\ Ordered /\ InStep /\ IsSeq(answers)
  BY DEF TurnStep, CalmStep, DialogTypes, AnswersOK
<1>1. CASE SubmitAnswered
  <2>1. /\ job.at = "answer" /\ job' = NotSaving /\ answers' = Append(answers, Load)
        /\ UNCHANGED <<fleet, list>>
        /\ modal' = IF job.mode = "create" THEN Closed ELSE [Detail(job.vehicle, job.id) EXCEPT !.mode = "view"]
    BY <1>1 DEF SubmitAnswered
  <2>2. job.vehicle \in Vehicle /\ job.id \in 0 .. drawn
    BY <1>0, <2>1, JobKinds, VehicleNumbers DEF DialogTypes
  <2>3. FitsIn(fleet, job.vehicle.parts, job.vehicle.images, job.id)
    BY <1>0, <2>1 DEF InStep, SaveFits
  <2>4. \/ modal'.id = NoId
        \/ modal'.id = job.id /\ modal'.pending = job.vehicle.images /\ modal'.parts = job.vehicle.parts
    <3> DEFINE d == Detail(job.vehicle, job.id)
    <3>1. d \in Dialogs(drawn) /\ d.id = job.id /\ d.pending = job.vehicle.images /\ d.parts = job.vehicle.parts
      BY <1>0, <2>2, DetailFits
    <3>2. modal' = Closed \/ modal' = [d EXCEPT !.mode = "view"]
      BY <2>1
    <3> HIDE DEF d
    <3> QED BY <3>1, <3>2 DEF Dialogs, Closed
  <2>5. \A i \in DOMAIN job.vehicle.images : job.vehicle.images[i].stored
    BY <2>2, ImagesOfVehicle
  <2>6. DialogFits'
    BY <1>0, <2>1, <2>3, <2>4, <2>5, NoIdIsNoVehicle DEF DialogFits, FitsIn
  <2>7. NoneAsks(answers', DetailKinds)
    <3>1. NoneAsks(answers, DetailKinds)
      BY <1>0, <2>1 DEF Calm, JobPlace, NoneAsks, DetailKinds
    <3>2. \A i \in DOMAIN answers' : answers'[i] = Load \/ \E j \in DOMAIN answers : answers'[i] = answers[j]
      BY <1>0, <2>1, AppendMembers
    <3> QED BY <3>1, <3>2 DEF NoneAsks, Load, DetailKinds, OpeningKinds
  <2>8. AnswersFit' /\ SaveFits'
    BY <2>1, <2>7 DEF AnswersFit, SaveFits, NoneAsks, LastRefresh, DetailKinds, NotSaving
  <2> QED BY <2>6, <2>8 DEF InStep
<1>2. CASE LoopDone
  <2> DEFINE x == Ask("refresh", job.id)
  <2>1. /\ job.at = "loop" /\ job' = NotSaving /\ answers' = Append(answers, x)
        /\ UNCHANGED <<fleet, list, modal>>
    BY <1>2 DEF LoopDone
  <2>2. x.ask = "refresh" /\ ~x.read
    BY DEF Ask
  <2> HIDE DEF x
  <2>3. /\ Len(answers) \in Nat /\ DOMAIN answers = 1 .. Len(answers)
        /\ DOMAIN answers' = 1 .. Len(answers) + 1 /\ answers'[Len(answers) + 1] = x
        /\ \A i \in DOMAIN answers : answers'[i] = answers[i]
    BY <1>0, <2>1, Appended
  <2>4. ~NoneAsks(answers', {"refresh"})
    BY <2>2, <2>3 DEF NoneAsks
  <2>5. NoneAsks(answers, OpeningKinds)
    BY <1>0, <2>1 DEF Calm, JobPlace
  <2>6. AnswersFit'
    <3> SUFFICES ASSUME NEW i \in DOMAIN answers', answers'[i].read,
                        answers'[i].ask \in OpeningKinds \/ LastRefresh(answers', i)
                 PROVE  FALSE
      BY DEF AnswersFit
    <3>1. i \in DOMAIN answers
      BY <2>2, <2>3
    <3>2. answers'[i].ask \notin OpeningKinds
      BY <2>3, <2>5, <3>1 DEF NoneAsks
    <3>3. ~LastRefresh(answers', i)
      BY <2>2, <2>3, <3>1 DEF LastRefresh
    <3> QED BY <3>2, <3>3
  <2>7. DialogFits' /\ SaveFits'
    BY <2>1, <2>4 DEF DialogFits, SaveFits, NotSaving
  <2> QED BY <2>6, <2>7 DEF InStep
<1>3. CASE JobFails
  BY <1>0, <1>3 DEF JobFails, Ordered, NotSaving
<1> QED BY <1>1, <1>2, <1>3

\* The server has fewer images or vehicles, or answers.
ServedTurn(u) ==
    /\ Shrinks(fleet, u)
    /\ \A v \in DOMAIN u : u[v].parts = fleet[v].parts

LEMMA ShrinkingFits ==
    ASSUME NEW u, ServedTurn(u)
    PROVE  /\ \A p, s, id : FitsIn(fleet, p, s, id) => FitsIn(u, p, s, id)
           /\ \A s, id : id \in DOMAIN u /\ Covers(fleet, s, id) => Covers(u, s, id)
           /\ \A v \in DOMAIN u : \A x : Has(u[v].images, x) => Has(fleet[v].images, x)
           /\ DOMAIN u \subseteq DOMAIN fleet
<1>1. ASSUME NEW s, NEW id, id \in DOMAIN u, Covers(fleet, s, id)
      PROVE  Covers(u, s, id)
  BY <1>1 DEF ServedTurn, Shrinks, Covers, Has
<1>2. ASSUME NEW p, NEW s, NEW id, FitsIn(fleet, p, s, id)
      PROVE  FitsIn(u, p, s, id)
  BY <1>1, <1>2 DEF ServedTurn, Shrinks, FitsIn
<1> QED BY <1>1, <1>2 DEF ServedTurn, Shrinks

LEMMA ServedFits ==
    ASSUME TurnStep, ServedTurn(fleet'), UNCHANGED <<modal, job>>,
           NEW i \in DOMAIN answers, NEW w, Told(i, w),
           answers[i].ask \in DetailKinds => FitsIn(fleet', w.parts, w.images, answers[i].id)
    PROVE  InStep'
<1>0. DialogTypes /\ InStep
  BY DEF TurnStep, CalmStep
<1>1. /\ DOMAIN answers' = DOMAIN answers /\ AnsweredBy(answers[i], answers'[i], w)
      /\ \A j \in DOMAIN answers \ {i} : answers'[j] = answers[j]
      /\ \A j \in DOMAIN answers : answers'[j].ask = answers[j].ask
  BY <1>0, ToldMembers
<1>2. /\ \A p, s, id : FitsIn(fleet, p, s, id) => FitsIn(fleet', p, s, id)
      /\ \A s, id : id \in DOMAIN fleet' /\ Covers(fleet, s, id) => Covers(fleet', s, id)
      /\ \A v \in DOMAIN fleet' : \A x : Has(fleet'[v].images, x) => Has(fleet[v].images, x)
      /\ DOMAIN fleet' \subseteq DOMAIN fleet
  BY ShrinkingFits
<1>3. NoneAsks(answers', {"refresh"}) => NoneAsks(answers, {"refresh"})
  BY <1>1 DEF NoneAsks
<1>4. DialogFits'
  BY <1>0, <1>2, <1>3 DEF InStep, DialogFits
<1>5. SaveFits'
  BY <1>0, <1>2 DEF InStep, SaveFits
<1>6. AnswersFit'
  <2> SUFFICES ASSUME NEW j \in DOMAIN answers', answers'[j].read,
                      answers'[j].ask \in OpeningKinds \/ (job.at # "loop" /\ LastRefresh(answers', j))
               PROVE  FitsIn(fleet', answers'[j].vehicle.parts, answers'[j].vehicle.images, answers'[j].id)
    BY DEF AnswersFit
  <2>1. CASE j = i
    BY <1>1, <2>1 DEF AnsweredBy, LastRefresh, DetailKinds
  <2>2. CASE j # i
    <3>1. answers'[j] = answers[j] /\ j \in DOMAIN answers
      BY <1>1, <2>2
    <3>2. LastRefresh(answers', j) => LastRefresh(answers, j)
      BY <1>1 DEF LastRefresh
    <3>3. FitsIn(fleet, answers[j].vehicle.parts, answers[j].vehicle.images, answers[j].id)
      BY <1>0, <3>1, <3>2 DEF InStep, AnswersFit
    <3> QED BY <1>2, <3>1, <3>3
  <2> QED BY <2>1, <2>2
<1> QED BY <1>4, <1>5, <1>6 DEF InStep

LEMMA ServingFits ==
    ASSUME TurnStep, NEW i \in DOMAIN answers, Serving(i)
    PROVE  InStep'
<1>0. DialogTypes
  BY DEF TurnStep, CalmStep
<1>1. CASE GetVehicle(i)
  <2>1. Told(i, fleet[answers[i].id]) /\ UNCHANGED <<fleet, modal, job>>
    BY <1>1 DEF GetVehicle
  <2>2. ServedTurn(fleet')
    BY <2>1 DEF ServedTurn, Shrinks
  <2>3. FitsIn(fleet', fleet[answers[i].id].parts, fleet[answers[i].id].images, answers[i].id)
    BY <2>1, OwnVehicleFits
  <2> QED BY <2>1, <2>2, <2>3, ServedFits
<1>2. CASE GetVehicles(i)
  <2>1. Told(i, ListRows(fleet)) /\ UNCHANGED <<fleet, modal, job>> /\ answers[i].ask \notin DetailKinds
    BY <1>2 DEF GetVehicles, Asked, DetailKinds, OpeningKinds
  <2>2. ServedTurn(fleet')
    BY <2>1 DEF ServedTurn, Shrinks
  <2> QED BY <2>1, <2>2, ServedFits
<1>3. CASE PutMark(i)
  <2> DEFINE id == answers[i].id
             w == WithForm(fleet[id], FormOf(answers[i].vehicle), <<>>)
  <2>1. /\ answers[i].ask = "mark" /\ id \in DOMAIN fleet /\ w.images = <<>> /\ w.parts = fleet[id].parts
        /\ fleet' = [fleet EXCEPT ![id] = w] /\ Told(i, w) /\ UNCHANGED <<modal, job>>
    BY <1>0, <1>3, MarkIsStored
  <2> HIDE DEF w
  <2>2. ServedTurn(fleet')
    BY <2>1 DEF ServedTurn, Shrinks, Has
  <2>3. answers[i].ask \notin DetailKinds
    BY <2>1 DEF DetailKinds, OpeningKinds
  <2> QED BY <2>1, <2>2, <2>3, ServedFits
<1>4. CASE DeleteVehicle(i)
  <2>1. /\ Told(i, <<>>) /\ UNCHANGED <<modal, job>> /\ answers[i].ask \notin DetailKinds
        /\ fleet' = [v \in DOMAIN fleet \ {answers[i].id} |-> fleet[v]]
    BY <1>4 DEF DeleteVehicle, Asked, DetailKinds, OpeningKinds
  <2>2. ServedTurn(fleet')
    BY <2>1 DEF ServedTurn, Shrinks
  <2> QED BY <2>1, <2>2, ServedFits
<1> QED BY <1>1, <1>2, <1>3, <1>4 DEF Serving

\* Intervals from one that are equal end alike.
LEMMA SameInterval == ASSUME NEW n \in Nat, NEW m \in Nat, 1 .. n = 1 .. m PROVE n = m
<1>1. \A k : k \in 1 .. n <=> k \in 1 .. m
  OBVIOUS
<1> QED BY <1>1

\* The first answer comes.
LEMMA FirstRemoved ==
    ASSUME IsSeq(answers), 1 \in DOMAIN answers, answers' = Rid(1) \/ answers' = Append(Rid(1), Load)
    PROVE  /\ \A j \in DOMAIN answers' :
                \/ answers'[j] = Load
                \/ \E k \in DOMAIN answers : /\ k > 1 /\ answers'[j] = answers[k]
                                             /\ LastRefresh(answers', j) => LastRefresh(answers, k)
           /\ \A k \in DOMAIN answers \ {1} : \E j \in DOMAIN answers' : answers'[j] = answers[k]
<1>1. /\ IsSeq(Rid(1)) /\ Len(answers) \in Nat /\ DOMAIN answers = 1 .. Len(answers)
      /\ DOMAIN Rid(1) = 1 .. Len(answers) - 1
      /\ \A j \in DOMAIN Rid(1) : Rid(1)[j] = answers[j + 1]
  <2> DEFINE t == RemoveAt(answers, 1)
  <2>1. /\ IsSeq(t) /\ Len(answers) \in Nat /\ DOMAIN answers = 1 .. Len(answers)
        /\ DOMAIN t = 1 .. Len(answers) - 1
        /\ \A j \in DOMAIN t : t[j] = IF j < 1 THEN answers[j] ELSE answers[j + 1]
    BY Removed
  <2> HIDE DEF t
  <2>2. \A j \in DOMAIN t : t[j] = answers[j + 1]
    BY <2>1
  <2> QED BY <2>1, <2>2 DEF Rid, t
<1>2. /\ \A j \in 1 .. Len(answers) - 1 : j \in DOMAIN answers' /\ answers'[j] = answers[j + 1]
      /\ \A j \in DOMAIN answers' : j \in 1 .. Len(answers) - 1 \/ answers'[j] = Load
  <2>1. CASE answers' = Rid(1)
    BY <1>1, <2>1
  <2>2. CASE answers' = Append(Rid(1), Load)
    <3> DEFINE n == Len(Rid(1))
    <3>1. /\ n \in Nat /\ DOMAIN Rid(1) = 1 .. n /\ DOMAIN answers' = 1 .. n + 1
          /\ answers'[n + 1] = Load /\ \A i \in DOMAIN Rid(1) : answers'[i] = Rid(1)[i]
      BY <1>1, <2>2, Appended
    <3>2. n \in Nat /\ Len(answers) - 1 \in Nat /\ 1 .. n = 1 .. (Len(answers) - 1)
      <4>1. Len(answers) \in Nat /\ 1 \in 1 .. Len(answers)
        BY <1>1
      <4>2. Len(answers) - 1 \in Nat
        BY <4>1
      <4> QED BY <1>1, <3>1, <4>2
    <3> HIDE DEF n
    <3>3. n = Len(answers) - 1
      BY <3>2, SameInterval
    <3>4. DOMAIN answers' = 1 .. Len(answers) /\ answers'[Len(answers)] = Load
      <4>1. n + 1 = Len(answers)
        BY <1>1, <3>3
      <4> QED BY <3>1, <4>1
    <3>5. ASSUME NEW j \in 1 .. Len(answers) - 1
          PROVE  j \in DOMAIN answers' /\ answers'[j] = answers[j + 1]
      <4>1. j \in DOMAIN Rid(1) /\ j \in 1 .. Len(answers)
        BY <1>1
      <4>2. answers'[j] = Rid(1)[j] /\ Rid(1)[j] = answers[j + 1]
        BY <1>1, <3>1, <4>1
      <4> QED BY <3>4, <4>1, <4>2
    <3>6. ASSUME NEW j \in DOMAIN answers'
          PROVE  j \in 1 .. Len(answers) - 1 \/ answers'[j] = Load
      <4>1. j \in 1 .. Len(answers) /\ Len(answers) \in Nat
        BY <1>1, <3>4
      <4>2. j = Len(answers) \/ j \in 1 .. Len(answers) - 1
        BY <4>1
      <4> QED BY <3>4, <4>2
    <3> QED BY <3>5, <3>6
  <2> QED BY <2>1, <2>2
<1>3. ASSUME NEW j \in 1 .. Len(answers) - 1, LastRefresh(answers', j)
      PROVE  LastRefresh(answers, j + 1)
  <2>1. answers[j + 1].ask = "refresh"
    BY <1>2, <1>3 DEF LastRefresh
  <2>2. ASSUME NEW k \in DOMAIN answers, k > j + 1
        PROVE  answers[k].ask # "refresh"
    <3>1. k - 1 \in 1 .. Len(answers) - 1 /\ k - 1 > j /\ (k - 1) + 1 = k
      BY <1>1, <2>2
    <3>2. k - 1 \in DOMAIN answers' /\ answers'[k - 1] = answers[k]
      BY <1>2, <3>1
    <3> QED BY <1>3, <3>1, <3>2 DEF LastRefresh
  <2> QED BY <2>1, <2>2 DEF LastRefresh
<1>4. ASSUME NEW j \in DOMAIN answers', answers'[j] # Load
      PROVE  \E k \in DOMAIN answers : /\ k > 1 /\ answers'[j] = answers[k]
                                       /\ LastRefresh(answers', j) => LastRefresh(answers, k)
  <2>1. j \in 1 .. Len(answers) - 1
    BY <1>2, <1>4
  <2>2. j + 1 \in DOMAIN answers /\ j + 1 > 1 /\ answers'[j] = answers[j + 1]
    BY <1>1, <1>2, <2>1
  <2> QED BY <1>3, <2>1, <2>2
<1>5. ASSUME NEW k \in DOMAIN answers \ {1}
      PROVE  \E j \in DOMAIN answers' : answers'[j] = answers[k]
  <2>1. k - 1 \in 1 .. Len(answers) - 1 /\ (k - 1) + 1 = k
    BY <1>1
  <2> QED BY <1>2, <2>1
<1> QED BY <1>4, <1>5

LEMMA ShowingFits ==
    ASSUME TurnStep, NEW i \in DOMAIN answers, Showing(i) \/ AnswerLost(i)
    PROVE  InStep'
<1>0. /\ DialogTypes /\ Calm /\ InStep /\ Ordered /\ IsSeq(answers)
      /\ \A j \in DOMAIN answers : AnswerPlace(answers[j], modal, fleet)
  BY DEF TurnStep, CalmStep, DialogTypes, AnswersOK, Calm, AnswersPlace
<1>1. 1 \in DOMAIN answers /\ Showing(1)
  <2>1. i = 1 /\ answers # <<>>
    BY <1>0 DEF Ordered
  <2> QED BY <1>0, <2>1 DEF Ordered
<1>2. UNCHANGED <<fleet, job>> /\ (answers' = Rid(1) \/ answers' = Append(Rid(1), Load))
  BY <1>1 DEF Showing, DetailShown, RefreshShown, ListShown, MarkShown, DeleteShown
<1>3. /\ \A j \in DOMAIN answers' :
            \/ answers'[j] = Load
            \/ \E k \in DOMAIN answers : /\ k > 1 /\ answers'[j] = answers[k]
                                         /\ LastRefresh(answers', j) => LastRefresh(answers, k)
      /\ \A k \in DOMAIN answers \ {1} : \E j \in DOMAIN answers' : answers'[j] = answers[k]
  BY <1>0, <1>1, <1>2, FirstRemoved
<1>4. AnswersFit'
  <2>1. Load.ask = "list"
    BY DEF Load
  <2> QED BY <1>0, <1>2, <1>3, <2>1 DEF InStep, AnswersFit, LastRefresh, OpeningKinds
<1>5. SaveFits'
  BY <1>0, <1>2 DEF InStep, SaveFits
<1>6. NoneAsks(answers', {"refresh"}) => \A k \in DOMAIN answers \ {1} : answers[k].ask # "refresh"
  BY <1>3 DEF NoneAsks
<1>7. CASE DetailShown(1) \/ RefreshShown(1)
  <2>1. /\ answers[1].read /\ answers[1].vehicle \in Vehicle
        /\ ShowsVehicle(answers[1].vehicle, answers[1].id)
        /\ answers[1].ask \in OpeningKinds \/ answers[1].ask = "refresh"
    BY <1>0, <1>1, <1>7, VehicleIsShown, RefreshIsShown
  <2>2. ASSUME job.at = "none", NoneAsks(answers', {"refresh"})
        PROVE  FitsIn(fleet, answers[1].vehicle.parts, answers[1].vehicle.images, answers[1].id)
    <3>1. answers[1].ask = "refresh" => LastRefresh(answers, 1)
      BY <1>6, <2>2 DEF LastRefresh
    <3> QED BY <1>0, <1>1, <2>1, <2>2, <3>1 DEF InStep, AnswersFit
  <2>3. \A k \in DOMAIN answers[1].vehicle.images : answers[1].vehicle.images[k].stored
    BY <2>1, ImagesOfVehicle
  <2>4. DialogFits'
    BY <1>2, <2>1, <2>2, <2>3 DEF DialogFits, ShowsVehicle
  <2> QED BY <1>4, <1>5, <2>4 DEF InStep
<1>8. CASE ListShown(1) \/ MarkShown(1) \/ DeleteShown(1)
  <2>1. modal' = modal /\ answers[1].ask # "refresh"
    BY <1>0, <1>1, <1>8 DEF ListShown, MarkShown, DeleteShown, Come, AnswerPlace
  <2>2. NoneAsks(answers', {"refresh"}) => NoneAsks(answers, {"refresh"})
    BY <1>6, <2>1 DEF NoneAsks
  <2>3. DialogFits'
    BY <1>0, <1>2, <2>1, <2>2 DEF InStep, DialogFits
  <2> QED BY <1>4, <1>5, <2>3 DEF InStep
<1> QED BY <1>1, <1>7, <1>8 DEF Showing

LEMMA OtherUserFits ==
    ASSUME TurnStep, NEW v \in DOMAIN fleet, NEW t \in Texts, OtherUser(v, t)
    PROVE  InStep'
<1>1. InStep /\ fleet' = fleet /\ UNCHANGED <<modal, job, answers>>
  BY OtherUserSaves DEF TurnStep, CalmStep, Ordered, OtherUser
<1> QED BY <1>1 DEF InStep, DialogFits, SaveFits, AnswersFit

LEMMA InStepIsKept ==
    ASSUME TurnStep, EditorNext
    PROVE  InStep'
<1>0. DialogTypes
  BY DEF TurnStep, CalmStep
<1>1. CASE \/ \E t \in Texts, d \in BOOLEAN : Update(t, d)
           \/ \E id \in Suggested : AddPendingImage(id)
           \/ UploadsTab \/ AttachmentsTab \/ MaintenanceTab \/ FunctionsTab \/ CVFilesTab
  BY <1>0, <1>1, TabsWork, FormFits, BeginFits
<1>2. CASE InventoryPanel \/ ReadOnlyView \/ CloseModal
  BY <1>2, PanelFits
<1>3. CASE Submit \/ Saving
  BY <1>3, BeginFits, SaveFitsTurn, LoopFitsTurn, JobEndFits DEF Saving
<1>4. CASE \E i \in DOMAIN answers : Serving(i) \/ Showing(i) \/ AnswerLost(i)
  BY <1>4, ServingFits, ShowingFits
<1>5. CASE \E v \in DOMAIN fleet, t \in Texts : OtherUser(v, t)
  BY <1>5, OtherUserFits
<1> QED BY <1>1, <1>2, <1>3, <1>4, <1>5 DEF EditorNext

LEMMA StartInStep == ASSUME EditorInit PROVE InStep
<1>1. DialogTypes
  BY StartTypes
<1>2. modal.id = NoId /\ job = NotSaving /\ answers = <<>>
  BY DEF EditorInit, Closed
<1> QED BY <1>1, <1>2, NoIdIsNoVehicle DEF InStep, DialogFits, SaveFits, AnswersFit, FitsIn, NotSaving

----------------------------------------------------------------------------
(* The dialog.                                                             *)

\* Each layer holds under more of the history than the one before.
DialogPage ==
    page = "dialog" =>
      /\ DialogTypes
      /\ ~hurried => Calm
      /\ ~hurried /\ inTurn => InStep

\* A step of the dialog.
LEMMA DialogGoesOn ==
    ASSUME DialogPage, page = "dialog", EditorNext, DialogHistory
    PROVE  /\ DialogTypes' /\ (~hurried' => Calm')
           /\ ~hurried' /\ inTurn' => InStep'
<1>1. DialogTypes /\ DialogTypes'
  BY DialogTypesAreKept DEF DialogPage
<1>2. ~hurried' => ~hurried /\ ~Hurries
  BY Zenon DEF DialogHistory
<1>3. inTurn' => inTurn /\ ~OutOfTurn
  BY Zenon DEF DialogHistory
<1>4. ASSUME ~hurried'
      PROVE  CalmStep /\ Calm'
  <2>1. CalmStep
    BY <1>1, <1>2, <1>4, NotHurriedIsPatient DEF CalmStep, DialogPage
  <2> QED BY <2>1, CalmIsKept
<1>5. ASSUME ~hurried', inTurn'
      PROVE  InStep'
  <2>1. TurnStep
    BY <1>2, <1>3, <1>4, <1>5, InTurnIsOrdered DEF TurnStep, DialogPage
  <2> QED BY <2>1, InStepIsKept
<1> QED BY <1>1, <1>4, <1>5

\* What holds of the dialog in every state.
LEMMA DialogInvariant == Spec => []DialogPage
<1>1. Init => DialogPage
  <2> SUFFICES ASSUME Init, page = "dialog" PROVE DialogTypes /\ Calm /\ InStep
    BY DEF DialogPage
  <2>1. EditorInit
    BY DEF Init, DialogInit
  <2> QED BY <2>1, StartTypes, StartIsCalm, StartInStep
<1>2. DialogPage /\ [Next]_vars => DialogPage'
  <2> SUFFICES ASSUME DialogPage, [Next]_vars PROVE DialogPage'
    OBVIOUS
  <2>1. CASE page = "dialog" /\ EditorNext /\ DialogHistory /\ page' = page
    BY <2>1, DialogGoesOn DEF DialogPage
  <2>2. CASE page # "dialog" /\ page' = page
    BY <2>2 DEF DialogPage
  <2>3. CASE UNCHANGED vars
    <3>1. UNCHANGED <<page, editorVars, inTurn, hurried>>
      BY <2>3 DEF vars, dialogVars
    <3>2. UNCHANGED <<fleet, drawn, list, modal, job, answers, edits>>
      BY <3>1 DEF editorVars
    <3>3. DialogTypes' = DialogTypes
      BY <3>2 DEF DialogTypes
    <3>4. Calm' = Calm
      BY <3>2 DEF Calm, DialogPlace, JobPlace, AnswersPlace, ImagesPlace
    <3>5. InStep' = InStep
      BY <3>2 DEF InStep, DialogFits, SaveFits, AnswersFit
    <3> QED BY <3>1, <3>3, <3>4, <3>5 DEF DialogPage
  <2>4. Next => \/ page = "dialog" /\ EditorNext /\ DialogHistory /\ page' = page
                \/ page # "dialog" /\ page' = page
    BY DEF Next
  <2> QED BY <2>1, <2>2, <2>3, <2>4
<1> QED BY <1>1, <1>2, PTL DEF Spec

\* The dialog shows one vehicle: of its images one is primary and, while the user waits, the
\* dialog that makes a vehicle shows nothing of one that is stored, no image is two
\* vehicles', and with every request in turn the parts are those that are stored
\* (DialogShowsItsVehicle: VehiclesView.tsx:764 refreshSelectedVehicle, :795 uploadImages,
\* :1458 openCreate).
THEOREM OneVehicleIsShown == Spec => []DialogShowsItsVehicle
<1>1. DialogPage => DialogShowsItsVehicle
  <2> SUFFICES ASSUME DialogPage, page = "dialog"
               PROVE  PrimaryShown /\ (hurried \/ (CreateShowsNothingStored /\ ImagesNotShared /\ PartsFollow))
    BY DEF DialogShowsItsVehicle
  <2>1. PrimaryShown
    BY PendingImages DEF DialogPage, HasPrimary, PrimaryShown, Primary
  <2> SUFFICES ASSUME ~hurried PROVE CreateShowsNothingStored /\ ImagesNotShared /\ PartsFollow
    BY <2>1
  <2>2. Calm
    BY DEF DialogPage
  <2>3. CreateShowsNothingStored
    BY <2>2 DEF Calm, DialogPlace, CreateShowsNothingStored
  <2>4. ImagesNotShared
    BY <2>2 DEF Calm, ImagesPlace, FreeIn, Has, ImagesNotShared
  <2>5. PartsFollow
    <3> SUFFICES ASSUME inTurn, job.at = "none", answers = <<>>, modal.id \in DOMAIN fleet
                 PROVE  modal.parts = fleet[modal.id].parts
      BY DEF PartsFollow
    <3>1. NoneAsks(answers, {"refresh"})
      BY DEF NoneAsks
    <3> QED BY <3>1 DEF DialogPage, InStep, DialogFits, FitsIn
  <2> QED BY <2>3, <2>4, <2>5
<1> QED BY <1>1, DialogInvariant, PTL

\* A save of the form changes the vehicle it was begun with.
LEMMA SaveIsAChange ==
    ASSUME DialogTypes, EditorNext, job.at = "submit", job.id # NoId, job'.at = "answer"
    PROVE  SubmitChanges
<1>1. job'.at # job.at /\ job # NotSaving /\ job.at \notin {"none", "loop", "answer"} /\ job' # NotSaving /\ job' # job
  BY DEF NotSaving
<1>2. ~(InventoryPanel \/ ReadOnlyView \/ CloseModal)
  BY <1>1 DEF InventoryPanel, Reload, OpenCreate, OpenVehicle, UpdateVehicleExhibitionFlag, ConfirmDelete,
              ReadOnlyView, CloseModal
<1>3. ~\/ \E t \in Texts, d \in BOOLEAN : Update(t, d)
       \/ \E id \in Suggested : AddPendingImage(id)
       \/ UploadsTab \/ AttachmentsTab \/ MaintenanceTab \/ FunctionsTab \/ CVFilesTab
  <2>1. ~FormStep
    BY <1>1 DEF FormStep, Update, AddPendingImage, SetPrimaryPendingImage, MovePendingImage, Forgets, Typing
  <2>2. ~SomeLoop
    BY <1>1 DEF SomeLoop, Loop
  <2> QED BY <2>1, <2>2, TabsWork
<1>4. ~Submit
  BY <1>1 DEF Submit
<1>5. ~\E i \in DOMAIN answers : Serving(i) \/ Showing(i) \/ AnswerLost(i)
  <2> SUFFICES ASSUME NEW i \in DOMAIN answers PROVE ~(Serving(i) \/ Showing(i) \/ AnswerLost(i))
    OBVIOUS
  <2>1. ~Serving(i)
    BY <1>1 DEF Serving, GetVehicle, GetVehicles, PutMark, DeleteVehicle
  <2>2. ~Showing(i)
    BY <1>1 DEF Showing, DetailShown, RefreshShown, ListShown, MarkShown, DeleteShown
  <2>3. ~AnswerLost(i)
    BY <1>1 DEF AnswerLost
  <2> QED BY <2>1, <2>2, <2>3
<1>6. ~\E v \in DOMAIN fleet, t \in Texts : OtherUser(v, t)
  BY <1>1 DEF OtherUser
<1>7. Saving
  BY <1>2, <1>3, <1>4, <1>5, <1>6 DEF EditorNext
<1> QED BY <1>1, <1>7 DEF Saving, SubmitCreates, SubmitAnswered, JobFails, UploadNext, DropImageNext,
               PartNext, LoopDone, NextRequest

\* A save of the form drops no image of the vehicle but those the dialog shows behind as many
\* as a save keeps (SavesKeepImages: VehiclesView.tsx:734 removePendingImage, :1695 submit,
\* vehicles.go:2082 cleanVehicleImageInputs).
THEOREM SavesLoseNoImage == Spec => SavesKeepImages
<1> DEFINE Keeps(id) == HasImage(fleet'[job.id].images, id) \/ Beyond(job.images, id)
           Kept == \A i \in DOMAIN fleet[job.id].images : Keeps(fleet[job.id].images[i].id)
           A == page = "dialog" /\ job.at = "submit" /\ job.id # NoId /\ inTurn /\ ~hurried /\ job'.at = "answer"
                => Kept
<1>1. DialogPage /\ [Next]_vars => [A]_vars
  <2> SUFFICES ASSUME DialogPage, Next, page = "dialog", job.at = "submit", job.id # NoId,
                      inTurn, ~hurried, job'.at = "answer"
               PROVE  Kept
    OBVIOUS
  <2>1. DialogTypes /\ SaveFits /\ EditorNext
    BY DEF DialogPage, InStep, Next
  <2>2. SubmitChanges
    BY <2>1, SaveIsAChange
  <2>3. PICK w : SaveHandled(job.id, w)
    BY <2>1, <2>2, ChangeIsHandled
  <2>4. job.id \in DOMAIN fleet /\ fleet'[job.id].images = Saved(job.images)
    BY <2>2, <2>3 DEF SubmitChanges, SaveHandled
  <2>5. \A i \in DOMAIN fleet[job.id].images : Has(job.images, fleet[job.id].images[i].id)
    BY <2>1, <2>4 DEF SaveFits, Covers
  <2>6. /\ DOMAIN Saved(job.images) = {i \in DOMAIN job.images : i <= MaxImages}
        /\ \A i \in DOMAIN Saved(job.images) : Saved(job.images)[i].id = job.images[i].id
        /\ \A i \in DOMAIN job.images : i \in Nat
    <3>1. job.images \in Seq(ShownImage)
      BY <2>1, SavedAreSent DEF ShownImages
    <3> QED BY <2>1, <3>1, SavedAreSent
  <2>7. ASSUME NEW i \in DOMAIN fleet[job.id].images
        PROVE  Keeps(fleet[job.id].images[i].id)
    <3>1. PICK j \in DOMAIN job.images : job.images[j].id = fleet[job.id].images[i].id
      BY <2>5 DEF Has
    <3>2. CASE j <= MaxImages
      BY <2>4, <2>6, <3>1, <3>2 DEF HasImage
    <3>3. CASE ~(j <= MaxImages)
      <4>1. j > MaxImages
        BY <2>6, <3>3, MaxImagesAssumption
      <4> QED BY <3>1, <4>1 DEF Beyond
    <3> QED BY <3>2, <3>3
  <2> QED BY <2>7
<1>2. []DialogPage /\ [][Next]_vars => [][A]_vars
  BY <1>1, PTL
<1> QED BY <1>2, DialogInvariant DEF Spec, SavesKeepImages

----------------------------------------------------------------------------
(* The members of a sequence at some positions.                            *)

\* What is kept, up to each position, of the members at the positions in K.
KeptAt(f, s, K, n) ==
    f = [m \in 0 .. n |-> IF m = 0 THEN <<>>
                          ELSE IF m \in K THEN Append(f[m - 1], s[m]) ELSE f[m - 1]]

LEMMA KeptAtExists ==
    ASSUME NEW s, NEW K, NEW N \in Nat
    PROVE  \E f : KeptAt(f, s, K, N)
<1> DEFINE Bad == {n \in Nat : ~\E f : KeptAt(f, s, K, n)}
<1> SUFFICES ASSUME Bad # {} PROVE FALSE
  OBVIOUS
<1>1. PICK n \in Bad : \A m \in Bad : n <= m
  BY LeastNumber
<1>2. CASE n = 0
  <2> DEFINE f == [m \in 0 .. 0 |-> <<>>]
  <2>1. KeptAt(f, s, K, 0)
    BY DEF KeptAt
  <2> QED BY <2>1, <1>2
<1>3. CASE n # 0
  <2>1. n - 1 \in Nat /\ n - 1 \notin Bad
    BY <1>1, <1>3
  <2>2. PICK f : KeptAt(f, s, K, n - 1)
    BY <2>1
  <2> DEFINE last == IF n \in K THEN Append(f[n - 1], s[n]) ELSE f[n - 1]
             g == [m \in 0 .. n |-> IF m = n THEN last ELSE f[m]]
  <2>3. \A m \in 0 .. n - 1 : f[m] = IF m = 0 THEN <<>>
                                     ELSE IF m \in K THEN Append(f[m - 1], s[m]) ELSE f[m - 1]
    BY <2>1, <2>2 DEF KeptAt
  <2>4. ASSUME NEW m \in 0 .. n
        PROVE  g[m] = IF m = 0 THEN <<>>
                      ELSE IF m \in K THEN Append(g[m - 1], s[m]) ELSE g[m - 1]
    <3>1. CASE m = n
      <4>1. g[m] = last /\ g[m - 1] = f[m - 1] /\ m # 0
        BY <1>3, <3>1, <2>1
      <4> HIDE DEF g
      <4> QED BY <3>1, <4>1
    <3>2. CASE m # n
      <4>1. m \in 0 .. n - 1 /\ (m # 0 => m - 1 \in 0 .. n /\ m - 1 # n)
        BY <3>2
      <4>2. g[m] = f[m] /\ (m # 0 => g[m - 1] = f[m - 1])
        BY <4>1, <3>2
      <4> HIDE DEF g
      <4> QED BY <4>1, <4>2, <2>3
    <3> QED BY <3>1, <3>2
  <2>5. KeptAt(g, s, K, n)
    <3> DEFINE h == [m \in 0 .. n |-> IF m = 0 THEN <<>>
                                      ELSE IF m \in K THEN Append(g[m - 1], s[m]) ELSE g[m - 1]]
    <3>1. DOMAIN g = 0 .. n /\ DOMAIN h = 0 .. n /\ \A m \in 0 .. n : g[m] = h[m]
      BY <2>4
    <3>2. g = [m \in 0 .. n |-> g[m]] /\ h = [m \in 0 .. n |-> h[m]]
      OBVIOUS
    <3> HIDE DEF g
    <3> QED BY <2>4, <3>1, <3>2 DEF KeptAt
  <2> QED BY <2>5, <1>1
<1> QED BY <1>2, <1>3

\* They are kept in their order: p tells which member is at which position.
InOrder(t, s, K, S, n) ==
    /\ t \in Seq(S)
    /\ \E p \in [DOMAIN t -> 1 .. n] :
         /\ \A i \in DOMAIN t : p[i] \in K /\ t[i] = s[p[i]]
         /\ \A i \in DOMAIN t : \A j \in DOMAIN t : i < j => p[i] < p[j]

LEMMA OneMoreInOrder ==
    ASSUME NEW S, NEW s \in Seq(S), NEW K, NEW n \in DOMAIN s, n \in K,
           NEW t, InOrder(t, s, K, S, n - 1)
    PROVE  InOrder(Append(t, s[n]), s, K, S, n)
<1>1. PICK p \in [DOMAIN t -> 1 .. n - 1] :
         /\ \A i \in DOMAIN t : p[i] \in K /\ t[i] = s[p[i]]
         /\ \A i \in DOMAIN t : \A j \in DOMAIN t : i < j => p[i] < p[j]
  BY DEF InOrder
<1>2. t \in Seq(S) /\ s[n] \in S /\ n \in Nat
  BY DEF InOrder
<1> DEFINE u == Append(t, s[n])
           l == Len(t) + 1
           q == [i \in DOMAIN u |-> IF i = l THEN n ELSE p[i]]
<1>3. /\ u \in Seq(S) /\ Len(t) \in Nat /\ l \in DOMAIN u /\ u[l] = s[n]
      /\ \A i \in DOMAIN t : i \in DOMAIN u /\ u[i] = t[i] /\ i < l /\ i \in Nat
      /\ \A i \in DOMAIN u : i \in DOMAIN t \/ i = l
  BY <1>2
<1> HIDE DEF u, l
<1>4. \A i \in DOMAIN t : p[i] \in 1 .. n - 1
  BY <1>1
<1>5. q \in [DOMAIN u -> 1 .. n]
  BY <1>2, <1>3, <1>4
<1>6. /\ \A i \in DOMAIN t : q[i] = p[i] /\ q[i] < n
      /\ q[l] = n
  BY <1>2, <1>3, <1>4
<1> HIDE DEF q
<1>7. \A i \in DOMAIN u : q[i] \in K /\ u[i] = s[q[i]]
  BY <1>1, <1>3, <1>6
<1>8. ASSUME NEW i \in DOMAIN u, NEW j \in DOMAIN u, i < j PROVE q[i] < q[j]
  <2>1. i \in DOMAIN t
    <3>1. i # l
      BY <1>3, <1>8 DEF l
    <3> QED BY <1>3, <3>1
  <2>2. CASE j = l
    BY <1>6, <2>1, <2>2
  <2>3. CASE j \in DOMAIN t
    BY <1>1, <1>6, <1>8, <2>1, <2>3
  <2> QED BY <1>3, <2>2, <2>3
<1> QED BY <1>3, <1>5, <1>7, <1>8 DEF InOrder, u

LEMMA KeptInOrder ==
    ASSUME NEW S, NEW s \in Seq(S), NEW K, NEW f, KeptAt(f, s, K, Len(s))
    PROVE  \A n \in 0 .. Len(s) : InOrder(f[n], s, K, S, n)
<1>1. Len(s) \in Nat /\ DOMAIN s = 1 .. Len(s)
  OBVIOUS
<1>2. \A m \in 0 .. Len(s) : f[m] = IF m = 0 THEN <<>>
                                    ELSE IF m \in K THEN Append(f[m - 1], s[m]) ELSE f[m - 1]
  BY <1>1 DEF KeptAt
<1> DEFINE Bad == {n \in 0 .. Len(s) : ~InOrder(f[n], s, K, S, n)}
<1> SUFFICES ASSUME Bad # {} PROVE FALSE
  OBVIOUS
<1>3. PICK n \in Bad : \A m \in Bad : n <= m
  <2>1. Bad \subseteq Nat
    BY <1>1
  <2> HIDE DEF Bad
  <2> QED BY <2>1, LeastNumber
<1>4. n # 0
  <2> SUFFICES ASSUME n = 0 PROVE InOrder(<<>>, s, K, S, 0)
    BY <1>1, <1>2, <1>3
  <2>1. DOMAIN <<>> = {} /\ <<>> \in Seq(S)
    OBVIOUS
  <2>2. <<>> \in [DOMAIN <<>> -> 1 .. 0]
    BY <2>1
  <2> QED BY <2>1, <2>2 DEF InOrder
<1>5. n \in DOMAIN s /\ n - 1 \in 0 .. Len(s) /\ InOrder(f[n - 1], s, K, S, n - 1)
  BY <1>1, <1>3, <1>4
<1>6. CASE n \in K
  <2>1. f[n] = Append(f[n - 1], s[n])
    BY <1>2, <1>3, <1>4, <1>6
  <2> QED BY <1>3, <1>5, <1>6, <2>1, OneMoreInOrder
<1>7. CASE n \notin K
  <2>1. PICK t : t = f[n - 1]
    OBVIOUS
  <2>2. f[n] = t
    BY <1>2, <1>3, <1>4, <1>7, <2>1
  <2>3. PICK p \in [DOMAIN t -> 1 .. n - 1] :
         /\ \A i \in DOMAIN t : p[i] \in K /\ t[i] = s[p[i]]
         /\ \A i \in DOMAIN t : \A j \in DOMAIN t : i < j => p[i] < p[j]
    BY <1>5, <2>1 DEF InOrder
  <2>4. p \in [DOMAIN t -> 1 .. n]
    BY <1>1, <1>5
  <2>5. InOrder(t, s, K, S, n)
    BY <1>5, <2>1, <2>3, <2>4 DEF InOrder
  <2> QED BY <1>3, <2>2, <2>5
<1> QED BY <1>6, <1>7

----------------------------------------------------------------------------
(* The rows of a preview.                                                  *)

ChosenAt(s) == {n \in DOMAIN s : s[n].selected /\ s[n].status # "invalid"}

\* What Chosen has taken of the first rows
TakenAt(f, s, n) ==
    f = [m \in 0 .. n |-> IF m = 0 THEN <<>>
                          ELSE IF s[m].selected /\ s[m].status # "invalid"
                               THEN Append(f[m - 1], s[m]) ELSE f[m - 1]]

LEMMA TakenIsKept ==
    ASSUME NEW S, NEW s \in Seq(S), NEW f
    PROVE  TakenAt(f, s, Len(s)) <=> KeptAt(f, s, ChosenAt(s), Len(s))
<1>1. \A m \in 0 .. Len(s) : m # 0 => (m \in ChosenAt(s) <=> s[m].selected /\ s[m].status # "invalid")
  BY DEF ChosenAt
<1>2. [m \in 0 .. Len(s) |-> IF m = 0 THEN <<>>
                             ELSE IF s[m].selected /\ s[m].status # "invalid"
                                  THEN Append(f[m - 1], s[m]) ELSE f[m - 1]]
      = [m \in 0 .. Len(s) |-> IF m = 0 THEN <<>>
                               ELSE IF m \in ChosenAt(s) THEN Append(f[m - 1], s[m]) ELSE f[m - 1]]
  BY <1>1
<1> QED BY <1>2 DEF TakenAt, KeptAt

LEMMA ChosenInOrder ==
    ASSUME NEW S, NEW s \in Seq(S)
    PROVE  InOrder(CVs!Chosen(s), s, ChosenAt(s), S, Len(s))
<1> DEFINE c == CHOOSE f : TakenAt(f, s, Len(s))
<1>1. Len(s) \in Nat
  OBVIOUS
<1>2. \E f : TakenAt(f, s, Len(s))
  BY <1>1, KeptAtExists, TakenIsKept
<1>3. KeptAt(c, s, ChosenAt(s), Len(s))
  BY <1>2, TakenIsKept
<1>4. CVs!Chosen(s) = c[Len(s)]
  BY Zenon DEF CVs!Chosen, TakenAt
<1> HIDE DEF c
<1> QED BY <1>1, <1>3, <1>4, KeptInOrder

----------------------------------------------------------------------------
(* Types of the CV values.                                                 *)

CVStatuses == {"new", "changed", "same", "invalid"}
CVRow(n) == [input : CVs!Inputs, existing : 0 .. n, status : CVStatuses, selected : BOOLEAN]
ValueTable(t, n) == DOMAIN t \subseteq 1 .. n /\ \A v \in DOMAIN t : t[v] \in CVs!Inputs
CVJobs(n) ==
    {CVs!NotSaving} \cup [at : {"read"}, rows : Seq(CVRow(n)), by : {"preview"}]
    \cup [at : {"put"}, rows : Seq(CVRow(n)), by : {"preview", "form", "ecos"}]
AnswerFits(x, n) == x.read \in BOOLEAN /\ ValueTable(x.values, n)

CVTypes ==
    /\ cvDrawn \in 0 .. MaxId /\ cvEdits \in Nat
    /\ ValueTable(stored, cvDrawn) /\ ValueTable(copy, cvDrawn)
    /\ preview \in Seq(CVRow(cvDrawn)) /\ editing \in 0 .. cvDrawn
    /\ saving \in CVJobs(cvDrawn)
    /\ IsSeq(refreshes) /\ \A i \in DOMAIN refreshes : AnswerFits(refreshes[i], cvDrawn)

\* What the constants are
LEMMA CVConstants ==
    /\ Profiles \in Seq(CVs!Names) /\ DOMAIN Folded = CVs!Names
    /\ CVFiles \subseteq Seq(CVs!Inputs)
    /\ \A p \in Probes :
         /\ p.cvs \in Seq([number : Int, value : Int]) /\ p.profile \in CVs!Names /\ p.esu \in BOOLEAN
         /\ \A i \in DOMAIN p.cvs, j \in DOMAIN p.cvs : p.cvs[i].number = p.cvs[j].number => i = j
    /\ MaxId \in Nat /\ MaxCVEdits \in Nat
    /\ StoredFirst \in Seq(CVs!Inputs) /\ Len(StoredFirst) <= MaxId
BY ValuesAssumptions DEF CVs!ConstantsFit

\* A value has a key, and its profile a place in the order of the database.
LEMMA RankFits ==
    ASSUME NEW x \in CVs!Inputs
    PROVE  CVs!Rank(x) \in 0 .. Len(Profiles) /\ Len(Profiles) \in Nat
<1>1. /\ x.profile \in CVs!Names /\ Len(Profiles) \in Nat /\ DOMAIN Profiles = 1 .. Len(Profiles)
  BY CVConstants DEF CVs!Inputs
<1>2. \E i \in DOMAIN Profiles : Profiles[i] = x.profile
  BY <1>1 DEF CVs!Names
<1>3. CVs!Rank(x) \in DOMAIN Profiles
  BY <1>2 DEF CVs!Rank
<1> QED BY <1>1, <1>3

\* The last, and the first, of several values is one of them.
LEMMA LastIsOne ==
    ASSUME NEW n \in Nat, NEW t, ValueTable(t, n), NEW ids, ids \subseteq DOMAIN t, ids # {}
    PROVE  CVs!LastOf(ids, t) \in ids
<1> DEFINE R == {CVs!Rank(t[v]) : v \in ids}
           Bounds == {u \in Nat : \A y \in R : y <= u}
<1>1. R \subseteq 0 .. Len(Profiles) /\ Len(Profiles) \in Nat /\ R # {}
  BY RankFits DEF ValueTable
<1>2. PICK m \in R : \A y \in R : y <= m
  <2> HIDE DEF R
  <2>1. Len(Profiles) \in Bounds
    BY <1>1
  <2>2. PICK u \in Bounds : \A w \in Bounds : u <= w
    <3> HIDE DEF Bounds
    <3> QED BY <2>1, LeastNumber DEF Bounds
  <2>3. u \in R
    <3> SUFFICES ASSUME u \notin R PROVE FALSE
      OBVIOUS
    <3>1. \A y \in R : y < u
      BY <1>1, <2>2
    <3>2. u > 0
      <4>1. PICK y \in R : TRUE
        BY <1>1
      <4> QED BY <1>1, <2>2, <3>1, <4>1
    <3>3. u - 1 \in Bounds
      BY <1>1, <2>2, <3>1, <3>2
    <3> QED BY <2>2, <3>3
  <2> QED BY <2>2, <2>3
<1>3. PICK v \in ids : m = CVs!Rank(t[v])
  BY <1>2
<1>4. \A w \in ids : CVs!Rank(t[w]) <= CVs!Rank(t[v])
  BY <1>2, <1>3
<1> QED BY <1>3, <1>4 DEF CVs!LastOf

LEMMA FirstIsOne ==
    ASSUME NEW n \in Nat, NEW t, ValueTable(t, n), NEW ids, ids \subseteq DOMAIN t, ids # {}
    PROVE  CVs!FirstOf(ids, t) \in ids
<1> DEFINE R == {CVs!Rank(t[v]) : v \in ids}
<1>1. R \subseteq 0 .. Len(Profiles) /\ Len(Profiles) \in Nat /\ R # {}
  BY RankFits DEF ValueTable
<1>2. PICK m \in R : \A y \in R : m <= y
  <2> HIDE DEF R
  <2>1. R \subseteq Nat
    BY <1>1
  <2> QED BY <1>1, <2>1, LeastNumber
<1>3. PICK v \in ids : m = CVs!Rank(t[v])
  BY <1>2
<1>4. \A w \in ids : CVs!Rank(t[v]) <= CVs!Rank(t[w])
  BY <1>2, <1>3
<1> QED BY <1>3, <1>4 DEF CVs!FirstOf

\* The id that is found is none, or of one of the values.
LEMMA IdsFit ==
    ASSUME NEW n \in Nat, NEW t, ValueTable(t, n), NEW ids, ids \subseteq DOMAIN t
    PROVE  /\ CVs!LastOf(ids, t) \in 0 .. n /\ CVs!FirstOf(ids, t) \in 0 .. n
           /\ CVs!LastOf(ids, t) = CVs!NoId <=> ids = {}
           /\ CVs!FirstOf(ids, t) = CVs!NoId <=> ids = {}
<1>1. CASE ids = {}
  BY <1>1 DEF CVs!LastOf, CVs!FirstOf, CVs!NoId
<1>2. CASE ids # {}
  BY <1>2, LastIsOne, FirstIsOne DEF CVs!NoId, ValueTable
<1> QED BY <1>1, <1>2

\* A row of a preview
LEMMA RowTypes ==
    ASSUME NEW n \in Nat, NEW t, ValueTable(t, n), NEW x \in CVs!Inputs, NEW again
    PROVE  CVs!Row(x, t, again) \in CVRow(n)
<1>1. CVs!LastOf(CVs!SameKey(x, t), t) \in 0 .. n
  BY IdsFit DEF CVs!SameKey
<1> QED BY <1>1 DEF CVs!Row, CVRow, CVStatuses, CVs!NoId

LEMMA PreviewTypes ==
    ASSUME NEW n \in Nat, NEW t, ValueTable(t, n), NEW f \in Seq(CVs!Inputs)
    PROVE  CVs!Preview(f, t) \in Seq(CVRow(n)) /\ DOMAIN CVs!Preview(f, t) = DOMAIN f
<1> DEFINE p == CVs!Preview(f, t)
<1>1. Len(f) \in Nat /\ DOMAIN f = 1 .. Len(f) /\ \A i \in DOMAIN f : f[i] \in CVs!Inputs
  OBVIOUS
<1>2. DOMAIN p = DOMAIN f /\ \A i \in DOMAIN f : p[i] \in CVRow(n)
  BY <1>1, RowTypes DEF CVs!Preview
<1>3. p = [i \in 1 .. Len(f) |-> p[i]]
  BY <1>1 DEF CVs!Preview
<1> HIDE DEF p
<1>4. p \in Seq(CVRow(n))
  BY <1>1, <1>2, <1>3
<1> QED BY <1>2, <1>4 DEF p

\* Ids that are drawn later change no type.
LEMMA MoreIds ==
    ASSUME CVTypes, NEW m \in Nat, cvDrawn <= m
    PROVE  /\ ValueTable(stored, m) /\ ValueTable(copy, m) /\ preview \in Seq(CVRow(m))
           /\ editing \in 0 .. m /\ saving \in CVJobs(m)
           /\ \A i \in DOMAIN refreshes : AnswerFits(refreshes[i], m)
<1>1. cvDrawn \in Nat /\ 0 .. cvDrawn \subseteq 0 .. m /\ 1 .. cvDrawn \subseteq 1 .. m
  BY CVConstants DEF CVTypes
<1>2. CVRow(cvDrawn) \subseteq CVRow(m)
  BY <1>1 DEF CVRow
<1>3. Seq(CVRow(cvDrawn)) \subseteq Seq(CVRow(m))
  BY <1>2
<1>4. CVJobs(cvDrawn) \subseteq CVJobs(m)
  BY <1>3 DEF CVJobs
<1>5. \A t : ValueTable(t, cvDrawn) => ValueTable(t, m)
  BY <1>1 DEF ValueTable
<1> QED BY <1>1, <1>3, <1>4, <1>5 DEF CVTypes, AnswerFits

\* What is at work
LEMMA CVJobKinds ==
    ASSUME CVTypes
    PROVE  /\ saving.at \in {"none", "read", "put"} /\ (saving.at = "none" <=> saving = CVs!NotSaving)
           /\ saving.at = "read" => saving \in [at : {"read"}, rows : Seq(CVRow(cvDrawn)), by : {"preview"}]
           /\ saving.at = "put" =>
                saving \in [at : {"put"}, rows : Seq(CVRow(cvDrawn)), by : {"preview", "form", "ecos"}]
BY DEF CVTypes, CVJobs, CVs!NotSaving

LEMMA CVStartTypes == ASSUME CVs!CVInit PROVE CVTypes
<1>1. /\ Len(StoredFirst) \in Nat /\ DOMAIN StoredFirst = 1 .. Len(StoredFirst) /\ Len(StoredFirst) <= MaxId
      /\ MaxId \in Nat /\ \A v \in DOMAIN StoredFirst : StoredFirst[v] \in CVs!Inputs
  BY CVConstants
<1>2. cvDrawn \in 0 .. MaxId /\ ValueTable(stored, cvDrawn) /\ ValueTable(copy, cvDrawn)
  BY <1>1 DEF CVs!CVInit, ValueTable
<1>3. preview \in Seq(CVRow(cvDrawn)) /\ editing \in 0 .. cvDrawn /\ saving \in CVJobs(cvDrawn)
  BY <1>1 DEF CVs!CVInit, CVs!NoId, CVJobs
<1>4. IsSeq(refreshes) /\ \A i \in DOMAIN refreshes : AnswerFits(refreshes[i], cvDrawn)
  BY DEF CVs!CVInit, IsSeq
<1> QED BY <1>2, <1>3, <1>4 DEF CVTypes, CVs!CVInit

\* What the server does with a value.
LEMMA CreateTypes ==
    ASSUME CVTypes, NEW x \in CVs!Inputs, CVs!CreateCVValue(x)
    PROVE  /\ cvDrawn' = cvDrawn + 1 /\ cvDrawn' \in 0 .. MaxId /\ ValueTable(stored', cvDrawn')
           /\ DOMAIN stored' = DOMAIN stored \cup {cvDrawn + 1} /\ cvDrawn + 1 \notin DOMAIN stored
           /\ stored'[cvDrawn + 1] = x /\ \A v \in DOMAIN stored : stored'[v] = stored[v]
<1>1. cvDrawn \in Nat /\ MaxId \in Nat /\ cvDrawn < MaxId /\ cvDrawn' = cvDrawn + 1
  BY CVConstants DEF CVTypes, CVs!CreateCVValue
<1>2. DOMAIN stored \subseteq 1 .. cvDrawn /\ \A v \in DOMAIN stored : stored[v] \in CVs!Inputs
  BY DEF CVTypes, ValueTable
<1>3. /\ DOMAIN stored' = DOMAIN stored \cup {cvDrawn + 1} /\ cvDrawn + 1 \notin DOMAIN stored
      /\ stored'[cvDrawn + 1] = x /\ \A v \in DOMAIN stored : stored'[v] = stored[v]
  BY <1>1, <1>2 DEF CVs!CreateCVValue
<1>4. ValueTable(stored', cvDrawn')
  BY <1>1, <1>2, <1>3 DEF ValueTable
<1> QED BY <1>1, <1>3, <1>4

LEMMA UpdateTypes ==
    ASSUME CVTypes, NEW x \in CVs!Inputs, NEW id, CVs!UpdateCVValue(id, x)
    PROVE  /\ cvDrawn' = cvDrawn /\ ValueTable(stored', cvDrawn')
           /\ id \in DOMAIN stored /\ DOMAIN stored' = DOMAIN stored
           /\ stored'[id] = x /\ \A v \in DOMAIN stored \ {id} : stored'[v] = stored[v]
BY DEF CVs!UpdateCVValue, CVTypes, ValueTable

LEMMA DeleteTypes ==
    ASSUME CVTypes, NEW id, CVs!DeleteCVValue(id)
    PROVE  cvDrawn' = cvDrawn /\ ValueTable(stored', cvDrawn')
BY DEF CVs!DeleteCVValue, CVTypes, ValueTable

\* The questions: one more is asked, one is answered, one is over.
LEMMA AskTypes ==
    ASSUME CVTypes, CVs!RefreshSelectedVehicle
    PROVE  IsSeq(refreshes') /\ \A n : \A i \in DOMAIN refreshes' :
             (i \in DOMAIN refreshes /\ refreshes'[i] = refreshes[i]) \/ AnswerFits(refreshes'[i], n)
<1>1. AnswerFits(CVs!Asked, 0) /\ \A n : AnswerFits(CVs!Asked, n)
  BY DEF AnswerFits, ValueTable, CVs!Asked
<1>2. /\ IsSeq(refreshes') /\ Len(refreshes) \in Nat
      /\ DOMAIN refreshes = 1 .. Len(refreshes) /\ DOMAIN refreshes' = 1 .. Len(refreshes) + 1
      /\ refreshes'[Len(refreshes) + 1] = CVs!Asked /\ \A i \in DOMAIN refreshes : refreshes'[i] = refreshes[i]
  BY Appended DEF CVTypes, CVs!RefreshSelectedVehicle
<1> QED BY <1>1, <1>2

LEMMA FunctionIsSeq ==
    ASSUME NEW n \in Nat, NEW u, u = [j \in 1 .. n |-> u[j]]
    PROVE  IsSeq(u)
<1> DEFINE S == {u[j] : j \in DOMAIN u}
<1>1. \A j \in 1 .. n : u[j] \in S
  OBVIOUS
<1> HIDE DEF S
<1>2. u \in Seq(S)
  BY <1>1
<1> QED BY <1>2 DEF IsSeq, S

LEMMA RefreshingTypes ==
    ASSUME CVTypes, CVs!Refreshing
    PROVE  CVTypes'
<1>1. PICK i \in DOMAIN refreshes : CVs!GetVehicle(i) \/ CVs!RefreshAnswered(i) \/ CVs!RefreshFailed(i)
  BY DEF CVs!Refreshing
<1>2. /\ IsSeq(refreshes) /\ Len(refreshes) \in Nat /\ DOMAIN refreshes = 1 .. Len(refreshes)
      /\ \A j \in DOMAIN refreshes : AnswerFits(refreshes[j], cvDrawn)
  BY DEF CVTypes, IsSeq
<1>3. CASE CVs!GetVehicle(i)
  <2> DEFINE x == [read |-> TRUE, values |-> stored]
  <2>1. /\ DOMAIN refreshes' = DOMAIN refreshes /\ refreshes'[i] = x
        /\ \A j \in DOMAIN refreshes \ {i} : refreshes'[j] = refreshes[j]
        /\ refreshes' = [refreshes EXCEPT ![i] = x]
    BY <1>3 DEF CVs!GetVehicle
  <2>2. AnswerFits(x, cvDrawn)
    BY DEF AnswerFits, CVTypes
  <2> HIDE DEF x
  <2>3. IsSeq(refreshes')
    <3>1. refreshes' = [j \in 1 .. Len(refreshes) |-> refreshes'[j]]
      BY <1>2, <2>1
    <3> QED BY <1>2, <3>1, FunctionIsSeq
  <2>4. UNCHANGED <<stored, cvDrawn, copy, preview, editing, saving, cvEdits>>
    BY <1>3 DEF CVs!GetVehicle
  <2> QED BY <1>2, <2>1, <2>2, <2>3, <2>4 DEF CVTypes
<1>4. CASE CVs!RefreshAnswered(i) \/ CVs!RefreshFailed(i)
  <2>1. /\ IsSeq(refreshes') /\ DOMAIN refreshes' = 1 .. Len(refreshes) - 1
        /\ \A j \in DOMAIN refreshes' : refreshes'[j] = IF j < i THEN refreshes[j] ELSE refreshes[j + 1]
    <3>1. refreshes' = RemoveAt(refreshes, i)
      BY <1>4 DEF CVs!RefreshAnswered, CVs!RefreshFailed, CVs!RemoveAt, RemoveAt
    <3> QED BY <1>2, <3>1, Removed
  <2>2. \A j \in DOMAIN refreshes' : AnswerFits(refreshes'[j], cvDrawn)
    BY <1>2, <2>1
  <2>3. UNCHANGED <<stored, cvDrawn, saving, cvEdits>>
    BY <1>4 DEF CVs!RefreshAnswered, CVs!RefreshFailed
  <2>4. ValueTable(copy', cvDrawn) /\ preview' \in Seq(CVRow(cvDrawn)) /\ editing' \in 0 .. cvDrawn
    <3>1. CASE CVs!RefreshFailed(i)
      BY <3>1 DEF CVTypes, CVs!RefreshFailed
    <3>2. CASE CVs!RefreshAnswered(i)
      <4>1. AnswerFits(refreshes[i], cvDrawn) /\ cvDrawn \in Nat
        BY <1>2, CVConstants DEF CVTypes
      <4> QED BY <3>2, <4>1 DEF CVs!RefreshAnswered, AnswerFits, CVs!NoId
    <3> QED BY <1>4, <3>1, <3>2
  <2> QED BY <2>1, <2>2, <2>3, <2>4 DEF CVTypes
<1> QED BY <1>1, <1>3, <1>4

\* What an ECoS suggests: each number once, all of one profile.
LEMMA SuggestionsFit ==
    ASSUME NEW p \in Probes
    PROVE  LET s == CVs!Suggestions(p)
           IN  /\ s \in Seq(CVs!Inputs)
               /\ \A i \in DOMAIN s, j \in DOMAIN s : s[i].number = s[j].number => i = j
<1>0. /\ p.cvs \in Seq([number : Int, value : Int]) /\ p.profile \in CVs!Names
      /\ \A i \in DOMAIN p.cvs, j \in DOMAIN p.cvs : p.cvs[i].number = p.cvs[j].number => i = j
  <2>1. \A q \in Probes :
         /\ q.cvs \in Seq([number : Int, value : Int]) /\ q.profile \in CVs!Names /\ q.esu \in BOOLEAN
         /\ \A i \in DOMAIN q.cvs, j \in DOMAIN q.cvs : q.cvs[i].number = q.cvs[j].number => i = j
    BY CVConstants, Zenon
  <2> QED BY <2>1, Zenon
<1>9. PICK c : c = p.cvs
  OBVIOUS
<1> DEFINE At(i) == [number |-> c[i].number, value |-> c[i].value, profile |-> p.profile]
           r == [i \in DOMAIN c |-> At(i)]
           x == [number |-> 8, value |-> CVs!ESU, profile |-> p.profile]
<1>1. /\ p.profile \in CVs!Names
      /\ \A i \in DOMAIN c, j \in DOMAIN c : c[i].number = c[j].number => i = j
      /\ Len(c) \in Nat /\ DOMAIN c = 1 .. Len(c) /\ \A i \in DOMAIN c : c[i] \in [number : Int, value : Int]
  <2>1. c \in Seq([number : Int, value : Int])
    BY <1>0, <1>9
  <2>2. Len(c) \in Nat /\ DOMAIN c = 1 .. Len(c) /\ \A i \in DOMAIN c : c[i] \in [number : Int, value : Int]
    <3>1. PICK S : S = [number : Int, value : Int]
      OBVIOUS
    <3>2. c \in Seq(S)
      BY <2>1, <3>1, Zenon
    <3>3. Len(c) \in Nat /\ DOMAIN c = 1 .. Len(c) /\ \A i \in DOMAIN c : c[i] \in S
      BY <3>2
    <3> QED BY <3>1, <3>3, Zenon
  <2>3. \A i \in DOMAIN c, j \in DOMAIN c : c[i].number = c[j].number => i = j
    BY <1>0, <1>9, Zenon
  <2> QED BY <1>0, <2>2, <2>3, Zenon
<1>2. \A i \in DOMAIN c : At(i) \in CVs!Inputs
  BY <1>1 DEF CVs!Inputs
<1>3. r = [i \in 1 .. Len(c) |-> At(i)]
  BY <1>1
<1>4. r \in Seq(CVs!Inputs) /\ Len(r) = Len(c) /\ DOMAIN r = DOMAIN c
  BY <1>1, <1>2, <1>3
<1>5. \A i \in DOMAIN c : r[i].number = c[i].number
  OBVIOUS
<1>6. CASE CVs!HasCV8(c) \/ ~p.esu
  <2>1. CVs!Suggestions(p) = r
    BY <1>6, <1>9 DEF CVs!Suggestions
  <2> HIDE DEF r
  <2> QED BY <1>1, <1>4, <1>5, <2>1
<1>7. CASE ~(CVs!HasCV8(c) \/ ~p.esu)
  <2>1. CVs!Suggestions(p) = Append(r, x)
    BY <1>7, <1>9 DEF CVs!Suggestions
  <2>2. x \in CVs!Inputs /\ x.number = 8
    BY <1>1 DEF CVs!Inputs, CVs!ESU
  <2>3. \A i \in DOMAIN c : c[i].number # 8
    BY <1>7 DEF CVs!HasCV8
  <2> DEFINE u == Append(r, x)
             l == Len(c) + 1
  <2> HIDE DEF r, x
  <2>4. /\ u \in Seq(CVs!Inputs) /\ u[l] = x
        /\ \A i \in DOMAIN u : i = l \/ (i \in DOMAIN c /\ u[i] = r[i])
    BY <1>1, <1>4, <2>2
  <2> HIDE DEF u, l
  <2>5. ASSUME NEW i \in DOMAIN u, NEW j \in DOMAIN u, u[i].number = u[j].number
        PROVE  i = j
    <3>1. CASE i = l /\ j = l
      BY <3>1
    <3>2. CASE i = l /\ j \in DOMAIN c /\ u[j] = r[j]
      BY <1>5, <2>2, <2>3, <2>4, <2>5, <3>2
    <3>3. CASE j = l /\ i \in DOMAIN c /\ u[i] = r[i]
      BY <1>5, <2>2, <2>3, <2>4, <2>5, <3>3
    <3>4. CASE i \in DOMAIN c /\ u[i] = r[i] /\ j \in DOMAIN c /\ u[j] = r[j]
      BY <1>1, <1>5, <2>5, <3>4
    <3> QED BY <2>4, <3>1, <3>2, <3>3, <3>4
  <2> QED BY <2>1, <2>4, <2>5 DEF u
<1> QED BY <1>6, <1>7

\* The rows that are chosen are rows.
LEMMA ChosenTypes ==
    ASSUME NEW n, NEW s \in Seq(CVRow(n))
    PROVE  CVs!Chosen(s) \in Seq(CVRow(n))
BY ChosenInOrder DEF InOrder

\* The save of values is begun.
LEMMA BeginTypes ==
    ASSUME CVTypes, NEW r \in Seq(CVRow(cvDrawn)), NEW by \in {"preview", "form", "ecos"},
           saving' = [at |-> "put", rows |-> r, by |-> by]
             \/ (by = "preview" /\ saving' = [at |-> "read", rows |-> r, by |-> by]),
           cvEdits' \in Nat, UNCHANGED <<stored, cvDrawn, copy, preview, editing, refreshes>>
    PROVE  CVTypes'
<1>1. saving' \in CVJobs(cvDrawn)
  BY DEF CVJobs
<1> QED BY <1>1 DEF CVTypes

LEMMA ImportBeginTypes ==
    ASSUME CVTypes, \/ \E f \in CVFiles : CVs!ImportCVValues(f)
                    \/ \E p \in Probes : CVs!SaveCVSuggestions(p)
                    \/ CVs!ApplyPreview
                    \/ \E f \in CVFiles : \E i \in DOMAIN f : CVs!SaveCVValue(f[i])
    PROVE  CVTypes'
<1>0. /\ cvDrawn \in Nat /\ cvEdits \in Nat /\ ValueTable(copy, cvDrawn) /\ ValueTable(stored, cvDrawn)
      /\ preview \in Seq(CVRow(cvDrawn)) /\ editing \in 0 .. cvDrawn
      /\ cvEdits + 1 \in Nat
  BY CVConstants DEF CVTypes
<1>1. ASSUME NEW f \in CVFiles, CVs!ImportCVValues(f) PROVE CVTypes'
  <2>1. CVs!Preview(f, copy) \in Seq(CVRow(cvDrawn))
    BY <1>0, PreviewTypes, CVConstants
  <2> QED BY <1>0, <1>1, <2>1, BeginTypes DEF CVs!ImportCVValues, CVs!Edit
<1>2. ASSUME NEW p \in Probes, CVs!SaveCVSuggestions(p) PROVE CVTypes'
  <2> DEFINE s == CVs!Suggestions(p)
             Exact(x) == {v \in DOMAIN stored : stored[v].number = x.number /\ stored[v].profile = x.profile}
             At(i) == [input |-> s[i], status |-> CVs!Shown(s[i], copy), selected |-> TRUE,
                       existing |-> CVs!FirstOf(Exact(s[i]), stored)]
             r == [i \in DOMAIN s |-> At(i)]
  <2>1. saving' = [at |-> "put", by |-> "ecos", rows |-> r]
    BY <1>2 DEF CVs!SaveCVSuggestions
  <2>2. s \in Seq(CVs!Inputs)
    BY SuggestionsFit
  <2> HIDE DEF s
  <2>3. \A i \in DOMAIN s : At(i) \in CVRow(cvDrawn)
    <3> SUFFICES ASSUME NEW i \in DOMAIN s PROVE At(i) \in CVRow(cvDrawn)
      OBVIOUS
    <3>1. s[i] \in CVs!Inputs
      BY <2>2
    <3>2. CVs!FirstOf(Exact(s[i]), stored) \in 0 .. cvDrawn
      BY <1>0, IdsFit
    <3>3. CVs!Shown(s[i], copy) \in CVStatuses
      BY DEF CVs!Shown, CVStatuses
    <3> QED BY <3>1, <3>2, <3>3 DEF CVRow
  <2>4. r \in Seq(CVRow(cvDrawn))
    <3>1. Len(s) \in Nat /\ r = [i \in 1 .. Len(s) |-> At(i)] /\ DOMAIN s = 1 .. Len(s)
      BY <2>2
    <3> QED BY <2>3, <3>1
  <2> HIDE DEF r
  <2>5. saving' = [at |-> "put", rows |-> r, by |-> "ecos"]
    BY <2>1
  <2> QED BY <1>0, <1>2, <2>4, <2>5, BeginTypes DEF CVs!SaveCVSuggestions, CVs!Edit
<1>3. CASE CVs!ApplyPreview
  <2>1. CVs!Chosen(preview) \in Seq(CVRow(cvDrawn))
    BY <1>0, ChosenTypes
  <2> QED BY <1>0, <1>3, <2>1, BeginTypes DEF CVs!ApplyPreview, CVs!Edit
<1>4. ASSUME NEW f \in CVFiles, NEW i \in DOMAIN f, CVs!SaveCVValue(f[i]) PROVE CVTypes'
  <2> DEFINE id == IF editing # CVs!NoId THEN editing ELSE CVs!FirstOf(CVs!SameKey(f[i], copy), copy)
             x == [input |-> f[i], status |-> "changed", selected |-> TRUE, existing |-> id]
  <2>1. f[i] \in CVs!Inputs
    BY CVConstants
  <2>2. CVs!FirstOf(CVs!SameKey(f[i], copy), copy) \in 0 .. cvDrawn
    BY <1>0, IdsFit DEF CVs!SameKey
  <2>3. x \in CVRow(cvDrawn)
    BY <1>0, <2>1, <2>2 DEF CVRow, CVStatuses
  <2>4. saving' = [at |-> "put", by |-> "form", rows |-> <<x>>]
    BY <1>4 DEF CVs!SaveCVValue
  <2> HIDE DEF x
  <2>5. <<x>> \in Seq(CVRow(cvDrawn)) /\ saving' = [at |-> "put", rows |-> <<x>>, by |-> "form"]
    BY <2>3, <2>4
  <2> QED BY <1>0, <1>4, <2>5, BeginTypes DEF CVs!SaveCVValue, CVs!Edit
<1> QED BY <1>1, <1>2, <1>3, <1>4

\* The user changes what is selected, edits a value or discards the preview.
LEMMA TabTypes ==
    ASSUME CVTypes, \/ \E i \in DOMAIN preview : CVs!ToggleRow(i)
                    \/ \E mode \in {"all", "none", "empty"} : CVs!SelectRows(mode)
                    \/ CVs!Discard
                    \/ \E v \in DOMAIN copy : CVs!EditCVValue(v)
    PROVE  CVTypes'
<1>0. /\ cvDrawn \in Nat /\ preview \in Seq(CVRow(cvDrawn)) /\ Len(preview) \in Nat /\ DOMAIN preview = 1 .. Len(preview)
      /\ \A i \in DOMAIN preview : preview[i] \in CVRow(cvDrawn)
  BY CVConstants DEF CVTypes
<1>1. ASSUME NEW i \in DOMAIN preview, CVs!ToggleRow(i) PROVE CVTypes'
  <2>1. preview' = [preview EXCEPT ![i].selected = ~preview[i].selected]
    BY <1>1 DEF CVs!ToggleRow
  <2>2. [preview[i] EXCEPT !.selected = ~preview[i].selected] \in CVRow(cvDrawn)
    BY <1>0 DEF CVRow
  <2>3. preview' = [preview EXCEPT ![i] = [preview[i] EXCEPT !.selected = ~preview[i].selected]]
    BY <2>1
  <2>4. preview' \in Seq(CVRow(cvDrawn))
    BY <1>0, <2>2, <2>3
  <2> QED BY <1>1, <2>4 DEF CVTypes, CVs!ToggleRow
<1>2. ASSUME NEW mode, CVs!SelectRows(mode) PROVE CVTypes'
  <2> DEFINE on(i) == preview[i].status # "invalid" /\
                        (mode = "all" \/ (mode = "empty" /\ preview[i].status = "new"))
             At(i) == [preview[i] EXCEPT !.selected = on(i)]
             p == [i \in DOMAIN preview |-> At(i)]
  <2>1. preview' = p
    BY <1>2 DEF CVs!SelectRows
  <2>2. \A i \in DOMAIN preview : At(i) \in CVRow(cvDrawn)
    <3> SUFFICES ASSUME NEW i \in DOMAIN preview PROVE At(i) \in CVRow(cvDrawn)
      OBVIOUS
    <3>1. on(i) \in BOOLEAN
      OBVIOUS
    <3> HIDE DEF on
    <3> QED BY <1>0, <3>1 DEF CVRow
  <2> HIDE DEF At
  <2>3. p \in Seq(CVRow(cvDrawn))
    <3>1. p = [i \in 1 .. Len(preview) |-> At(i)]
      BY <1>0
    <3> QED BY <1>0, <2>2, <3>1
  <2> HIDE DEF p
  <2> QED BY <1>2, <2>1, <2>3 DEF CVTypes, CVs!SelectRows
<1>3. CASE CVs!Discard
  BY <1>3 DEF CVTypes, CVs!Discard
<1>4. ASSUME NEW v \in DOMAIN copy, CVs!EditCVValue(v) PROVE CVTypes'
  <2>1. v \in 0 .. cvDrawn
    BY <1>0 DEF CVTypes, ValueTable
  <2> QED BY <1>4, <2>1 DEF CVTypes, CVs!EditCVValue
<1> QED BY <1>1, <1>2, <1>3, <1>4

LEMMA TailOfRows ==
    ASSUME NEW S, NEW s \in Seq(S), s # <<>>
    PROVE  /\ Len(s) \in Nat /\ Len(s) > 0 /\ DOMAIN s = 1 .. Len(s) /\ Head(s) = s[1] /\ s[1] \in S
           /\ Tail(s) \in Seq(S) /\ Len(Tail(s)) = Len(s) - 1 /\ DOMAIN Tail(s) = 1 .. Len(s) - 1
           /\ \A i \in DOMAIN Tail(s) : i + 1 \in DOMAIN s /\ Tail(s)[i] = s[i + 1]
<1>1. Len(s) \in Nat /\ Len(s) > 0 /\ DOMAIN s = 1 .. Len(s) /\ Head(s) = s[1] /\ s[1] \in S
  OBVIOUS
<1>2. /\ Tail(s) \in Seq(S) /\ Len(Tail(s)) = Len(s) - 1 /\ DOMAIN Tail(s) = 1 .. Len(s) - 1
      /\ \A i \in 1 .. Len(s) - 1 : Tail(s)[i] = s[i + 1]
  OBVIOUS
<1> QED BY <1>1, <1>2

\* The server is asked to store a value: one that it knows, or a new one.
LEMMA PutTypes ==
    ASSUME CVTypes, NEW x \in CVs!Inputs, NEW id, CVs!Put(id, x)
    PROVE  /\ CVs!Valid(x) /\ cvDrawn' \in 0 .. MaxId /\ cvDrawn <= cvDrawn' /\ ValueTable(stored', cvDrawn')
           /\ DOMAIN stored \subseteq DOMAIN stored'
           /\ \E w \in DOMAIN stored' :
                /\ stored'[w] = x
                /\ IF id = CVs!NoId THEN w \notin 1 .. cvDrawn /\ w \notin DOMAIN stored
                                    ELSE w = id /\ id \in DOMAIN stored
                /\ DOMAIN stored' = DOMAIN stored \cup {w}
                /\ \A v \in DOMAIN stored \ {w} : stored'[v] = stored[v]
<1>1. cvDrawn \in 0 .. MaxId /\ MaxId \in Nat
  BY CVConstants DEF CVTypes
<1>2. CASE id = CVs!NoId
  <2>1. CVs!CreateCVValue(x)
    BY <1>2 DEF CVs!Put
  <2>2. CVs!Valid(x)
    BY <2>1 DEF CVs!CreateCVValue
  <2>3. /\ cvDrawn' = cvDrawn + 1 /\ cvDrawn' \in 0 .. MaxId /\ ValueTable(stored', cvDrawn')
        /\ DOMAIN stored' = DOMAIN stored \cup {cvDrawn + 1} /\ cvDrawn + 1 \notin DOMAIN stored
        /\ stored'[cvDrawn + 1] = x /\ \A v \in DOMAIN stored : stored'[v] = stored[v]
    BY <2>1, CreateTypes
  <2>4. cvDrawn + 1 \notin 1 .. cvDrawn
    BY <1>1
  <2> QED BY <1>1, <1>2, <2>2, <2>3, <2>4
<1>3. CASE id # CVs!NoId
  <2>1. CVs!UpdateCVValue(id, x)
    BY <1>3 DEF CVs!Put
  <2>2. CVs!Valid(x)
    BY <2>1 DEF CVs!UpdateCVValue
  <2>3. /\ cvDrawn' = cvDrawn /\ ValueTable(stored', cvDrawn')
        /\ id \in DOMAIN stored /\ DOMAIN stored' = DOMAIN stored
        /\ stored'[id] = x /\ \A v \in DOMAIN stored \ {id} : stored'[v] = stored[v]
    BY <2>1, UpdateTypes
  <2> QED BY <1>1, <1>3, <2>2, <2>3
<1> QED BY <1>2, <1>3

\* A loop of requests, or the reading of a file, takes a step.
LEMMA PutNextTypes == ASSUME CVTypes, CVs!PutNext PROVE CVTypes'
<1>0. cvDrawn \in 0 .. MaxId /\ cvDrawn \in Nat /\ MaxId \in Nat
  BY CVConstants DEF CVTypes
<1>1. /\ saving \in [at : {"put"}, rows : Seq(CVRow(cvDrawn)), by : {"preview", "form", "ecos"}]
      /\ saving.rows # <<>>
  BY CVJobKinds DEF CVs!PutNext
<1> DEFINE x == Head(saving.rows)
<1>2. x \in CVRow(cvDrawn) /\ Tail(saving.rows) \in Seq(CVRow(cvDrawn))
  <2>1. PICK s : s = saving.rows
    OBVIOUS
  <2>2. s \in Seq(CVRow(cvDrawn)) /\ s # <<>>
    BY <1>1, <2>1
  <2>3. PICK S : S = CVRow(cvDrawn)
    OBVIOUS
  <2>4. Head(s) \in S /\ Tail(s) \in Seq(S)
    BY <2>2, <2>3, TailOfRows
  <2> QED BY <2>1, <2>3, <2>4
<1>3. /\ saving' \in {[saving EXCEPT !.rows = Tail(saving.rows)], CVs!NotSaving}
      /\ CVs!Put(x.existing, x.input) \/ (UNCHANGED <<stored, cvDrawn>>)
      /\ UNCHANGED <<copy, preview, editing, refreshes, cvEdits>>
  BY DEF CVs!PutNext, CVs!Rest
<1>4. x.input \in CVs!Inputs
  BY <1>2 DEF CVRow
<1> HIDE DEF x
<1>5. cvDrawn' \in 0 .. MaxId /\ cvDrawn <= cvDrawn' /\ ValueTable(stored', cvDrawn')
  <2>1. CASE CVs!Put(x.existing, x.input)
    BY <1>4, <2>1, PutTypes
  <2>2. CASE UNCHANGED <<stored, cvDrawn>>
    BY <1>0, <2>2 DEF CVTypes
  <2> QED BY <1>3, <2>1, <2>2
<1>6. PICK n : n = cvDrawn'
  OBVIOUS
<1>7. n \in Nat /\ cvDrawn <= n
  BY <1>0, <1>5, <1>6
<1>8. /\ ValueTable(copy, n) /\ preview \in Seq(CVRow(n)) /\ editing \in 0 .. n
      /\ \A i \in DOMAIN refreshes : AnswerFits(refreshes[i], n)
  BY <1>7, MoreIds
<1>9. Seq(CVRow(cvDrawn)) \subseteq Seq(CVRow(n))
  <2>1. CVRow(cvDrawn) \subseteq CVRow(n)
    BY <1>0, <1>7 DEF CVRow
  <2> QED BY <2>1
<1>10. saving' \in CVJobs(n)
  <2>1. [saving EXCEPT !.rows = Tail(saving.rows)]
          \in [at : {"put"}, rows : Seq(CVRow(n)), by : {"preview", "form", "ecos"}]
    BY <1>1, <1>2, <1>9
  <2> QED BY <1>3, <2>1 DEF CVJobs
<1> QED BY <1>3, <1>5, <1>6, <1>8, <1>10 DEF CVTypes

LEMMA CVSavingTypes == ASSUME CVTypes, CVs!CVSaving PROVE CVTypes'
<1>0. cvDrawn \in Nat /\ MaxId \in Nat
  BY CVConstants DEF CVTypes
<1>1. CASE CVs!FileRead
  <2>1. saving \in [at : {"read"}, rows : Seq(CVRow(cvDrawn)), by : {"preview"}]
    BY <1>1, CVJobKinds DEF CVs!FileRead
  <2>2. preview' \in Seq(CVRow(cvDrawn)) /\ saving' = CVs!NotSaving
    BY <1>1, <2>1 DEF CVs!FileRead, CVTypes
  <2> QED BY <1>1, <2>2 DEF CVTypes, CVs!FileRead, CVJobs
<1>2. CASE CVs!PutNext
  BY <1>2, PutNextTypes
<1>3. CASE CVs!PutAll
  <2>1. /\ saving' = CVs!NotSaving /\ preview' \in Seq(CVRow(cvDrawn)) /\ editing' \in 0 .. cvDrawn
        /\ UNCHANGED <<stored, cvDrawn, copy, cvEdits>>
    BY <1>0, <1>3 DEF CVs!PutAll, CVTypes, CVs!NoId
  <2>2. IsSeq(refreshes') /\ \A i \in DOMAIN refreshes' : AnswerFits(refreshes'[i], cvDrawn)
    <3>1. CASE CVs!RefreshSelectedVehicle
      BY <3>1, AskTypes DEF CVTypes
    <3>2. CASE UNCHANGED refreshes
      BY <3>2 DEF CVTypes
    <3> QED BY <1>3, <3>1, <3>2 DEF CVs!PutAll
  <2> QED BY <2>1, <2>2 DEF CVTypes, CVJobs
<1> QED BY <1>1, <1>2, <1>3 DEF CVs!CVSaving

\* A value is deleted by the user, or another user works on the values.
LEMMA DeleteValueTypes == ASSUME CVTypes, NEW id, CVs!DeleteValue(id) PROVE CVTypes'
<1>0. cvDrawn \in Nat /\ cvEdits \in Nat /\ MaxId \in Nat /\ cvDrawn \in 0 .. MaxId
  BY CVConstants DEF CVTypes
<1>1. /\ UNCHANGED <<copy, preview, editing, saving>> /\ cvEdits' \in Nat
      /\ \/ CVs!DeleteCVValue(id) /\ (CVs!RefreshSelectedVehicle \/ UNCHANGED refreshes)
         \/ UNCHANGED <<stored, cvDrawn, refreshes>>
  BY <1>0 DEF CVs!DeleteValue, CVs!Edit
<1>2. cvDrawn' = cvDrawn /\ ValueTable(stored', cvDrawn')
  <2>1. CASE CVs!DeleteCVValue(id)
    BY <2>1, DeleteTypes
  <2>2. CASE UNCHANGED <<stored, cvDrawn, refreshes>>
    BY <2>2 DEF CVTypes
  <2> QED BY <1>1, <2>1, <2>2
<1>3. IsSeq(refreshes') /\ \A i \in DOMAIN refreshes' : AnswerFits(refreshes'[i], cvDrawn)
  <2>1. CASE CVs!RefreshSelectedVehicle
    BY <2>1, AskTypes DEF CVTypes
  <2>2. CASE UNCHANGED refreshes
    BY <2>2 DEF CVTypes
  <2> QED BY <1>1, <2>1, <2>2
<1> QED BY <1>0, <1>1, <1>2, <1>3 DEF CVTypes

LEMMA OtherUserTypes == ASSUME CVTypes, CVs!OtherUser PROVE CVTypes'
<1>0. cvDrawn \in Nat /\ cvEdits \in Nat /\ MaxId \in Nat /\ cvDrawn \in 0 .. MaxId
  BY CVConstants DEF CVTypes
<1>1. UNCHANGED <<copy, preview, editing, saving, refreshes>> /\ cvEdits' \in Nat
  BY <1>0 DEF CVs!OtherUser
<1>2. cvDrawn' = cvDrawn /\ ValueTable(stored', cvDrawn')
  <2>1. ASSUME NEW v \in DOMAIN stored, CVs!DeleteCVValue(v)
        PROVE  cvDrawn' = cvDrawn /\ ValueTable(stored', cvDrawn')
    BY <2>1, DeleteTypes
  <2>2. ASSUME NEW v \in DOMAIN stored, NEW f \in CVFiles, Len(f) > 0, CVs!UpdateCVValue(v, f[1])
        PROVE  cvDrawn' = cvDrawn /\ ValueTable(stored', cvDrawn')
    <3>1. f[1] \in CVs!Inputs
      <4>1. f \in Seq(CVs!Inputs)
        BY CVConstants
      <4>2. PICK S : S = CVs!Inputs
        OBVIOUS
      <4>3. f[1] \in S
        BY <2>2, <4>1, <4>2
      <4> QED BY <4>2, <4>3
    <3> QED BY <2>2, <3>1, UpdateTypes
  <2> QED BY <2>1, <2>2 DEF CVs!OtherUser
<1> QED BY <1>0, <1>1, <1>2 DEF CVTypes

LEMMA CVTypesAreKept == ASSUME CVTypes, CVs!CVNext PROVE CVTypes'
<1>1. CASE CVs!CVSaving
  BY <1>1, CVSavingTypes
<1>2. CASE CVs!Refreshing
  BY <1>2, RefreshingTypes
<1>3. CASE CVs!OtherUser
  BY <1>3, OtherUserTypes
<1>4. CASE \/ \E f \in CVFiles : CVs!ImportCVValues(f)
           \/ \E p \in Probes : CVs!SaveCVSuggestions(p)
           \/ CVs!ApplyPreview
           \/ \E f \in CVFiles : \E i \in DOMAIN f : CVs!SaveCVValue(f[i])
  BY <1>4, ImportBeginTypes
<1>5. CASE \/ \E i \in DOMAIN preview : CVs!ToggleRow(i)
           \/ \E mode \in {"all", "none", "empty"} : CVs!SelectRows(mode)
           \/ CVs!Discard
           \/ \E v \in DOMAIN copy : CVs!EditCVValue(v)
  BY <1>5, TabTypes
<1>6. CASE \E v \in DOMAIN copy : CVs!DeleteValue(v)
  BY <1>6, DeleteValueTypes
<1> QED BY <1>1, <1>2, <1>3, <1>4, <1>5, <1>6 DEF CVs!CVNext, CVs!CVImportPreview, CVs!CVEditor

----------------------------------------------------------------------------
(* The inductive invariant of the CV values.                               *)

Putting == saving.at = "put"

\* What the tab shows is what the server has, or will be when the last question is answered.
Follows ==
    /\ Putting => refreshes = <<>>
    /\ ~Putting => IF refreshes = <<>> THEN copy = stored
                   ELSE refreshes[Len(refreshes)].read => refreshes[Len(refreshes)].values = stored

\* A row whose status is what the values that are shown give it.
Fresh(x) ==
    /\ CVs!Valid(x.input)
    /\ IF x.existing = CVs!NoId
       THEN x.status = "new" /\ CVs!SameKey(x.input, copy) = {}
       ELSE /\ x.existing \in DOMAIN copy /\ CVs!Key(copy[x.existing]) = CVs!Key(x.input)
            /\ x.status = IF copy[x.existing].value = x.input.value THEN "same" ELSE "changed"

\* The rows of a preview that are stored already.
DoneRows == Len(Stores) - Len(saving.rows)

\* The remaining rows are the last ones of the preview; a value is as it was shown or has the
\* key of a row that is done, and every row that is done is in a value.
ByPreview ==
    Putting /\ saving.by = "preview" /\ CVs!PreviewFresh =>
      /\ DoneRows >= 0
      /\ \A i \in DOMAIN saving.rows : saving.rows[i] = Stores[DoneRows + i]
      /\ \A v \in DOMAIN stored : v \in DOMAIN copy => CVs!Key(stored[v]) = CVs!Key(copy[v])
      /\ \A v \in DOMAIN stored :
           \/ v \in DOMAIN copy /\ stored[v] = copy[v]
           \/ \E j \in 1 .. DoneRows : CVs!Key(stored[v]) = CVs!Key(Stores[j].input)
      /\ \A j \in 1 .. DoneRows : \E v \in DOMAIN stored : stored[v] = Stores[j].input

SameName(x, y) == x.number = y.number /\ x.profile = y.profile

\* The remaining rows are of numbers of their own, and a value is as it was shown or no
\* remaining row has its number.
ByEcos ==
    Putting /\ saving.by = "ecos" =>
      /\ \A i \in DOMAIN saving.rows :
           /\ saving.rows[i].status = CVs!Shown(saving.rows[i].input, copy)
           /\ saving.rows[i].existing # CVs!NoId =>
                /\ saving.rows[i].existing \in DOMAIN copy
                /\ SameName(copy[saving.rows[i].existing], saving.rows[i].input)
           /\ \A j \in DOMAIN saving.rows :
                saving.rows[j].input.number = saving.rows[i].input.number => j = i
      /\ \A v \in DOMAIN copy :
           /\ v \in DOMAIN stored /\ SameName(copy[v], stored[v])
           /\ \/ stored[v] = copy[v]
              \/ \A i \in DOMAIN saving.rows : saving.rows[i].input.number # stored[v].number

\* What the last preview brought in is stored, under keys of its own.
KeptInputs ==
    /\ imported # <<>> => ~Putting
    /\ \A i \in DOMAIN imported : i \in Nat /\ 1 .. i - 1 \subseteq DOMAIN imported
    /\ \A i \in DOMAIN imported :
         /\ CVs!Valid(imported[i])
         /\ \A j \in DOMAIN imported : CVs!Key(imported[i]) = CVs!Key(imported[j]) => i = j
         /\ \E v \in DOMAIN stored : stored[v] = imported[i]

CVFacts == Follows /\ ByPreview /\ ByEcos /\ KeptInputs
CVPage == page = "values" => CVTypes /\ (~disturbed => CVFacts)

----------------------------------------------------------------------------
\* A row that may be chosen, if the preview is fresh.
LEMMA FreshRow ==
    ASSUME CVTypes, CVs!PreviewFresh, NEW n \in DOMAIN preview, preview[n].status # "invalid"
    PROVE  /\ Fresh(preview[n])
           /\ \A j \in 1 .. n - 1 :
                ~(CVs!Valid(preview[j].input) /\ CVs!Key(preview[j].input) = CVs!Key(preview[n].input))
<1> DEFINE f == [i \in DOMAIN preview |-> preview[i].input]
           x == preview[n].input
           again == \E j \in 1 .. n - 1 : CVs!Valid(f[j]) /\ CVs!Key(f[j]) = CVs!Key(f[n])
           id == CVs!LastOf(CVs!SameKey(x, copy), copy)
<1>1. preview \in Seq(CVRow(cvDrawn)) /\ cvDrawn \in Nat /\ ValueTable(copy, cvDrawn)
  BY CVConstants DEF CVTypes
<1>2. Len(preview) \in Nat /\ DOMAIN preview = 1 .. Len(preview)
  BY <1>1
<1>3. f[n] = x /\ \A j \in 1 .. n - 1 : j \in DOMAIN preview /\ f[j] = preview[j].input
  BY <1>2
<1>4. CVs!Preview(f, copy)[n] = CVs!Row(f[n], copy, again)
  BY DEF CVs!Preview
<1>5. preview[n].status = CVs!Row(x, copy, again).status /\ preview[n].existing = CVs!Row(x, copy, again).existing
  <2>1. preview[n].existing = CVs!Preview(f, copy)[n].existing /\ preview[n].status = CVs!Preview(f, copy)[n].status
    BY DEF CVs!PreviewFresh
  <2>2. CVs!Preview(f, copy)[n] = CVs!Row(x, copy, again)
    <3> HIDE DEF again
    <3> QED BY <1>3, <1>4
  <2> HIDE DEF f, x, again
  <2> QED BY <2>1, <2>2
<1> HIDE DEF x, f
<1>6. CVs!Valid(x) /\ ~again
  <2> HIDE DEF again
  <2> QED BY <1>5 DEF CVs!Row
<1>7. preview[n].existing = id /\ preview[n].status = IF id = CVs!NoId THEN "new"
         ELSE IF copy[id].value = x.value THEN "same" ELSE "changed"
  <2> HIDE DEF again, id
  <2> QED BY <1>5, <1>6 DEF CVs!Row, id
<1>8. \A j \in 1 .. n - 1 : ~(CVs!Valid(preview[j].input) /\ CVs!Key(preview[j].input) = CVs!Key(x))
  BY <1>3, <1>6
<1> HIDE DEF again
<1>9. CVs!SameKey(x, copy) \subseteq DOMAIN copy /\ \A v \in CVs!SameKey(x, copy) : CVs!Key(copy[v]) = CVs!Key(x)
  BY DEF CVs!SameKey
<1>10. id = CVs!NoId <=> CVs!SameKey(x, copy) = {}
  BY <1>1, <1>9, IdsFit
<1>11. id # CVs!NoId => id \in CVs!SameKey(x, copy)
  BY <1>1, <1>9, <1>10, LastIsOne
<1> HIDE DEF id
<1> QED BY <1>6, <1>7, <1>8, <1>9, <1>10, <1>11 DEF Fresh, x

\* The rows that a save stores, if the preview is fresh.
LEMMA ChosenRows ==
    ASSUME CVTypes, CVs!PreviewFresh
    PROVE  /\ Stores \in Seq(CVRow(cvDrawn)) /\ Len(Stores) \in Nat /\ DOMAIN Stores = 1 .. Len(Stores)
           /\ \A i \in DOMAIN Stores : Fresh(Stores[i])
           /\ \A i \in DOMAIN Stores : \A j \in DOMAIN Stores :
                CVs!Key(Stores[i].input) = CVs!Key(Stores[j].input) => i = j
<1>1. preview \in Seq(CVRow(cvDrawn))
  BY DEF CVTypes
<1>2. PICK t : t = Stores
  OBVIOUS
<1>3. InOrder(t, preview, ChosenAt(preview), CVRow(cvDrawn), Len(preview))
  BY <1>1, <1>2, ChosenInOrder DEF Stores
<1>4. t \in Seq(CVRow(cvDrawn)) /\ Len(t) \in Nat /\ DOMAIN t = 1 .. Len(t)
  BY <1>3 DEF InOrder
<1>5. PICK p \in [DOMAIN t -> 1 .. Len(preview)] :
         /\ \A i \in DOMAIN t : p[i] \in ChosenAt(preview) /\ t[i] = preview[p[i]]
         /\ \A i \in DOMAIN t : \A j \in DOMAIN t : i < j => p[i] < p[j]
  BY <1>3 DEF InOrder
<1>6. \A i \in DOMAIN t : p[i] \in DOMAIN preview /\ preview[p[i]].status # "invalid" /\ p[i] \in Nat
  BY <1>1, <1>5 DEF ChosenAt
<1>7. \A i \in DOMAIN t : Fresh(t[i])
  BY <1>5, <1>6, FreshRow
<1>8. ASSUME NEW i \in DOMAIN t, NEW j \in DOMAIN t, i < j
      PROVE  CVs!Key(t[i].input) # CVs!Key(t[j].input)
  <2>1. p[i] \in 1 .. p[j] - 1
    BY <1>1, <1>5, <1>6, <1>8
  <2>2. CVs!Valid(preview[p[i]].input)
    BY <1>5, <1>7 DEF Fresh
  <2> QED BY <1>5, <1>6, <2>1, <2>2, FreshRow
<1>9. ASSUME NEW i \in DOMAIN t, NEW j \in DOMAIN t, CVs!Key(t[i].input) = CVs!Key(t[j].input)
      PROVE  i = j
  <2>1. i \in Nat /\ j \in Nat
    BY <1>4
  <2>2. ~(i < j) /\ ~(j < i)
    BY <1>8, <1>9
  <2> QED BY <2>1, <2>2
<1> QED BY <1>2, <1>4, <1>7, <1>9

\* What a step that disturbs nothing rules out.
Quiet == ~disturbed /\ ~disturbed'

LEMMA QuietSteps ==
    ASSUME ValueHistory, Quiet
    PROVE  /\ cvEdits' # cvEdits /\ stored' # stored => refreshes' # refreshes
           /\ cvEdits' # cvEdits /\ saving'.at = "put" => refreshes = <<>>
           /\ saving.at = "put" /\ saving'.at = "none" => saving.rows = <<>> /\ saving.by # "ecos"
           /\ Len(refreshes') < Len(refreshes) =>
                refreshes' = Tail(refreshes) /\ refreshes[1].read /\ copy' = refreshes[1].values
<1>1. ~Disturbed
  BY Zenon DEF ValueHistory, Quiet
<1>2. ~LoopStopped /\ ~AnswerMissed
  BY <1>1 DEF Disturbed
<1>3. /\ ~(cvEdits' # cvEdits /\ stored' # stored /\ refreshes' = refreshes)
      /\ ~(cvEdits' # cvEdits /\ saving'.at = "put" /\ refreshes # <<>>)
  BY <1>1 DEF Disturbed
<1> QED BY <1>2, <1>3 DEF LoopStopped, AnswerMissed

\* The values of the page, in words: what is asked and what is under way.
LEMMA CVState ==
    ASSUME CVTypes
    PROVE  /\ cvEdits \in Nat /\ cvEdits + 1 # cvEdits /\ cvDrawn \in Nat
           /\ IsSeq(refreshes) /\ Len(refreshes) \in Nat /\ DOMAIN refreshes = 1 .. Len(refreshes)
           /\ (refreshes = <<>> <=> Len(refreshes) = 0)
           /\ CVs!NotSaving.at = "none"
           /\ saving.at = "none" <=> saving = CVs!NotSaving
<1>1. cvEdits \in Nat /\ cvDrawn \in Nat
  BY CVConstants DEF CVTypes
<1>2. IsSeq(refreshes)
  BY DEF CVTypes
<1>3. Len(refreshes) \in Nat /\ DOMAIN refreshes = 1 .. Len(refreshes) /\ (refreshes = <<>> <=> Len(refreshes) = 0)
  BY <1>2 DEF IsSeq
<1> QED BY <1>1, <1>2, <1>3, CVJobKinds DEF CVs!NotSaving

\* What was asked last, after one more question.
LEMMA AskedLast ==
    ASSUME CVTypes, CVs!RefreshSelectedVehicle
    PROVE  /\ refreshes' # <<>> /\ refreshes' # refreshes /\ IsSeq(refreshes')
           /\ ~refreshes'[Len(refreshes')].read
<1>1. /\ IsSeq(refreshes') /\ Len(refreshes) \in Nat
      /\ DOMAIN refreshes = 1 .. Len(refreshes) /\ DOMAIN refreshes' = 1 .. Len(refreshes) + 1
      /\ refreshes'[Len(refreshes) + 1] = CVs!Asked
  BY Appended DEF CVTypes, CVs!RefreshSelectedVehicle
<1>2. Len(refreshes') = Len(refreshes) + 1
  <2>1. Len(refreshes') \in Nat /\ DOMAIN refreshes' = 1 .. Len(refreshes')
    BY <1>1 DEF IsSeq
  <2> QED BY <1>1, <2>1, SameInterval
<1> QED BY <1>1, <1>2 DEF CVs!Asked

LEMMA FollowsStarts == ASSUME CVs!CVInit PROVE Follows
BY DEF CVs!CVInit, Follows, Putting, CVs!NotSaving

\* The questions are answered: nothing else is under way.
LEMMA RefreshingFollows ==
    ASSUME CVTypes, Follows, CVs!Refreshing, ValueHistory, Quiet
    PROVE  Follows' /\ ~Putting /\ ~Putting' /\ UNCHANGED <<stored, saving, cvEdits>>
<1>1. PICK i \in DOMAIN refreshes : CVs!GetVehicle(i) \/ CVs!RefreshAnswered(i) \/ CVs!RefreshFailed(i)
  BY DEF CVs!Refreshing
<1>2. /\ Len(refreshes) \in Nat /\ DOMAIN refreshes = 1 .. Len(refreshes) /\ i \in 1 .. Len(refreshes)
      /\ refreshes # <<>> /\ IsSeq(refreshes)
  BY CVState
<1>3. ~Putting /\ (refreshes[Len(refreshes)].read => refreshes[Len(refreshes)].values = stored)
  BY <1>2 DEF Follows
<1>4. UNCHANGED <<stored, saving, cvEdits>>
  BY <1>1 DEF CVs!GetVehicle, CVs!RefreshAnswered, CVs!RefreshFailed
<1>5. ~Putting'
  BY <1>3, <1>4 DEF Putting
<1>6. CASE CVs!GetVehicle(i)
  <2>1. DOMAIN refreshes' = DOMAIN refreshes /\ refreshes'[i].values = stored
        /\ \A j \in DOMAIN refreshes \ {i} : refreshes'[j] = refreshes[j]
    BY <1>6 DEF CVs!GetVehicle
  <2>2. IsSeq(refreshes')
    BY RefreshingTypes DEF CVTypes
  <2>3. Len(refreshes') = Len(refreshes)
    <3>1. Len(refreshes') \in Nat /\ DOMAIN refreshes' = 1 .. Len(refreshes')
      BY <2>2 DEF IsSeq
    <3> QED BY <1>2, <2>1, <3>1, SameInterval
  <2>4. refreshes'[Len(refreshes')].read => refreshes'[Len(refreshes')].values = stored
    BY <1>2, <1>3, <2>1, <2>3
  <2>5. refreshes' # <<>>
    BY <1>2, <2>1
  <2> QED BY <1>3, <1>4, <1>5, <2>4, <2>5 DEF Follows
<1>7. CASE CVs!RefreshAnswered(i) \/ CVs!RefreshFailed(i)
  <2>1. IsSeq(refreshes') /\ DOMAIN refreshes' = 1 .. Len(refreshes) - 1
    <3>1. refreshes' = RemoveAt(refreshes, i)
      BY <1>7 DEF CVs!RefreshAnswered, CVs!RefreshFailed, CVs!RemoveAt, RemoveAt
    <3> QED BY <1>2, <3>1, Removed
  <2>2. Len(refreshes') = Len(refreshes) - 1
    <3>1. Len(refreshes') \in Nat /\ DOMAIN refreshes' = 1 .. Len(refreshes')
      BY <2>1 DEF IsSeq
    <3>2. Len(refreshes) - 1 \in Nat
      BY <1>2
    <3> QED BY <2>1, <3>1, <3>2, SameInterval
  <2>3. refreshes' = Tail(refreshes) /\ refreshes[1].read /\ copy' = refreshes[1].values
    BY <1>2, <2>2, QuietSteps
  <2>4. CASE Len(refreshes) = 1
    <3>1. refreshes' = <<>>
      BY <2>1, <2>2, <2>4 DEF IsSeq
    <3> QED BY <1>3, <1>4, <1>5, <2>3, <2>4, <3>1 DEF Follows
  <2>5. CASE Len(refreshes) # 1
    <3>1. refreshes'[Len(refreshes')] = refreshes[Len(refreshes)]
      BY <1>2, <2>2, <2>3, <2>5 DEF IsSeq
    <3>2. refreshes' # <<>>
      BY <1>2, <2>1, <2>2, <2>5 DEF IsSeq
    <3> QED BY <1>3, <1>4, <1>5, <3>1, <3>2 DEF Follows
  <2> QED BY <2>4, <2>5
<1> QED BY <1>1, <1>3, <1>4, <1>5, <1>6, <1>7

\* What is begun leaves the values and the questions alone.
LEMMA BeginFollows ==
    ASSUME CVTypes, Follows, ValueHistory, Quiet, CVs!Edit, UNCHANGED <<stored, copy, refreshes>>
    PROVE  Follows' /\ (Putting' => copy = stored)
<1>1. ~Putting /\ cvEdits' # cvEdits
  BY CVState DEF CVs!Edit, Putting
<1>2. CASE Putting'
  <2>1. refreshes = <<>>
    BY <1>1, <1>2, QuietSteps DEF Putting
  <2> QED BY <1>1, <1>2, <2>1 DEF Follows
<1>3. CASE ~Putting'
  BY <1>1, <1>3 DEF Follows
<1> QED BY <1>2, <1>3

LEMMA FollowsIsKept ==
    ASSUME CVTypes, Follows, CVs!CVNext, ValueHistory, Quiet
    PROVE  Follows'
<1>1. CASE CVs!Refreshing
  BY <1>1, RefreshingFollows
<1>2. CASE \/ \E f \in CVFiles : CVs!ImportCVValues(f)
           \/ \E p \in Probes : CVs!SaveCVSuggestions(p)
           \/ CVs!ApplyPreview
           \/ \E f \in CVFiles : \E i \in DOMAIN f : CVs!SaveCVValue(f[i])
  <2>1. CVs!Edit /\ UNCHANGED <<stored, copy, refreshes>>
    BY <1>2 DEF CVs!ImportCVValues, CVs!SaveCVSuggestions, CVs!ApplyPreview, CVs!SaveCVValue
  <2> QED BY <2>1, BeginFollows
<1>3. CASE \/ \E i \in DOMAIN preview : CVs!ToggleRow(i)
           \/ \E mode \in {"all", "none", "empty"} : CVs!SelectRows(mode)
           \/ CVs!Discard
           \/ \E v \in DOMAIN copy : CVs!EditCVValue(v)
  BY <1>3 DEF CVs!ToggleRow, CVs!SelectRows, CVs!Discard, CVs!EditCVValue, Follows, Putting
<1>4. ASSUME NEW v \in DOMAIN copy, CVs!DeleteValue(v) PROVE Follows'
  <2>1. saving = CVs!NotSaving /\ saving' = saving /\ cvEdits' # cvEdits /\ copy' = copy
    BY <1>4, CVState DEF CVs!DeleteValue, CVs!Edit
  <2>2. ~Putting /\ ~Putting'
    BY <2>1 DEF Putting, CVs!NotSaving
  <2>3. CASE UNCHANGED <<stored, cvDrawn, refreshes>>
    BY <2>1, <2>2, <2>3 DEF Follows
  <2>4. CASE CVs!RefreshSelectedVehicle
    BY <2>2, <2>4, AskedLast DEF Follows
  <2>5. CASE CVs!DeleteCVValue(v) /\ UNCHANGED refreshes
    <3>1. stored' = stored
      BY <2>1, <2>5, QuietSteps
    <3> QED BY <2>1, <2>2, <2>5, <3>1 DEF Follows
  <2> QED BY <1>4, <2>3, <2>4, <2>5 DEF CVs!DeleteValue
<1>5. CASE CVs!OtherUser
  <2>1. cvEdits' # cvEdits /\ UNCHANGED <<copy, saving, refreshes>>
    BY <1>5, CVState DEF CVs!OtherUser
  <2>2. stored' = stored
    BY <2>1, QuietSteps
  <2> QED BY <2>1, <2>2 DEF Follows, Putting
<1>6. CASE CVs!FileRead
  BY <1>6 DEF CVs!FileRead, Follows, Putting, CVs!NotSaving
<1>7. CASE CVs!PutNext
  <2>1. Putting /\ saving.rows # <<>> /\ UNCHANGED <<copy, refreshes>>
        /\ saving' \in {[saving EXCEPT !.rows = CVs!Rest], CVs!NotSaving}
    BY <1>7 DEF CVs!PutNext, Putting
  <2>2. saving' = [saving EXCEPT !.rows = CVs!Rest]
    BY <2>1, QuietSteps DEF Putting, CVs!NotSaving
  <2>3. Putting'
    BY <2>1, <2>2, CVJobKinds DEF Putting
  <2> QED BY <2>1, <2>3 DEF Follows
<1>8. CASE CVs!PutAll
  <2>1. Putting /\ saving' = CVs!NotSaving /\ ~Putting'
    BY <1>8 DEF CVs!PutAll, Putting, CVs!NotSaving
  <2>2. CVs!RefreshSelectedVehicle
    BY <1>8, <2>1, QuietSteps DEF CVs!PutAll, Putting, CVs!NotSaving
  <2> QED BY <2>1, <2>2, AskedLast DEF Follows
<1> QED BY <1>1, <1>2, <1>3, <1>4, <1>5, <1>6, <1>7, <1>8
        DEF CVs!CVNext, CVs!CVImportPreview, CVs!CVEditor, CVs!CVSaving

\* The row that a loop stores next
LEMMA PutRow ==
    ASSUME CVTypes, CVs!PutNext
    PROVE  /\ Putting /\ saving.rows \in Seq(CVRow(cvDrawn)) /\ saving.rows # <<>>
           /\ Len(saving.rows) \in Nat /\ Len(saving.rows) > 0 /\ DOMAIN saving.rows = 1 .. Len(saving.rows)
           /\ Head(saving.rows) = saving.rows[1] /\ saving.rows[1] \in CVRow(cvDrawn)
           /\ UNCHANGED <<copy, preview, refreshes, cvEdits>>
           /\ stored' = stored \/ CVs!Put(saving.rows[1].existing, saving.rows[1].input)
<1>1. /\ saving \in [at : {"put"}, rows : Seq(CVRow(cvDrawn)), by : {"preview", "form", "ecos"}]
      /\ saving.rows # <<>>
  BY CVJobKinds DEF CVs!PutNext
<1>2. PICK s, S : s = saving.rows /\ S = CVRow(cvDrawn)
  OBVIOUS
<1>3. s \in Seq(S) /\ s # <<>>
  BY <1>1, <1>2
<1>4. Len(s) \in Nat /\ Len(s) > 0 /\ DOMAIN s = 1 .. Len(s) /\ Head(s) = s[1] /\ s[1] \in S
  BY <1>3, TailOfRows
<1>5. /\ Putting /\ UNCHANGED <<copy, preview, refreshes, cvEdits>>
      /\ stored' = stored \/ CVs!Put(Head(s).existing, Head(s).input)
  BY <1>2 DEF CVs!PutNext, Putting
<1> QED BY <1>2, <1>3, <1>4, <1>5

\* If it succeeds, the loop goes on with the rows after it.
LEMMA PutStep ==
    ASSUME CVTypes, CVs!PutNext, ValueHistory, Quiet
    PROVE  /\ Putting' /\ saving'.by = saving.by /\ saving'.rows \in Seq(CVRow(cvDrawn))
           /\ Len(saving'.rows) = Len(saving.rows) - 1 /\ DOMAIN saving'.rows = 1 .. Len(saving.rows) - 1
           /\ \A i \in DOMAIN saving'.rows : i + 1 \in DOMAIN saving.rows /\ saving'.rows[i] = saving.rows[i + 1]
           /\ CVs!Put(saving.rows[1].existing, saving.rows[1].input)
<1>1. /\ saving \in [at : {"put"}, rows : Seq(CVRow(cvDrawn)), by : {"preview", "form", "ecos"}]
      /\ saving.rows # <<>>
  BY CVJobKinds DEF CVs!PutNext
<1>2. PICK s, S : s = saving.rows /\ S = CVRow(cvDrawn)
  OBVIOUS
<1>3. s \in Seq(S) /\ s # <<>>
  BY <1>1, <1>2
<1>4. /\ Tail(s) \in Seq(S) /\ Len(Tail(s)) = Len(s) - 1 /\ DOMAIN Tail(s) = 1 .. Len(s) - 1
      /\ \A i \in DOMAIN Tail(s) : i + 1 \in DOMAIN s /\ Tail(s)[i] = s[i + 1]
      /\ Head(s) = s[1]
  BY <1>3, TailOfRows
<1>5. saving' # CVs!NotSaving
  BY <1>1, QuietSteps DEF CVs!NotSaving
<1>6. /\ CVs!Put(Head(s).existing, Head(s).input)
      /\ saving' = [saving EXCEPT !.rows = Tail(s)]
  BY <1>2, <1>5 DEF CVs!PutNext, CVs!Rest
<1>7. saving'.at = "put" /\ saving'.by = saving.by /\ saving'.rows = Tail(s)
  BY <1>1, <1>6
<1> QED BY <1>2, <1>4, <1>6, <1>7 DEF Putting

\* The value that a row changes or makes
OneStored(x, w) ==
    /\ w \in DOMAIN stored' /\ stored'[w] = x.input /\ DOMAIN stored' = DOMAIN stored \cup {w}
    /\ \A v \in DOMAIN stored \ {w} : stored'[v] = stored[v]
    /\ IF x.existing = CVs!NoId THEN w \notin DOMAIN stored /\ w \notin DOMAIN copy
       ELSE w = x.existing /\ w \in DOMAIN stored

LEMMA RowIsStored ==
    ASSUME CVTypes, NEW x \in CVRow(cvDrawn), CVs!Put(x.existing, x.input)
    PROVE  \E w : OneStored(x, w)
<1>1. x.input \in CVs!Inputs
  BY DEF CVRow
<1>2. DOMAIN copy \subseteq 1 .. cvDrawn
  BY DEF CVTypes, ValueTable
<1>3. PICK w \in DOMAIN stored' :
        /\ stored'[w] = x.input
        /\ IF x.existing = CVs!NoId THEN w \notin 1 .. cvDrawn /\ w \notin DOMAIN stored
           ELSE w = x.existing /\ x.existing \in DOMAIN stored
        /\ DOMAIN stored' = DOMAIN stored \cup {w}
        /\ \A v \in DOMAIN stored \ {w} : stored'[v] = stored[v]
  BY <1>1, PutTypes
<1> QED BY <1>2, <1>3 DEF OneStored

\* The next row of a preview: fresh, and of a key that no row before it has.
LEMMA PreviewRow ==
    ASSUME CVTypes, ByPreview, Putting, saving.by = "preview", CVs!PreviewFresh,
           Len(saving.rows) \in Nat, Len(saving.rows) > 0, DOMAIN saving.rows = 1 .. Len(saving.rows)
    PROVE  /\ DoneRows \in Nat /\ DoneRows + 1 \in DOMAIN Stores /\ saving.rows[1] = Stores[DoneRows + 1]
           /\ Fresh(saving.rows[1])
           /\ \A j \in 1 .. DoneRows :
                j \in DOMAIN Stores /\ CVs!Key(Stores[j].input) # CVs!Key(saving.rows[1].input)
<1>1. /\ Len(Stores) \in Nat /\ DOMAIN Stores = 1 .. Len(Stores)
      /\ \A i \in DOMAIN Stores : Fresh(Stores[i])
      /\ \A i \in DOMAIN Stores : \A j \in DOMAIN Stores :
           CVs!Key(Stores[i].input) = CVs!Key(Stores[j].input) => i = j
  BY ChosenRows
<1>2. DoneRows \in Nat /\ DoneRows + 1 \in DOMAIN Stores
  BY <1>1 DEF ByPreview, DoneRows
<1>3. saving.rows[1] = Stores[DoneRows + 1]
  <2>1. 1 \in DOMAIN saving.rows
    OBVIOUS
  <2> QED BY <2>1 DEF ByPreview
<1>4. \A j \in 1 .. DoneRows : j \in DOMAIN Stores /\ j # DoneRows + 1
  BY <1>1, <1>2
<1> QED BY <1>1, <1>2, <1>3, <1>4

\* A preview stays fresh as long as it is shown with the same values.
LEMMA StaysFresh ==
    ASSUME UNCHANGED <<copy, preview>>
    PROVE  (CVs!PreviewFresh' <=> CVs!PreviewFresh) /\ Stores' = Stores
BY DEF CVs!PreviewFresh, Stores

LEMMA PutKeepsPreview ==
    ASSUME CVTypes, ByPreview, CVs!PutNext, ValueHistory, Quiet
    PROVE  ByPreview'
<1> SUFFICES ASSUME saving'.by = "preview", CVs!PreviewFresh'
             PROVE  /\ DoneRows' >= 0
                    /\ \A i \in DOMAIN saving'.rows : saving'.rows[i] = Stores'[DoneRows' + i]
                    /\ \A v \in DOMAIN stored' : v \in DOMAIN copy' => CVs!Key(stored'[v]) = CVs!Key(copy'[v])
                    /\ \A v \in DOMAIN stored' :
                         \/ v \in DOMAIN copy' /\ stored'[v] = copy'[v]
                         \/ \E j \in 1 .. DoneRows' : CVs!Key(stored'[v]) = CVs!Key(Stores'[j].input)
                    /\ \A j \in 1 .. DoneRows' : \E v \in DOMAIN stored' : stored'[v] = Stores'[j].input
  BY DEF ByPreview
<1>1. /\ Putting /\ saving.rows \in Seq(CVRow(cvDrawn))
      /\ Len(saving.rows) \in Nat /\ Len(saving.rows) > 0 /\ DOMAIN saving.rows = 1 .. Len(saving.rows)
      /\ saving.rows[1] \in CVRow(cvDrawn) /\ UNCHANGED <<copy, preview>>
  BY PutRow
<1>2. /\ Putting' /\ saving'.by = saving.by
      /\ Len(saving'.rows) = Len(saving.rows) - 1 /\ DOMAIN saving'.rows = 1 .. Len(saving.rows) - 1
      /\ \A i \in DOMAIN saving'.rows : i + 1 \in DOMAIN saving.rows /\ saving'.rows[i] = saving.rows[i + 1]
      /\ CVs!Put(saving.rows[1].existing, saving.rows[1].input)
  BY PutStep
<1>3. CVs!PreviewFresh /\ Stores' = Stores /\ saving.by = "preview"
  BY <1>1, <1>2, StaysFresh
<1>4. PICK x, d : x = saving.rows[1] /\ d = DoneRows
  OBVIOUS
<1>5. /\ d \in Nat /\ d + 1 \in DOMAIN Stores /\ x = Stores[d + 1] /\ Fresh(x)
      /\ \A j \in 1 .. d : j \in DOMAIN Stores /\ CVs!Key(Stores[j].input) # CVs!Key(x.input)
  BY <1>1, <1>3, <1>4, PreviewRow
<1>6. /\ \A i \in DOMAIN saving.rows : saving.rows[i] = Stores[d + i]
      /\ \A v \in DOMAIN stored : v \in DOMAIN copy => CVs!Key(stored[v]) = CVs!Key(copy[v])
      /\ \A v \in DOMAIN stored :
           \/ v \in DOMAIN copy /\ stored[v] = copy[v]
           \/ \E j \in 1 .. d : CVs!Key(stored[v]) = CVs!Key(Stores[j].input)
      /\ \A j \in 1 .. d : \E v \in DOMAIN stored : stored[v] = Stores[j].input
  BY <1>1, <1>3, <1>4 DEF ByPreview
<1>7. PICK w : OneStored(x, w)
  BY <1>1, <1>2, <1>4, RowIsStored
<1>8. DoneRows' = d + 1
  <2>1. Len(Stores) \in Nat
    BY <1>3, ChosenRows
  <2> QED BY <1>1, <1>2, <1>3, <1>4, <2>1 DEF DoneRows
<1>9. w \in DOMAIN copy => CVs!Key(copy[w]) = CVs!Key(x.input) /\ w \in DOMAIN stored
  BY <1>5, <1>7 DEF OneStored, Fresh
<1>10. w \in DOMAIN stored => w \in DOMAIN copy
  BY <1>5, <1>7 DEF OneStored, Fresh
<1>11. \A i \in DOMAIN saving'.rows : saving'.rows[i] = Stores[d + 1 + i]
  <2> SUFFICES ASSUME NEW i \in DOMAIN saving'.rows PROVE saving'.rows[i] = Stores[d + 1 + i]
    OBVIOUS
  <2>1. i \in Nat /\ i + 1 \in DOMAIN saving.rows /\ saving'.rows[i] = saving.rows[i + 1]
    BY <1>1, <1>2
  <2>2. saving.rows[i + 1] = Stores[d + (i + 1)]
    BY <1>6, <2>1
  <2>3. d + (i + 1) = d + 1 + i
    BY <1>5, <2>1
  <2> QED BY <2>1, <2>2, <2>3
<1>12. \A v \in DOMAIN stored' : v \in DOMAIN copy => CVs!Key(stored'[v]) = CVs!Key(copy[v])
  BY <1>6, <1>7, <1>9 DEF OneStored
<1>13. \A v \in DOMAIN stored' :
         \/ v \in DOMAIN copy /\ stored'[v] = copy[v]
         \/ \E j \in 1 .. d + 1 : CVs!Key(stored'[v]) = CVs!Key(Stores[j].input)
  <2> SUFFICES ASSUME NEW v \in DOMAIN stored', ~(v \in DOMAIN copy /\ stored'[v] = copy[v])
               PROVE  \E j \in 1 .. d + 1 : CVs!Key(stored'[v]) = CVs!Key(Stores[j].input)
    OBVIOUS
  <2>1. CASE v = w
    <3>1. d + 1 \in 1 .. d + 1 /\ stored'[v] = Stores[d + 1].input
      BY <1>5, <1>7, <2>1 DEF OneStored
    <3> QED BY <3>1
  <2>2. CASE v # w
    <3>1. v \in DOMAIN stored /\ stored'[v] = stored[v]
      BY <1>7, <2>2 DEF OneStored
    <3>2. PICK j \in 1 .. d : CVs!Key(stored[v]) = CVs!Key(Stores[j].input)
      BY <1>6, <3>1
    <3>3. j \in 1 .. d + 1
      BY <1>5
    <3> QED BY <3>1, <3>2, <3>3
  <2> QED BY <2>1, <2>2
<1>14. \A j \in 1 .. d + 1 : \E v \in DOMAIN stored' : stored'[v] = Stores[j].input
  <2> SUFFICES ASSUME NEW j \in 1 .. d + 1 PROVE \E v \in DOMAIN stored' : stored'[v] = Stores[j].input
    OBVIOUS
  <2>1. CASE j = d + 1
    BY <1>5, <1>7, <2>1 DEF OneStored
  <2>2. CASE j \in 1 .. d
    <3>1. PICK v \in DOMAIN stored : stored[v] = Stores[j].input
      BY <1>6, <2>2
    <3>2. v # w
      <4> SUFFICES ASSUME v = w PROVE FALSE
        OBVIOUS
      <4>1. CVs!Key(stored[w]) = CVs!Key(x.input)
        BY <1>6, <1>9, <1>10, <3>1
      <4> QED BY <1>5, <2>2, <3>1, <4>1
    <3>3. v \in DOMAIN stored' /\ stored'[v] = stored[v]
      BY <1>7, <3>1, <3>2 DEF OneStored
    <3> QED BY <3>1, <3>3
  <2> QED BY <1>5, <2>1, <2>2
<1> QED
  <2>1. d + 1 >= 0
    BY <1>5
  <2> QED BY <1>1, <1>3, <1>8, <1>11, <1>12, <1>13, <1>14, <2>1

\* What the steps of the page do to the loops.
\* A loop is begun with the values that are shown.
LEMMA BeginPreview ==
    ASSUME CVTypes, Follows, CVs!ApplyPreview, ValueHistory, Quiet
    PROVE  ByPreview'
<1>1. CVs!Edit /\ UNCHANGED <<stored, copy, preview, refreshes>> /\ saving'.rows = Stores /\ saving'.at = "put"
  BY DEF CVs!ApplyPreview, Stores
<1>2. copy = stored
  BY <1>1, BeginFollows DEF Putting
<1>3. Stores' = Stores
  BY <1>1, StaysFresh
<1>4. Len(Stores) \in Nat
  <2>1. preview \in Seq(CVRow(cvDrawn))
    BY DEF CVTypes
  <2> QED BY <2>1, ChosenTypes DEF Stores
<1>5. PICK t : t = Stores
  OBVIOUS
<1>6. DoneRows' = 0
  BY <1>1, <1>3, <1>4 DEF DoneRows
<1>7. \A i \in DOMAIN t : t[i] = t[0 + i]
  <2>1. t \in Seq(CVRow(cvDrawn))
    BY <1>5, ChosenTypes DEF CVTypes, Stores
  <2>2. DOMAIN t \subseteq Nat
    BY <2>1
  <2>3. \A i \in DOMAIN t : i = 0 + i
    BY <2>2
  <2> QED BY <2>3
<1>8. 1 .. 0 = {} /\ 0 >= 0
  OBVIOUS
<1> QED BY <1>1, <1>2, <1>3, <1>5, <1>6, <1>7, <1>8 DEF ByPreview

LEMMA ByPreviewIsKept ==
    ASSUME CVTypes, Follows, ByPreview, CVs!CVNext, ValueHistory, Quiet
    PROVE  ByPreview'
<1>1. CASE CVs!Refreshing
  BY <1>1, RefreshingFollows DEF ByPreview
<1>2. CASE \/ \E f \in CVFiles : CVs!ImportCVValues(f)
           \/ \E p \in Probes : CVs!SaveCVSuggestions(p)
           \/ \E f \in CVFiles : \E i \in DOMAIN f : CVs!SaveCVValue(f[i])
  <2>1. saving'.at # "put" \/ saving'.by # "preview"
    BY <1>2 DEF CVs!ImportCVValues, CVs!SaveCVSuggestions, CVs!SaveCVValue
  <2> QED BY <2>1 DEF ByPreview, Putting
<1>3. CASE CVs!ApplyPreview
  BY <1>3, BeginPreview
<1>4. CASE \/ \E i \in DOMAIN preview : CVs!ToggleRow(i)
           \/ \E mode \in {"all", "none", "empty"} : CVs!SelectRows(mode)
           \/ CVs!Discard
           \/ \E v \in DOMAIN copy : CVs!EditCVValue(v) \/ CVs!DeleteValue(v)
  <2>1. saving = CVs!NotSaving /\ saving' = saving
    BY <1>4 DEF CVs!ToggleRow, CVs!SelectRows, CVs!Discard, CVs!EditCVValue, CVs!DeleteValue, CVs!Edit
  <2> QED BY <2>1 DEF ByPreview, Putting, CVs!NotSaving
<1>5. CASE CVs!OtherUser
  <2>1. cvEdits' # cvEdits /\ UNCHANGED <<copy, preview, saving, refreshes>>
    BY <1>5, CVState DEF CVs!OtherUser
  <2>2. stored' = stored
    BY <2>1, QuietSteps
  <2>3. (CVs!PreviewFresh' <=> CVs!PreviewFresh) /\ Stores' = Stores
    BY <2>1, StaysFresh
  <2>4. DoneRows' = DoneRows
    BY <2>1, <2>3 DEF DoneRows
  <2> QED BY <2>1, <2>2, <2>3, <2>4 DEF ByPreview, Putting
<1>6. CASE CVs!FileRead \/ CVs!PutAll
  BY <1>6 DEF CVs!FileRead, CVs!PutAll, ByPreview, Putting, CVs!NotSaving
<1>7. CASE CVs!PutNext
  BY <1>7, PutKeepsPreview
<1> QED BY <1>1, <1>2, <1>3, <1>4, <1>5, <1>6, <1>7
        DEF CVs!CVNext, CVs!CVImportPreview, CVs!CVEditor, CVs!CVSaving

----------------------------------------------------------------------------
(* The loop of an ECoS.                                                    *)

LEMMA BeginEcos ==
    ASSUME CVTypes, Follows, NEW p \in Probes, CVs!SaveCVSuggestions(p), ValueHistory, Quiet
    PROVE  ByEcos'
<1> DEFINE Exact(x) == {v \in DOMAIN stored : stored[v].number = x.number /\ stored[v].profile = x.profile}
           At(x) == [input |-> x, status |-> CVs!Shown(x, copy), selected |-> TRUE,
                     existing |-> CVs!FirstOf(Exact(x), stored)]
<1>1. PICK s : s = CVs!Suggestions(p)
  OBVIOUS
<1>2. /\ CVs!Edit /\ UNCHANGED <<stored, copy, refreshes>> /\ saving'.at = "put"
      /\ saving'.rows = [i \in DOMAIN s |-> At(s[i])]
  BY <1>1 DEF CVs!SaveCVSuggestions
<1>3. copy = stored
  BY <1>2, BeginFollows DEF Putting
<1>4. s \in Seq(CVs!Inputs) /\ \A i \in DOMAIN s, j \in DOMAIN s : s[i].number = s[j].number => i = j
  BY <1>1, SuggestionsFit
<1>5. cvDrawn \in Nat /\ ValueTable(stored, cvDrawn)
  BY CVState DEF CVTypes
<1>6. ASSUME NEW i \in DOMAIN s
      PROVE  /\ At(s[i]).input = s[i] /\ At(s[i]).status = CVs!Shown(s[i], copy)
             /\ At(s[i]).existing # CVs!NoId =>
                  At(s[i]).existing \in DOMAIN copy /\ SameName(copy[At(s[i]).existing], s[i])
  <2>1. PICK x : x = s[i]
    OBVIOUS
  <2>2. Exact(x) \subseteq DOMAIN stored
    OBVIOUS
  <2>3. CVs!FirstOf(Exact(x), stored) # CVs!NoId => CVs!FirstOf(Exact(x), stored) \in Exact(x)
    <3> HIDE DEF Exact
    <3>1. CVs!FirstOf(Exact(x), stored) = CVs!NoId <=> Exact(x) = {}
      BY <1>5, <2>2, IdsFit
    <3> QED BY <1>5, <2>2, <3>1, FirstIsOne
  <2>4. At(x).existing = CVs!FirstOf(Exact(x), stored)
    OBVIOUS
  <2> QED BY <1>3, <2>1, <2>3, <2>4 DEF SameName
<1>7. DOMAIN saving'.rows = DOMAIN s /\ \A i \in DOMAIN s : saving'.rows[i] = At(s[i])
  BY <1>2
<1> HIDE DEF At
<1>8. \A i \in DOMAIN saving'.rows :
           /\ saving'.rows[i].status = CVs!Shown(saving'.rows[i].input, copy)
           /\ saving'.rows[i].existing # CVs!NoId =>
                /\ saving'.rows[i].existing \in DOMAIN copy
                /\ SameName(copy[saving'.rows[i].existing], saving'.rows[i].input)
           /\ \A j \in DOMAIN saving'.rows :
                saving'.rows[j].input.number = saving'.rows[i].input.number => j = i
  <2> SUFFICES ASSUME NEW i \in DOMAIN saving'.rows
               PROVE  /\ saving'.rows[i].status = CVs!Shown(saving'.rows[i].input, copy)
                      /\ saving'.rows[i].existing # CVs!NoId =>
                           /\ saving'.rows[i].existing \in DOMAIN copy
                           /\ SameName(copy[saving'.rows[i].existing], saving'.rows[i].input)
                      /\ \A j \in DOMAIN saving'.rows :
                           saving'.rows[j].input.number = saving'.rows[i].input.number => j = i
    OBVIOUS
  <2>1. /\ saving'.rows[i].input = s[i] /\ saving'.rows[i].status = CVs!Shown(s[i], copy)
        /\ saving'.rows[i].existing # CVs!NoId =>
             saving'.rows[i].existing \in DOMAIN copy /\ SameName(copy[saving'.rows[i].existing], s[i])
    BY <1>6, <1>7
  <2>2. \A j \in DOMAIN saving'.rows : saving'.rows[j].input = s[j]
    BY <1>6, <1>7
  <2> QED BY <1>4, <1>7, <2>1, <2>2
<1>9. \A v \in DOMAIN copy : v \in DOMAIN stored /\ SameName(copy[v], stored[v]) /\ stored[v] = copy[v]
  BY <1>3 DEF SameName
<1> QED BY <1>2, <1>8, <1>9 DEF ByEcos

LEMMA PutKeepsEcos ==
    ASSUME CVTypes, ByEcos, CVs!PutNext, ValueHistory, Quiet
    PROVE  ByEcos'
<1> SUFFICES ASSUME saving'.by = "ecos"
             PROVE  /\ \A i \in DOMAIN saving'.rows :
                        /\ saving'.rows[i].status = CVs!Shown(saving'.rows[i].input, copy')
                        /\ saving'.rows[i].existing # CVs!NoId =>
                             /\ saving'.rows[i].existing \in DOMAIN copy'
                             /\ SameName(copy'[saving'.rows[i].existing], saving'.rows[i].input)
                        /\ \A j \in DOMAIN saving'.rows :
                             saving'.rows[j].input.number = saving'.rows[i].input.number => j = i
                    /\ \A v \in DOMAIN copy' :
                         /\ v \in DOMAIN stored' /\ SameName(copy'[v], stored'[v])
                         /\ \/ stored'[v] = copy'[v]
                            \/ \A i \in DOMAIN saving'.rows : saving'.rows[i].input.number # stored'[v].number
  BY DEF ByEcos
<1>1. /\ Putting /\ Len(saving.rows) \in Nat /\ Len(saving.rows) > 0 /\ DOMAIN saving.rows = 1 .. Len(saving.rows)
      /\ saving.rows[1] \in CVRow(cvDrawn) /\ UNCHANGED <<copy, preview>>
  BY PutRow
<1>2. /\ saving'.by = saving.by /\ DOMAIN saving'.rows = 1 .. Len(saving.rows) - 1
      /\ \A i \in DOMAIN saving'.rows : i + 1 \in DOMAIN saving.rows /\ saving'.rows[i] = saving.rows[i + 1]
      /\ CVs!Put(saving.rows[1].existing, saving.rows[1].input)
  BY PutStep
<1>3. PICK r, s, x : r = saving.rows /\ s = saving'.rows /\ x = saving.rows[1]
  OBVIOUS
<1>4. /\ \A i \in DOMAIN r :
           /\ r[i].status = CVs!Shown(r[i].input, copy)
           /\ r[i].existing # CVs!NoId => r[i].existing \in DOMAIN copy /\ SameName(copy[r[i].existing], r[i].input)
           /\ \A j \in DOMAIN r : r[j].input.number = r[i].input.number => j = i
      /\ \A v \in DOMAIN copy :
           /\ v \in DOMAIN stored /\ SameName(copy[v], stored[v])
           /\ stored[v] = copy[v] \/ \A i \in DOMAIN r : r[i].input.number # stored[v].number
  BY <1>1, <1>2, <1>3 DEF ByEcos
<1>5. /\ 1 \in DOMAIN r /\ x = r[1]
      /\ \A i \in DOMAIN s : i \in Nat /\ i + 1 \in DOMAIN r /\ s[i] = r[i + 1] /\ i + 1 # 1 /\ i # 0
  BY <1>1, <1>2, <1>3
<1>6. PICK w : OneStored(x, w)
  BY <1>1, <1>2, <1>3, RowIsStored
<1>7. w \in DOMAIN copy => w = x.existing /\ x.existing # CVs!NoId /\ SameName(copy[w], x.input)
  BY <1>4, <1>5, <1>6 DEF OneStored
<1>8. \A i \in DOMAIN s : \A j \in DOMAIN s : s[j].input.number = s[i].input.number => j = i
  <2> SUFFICES ASSUME NEW i \in DOMAIN s, NEW j \in DOMAIN s, s[j].input.number = s[i].input.number
               PROVE  j = i
    OBVIOUS
  <2>1. j + 1 = i + 1
    BY <1>4, <1>5
  <2> QED BY <1>5, <2>1
<1>9. \A i \in DOMAIN s :
        /\ s[i].status = CVs!Shown(s[i].input, copy)
        /\ s[i].existing # CVs!NoId => s[i].existing \in DOMAIN copy /\ SameName(copy[s[i].existing], s[i].input)
  BY <1>4, <1>5
<1>10. ASSUME NEW v \in DOMAIN copy
       PROVE  /\ v \in DOMAIN stored' /\ SameName(copy[v], stored'[v])
              /\ stored'[v] = copy[v] \/ \A i \in DOMAIN s : s[i].input.number # stored'[v].number
  <2>1. CASE v = w
    <3>1. v \in DOMAIN stored' /\ stored'[v] = x.input
      BY <1>6, <2>1 DEF OneStored
    <3>2. \A i \in DOMAIN s : s[i].input.number # x.input.number
      BY <1>4, <1>5
    <3> QED BY <1>7, <2>1, <3>1, <3>2
  <2>2. CASE v # w
    <3>1. v \in DOMAIN stored' /\ stored'[v] = stored[v] /\ v \in DOMAIN stored
      BY <1>4, <1>6, <2>2 DEF OneStored
    <3> QED BY <1>4, <1>5, <3>1
  <2> QED BY <2>1, <2>2
<1> QED BY <1>1, <1>3, <1>8, <1>9, <1>10

LEMMA ByEcosIsKept ==
    ASSUME CVTypes, Follows, ByEcos, CVs!CVNext, ValueHistory, Quiet
    PROVE  ByEcos'
<1>1. CASE CVs!Refreshing
  BY <1>1, RefreshingFollows DEF ByEcos
<1>2. CASE \/ \E f \in CVFiles : CVs!ImportCVValues(f)
           \/ CVs!ApplyPreview
           \/ \E f \in CVFiles : \E i \in DOMAIN f : CVs!SaveCVValue(f[i])
  <2>1. saving'.at # "put" \/ saving'.by # "ecos"
    BY <1>2 DEF CVs!ImportCVValues, CVs!ApplyPreview, CVs!SaveCVValue
  <2> QED BY <2>1 DEF ByEcos, Putting
<1>3. CASE \E p \in Probes : CVs!SaveCVSuggestions(p)
  BY <1>3, BeginEcos
<1>4. CASE \/ \E i \in DOMAIN preview : CVs!ToggleRow(i)
           \/ \E mode \in {"all", "none", "empty"} : CVs!SelectRows(mode)
           \/ CVs!Discard
           \/ \E v \in DOMAIN copy : CVs!EditCVValue(v) \/ CVs!DeleteValue(v)
  <2>1. saving = CVs!NotSaving /\ saving' = saving
    BY <1>4 DEF CVs!ToggleRow, CVs!SelectRows, CVs!Discard, CVs!EditCVValue, CVs!DeleteValue, CVs!Edit
  <2> QED BY <2>1 DEF ByEcos, Putting, CVs!NotSaving
<1>5. CASE CVs!OtherUser
  <2>1. cvEdits' # cvEdits /\ UNCHANGED <<copy, preview, saving, refreshes>>
    BY <1>5, CVState DEF CVs!OtherUser
  <2>2. stored' = stored
    BY <2>1, QuietSteps
  <2> QED BY <2>1, <2>2 DEF ByEcos, Putting
<1>6. CASE CVs!FileRead \/ CVs!PutAll
  BY <1>6 DEF CVs!FileRead, CVs!PutAll, ByEcos, Putting, CVs!NotSaving
<1>7. CASE CVs!PutNext
  BY <1>7, PutKeepsEcos
<1> QED BY <1>1, <1>2, <1>3, <1>4, <1>5, <1>6, <1>7
        DEF CVs!CVNext, CVs!CVImportPreview, CVs!CVEditor, CVs!CVSaving

----------------------------------------------------------------------------
(* What the last preview brought in.                                       *)

\* The last row of a preview is stored.
LEMMA PreviewIsOver ==
    ASSUME CVTypes, ByPreview, KeptInputs, CVs!PutAll, ValueHistory, Quiet
    PROVE  KeptInputs'
<1>1. Putting /\ saving.rows = <<>> /\ UNCHANGED <<stored, cvEdits>> /\ saving'.at = "none" /\ ~Putting'
  BY DEF CVs!PutAll, Putting, CVs!NotSaving
<1>2. CASE saving.by = "preview" /\ CVs!PreviewFresh
  <2>1. PICK t : t = Stores
    OBVIOUS
  <2>2. /\ Len(t) \in Nat /\ DOMAIN t = 1 .. Len(t) /\ \A i \in DOMAIN t : Fresh(t[i])
        /\ \A i \in DOMAIN t : \A j \in DOMAIN t : CVs!Key(t[i].input) = CVs!Key(t[j].input) => i = j
    BY <1>2, <2>1, ChosenRows
  <2>3. DoneRows = Len(t)
    BY <1>1, <2>1, <2>2 DEF DoneRows
  <2>4. \A j \in DOMAIN t : \E v \in DOMAIN stored : stored[v] = t[j].input
    BY <1>1, <1>2, <2>1, <2>2, <2>3 DEF ByPreview
  <2>5. imported' = [i \in DOMAIN t |-> t[i].input]
    BY <1>1, <1>2, <2>1 DEF ValueHistory, Putting
  <2>6. DOMAIN imported' = DOMAIN t /\ \A i \in DOMAIN t : imported'[i] = t[i].input
    BY <2>5
  <2>7. \A i \in DOMAIN imported' : i \in Nat /\ 1 .. i - 1 \subseteq DOMAIN imported'
    BY <2>2, <2>6
  <2> QED BY <1>1, <2>2, <2>4, <2>6, <2>7 DEF KeptInputs, Fresh
<1>3. CASE ~(saving.by = "preview" /\ CVs!PreviewFresh)
  <2>1. imported' = imported /\ imported = <<>>
    BY <1>1, <1>3 DEF ValueHistory, KeptInputs
  <2> QED BY <1>1, <2>1 DEF KeptInputs
<1> QED BY <1>2, <1>3

LEMMA KeptInputsAreKept ==
    ASSUME CVTypes, Follows, ByPreview, KeptInputs, CVs!CVNext, ValueHistory, Quiet
    PROVE  KeptInputs'
<1>1. ASSUME UNCHANGED stored, ~Putting', ~Putting PROVE KeptInputs'
  <2>1. imported' = <<>> \/ imported' = imported
    BY <1>1 DEF ValueHistory, Putting
  <2> QED BY <1>1, <2>1 DEF KeptInputs
<1>2. ASSUME cvEdits' # cvEdits PROVE KeptInputs'
  BY <1>2 DEF ValueHistory, KeptInputs
<1>3. CASE CVs!Refreshing
  BY <1>1, <1>3, RefreshingFollows
<1>4. CASE \/ \E f \in CVFiles : CVs!ImportCVValues(f)
           \/ \E p \in Probes : CVs!SaveCVSuggestions(p)
           \/ CVs!ApplyPreview
           \/ \E f \in CVFiles : \E i \in DOMAIN f : CVs!SaveCVValue(f[i])
           \/ \E v \in DOMAIN copy : CVs!DeleteValue(v)
           \/ CVs!OtherUser
  <2>1. cvEdits' = cvEdits + 1
    BY <1>4 DEF CVs!ImportCVValues, CVs!SaveCVSuggestions, CVs!ApplyPreview, CVs!SaveCVValue,
                CVs!DeleteValue, CVs!Edit, CVs!OtherUser
  <2> QED BY <1>2, <2>1, CVState
<1>5. CASE \/ \E i \in DOMAIN preview : CVs!ToggleRow(i)
           \/ \E mode \in {"all", "none", "empty"} : CVs!SelectRows(mode)
           \/ CVs!Discard
           \/ \E v \in DOMAIN copy : CVs!EditCVValue(v)
  <2>1. saving = CVs!NotSaving /\ saving' = saving /\ stored' = stored
    BY <1>5 DEF CVs!ToggleRow, CVs!SelectRows, CVs!Discard, CVs!EditCVValue
  <2> QED BY <1>1, <2>1 DEF Putting, CVs!NotSaving
<1>6. CASE CVs!FileRead
  BY <1>1, <1>6 DEF CVs!FileRead, Putting, CVs!NotSaving
<1>7. CASE CVs!PutAll
  BY <1>7, PreviewIsOver
<1>8. CASE CVs!PutNext
  <2>1. Putting /\ Putting' /\ cvEdits' = cvEdits
    BY <1>8, PutRow, PutStep
  <2>2. imported = <<>> /\ imported' = imported
    BY <2>1 DEF KeptInputs, ValueHistory, Putting
  <2> QED BY <2>2 DEF KeptInputs
<1> QED BY <1>3, <1>4, <1>5, <1>6, <1>7, <1>8
        DEF CVs!CVNext, CVs!CVImportPreview, CVs!CVEditor, CVs!CVSaving

----------------------------------------------------------------------------
LEMMA ValuesStart == ASSUME ValuesInit PROVE CVTypes /\ CVFacts
<1>1. CVs!CVInit /\ imported = <<>>
  BY DEF ValuesInit
<1>2. ~Putting
  BY <1>1 DEF CVs!CVInit, Putting, CVs!NotSaving
<1> QED BY <1>1, <1>2, CVStartTypes, FollowsStarts DEF CVFacts, ByPreview, ByEcos, KeptInputs

LEMMA CVInvariant == Spec => []CVPage
<1>1. Init => CVPage
  BY ValuesStart DEF Init, CVPage
<1>2. CVPage /\ [Next]_vars => CVPage'
  <2> SUFFICES ASSUME CVPage, [Next]_vars PROVE CVPage'
    OBVIOUS
  <2>1. CASE page = "values" /\ CVs!CVNext /\ ValueHistory /\ page' = page
    <3>1. CVTypes /\ CVTypes'
      BY <2>1, CVTypesAreKept DEF CVPage
    <3>2. ASSUME ~disturbed' PROVE CVFacts'
      <4>1. Quiet
        BY <2>1, <3>2, Zenon DEF ValueHistory, Quiet
      <4>2. Follows /\ ByPreview /\ ByEcos /\ KeptInputs
        BY <2>1, <4>1 DEF CVPage, Quiet, CVFacts
      <4> QED BY <2>1, <3>1, <4>1, <4>2, FollowsIsKept, ByPreviewIsKept, ByEcosIsKept, KeptInputsAreKept
              DEF CVFacts
    <3> QED BY <3>1, <3>2 DEF CVPage
  <2>2. CASE page # "values" /\ page' = page
    BY <2>2 DEF CVPage
  <2>3. CASE UNCHANGED vars
    <3>1. UNCHANGED <<page, valuesCore, disturbed, imported>>
      BY <2>3 DEF vars, valueVars
    <3>2. UNCHANGED <<stored, cvDrawn, copy, preview, editing, saving, refreshes, cvEdits>>
      BY <3>1 DEF valuesCore
    <3>3. CVTypes' = CVTypes /\ Follows' = Follows /\ ByEcos' = ByEcos /\ KeptInputs' = KeptInputs
      BY <3>1, <3>2 DEF CVTypes, Follows, ByEcos, KeptInputs, Putting
    <3>4. ByPreview' = ByPreview
      BY <3>2 DEF ByPreview, Putting, DoneRows, Stores, CVs!PreviewFresh
    <3> QED BY <3>1, <3>3, <3>4 DEF CVPage, CVFacts
  <2>4. Next => \/ page = "values" /\ CVs!CVNext /\ ValueHistory /\ page' = page
                \/ page # "values" /\ page' = page
    BY DEF Next
  <2> QED BY <2>1, <2>2, <2>3, <2>4
<1> QED BY <1>1, <1>2, PTL DEF Spec

----------------------------------------------------------------------------
\* The only value with a key is the last one with it.
LEMMA OnlyOne ==
    ASSUME NEW n \in Nat, NEW t, ValueTable(t, n), ~CVs!Variants(t), NEW x, NEW v \in DOMAIN t,
           CVs!Key(t[v]) = CVs!Key(x)
    PROVE  CVs!SameKey(x, t) # {} /\ CVs!LastOf(CVs!SameKey(x, t), t) = v /\ v # CVs!NoId
<1>1. v \in CVs!SameKey(x, t) /\ CVs!SameKey(x, t) \subseteq DOMAIN t
  BY DEF CVs!SameKey
<1>2. \A w \in CVs!SameKey(x, t) : w = v
  BY DEF CVs!SameKey, CVs!Key, CVs!Variants
<1>3. CVs!LastOf(CVs!SameKey(x, t), t) \in CVs!SameKey(x, t)
  BY <1>1, LastIsOne
<1>4. v # CVs!NoId
  BY <1>1 DEF ValueTable, CVs!NoId
<1> QED BY <1>1, <1>2, <1>3, <1>4

\* What was imported is shown as the same when the file is looked at again and every answer
\* has come (ImportedAgainIsSame: cvImport.ts:86 buildCVImportPreview, vehicles.go:1490
\* UpdateCVValue).
THEOREM ImportedAgainAddsNothing == Spec => []ImportedAgainIsSame
<1>1. CVPage => ImportedAgainIsSame
  <2> SUFFICES ASSUME CVPage, page = "values", refreshes = <<>>, saving = CVs!NotSaving, ~disturbed,
                      ~CVs!Variants(stored), NEW i \in DOMAIN imported
               PROVE  CVs!Preview(imported, copy)[i].status = "same"
    BY DEF ImportedAgainIsSame
  <2>1. copy = stored /\ KeptInputs /\ CVTypes
    BY DEF CVPage, CVFacts, Follows, Putting, CVs!NotSaving
  <2>2. ValueTable(copy, cvDrawn) /\ cvDrawn \in Nat
    BY <2>1, CVState DEF CVTypes
  <2>3. PICK x : x = imported[i]
    OBVIOUS
  <2>4. PICK v \in DOMAIN copy : copy[v] = x
    BY <2>1, <2>3 DEF KeptInputs
  <2>5. CVs!LastOf(CVs!SameKey(x, copy), copy) = v /\ v # CVs!NoId
    BY <2>1, <2>2, <2>4, OnlyOne
  <2> DEFINE again == \E j \in 1 .. i - 1 : CVs!Valid(imported[j]) /\ CVs!Key(imported[j]) = CVs!Key(imported[i])
  <2>6. ~again
    <3> SUFFICES ASSUME NEW j \in 1 .. i - 1, CVs!Key(imported[j]) = CVs!Key(imported[i]) PROVE FALSE
      OBVIOUS
    <3>1. j \in DOMAIN imported /\ i \in Nat
      BY <2>1 DEF KeptInputs
    <3>2. j = i
      BY <2>1, <3>1 DEF KeptInputs
    <3> QED BY <3>1, <3>2
  <2>7. CVs!Preview(imported, copy)[i] = CVs!Row(x, copy, again)
    BY <2>3 DEF CVs!Preview
  <2>8. CVs!Valid(x)
    BY <2>1, <2>3 DEF KeptInputs
  <2> HIDE DEF again
  <2>9. CVs!Row(x, copy, again).status = "same"
    BY <2>4, <2>5, <2>6, <2>8 DEF CVs!Row
  <2> QED BY <2>7, <2>9
<1> QED BY <1>1, CVInvariant, PTL

\* Values change during a loop by its next row.
LEMMA LoopChanges ==
    ASSUME CVTypes, CVs!CVNext, cvEdits' = cvEdits, stored' # stored
    PROVE  CVs!PutNext
<1>1. cvEdits + 1 # cvEdits
  BY CVState
<1>2. ~\/ \E f \in CVFiles : CVs!ImportCVValues(f)
       \/ \E p \in Probes : CVs!SaveCVSuggestions(p)
       \/ CVs!ApplyPreview
       \/ \E f \in CVFiles : \E i \in DOMAIN f : CVs!SaveCVValue(f[i])
       \/ \E v \in DOMAIN copy : CVs!DeleteValue(v)
       \/ CVs!OtherUser
  BY <1>1 DEF CVs!ImportCVValues, CVs!SaveCVSuggestions, CVs!ApplyPreview, CVs!SaveCVValue,
              CVs!DeleteValue, CVs!Edit, CVs!OtherUser
<1>3. ~\/ \E i \in DOMAIN preview : CVs!ToggleRow(i)
       \/ \E mode \in {"all", "none", "empty"} : CVs!SelectRows(mode)
       \/ CVs!Discard
       \/ \E v \in DOMAIN copy : CVs!EditCVValue(v)
  BY DEF CVs!ToggleRow, CVs!SelectRows, CVs!Discard, CVs!EditCVValue
<1>4. ~(CVs!Refreshing \/ CVs!FileRead \/ CVs!PutAll)
  BY DEF CVs!Refreshing, CVs!GetVehicle, CVs!RefreshAnswered, CVs!RefreshFailed, CVs!FileRead, CVs!PutAll
<1> QED BY <1>2, <1>3, <1>4 DEF CVs!CVNext, CVs!CVImportPreview, CVs!CVEditor, CVs!CVSaving

\* The next row of a fresh preview is stored.
LEMMA PreviewOverwrites ==
    ASSUME CVTypes, ByPreview, saving.by = "preview", CVs!PreviewFresh, CVs!PutNext, ~CVs!Variants(stored),
           NEW x, x = saving.rows[1], NEW w, OneStored(x, w)
    PROVE  /\ \A v \in DOMAIN stored : stored'[v].value # stored[v].value => x.status = "changed"
           /\ ~CVs!Variants(stored')
<1>1. /\ Putting /\ Len(saving.rows) \in Nat /\ Len(saving.rows) > 0 /\ DOMAIN saving.rows = 1 .. Len(saving.rows)
  BY PutRow
<1>2. PICK d : d = DoneRows
  OBVIOUS
<1>3. /\ Fresh(x) /\ \A j \in 1 .. d : CVs!Key(Stores[j].input) # CVs!Key(x.input)
  BY <1>1, <1>2, PreviewRow
<1>4. /\ \A v \in DOMAIN stored : v \in DOMAIN copy => CVs!Key(stored[v]) = CVs!Key(copy[v])
      /\ \A v \in DOMAIN stored :
           \/ v \in DOMAIN copy /\ stored[v] = copy[v]
           \/ \E j \in 1 .. d : CVs!Key(stored[v]) = CVs!Key(Stores[j].input)
  BY <1>1, <1>2 DEF ByPreview
<1>5. w \in DOMAIN stored => /\ w = x.existing /\ x.existing # CVs!NoId /\ w \in DOMAIN copy
                             /\ CVs!Key(copy[w]) = CVs!Key(x.input)
  BY <1>3 DEF OneStored, Fresh
<1>6. w \in DOMAIN stored => stored[w] = copy[w]
  BY <1>3, <1>4, <1>5
<1>7. ASSUME NEW v \in DOMAIN stored, stored'[v].value # stored[v].value
      PROVE  x.status = "changed"
  <2>1. v = w /\ stored'[w] = x.input
    BY <1>7 DEF OneStored
  <2> QED BY <1>3, <1>5, <1>6, <1>7, <2>1 DEF Fresh
<1>8. ASSUME NEW u \in DOMAIN stored, u # w
      PROVE  CVs!Key(stored[u]) # CVs!Key(x.input)
  <2>1. CASE w \in DOMAIN stored
    <3>1. CVs!Key(stored[w]) = CVs!Key(x.input)
      BY <1>5, <1>6, <2>1
    <3> QED BY <1>8, <2>1, <3>1 DEF CVs!Variants, CVs!Key
  <2>2. CASE w \notin DOMAIN stored
    <3>1. CVs!SameKey(x.input, copy) = {}
      BY <1>3, <2>2 DEF OneStored, Fresh
    <3> QED BY <1>3, <1>4, <3>1 DEF CVs!SameKey
  <2> QED BY <2>1, <2>2
<1>9. ASSUME NEW v \in DOMAIN stored', NEW u \in DOMAIN stored', u # v
      PROVE  CVs!Key(stored'[v]) # CVs!Key(stored'[u])
  <2>1. CASE v = w \/ u = w
    BY <1>8, <1>9, <2>1 DEF OneStored
  <2>2. CASE v # w /\ u # w
    <3>1. v \in DOMAIN stored /\ u \in DOMAIN stored /\ stored'[v] = stored[v] /\ stored'[u] = stored[u]
      BY <2>2 DEF OneStored
    <3> QED BY <1>9, <3>1 DEF CVs!Variants, CVs!Key
  <2> QED BY <2>1, <2>2
<1> QED BY <1>7, <1>9 DEF CVs!Variants, CVs!Key

\* The next row of an ECoS is stored.
LEMMA EcosOverwrites ==
    ASSUME CVTypes, ByEcos, saving.by = "ecos", CVs!PutNext, ~CVs!Variants(stored),
           NEW x, x = saving.rows[1], NEW w, OneStored(x, w)
    PROVE  \A v \in DOMAIN stored : stored'[v].value # stored[v].value => x.status = "changed"
<1> SUFFICES ASSUME NEW v \in DOMAIN stored, stored'[v].value # stored[v].value
             PROVE  x.status = "changed"
  OBVIOUS
<1>1. Putting /\ 1 \in DOMAIN saving.rows /\ cvDrawn \in Nat /\ ValueTable(copy, cvDrawn)
  BY PutRow, CVState DEF CVTypes
<1>2. v = w /\ stored'[w] = x.input /\ w = x.existing /\ x.existing # CVs!NoId
  BY DEF OneStored
<1>3. /\ x.status = CVs!Shown(x.input, copy)
      /\ w \in DOMAIN copy /\ SameName(copy[w], x.input)
  BY <1>1, <1>2 DEF ByEcos
<1>4. \A u \in DOMAIN copy : u \in DOMAIN stored /\ SameName(copy[u], stored[u])
  BY <1>1 DEF ByEcos
<1>5. stored[w] = copy[w]
  BY <1>1, <1>3, <1>4 DEF ByEcos, SameName
<1>6. ~CVs!Variants(copy)
  BY <1>4 DEF CVs!Variants, SameName
<1>7. CVs!Key(copy[w]) = CVs!Key(x.input)
  BY <1>3 DEF SameName, CVs!Key
<1>8. CVs!SameKey(x.input, copy) # {} /\ CVs!LastOf(CVs!SameKey(x.input, copy), copy) = w /\ w # CVs!NoId
  BY <1>1, <1>3, <1>6, <1>7, OnlyOne
<1>9. copy[w].value # x.input.value
  BY <1>2, <1>5
<1> QED BY <1>3, <1>8, <1>9 DEF CVs!Shown

\* A loop overwrites no value but where its preview said so, and an import of a file makes no
\* value whose profile differs from another one's only in case (ImportsAsShown: cvImport.ts:66
\* cvValueKey, :86 buildCVImportPreview, importExportHelpers.tsx:1184).
THEOREM LoopsOverwriteWhatWasShown == Spec => ImportsAsShown
<1> DEFINE A == page = "values" /\ ~disturbed /\ ~CVs!Variants(stored) => OverwriteShown /\ NoVariantMade
<1>1. CVPage /\ [Next]_vars => [A]_vars
  <2> SUFFICES ASSUME CVPage, Next, page = "values", ~disturbed, ~CVs!Variants(stored)
               PROVE  OverwriteShown /\ NoVariantMade
    OBVIOUS
  <2>1. CVTypes /\ ByPreview /\ ByEcos /\ CVs!CVNext
    BY DEF CVPage, CVFacts, Next
  <2>2. CASE stored' = stored
    BY <2>2 DEF OverwriteShown, NoVariantMade
  <2>3. CASE stored' # stored /\ cvEdits' # cvEdits
    BY <2>3 DEF OverwriteShown, NoVariantMade, CVs!Loop
  <2>4. CASE stored' # stored /\ cvEdits' = cvEdits
    <3>1. CVs!PutNext
      BY <2>1, <2>4, LoopChanges
    <3>2. PICK x : x = saving.rows[1]
      OBVIOUS
    <3>3. /\ Head(saving.rows) = x /\ x \in CVRow(cvDrawn) /\ CVs!Put(x.existing, x.input)
      BY <2>1, <2>4, <3>1, <3>2, PutRow
    <3>4. PICK w : OneStored(x, w)
      BY <2>1, <3>3, RowIsStored
    <3>5. CASE saving.by = "preview" /\ CVs!PreviewFresh
      <4>1. /\ \A v \in DOMAIN stored : stored'[v].value # stored[v].value => x.status = "changed"
            /\ ~CVs!Variants(stored')
        BY <2>1, <3>1, <3>2, <3>4, <3>5, PreviewOverwrites
      <4> QED BY <3>3, <4>1 DEF OverwriteShown, NoVariantMade
    <3>6. CASE saving.by = "ecos"
      <4>1. \A v \in DOMAIN stored : stored'[v].value # stored[v].value => x.status = "changed"
        BY <2>1, <3>1, <3>2, <3>4, <3>6, EcosOverwrites
      <4>2. ~CVs!Loop("preview")
        BY <3>6 DEF CVs!Loop
      <4> QED BY <3>3, <4>1, <4>2 DEF OverwriteShown, NoVariantMade
    <3>7. CASE saving.by # "ecos" /\ ~(saving.by = "preview" /\ CVs!PreviewFresh)
      BY <3>7 DEF OverwriteShown, NoVariantMade, CVs!Loop
    <3> QED BY <3>5, <3>6, <3>7
  <2> QED BY <2>2, <2>3, <2>4
<1>2. []CVPage /\ [][Next]_vars => [][A]_vars
  BY <1>1, PTL
<1> QED BY <1>2, CVInvariant DEF Spec, ImportsAsShown

----------------------------------------------------------------------------
(* Sequences made of parts.                                                *)

\* What the first parts make, up to each of them
MadeOf(f, P, n) == f = [i \in 1 .. n |-> IF i = 1 THEN P[i] ELSE f[i - 1] \o P[i]]

LEMMA MadeExists ==
    ASSUME NEW P, NEW N \in Nat
    PROVE  \E f : MadeOf(f, P, N)
<1> DEFINE Bad == {n \in Nat : ~\E f : MadeOf(f, P, n)}
<1> SUFFICES ASSUME Bad # {} PROVE FALSE
  OBVIOUS
<1>1. PICK n \in Bad : \A m \in Bad : n <= m
  BY LeastNumber
<1>2. CASE n = 0
  <2>1. 1 .. 0 = {}
    OBVIOUS
  <2>2. MadeOf([i \in {} |-> <<>>], P, 0)
    BY <2>1 DEF MadeOf
  <2> QED BY <2>2, <1>2
<1>3. CASE n # 0
  <2>1. n - 1 \in Nat /\ n - 1 \notin Bad
    BY <1>1, <1>3
  <2>2. PICK f : MadeOf(f, P, n - 1)
    BY <2>1
  <2> DEFINE last == IF n = 1 THEN P[n] ELSE f[n - 1] \o P[n]
             g == [m \in 1 .. n |-> IF m = n THEN last ELSE f[m]]
  <2>3. \A m \in 1 .. n - 1 : f[m] = IF m = 1 THEN P[m] ELSE f[m - 1] \o P[m]
    BY <2>1, <2>2 DEF MadeOf
  <2>4. ASSUME NEW m \in 1 .. n
        PROVE  g[m] = IF m = 1 THEN P[m] ELSE g[m - 1] \o P[m]
    <3>1. CASE m = n
      <4>1. g[m] = last /\ (m # 1 => m - 1 \in 1 .. n /\ m - 1 # n /\ g[m - 1] = f[m - 1])
        BY <1>3, <3>1, <2>1
      <4> HIDE DEF g
      <4> QED BY <3>1, <4>1
    <3>2. CASE m # n
      <4>1. m \in 1 .. n - 1 /\ (m # 1 => m - 1 \in 1 .. n /\ m - 1 # n)
        BY <3>2
      <4>2. g[m] = f[m] /\ (m # 1 => g[m - 1] = f[m - 1])
        BY <4>1, <3>2
      <4> HIDE DEF g
      <4> QED BY <4>1, <4>2, <2>3
    <3> QED BY <3>1, <3>2
  <2>5. MadeOf(g, P, n)
    <3> DEFINE h == [m \in 1 .. n |-> IF m = 1 THEN P[m] ELSE g[m - 1] \o P[m]]
    <3>1. DOMAIN g = 1 .. n /\ DOMAIN h = 1 .. n /\ \A m \in 1 .. n : g[m] = h[m]
      BY <2>4
    <3>2. g = [m \in 1 .. n |-> g[m]] /\ h = [m \in 1 .. n |-> h[m]]
      OBVIOUS
    <3> HIDE DEF g
    <3> QED BY <2>4, <3>1, <3>2 DEF MadeOf
  <2> QED BY <2>5, <1>1
<1> QED BY <1>2, <1>3

\* The parts lie in the sequence one after the other: o tells where each of them ends.
Laid(t, P, o) ==
    /\ DOMAIN o = 0 .. Len(P) /\ o[0] = 0 /\ o[Len(P)] = Len(t)
    /\ \A i \in 0 .. Len(P) : o[i] \in Nat
    /\ \A i \in 1 .. Len(P) :
         /\ o[i] = o[i - 1] + Len(P[i])
         /\ \A m \in 1 .. Len(P[i]) : t[o[i - 1] + m] = P[i][m]

\* What lies at the end of a part lies within the sequence.
LEMMA LaidWithin ==
    ASSUME NEW n \in Nat, NEW P, NEW t, NEW o, Len(t) \in Nat, Len(P) = n, Laid(t, P, o),
           \A i \in 1 .. n : Len(P[i]) \in Nat
    PROVE  \A i \in 0 .. n : o[i] <= Len(t)
<1>1. /\ o[n] = Len(t) /\ \A i \in 0 .. n : o[i] \in Nat
      /\ \A i \in 1 .. n : o[i] = o[i - 1] + Len(P[i])
  BY DEF Laid
<1> DEFINE Bad == {k \in Nat : k <= n /\ o[n - k] > Len(t)}
<1>2. Bad = {}
  <2> SUFFICES ASSUME Bad # {} PROVE FALSE
    OBVIOUS
  <2>1. PICK k \in Bad : \A m \in Bad : k <= m
    BY LeastNumber
  <2>2. k # 0
    BY <1>1
  <2>3. k - 1 \in Nat /\ k - 1 \notin Bad /\ n - (k - 1) \in 1 .. n /\ n - k \in 0 .. n
    <3>1. k \in Nat /\ k <= n
      OBVIOUS
    <3>2. k - 1 \in Nat /\ k - 1 < k /\ n - (k - 1) \in 1 .. n /\ n - k \in 0 .. n
      BY <2>2, <3>1
    <3>3. k - 1 \notin Bad
      <4> HIDE DEF Bad
      <4> QED BY <2>1, <3>1, <3>2
    <3> QED BY <3>2, <3>3
  <2>4. o[n - (k - 1)] <= Len(t)
    <3>1. ~(o[n - (k - 1)] > Len(t))
      BY <2>3, <2>1
    <3> QED BY <1>1, <2>3, <3>1
  <2>5. (n - (k - 1)) - 1 = n - k
    BY <2>1
  <2>6. o[n - (k - 1)] = o[n - k] + Len(P[n - (k - 1)]) /\ Len(P[n - (k - 1)]) \in Nat /\ o[n - k] \in Nat
    BY <1>1, <2>3, <2>5
  <2> QED BY <1>1, <2>1, <2>4, <2>6
<1> SUFFICES ASSUME NEW i \in 0 .. n, ~(o[i] <= Len(t)) PROVE FALSE
  OBVIOUS
<1>3. n - i \in Nat /\ n - i <= n /\ n - (n - i) = i
  OBVIOUS
<1>4. o[i] > Len(t)
  BY <1>1
<1>5. n - i \in Bad
  BY <1>3, <1>4
<1> QED BY <1>2, <1>5

LEMMA OnePartMore ==
    ASSUME NEW S, NEW n \in Nat, NEW P, NEW t \in Seq(S), NEW o, NEW q \in Seq(S), NEW Q,
           Len(P) = n, Len(Q) = n + 1, Laid(t, P, o),
           \A i \in 1 .. n : Q[i] = P[i], Q[n + 1] = q, \A i \in 1 .. n : Len(P[i]) \in Nat
    PROVE  \E u : Laid(t \o q, Q, u)
<1> DEFINE u == [i \in 0 .. n + 1 |-> IF i = n + 1 THEN Len(t) + Len(q) ELSE o[i]]
           w == t \o q
<1>1. /\ Len(t) \in Nat /\ Len(q) \in Nat /\ Len(w) = Len(t) + Len(q)
      /\ \A i \in 1 .. Len(t) : w[i] = t[i]
      /\ \A i \in 1 .. Len(q) : w[Len(t) + i] = q[i]
  OBVIOUS
<1> HIDE DEF w
<1>2. /\ DOMAIN o = 0 .. n /\ o[0] = 0 /\ o[n] = Len(t) /\ \A i \in 0 .. n : o[i] \in Nat
      /\ \A i \in 1 .. n : /\ o[i] = o[i - 1] + Len(P[i])
                           /\ \A m \in 1 .. Len(P[i]) : t[o[i - 1] + m] = P[i][m]
  BY DEF Laid
<1>3. \A i \in 0 .. n : u[i] = o[i] /\ i \in 0 .. n + 1 /\ i # n + 1
  OBVIOUS
<1>4. u[n + 1] = Len(t) + Len(q) /\ DOMAIN u = 0 .. n + 1
  OBVIOUS
<1> HIDE DEF u
<1>5. \A i \in 0 .. n + 1 : i \in 0 .. n \/ i = n + 1
  OBVIOUS
<1>6. \A i \in 0 .. n : o[i] <= Len(t)
  BY <1>1, LaidWithin
<1>7. ASSUME NEW i \in 1 .. n + 1
      PROVE  /\ u[i] = u[i - 1] + Len(Q[i])
             /\ \A m \in 1 .. Len(Q[i]) : w[u[i - 1] + m] = Q[i][m]
  <2>1. CASE i = n + 1
    <3>1. u[i - 1] = Len(t) /\ Q[i] = q
      BY <1>2, <1>3, <2>1
    <3> QED BY <1>1, <1>4, <2>1, <3>1
  <2>2. CASE i \in 1 .. n
    <3>1. i - 1 \in 0 .. n /\ i \in 0 .. n
      BY <2>2
    <3>2. u[i] = o[i] /\ u[i - 1] = o[i - 1] /\ Q[i] = P[i] /\ o[i - 1] \in Nat /\ Len(P[i]) \in Nat /\ o[i] <= Len(t)
      BY <1>2, <1>3, <1>6, <2>2, <3>1
    <3>3. o[i] = o[i - 1] + Len(P[i]) /\ \A m \in 1 .. Len(P[i]) : t[o[i - 1] + m] = P[i][m]
      BY <1>2, <2>2
    <3>4. \A m \in 1 .. Len(P[i]) : o[i - 1] + m \in 1 .. Len(t)
      BY <1>1, <3>2, <3>3
    <3> QED BY <1>1, <3>2, <3>3, <3>4
  <2> QED BY <2>1, <2>2
<1>8. \A i \in 0 .. n + 1 : u[i] \in Nat
  <2> SUFFICES ASSUME NEW i \in 0 .. n + 1 PROVE u[i] \in Nat
    OBVIOUS
  <2>1. CASE i = n + 1
    BY <1>1, <1>4, <2>1
  <2>2. CASE i \in 0 .. n
    BY <1>2, <1>3, <2>2
  <2> QED BY <1>5, <2>1, <2>2
<1>9. u[0] = 0
  BY <1>2, <1>3
<1>10. Laid(w, Q, u)
  BY <1>1, <1>4, <1>7, <1>8, <1>9 DEF Laid
<1> QED BY <1>10 DEF w

LEMMA Flattened ==
    ASSUME NEW S, NEW P \in Seq(Seq(S))
    PROVE  Reading!FlattenSeq(P) \in Seq(S) /\ \E o : Laid(Reading!FlattenSeq(P), P, o)
<1>1. Len(P) \in Nat /\ DOMAIN P = 1 .. Len(P) /\ \A i \in 1 .. Len(P) : P[i] \in Seq(S) /\ Len(P[i]) \in Nat
  <2>1. PICK T : T = Seq(S)
    OBVIOUS
  <2>2. Len(P) \in Nat /\ DOMAIN P = 1 .. Len(P) /\ \A i \in 1 .. Len(P) : P[i] \in T
    BY <2>1
  <2> QED BY <2>1, <2>2
<1>2. CASE Len(P) = 0
  <2>1. P = <<>>
    BY <1>2
  <2>2. Reading!FlattenSeq(P) = <<>>
    BY <1>2, <2>1 DEF Reading!FlattenSeq
  <2>3. Laid(<<>>, P, [i \in 0 .. 0 |-> 0])
    BY <1>2 DEF Laid
  <2>4. <<>> \in Seq(S)
    OBVIOUS
  <2> QED BY <2>2, <2>3, <2>4
<1>3. CASE Len(P) # 0
  <2> DEFINE f == CHOOSE g : MadeOf(g, P, Len(P))
  <2>1. MadeOf(f, P, Len(P))
    BY <1>1, MadeExists
  <2>2. Reading!FlattenSeq(P) = f[Len(P)]
    BY <1>3, Zenon DEF Reading!FlattenSeq, MadeOf
  <2> HIDE DEF f
  <2>3. \A i \in 1 .. Len(P) : f[i] = IF i = 1 THEN P[i] ELSE f[i - 1] \o P[i]
    BY <2>1 DEF MadeOf
  <2> DEFINE First(n) == [i \in 1 .. n |-> P[i]]
             Fine(n) == f[n] \in Seq(S) /\ \E o : Laid(f[n], First(n), o)
             Bad == {n \in 1 .. Len(P) : ~Fine(n)}
  <2>4. \A n \in 0 .. Len(P) : Len(First(n)) = n /\ \A i \in 1 .. n : First(n)[i] = P[i]
    BY <1>1
  <2>5. Bad = {}
    <3> SUFFICES ASSUME Bad # {} PROVE FALSE
      OBVIOUS
    <3>1. PICK n \in Bad : \A m \in Bad : n <= m
      <4>1. Bad \subseteq Nat
        BY <1>1
      <4> HIDE DEF Bad
      <4> QED BY <4>1, LeastNumber
    <3> HIDE DEF First
    <3>2. CASE n = 1
      <4>1. f[1] = P[1] /\ P[1] \in Seq(S) /\ Len(P[1]) \in Nat
        BY <1>1, <2>3, <3>1, <3>2
      <4>2. Len(First(1)) = 1 /\ First(1)[1] = P[1]
        <5>1. 1 \in 0 .. Len(P) /\ 1 \in 1 .. 1
          BY <1>1, <1>3
        <5> QED BY <2>4, <5>1
      <4>3. Laid(f[1], First(1), [i \in 0 .. 1 |-> IF i = 0 THEN 0 ELSE Len(P[1])])
        <5> DEFINE o == [i \in 0 .. 1 |-> IF i = 0 THEN 0 ELSE Len(P[1])]
        <5>1. DOMAIN o = 0 .. 1 /\ o[0] = 0 /\ o[1] = Len(P[1])
          OBVIOUS
        <5> HIDE DEF o
        <5>2. PICK Q, t : Q = First(1) /\ t = f[1]
          OBVIOUS
        <5>3. Len(Q) = 1 /\ Q[1] = t /\ Len(t) \in Nat /\ o[1] = Len(t)
          BY <4>1, <4>2, <5>1, <5>2
        <5>4. \A i \in 0 .. 1 : o[i] \in Nat
          BY <5>1, <5>3
        <5>5. \A i \in 1 .. 1 : i = 1 /\ i - 1 = 0
          OBVIOUS
        <5>6. \A m \in 1 .. Len(t) : 0 + m = m
          BY <5>3
        <5>7. Laid(t, Q, o)
          BY <5>1, <5>3, <5>4, <5>5, <5>6 DEF Laid
        <5>8. Laid(f[1], First(1), o)
          BY <5>2, <5>7
        <5> QED BY <5>8 DEF o
      <4> QED BY <3>1, <3>2, <4>1, <4>3
    <3>3. CASE n # 1
      <4>1. n - 1 \in 1 .. Len(P) /\ n - 1 \notin Bad /\ n \in 1 .. Len(P) /\ n - 1 \in Nat /\ (n - 1) + 1 = n
            /\ n - 1 \in 0 .. Len(P) /\ n \in 0 .. Len(P)
        <5>1. n \in 1 .. Len(P) /\ n \in Nat
          BY <1>1, <3>1
        <5>2. n - 1 \in 1 .. Len(P) /\ n - 1 < n /\ n - 1 \in Nat /\ (n - 1) + 1 = n /\ n - 1 \in 0 .. Len(P) /\ n \in 0 .. Len(P)
          BY <1>1, <3>3, <5>1
        <5>3. n - 1 \notin Bad
          <6> HIDE DEF Bad
          <6> QED BY <3>1, <5>1, <5>2
        <5> QED BY <5>1, <5>2, <5>3
      <4>2. PICK o : Laid(f[n - 1], First(n - 1), o)
        BY <4>1
      <4>3. f[n - 1] \in Seq(S) /\ P[n] \in Seq(S) /\ f[n] = f[n - 1] \o P[n]
        BY <1>1, <2>3, <3>3, <4>1
      <4>4. /\ Len(First(n - 1)) = n - 1 /\ Len(First(n)) = (n - 1) + 1
            /\ \A i \in 1 .. n - 1 : First(n)[i] = First(n - 1)[i] /\ Len(First(n - 1)[i]) \in Nat
            /\ First(n)[(n - 1) + 1] = P[n]
        BY <1>1, <2>4, <4>1
      <4>5. \E u : Laid(f[n - 1] \o P[n], First(n), u)
        BY <4>1, <4>2, <4>3, <4>4, OnePartMore
      <4>6. f[n] \in Seq(S)
        BY <4>3
      <4> QED BY <3>1, <4>3, <4>5, <4>6
    <3> QED BY <3>2, <3>3
  <2>6. Len(P) \in 1 .. Len(P) /\ First(Len(P)) = P
    BY <1>1, <1>3
  <2> QED BY <2>2, <2>5, <2>6
<1> QED BY <1>2, <1>3

\* The parts lie after the positions in p, and a separator between each and the next.
JoinedAt(t, P, separator, p) ==
    /\ p[1] = 0
    /\ \A i \in 1 .. Len(P) :
         /\ p[i] \in Nat /\ p[i] + Len(P[i]) <= Len(t)
         /\ \A m \in 1 .. Len(P[i]) : t[p[i] + m] = P[i][m]
         /\ i < Len(P) => t[p[i] + Len(P[i]) + 1] = separator /\ p[i + 1] = p[i] + Len(P[i]) + 1
         /\ i = Len(P) => Len(t) = p[i] + Len(P[i])

LEMMA JoinedParts ==
    ASSUME NEW S, NEW P \in Seq(Seq(S)), P # <<>>, NEW separator \in S
    PROVE  /\ Reading!Joined(P, separator) \in Seq(S)
           /\ \E p : JoinedAt(Reading!Joined(P, separator), P, separator, p)
<1> DEFINE Part(i) == IF i = 1 THEN P[i] ELSE <<separator>> \o P[i]
           Q == [i \in DOMAIN P |-> Part(i)]
           t == Reading!Joined(P, separator)
<1>1. /\ Len(P) \in Nat /\ Len(P) # 0 /\ DOMAIN P = 1 .. Len(P)
      /\ \A i \in 1 .. Len(P) : P[i] \in Seq(S) /\ Len(P[i]) \in Nat
  <2>1. PICK T : T = Seq(S)
    OBVIOUS
  <2>2. Len(P) \in Nat /\ Len(P) # 0 /\ DOMAIN P = 1 .. Len(P) /\ \A i \in 1 .. Len(P) : P[i] \in T
    BY <2>1
  <2> QED BY <2>1, <2>2
<1>2. ASSUME NEW i \in 1 .. Len(P)
      PROVE  /\ Part(i) \in Seq(S)
             /\ i = 1 => Part(i) = P[i]
             /\ i # 1 => /\ Len(Part(i)) = Len(P[i]) + 1 /\ Part(i)[1] = separator
                         /\ \A m \in 1 .. Len(P[i]) : Part(i)[m + 1] = P[i][m]
  BY <1>1
<1>3. t = Reading!FlattenSeq(Q)
  BY DEF Reading!Joined
<1>4. /\ Q = [i \in 1 .. Len(P) |-> Part(i)] /\ DOMAIN Q = 1 .. Len(P)
      /\ \A i \in 1 .. Len(P) : Q[i] = Part(i)
  BY <1>1
<1> HIDE DEF Part, t
<1>5. Q \in Seq(Seq(S)) /\ Len(Q) = Len(P)
  <2>1. PICK T : T = Seq(S)
    OBVIOUS
  <2>2. \A i \in 1 .. Len(P) : Part(i) \in T
    BY <1>2, <2>1
  <2>3. Q \in Seq(T)
    BY <1>1, <1>4, <2>2
  <2>4. Len(Q) = Len(P)
    BY <1>1, <1>4
  <2> QED BY <2>1, <2>3, <2>4
<1> HIDE DEF Q
<1>6. t \in Seq(S)
  BY <1>3, <1>5, Flattened
<1>7. PICK o : Laid(t, Q, o)
  BY <1>3, <1>5, Flattened
<1>8. Len(t) \in Nat /\ \A i \in 1 .. Len(P) : Len(Q[i]) \in Nat
  BY <1>1, <1>2, <1>4, <1>6
<1>9. /\ o[0] = 0 /\ o[Len(P)] = Len(t) /\ \A i \in 0 .. Len(P) : o[i] \in Nat /\ o[i] <= Len(t)
      /\ \A i \in 1 .. Len(P) : /\ o[i] = o[i - 1] + Len(Q[i])
                                /\ \A m \in 1 .. Len(Q[i]) : t[o[i - 1] + m] = Q[i][m]
  BY <1>1, <1>5, <1>7, <1>8, LaidWithin DEF Laid
<1> DEFINE p == [i \in 1 .. Len(P) |-> IF i = 1 THEN 0 ELSE o[i - 1] + 1]
<1>10. \A i \in 1 .. Len(P) : p[i] = IF i = 1 THEN 0 ELSE o[i - 1] + 1
  OBVIOUS
<1> HIDE DEF p
<1>11. ASSUME NEW i \in 1 .. Len(P)
       PROVE  /\ p[i] \in Nat /\ p[i] + Len(P[i]) = o[i]
              /\ \A m \in 1 .. Len(P[i]) : t[p[i] + m] = P[i][m]
  <2>1. i - 1 \in 0 .. Len(P) /\ o[i - 1] \in Nat /\ Len(P[i]) \in Nat
    BY <1>1, <1>9
  <2>2. CASE i = 1
    <3>1. Q[i] = P[i] /\ p[i] = 0 /\ o[i - 1] = 0 /\ o[i] = o[i - 1] + Len(Q[i])
      BY <1>2, <1>4, <1>9, <1>10, <2>2
    <3>2. \A m \in 1 .. Len(Q[i]) : t[o[i - 1] + m] = Q[i][m]
      BY <1>9
    <3> QED BY <2>1, <3>1, <3>2
  <2>3. CASE i # 1
    <3>1. p[i] = o[i - 1] + 1 /\ Len(Q[i]) = Len(P[i]) + 1 /\ o[i] = o[i - 1] + Len(Q[i])
          /\ \A m \in 1 .. Len(P[i]) : Q[i][m + 1] = P[i][m]
      BY <1>2, <1>4, <1>9, <1>10, <2>3
    <3>2. ASSUME NEW m \in 1 .. Len(P[i]) PROVE t[p[i] + m] = P[i][m]
      <4>0. m \in Nat /\ m >= 1 /\ m <= Len(P[i])
        BY <2>1
      <4>1. m + 1 \in 1 .. Len(Q[i]) /\ o[i - 1] + (m + 1) = p[i] + m
        <5>1. PICK n, l, u, w : n = Len(P[i]) /\ l = Len(Q[i]) /\ u = o[i - 1] /\ w = p[i]
          OBVIOUS
        <5>2. n \in Nat /\ u \in Nat /\ l = n + 1 /\ w = u + 1 /\ m <= n
          BY <2>1, <3>1, <4>0, <5>1
        <5>3. m + 1 \in 1 .. l /\ u + (m + 1) = w + m
          BY <4>0, <5>2
        <5> QED BY <5>1, <5>3
      <4>2. t[o[i - 1] + (m + 1)] = Q[i][m + 1]
        BY <1>9, <4>1
      <4> QED BY <3>1, <4>1, <4>2
    <3>3. p[i] \in Nat /\ p[i] + Len(P[i]) = o[i]
      <4>1. PICK n, l, u, w : n = Len(P[i]) /\ l = Len(Q[i]) /\ u = o[i - 1] /\ w = p[i]
        OBVIOUS
      <4>2. n \in Nat /\ u \in Nat /\ l = n + 1 /\ w = u + 1 /\ o[i] = u + l
        BY <2>1, <3>1, <4>1
      <4>3. w \in Nat /\ w + n = o[i]
        BY <4>2
      <4> QED BY <4>1, <4>3
    <3> QED BY <3>2, <3>3
  <2> QED BY <2>2, <2>3
<1>12. ASSUME NEW i \in 1 .. Len(P), i < Len(P)
       PROVE  t[p[i] + Len(P[i]) + 1] = separator /\ p[i + 1] = p[i] + Len(P[i]) + 1
  <2>1. i + 1 \in 1 .. Len(P) /\ i + 1 # 1 /\ (i + 1) - 1 = i
    BY <1>1, <1>12
  <2>2. p[i + 1] = o[i] + 1
    BY <1>10, <2>1
  <2>3. Len(Q[i + 1]) = Len(P[i + 1]) + 1 /\ Q[i + 1][1] = separator /\ Len(P[i + 1]) \in Nat
    BY <1>1, <1>2, <1>4, <2>1
  <2>4. 1 \in 1 .. Len(Q[i + 1])
    BY <2>3
  <2>5. t[o[i] + 1] = separator
    BY <1>9, <2>1, <2>3, <2>4
  <2> QED BY <1>11, <2>2, <2>5
<1>13. JoinedAt(t, P, separator, p)
  <2>1. 1 \in 1 .. Len(P) /\ Len(P) \in 1 .. Len(P) /\ 1 .. Len(P) \subseteq 0 .. Len(P)
    BY <1>1
  <2> QED BY <1>9, <1>10, <1>11, <1>12, <2>1 DEF JoinedAt
<1> QED BY <1>6, <1>13 DEF t

----------------------------------------------------------------------------
(* A cell.                                                                 *)

Plain(x) == \A i \in DOMAIN x : x[i] \notin {Reading!Quote, ";", Reading!NewLine}

\* A cell in quotes: after o[k] characters of what is between them its first k are over.
QuotedAt(e, x, o) ==
    /\ Len(e) = o[Len(x)] + 2 /\ e[1] = Reading!Quote /\ e[Len(e)] = Reading!Quote /\ o[0] = 0
    /\ \A k \in 0 .. Len(x) : o[k] \in Nat /\ o[k] <= o[Len(x)]
    /\ \A k \in 1 .. Len(x) :
         IF x[k] = Reading!Quote
         THEN /\ o[k] = o[k - 1] + 2
              /\ e[o[k - 1] + 2] = Reading!Quote /\ e[o[k - 1] + 3] = Reading!Quote
         ELSE o[k] = o[k - 1] + 1 /\ e[o[k - 1] + 2] = x[k]

LEMMA EscapedCell ==
    ASSUME NEW x \in Seq(Reading!Characters)
    PROVE  /\ Reading!Escape(x) \in Seq(Reading!Characters)
           /\ Plain(x) => Reading!Escape(x) = x
           /\ ~Plain(x) => \E o : QuotedAt(Reading!Escape(x), x, o)
<1> DEFINE q == Reading!Quote
           Part(i) == IF x[i] = q THEN <<q, q>> ELSE <<x[i]>>
           Q == [i \in DOMAIN x |-> Part(i)]
<1>1. Plain(x) => Reading!Escape(x) = x
  BY DEF Plain, Reading!Escape
<1>2. ASSUME ~Plain(x)
      PROVE  Reading!Escape(x) = <<q>> \o Reading!FlattenSeq(Q) \o <<q>>
  BY <1>2 DEF Plain, Reading!Escape
<1>3. PICK S : S = Reading!Characters /\ q \in S
  BY DEF Reading!Characters
<1>4. Len(x) \in Nat /\ DOMAIN x = 1 .. Len(x) /\ \A i \in 1 .. Len(x) : x[i] \in S
  BY <1>3
<1>5. ASSUME NEW i \in 1 .. Len(x)
      PROVE  /\ Part(i) \in Seq(S)
             /\ x[i] = q => Len(Part(i)) = 2 /\ Part(i)[1] = q /\ Part(i)[2] = q
             /\ x[i] # q => Len(Part(i)) = 1 /\ Part(i)[1] = x[i]
  BY <1>3, <1>4
<1>6. Q = [i \in 1 .. Len(x) |-> Part(i)] /\ DOMAIN Q = 1 .. Len(x) /\ \A i \in 1 .. Len(x) : Q[i] = Part(i)
  BY <1>4
<1> HIDE DEF Part
<1>7. Q \in Seq(Seq(S)) /\ Len(Q) = Len(x)
  <2>1. PICK T : T = Seq(S)
    OBVIOUS
  <2>2. \A i \in 1 .. Len(x) : Part(i) \in T
    BY <1>5, <2>1
  <2>3. Q \in Seq(T) /\ Len(Q) = Len(x)
    BY <1>4, <1>6, <2>2
  <2> QED BY <2>1, <2>3
<1> HIDE DEF Q
<1>8. PICK t : t = Reading!FlattenSeq(Q)
  OBVIOUS
<1>9. t \in Seq(S) /\ \E o : Laid(t, Q, o)
  BY <1>7, <1>8, Flattened
<1>10. PICK o : Laid(t, Q, o)
  BY <1>9
<1> DEFINE e == <<q>> \o t \o <<q>>
<1> HIDE DEF q
<1>11. /\ e \in Seq(S) /\ Len(t) \in Nat /\ Len(e) = Len(t) + 2 /\ e[1] = q /\ e[Len(t) + 2] = q
       /\ \A m \in 1 .. Len(t) : e[m + 1] = t[m]
  BY <1>3, <1>9
<1> HIDE DEF e
<1>12. \A i \in 1 .. Len(x) : Len(Q[i]) \in Nat
  BY <1>5, <1>6
<1>13. /\ o[0] = 0 /\ o[Len(x)] = Len(t) /\ \A i \in 0 .. Len(x) : o[i] \in Nat /\ o[i] <= Len(t)
       /\ \A i \in 1 .. Len(x) : /\ o[i] = o[i - 1] + Len(Q[i])
                                 /\ \A m \in 1 .. Len(Q[i]) : t[o[i - 1] + m] = Q[i][m]
  BY <1>4, <1>7, <1>10, <1>11, <1>12, LaidWithin DEF Laid
<1>14. ASSUME NEW k \in 1 .. Len(x)
       PROVE  IF x[k] = q THEN o[k] = o[k - 1] + 2 /\ e[o[k - 1] + 2] = q /\ e[o[k - 1] + 3] = q
              ELSE o[k] = o[k - 1] + 1 /\ e[o[k - 1] + 2] = x[k]
  <2>1. k - 1 \in 0 .. Len(x) /\ k \in 0 .. Len(x) /\ o[k - 1] \in Nat /\ o[k] <= Len(t) /\ o[k] = o[k - 1] + Len(Q[k])
    BY <1>4, <1>13
  <2>2. CASE x[k] = q
    <3>1. Len(Q[k]) = 2 /\ Q[k][1] = q /\ Q[k][2] = q
      BY <1>5, <1>6, <2>2
    <3>2. t[o[k - 1] + 1] = q /\ t[o[k - 1] + 2] = q
      <4>1. 1 \in 1 .. Len(Q[k]) /\ 2 \in 1 .. Len(Q[k])
        BY <3>1
      <4>2. \A m \in 1 .. Len(Q[k]) : t[o[k - 1] + m] = Q[k][m]
        BY <1>13
      <4>3. t[o[k - 1] + 1] = Q[k][1] /\ t[o[k - 1] + 2] = Q[k][2]
        BY <4>1, <4>2
      <4> QED BY <3>1, <4>3
    <3>3. o[k - 1] + 1 \in 1 .. Len(t) /\ o[k - 1] + 2 \in 1 .. Len(t)
      BY <1>11, <2>1, <3>1
    <3>4. e[(o[k - 1] + 1) + 1] = q /\ e[(o[k - 1] + 2) + 1] = q
      BY <1>11, <3>2, <3>3
    <3> QED BY <2>1, <2>2, <3>1, <3>4
  <2>3. CASE x[k] # q
    <3>1. Len(Q[k]) = 1 /\ Q[k][1] = x[k]
      BY <1>5, <1>6, <2>3
    <3>2. t[o[k - 1] + 1] = x[k]
      BY <1>13, <3>1
    <3>3. o[k - 1] + 1 \in 1 .. Len(t)
      BY <1>11, <2>1, <3>1
    <3>4. e[(o[k - 1] + 1) + 1] = x[k]
      BY <1>11, <3>2, <3>3
    <3> QED BY <2>1, <2>3, <3>1, <3>4
  <2> QED BY <2>2, <2>3
<1>15. QuotedAt(e, x, o)
  BY <1>11, <1>13, <1>14 DEF QuotedAt, q
<1> QED BY <1>1, <1>2, <1>3, <1>8, <1>11, <1>15 DEF e

----------------------------------------------------------------------------
(* Lines of cells.                                                         *)

Texts1 == Seq(Reading!Characters)
CellLines == Seq(Texts1) \ {<<>>}

\* The cells of the lines lie in the text: d tells after which position each of them does.
LaidOut(d, lines, t) ==
    /\ d[1][1] = 0
    /\ \A r \in 1 .. Len(lines) : \A c \in 1 .. Len(lines[r]) :
         LET e == Reading!Escape(lines[r][c])
         IN  /\ d[r][c] \in Nat /\ d[r][c] + Len(e) <= Len(t)
             /\ \A m \in 1 .. Len(e) : t[d[r][c] + m] = e[m]
             /\ c < Len(lines[r]) => t[d[r][c] + Len(e) + 1] = ";" /\ d[r][c + 1] = d[r][c] + Len(e) + 1
             /\ c = Len(lines[r]) /\ r < Len(lines) =>
                  t[d[r][c] + Len(e) + 1] = Reading!NewLine /\ d[r + 1][1] = d[r][c] + Len(e) + 1
             /\ c = Len(lines[r]) /\ r = Len(lines) => Len(t) = d[r][c] + Len(e)

LEMMA LineOfCells ==
    ASSUME NEW cells \in CellLines
    PROVE  LET E == [i \in DOMAIN cells |-> Reading!Escape(cells[i])]
           IN  /\ Len(cells) \in Nat /\ Len(cells) # 0 /\ DOMAIN cells = 1 .. Len(cells)
               /\ \A i \in 1 .. Len(cells) : E[i] = Reading!Escape(cells[i]) /\ E[i] \in Texts1 /\ cells[i] \in Texts1
               /\ Len(E) = Len(cells) /\ Reading!Line(cells) \in Texts1
               /\ \E p : JoinedAt(Reading!Line(cells), E, ";", p)
<1> DEFINE E == [i \in DOMAIN cells |-> Reading!Escape(cells[i])]
<1>1. /\ Len(cells) \in Nat /\ Len(cells) # 0 /\ DOMAIN cells = 1 .. Len(cells)
      /\ \A i \in 1 .. Len(cells) : cells[i] \in Texts1
  <2>1. PICK T : T = Texts1
    OBVIOUS
  <2>2. cells \in Seq(T) /\ cells # <<>>
    BY <2>1 DEF CellLines
  <2> QED BY <2>1, <2>2
<1>2. \A i \in 1 .. Len(cells) : Reading!Escape(cells[i]) \in Texts1
  BY <1>1, EscapedCell DEF Texts1
<1>3. E = [i \in 1 .. Len(cells) |-> Reading!Escape(cells[i])]
  BY <1>1
<1>4. \A i \in 1 .. Len(cells) : E[i] = Reading!Escape(cells[i])
  BY <1>3
<1>5. Reading!Line(cells) = Reading!Joined(E, ";")
  BY DEF Reading!Line
<1>6. E \in Seq(Texts1) /\ Len(E) = Len(cells) /\ E # <<>>
  <2>1. PICK T : T = Texts1
    OBVIOUS
  <2>2. E \in Seq(T) /\ Len(E) = Len(cells)
    BY <1>1, <1>2, <1>3, <2>1
  <2>3. Len(<<>>) = 0
    OBVIOUS
  <2> QED BY <1>1, <2>1, <2>2, <2>3
<1> HIDE DEF E
<1>7. ";" \in Reading!Characters
  BY DEF Reading!Characters
<1>8. Reading!Line(cells) \in Texts1 /\ \E p : JoinedAt(Reading!Line(cells), E, ";", p)
  BY <1>5, <1>6, <1>7, JoinedParts DEF Texts1
<1> QED BY <1>1, <1>2, <1>4, <1>6, <1>8 DEF E

\* The second lies in the first after z.
LiesIn(n, e, z) == z + Len(e) <= Len(n) /\ \A m \in 1 .. Len(e) : n[z + m] = e[m]

\* A cell in a line in a text, and what follows it.
LEMMA CellInText ==
    ASSUME NEW t, NEW n, NEW e, NEW w \in Nat, NEW z \in Nat, NEW y,
           Len(t) \in Nat, Len(n) \in Nat, Len(e) \in Nat, y = w + z,
           LiesIn(n, e, z), LiesIn(t, n, w)
    PROVE  /\ y \in Nat /\ LiesIn(t, e, y)
           /\ z + Len(e) < Len(n) => t[y + Len(e) + 1] = n[z + Len(e) + 1]
           /\ z + Len(e) = Len(n) => y + Len(e) = w + Len(n)
<1>0. /\ z + Len(e) <= Len(n) /\ \A m \in 1 .. Len(e) : n[z + m] = e[m]
      /\ w + Len(n) <= Len(t) /\ \A m \in 1 .. Len(n) : t[w + m] = n[m]
  BY DEF LiesIn
<1>1. PICK T, N, E : T = Len(t) /\ N = Len(n) /\ E = Len(e)
  OBVIOUS
<1>2. T \in Nat /\ N \in Nat /\ E \in Nat /\ z + E <= N /\ w + N <= T
  BY <1>0, <1>1
<1>3. y \in Nat /\ y + E <= T /\ (z + E = N => y + E = w + N)
  <2>1. PICK Y : Y = w + z
    OBVIOUS
  <2>2. Y \in Nat /\ Y = y
    BY <2>1
  <2>3. Y + E <= T /\ (z + E = N => Y + E = w + N)
    BY <1>2, <2>1
  <2> QED BY <2>2, <2>3
<1>4. ASSUME NEW m \in 1 .. E PROVE t[y + m] = e[m]
  <2>1. z + m \in 1 .. N /\ y + m = w + (z + m)
    BY <1>2
  <2>2. t[w + (z + m)] = n[z + m] /\ n[z + m] = e[m]
    BY <1>0, <1>1, <2>1
  <2> QED BY <2>1, <2>2
<1>5. ASSUME z + E < N PROVE t[y + E + 1] = n[z + E + 1]
  <2>1. z + E + 1 \in 1 .. N /\ y + E + 1 = w + (z + E + 1)
    BY <1>2, <1>5
  <2>2. t[w + (z + E + 1)] = n[z + E + 1]
    BY <1>0, <1>1, <2>1
  <2> QED BY <2>1, <2>2
<1>6. LiesIn(t, e, y)
  BY <1>1, <1>3, <1>4 DEF LiesIn
<1> QED BY <1>1, <1>3, <1>5, <1>6

LEMMA WrittenLines ==
    ASSUME NEW lines \in Seq(CellLines), lines # <<>>
    PROVE  Reading!Written(lines) \in Texts1 /\ \E d : LaidOut(d, lines, Reading!Written(lines))
<1> DEFINE N == [r \in DOMAIN lines |-> Reading!Line(lines[r])]
           E(r) == [c \in DOMAIN lines[r] |-> Reading!Escape(lines[r][c])]
           t == Reading!Written(lines)
<1>1. Len(lines) \in Nat /\ Len(lines) # 0 /\ DOMAIN lines = 1 .. Len(lines) /\ \A r \in 1 .. Len(lines) : lines[r] \in CellLines
  <2>1. PICK T : T = CellLines
    OBVIOUS
  <2>2. lines \in Seq(T) /\ lines # <<>>
    BY <2>1
  <2> QED BY <2>1, <2>2
<1>2. N = [r \in 1 .. Len(lines) |-> Reading!Line(lines[r])] /\ \A r \in 1 .. Len(lines) : N[r] = Reading!Line(lines[r])
  BY <1>1
<1>3. ASSUME NEW r \in 1 .. Len(lines)
      PROVE  /\ Len(lines[r]) \in Nat /\ Len(lines[r]) # 0 /\ Len(E(r)) = Len(lines[r]) /\ N[r] \in Texts1
             /\ \A c \in 1 .. Len(lines[r]) : E(r)[c] = Reading!Escape(lines[r][c]) /\ E(r)[c] \in Texts1
             /\ \E p : JoinedAt(N[r], E(r), ";", p)
  BY <1>1, <1>2, LineOfCells
<1>4. t = Reading!Joined(N, Reading!NewLine)
  BY DEF Reading!Written
<1>5. N \in Seq(Texts1) /\ N # <<>> /\ Len(N) = Len(lines)
  <2>1. PICK T : T = Texts1
    OBVIOUS
  <2>2. \A r \in 1 .. Len(lines) : Reading!Line(lines[r]) \in T
    BY <1>2, <1>3, <2>1
  <2>3. N \in Seq(T) /\ Len(N) = Len(lines)
    BY <1>1, <1>2, <2>2
  <2>4. Len(<<>>) = 0
    OBVIOUS
  <2> QED BY <1>1, <2>1, <2>3, <2>4
<1> HIDE DEF t, N, E
<1>6. Reading!NewLine \in Reading!Characters
  BY DEF Reading!Characters
<1>7. t \in Texts1 /\ \E p : JoinedAt(t, N, Reading!NewLine, p)
  BY <1>4, <1>5, <1>6, JoinedParts DEF Texts1
<1>8. PICK p : JoinedAt(t, N, Reading!NewLine, p)
  BY <1>7
<1> DEFINE Inner(r) == CHOOSE u : JoinedAt(N[r], E(r), ";", u)
           d == [r \in 1 .. Len(lines) |-> [c \in 1 .. Len(lines[r]) |-> p[r] + Inner(r)[c]]]
<1>9. \A r \in 1 .. Len(lines) : JoinedAt(N[r], E(r), ";", Inner(r))
  BY <1>3
<1>10. \A r \in 1 .. Len(lines) : \A c \in 1 .. Len(lines[r]) : d[r][c] = p[r] + Inner(r)[c]
  OBVIOUS
<1> HIDE DEF Inner, d
<1>11. ASSUME NEW r \in 1 .. Len(lines), NEW c \in 1 .. Len(lines[r])
       PROVE  LET e == Reading!Escape(lines[r][c])
              IN  /\ d[r][c] \in Nat /\ d[r][c] + Len(e) <= Len(t)
                  /\ \A m \in 1 .. Len(e) : t[d[r][c] + m] = e[m]
                  /\ c < Len(lines[r]) => t[d[r][c] + Len(e) + 1] = ";" /\ d[r][c + 1] = d[r][c] + Len(e) + 1
                  /\ c = Len(lines[r]) /\ r < Len(lines) =>
                       t[d[r][c] + Len(e) + 1] = Reading!NewLine /\ d[r + 1][1] = d[r][c] + Len(e) + 1
                  /\ c = Len(lines[r]) /\ r = Len(lines) => Len(t) = d[r][c] + Len(e)
  <2>1. PICK e, n, u, k, F, y, w, z : /\ e = Reading!Escape(lines[r][c]) /\ n = N[r] /\ u = Inner(r)
                                      /\ k = Len(lines[r]) /\ F = E(r) /\ y = d[r][c] /\ w = p[r] /\ z = u[c]
    OBVIOUS
  <2>2. k \in Nat /\ k # 0 /\ Len(F) = k /\ n \in Texts1 /\ F[c] = e /\ e \in Texts1
    BY <1>3, <2>1
  <2>3. Len(e) \in Nat /\ Len(n) \in Nat
    <3>1. PICK S : S = Reading!Characters
      OBVIOUS
    <3>2. e \in Seq(S) /\ n \in Seq(S)
      BY <2>2, <3>1 DEF Texts1
    <3> QED BY <3>2
  <2>4. /\ z \in Nat /\ z + Len(e) <= Len(n)
        /\ \A m \in 1 .. Len(e) : n[z + m] = e[m]
        /\ c < k => n[z + Len(e) + 1] = ";" /\ u[c + 1] = z + Len(e) + 1
        /\ c = k => Len(n) = z + Len(e)
    <3>1. JoinedAt(n, F, ";", u) /\ c \in 1 .. Len(F)
      BY <1>9, <2>1, <2>2
    <3>2. /\ u[c] \in Nat /\ u[c] + Len(F[c]) <= Len(n)
          /\ \A m \in 1 .. Len(F[c]) : n[u[c] + m] = F[c][m]
          /\ c < Len(F) => n[u[c] + Len(F[c]) + 1] = ";" /\ u[c + 1] = u[c] + Len(F[c]) + 1
          /\ c = Len(F) => Len(n) = u[c] + Len(F[c])
      BY <3>1, Zenon DEF JoinedAt
    <3> QED BY <2>1, <2>2, <3>2
  <2>5. /\ w \in Nat /\ w + Len(n) <= Len(t)
        /\ \A m \in 1 .. Len(n) : t[w + m] = n[m]
        /\ r < Len(lines) => t[w + Len(n) + 1] = Reading!NewLine /\ p[r + 1] = w + Len(n) + 1
        /\ r = Len(lines) => Len(t) = w + Len(n)
    <3>1. r \in 1 .. Len(N)
      BY <1>5
    <3>2. /\ p[r] \in Nat /\ p[r] + Len(N[r]) <= Len(t)
          /\ \A m \in 1 .. Len(N[r]) : t[p[r] + m] = N[r][m]
          /\ r < Len(N) => t[p[r] + Len(N[r]) + 1] = Reading!NewLine /\ p[r + 1] = p[r] + Len(N[r]) + 1
          /\ r = Len(N) => Len(t) = p[r] + Len(N[r])
      BY <1>8, <3>1, Zenon DEF JoinedAt
    <3> QED BY <1>5, <2>1, <3>2
  <2>6. y = w + z /\ Len(t) \in Nat
    <3>1. PICK S : S = Reading!Characters
      OBVIOUS
    <3>2. t \in Seq(S)
      BY <1>7, <3>1 DEF Texts1
    <3> QED BY <1>10, <2>1, <3>2
  <2>7. /\ y \in Nat /\ y + Len(e) <= Len(t)
        /\ \A m \in 1 .. Len(e) : t[y + m] = e[m]
        /\ z + Len(e) < Len(n) => t[y + Len(e) + 1] = n[z + Len(e) + 1]
        /\ z + Len(e) = Len(n) => y + Len(e) = w + Len(n)
    <3>1. w \in Nat /\ z \in Nat /\ Len(t) \in Nat /\ Len(n) \in Nat /\ Len(e) \in Nat /\ y = w + z
      BY <2>3, <2>4, <2>5, <2>6
    <3>2. LiesIn(n, e, z) /\ LiesIn(t, n, w)
      BY <2>4, <2>5 DEF LiesIn
    <3>3. /\ y \in Nat /\ LiesIn(t, e, y)
          /\ z + Len(e) < Len(n) => t[y + Len(e) + 1] = n[z + Len(e) + 1]
          /\ z + Len(e) = Len(n) => y + Len(e) = w + Len(n)
      BY <3>1, <3>2, CellInText
    <3> QED BY <3>3 DEF LiesIn
  <2>8. ASSUME c < k PROVE t[y + Len(e) + 1] = ";" /\ d[r][c + 1] = y + Len(e) + 1
    <3>1. c + 1 \in 1 .. k
      BY <2>2, <2>8
    <3>2. JoinedAt(n, F, ";", u) /\ c + 1 \in 1 .. Len(F) /\ F[c + 1] \in Texts1
      BY <1>3, <1>9, <2>1, <2>2, <3>1
    <3>3. u[c + 1] \in Nat /\ u[c + 1] + Len(F[c + 1]) <= Len(n)
      BY <3>2, Zenon DEF JoinedAt
    <3>4. d[r][c + 1] = w + u[c + 1]
      BY <1>10, <2>1, <3>1
    <3>5. PICK S, f, v : S = Reading!Characters /\ f = F[c + 1] /\ v = u[c + 1]
      OBVIOUS
    <3>6. f \in Seq(S)
      BY <3>2, <3>5 DEF Texts1
    <3>7. v \in Nat /\ v + Len(f) <= Len(n) /\ v = z + Len(e) + 1 /\ Len(f) \in Nat
      <4>1. v \in Nat /\ v + Len(f) <= Len(n)
        BY <3>3, <3>5
      <4>2. v = z + Len(e) + 1
        BY <2>4, <2>8, <3>5, Zenon
      <4>3. Len(f) \in Nat
        BY <3>6
      <4> QED BY <4>1, <4>2, <4>3
    <3>8. z + Len(e) < Len(n) /\ w + v = y + Len(e) + 1
      <4>1. PICK g, h, j : g = Len(e) /\ h = Len(n) /\ j = Len(f)
        OBVIOUS
      <4>2. g \in Nat /\ h \in Nat /\ j \in Nat /\ v + j <= h /\ v = z + g + 1
        BY <2>3, <3>7, <4>1
      <4>3. z \in Nat /\ w \in Nat /\ y = w + z
        BY <2>4, <2>5, <2>6
      <4>4. z + g < h /\ w + v = (w + z) + g + 1
        BY <4>2, <4>3
      <4> QED BY <4>1, <4>3, <4>4
    <3> QED BY <2>4, <2>7, <2>8, <3>4, <3>5, <3>8
  <2>9. ASSUME c = k, r < Len(lines)
        PROVE  t[y + Len(e) + 1] = Reading!NewLine /\ d[r + 1][1] = y + Len(e) + 1
    <3>1. y + Len(e) = w + Len(n) /\ t[w + Len(n) + 1] = Reading!NewLine /\ p[r + 1] = w + Len(n) + 1
      BY <2>4, <2>5, <2>7, <2>9
    <3>2. r + 1 \in 1 .. Len(lines)
      BY <1>1, <2>9
    <3>3. 1 \in 1 .. Len(lines[r + 1])
      <4>1. PICK l : l = Len(lines[r + 1])
        OBVIOUS
      <4>2. l \in Nat /\ l # 0
        BY <1>3, <3>2, <4>1
      <4> QED BY <4>1, <4>2
    <3>4. Inner(r + 1)[1] = 0
      <4>1. JoinedAt(N[r + 1], E(r + 1), ";", Inner(r + 1))
        BY <1>9, <3>2
      <4> QED BY <4>1, Zenon DEF JoinedAt
    <3>5. d[r + 1][1] = p[r + 1] + Inner(r + 1)[1]
      BY <1>10, <3>2, <3>3
    <3>6. p[r + 1] + 0 = p[r + 1]
      BY <2>3, <2>5, <3>1
    <3> QED BY <3>1, <3>4, <3>5, <3>6
  <2>10. c = k /\ r = Len(lines) => Len(t) = y + Len(e)
    BY <2>4, <2>5, <2>7
  <2> QED BY <2>1, <2>7, <2>8, <2>9, <2>10
<1>12. d[1][1] = 0
  <2>1. 1 \in 1 .. Len(lines)
    BY <1>1
  <2>2. 1 \in 1 .. Len(lines[1])
    <3>1. PICK l : l = Len(lines[1])
      OBVIOUS
    <3>2. l \in Nat /\ l # 0
      BY <1>3, <2>1, <3>1
    <3> QED BY <3>1, <3>2
  <2>3. p[1] = 0
    BY <1>8, Zenon DEF JoinedAt
  <2>4. Inner(1)[1] = 0
    <3>1. JoinedAt(N[1], E(1), ";", Inner(1))
      BY <1>9, <2>1
    <3> QED BY <3>1, Zenon DEF JoinedAt
  <2> QED BY <1>10, <2>1, <2>2, <2>3, <2>4
<1>13. LaidOut(d, lines, t)
  BY <1>11, <1>12, Zenon DEF LaidOut
<1> QED BY <1>7, <1>13, Zenon DEF t

----------------------------------------------------------------------------
(* Which separator is detected.                                            *)

Lines1 == <<Reading!Header>> \o table

LEMMA LinesWritten ==
    ASSUME table \in Tables
    PROVE  /\ Lines1 \in Seq(CellLines) /\ Len(Lines1) \in Nat /\ Len(Lines1) # 0
           /\ Lines1[1] = Reading!Header /\ Len(Reading!Header) = 2
           /\ Reading!Header[1] = <<"a">> /\ Reading!Header[2] = <<"a">>
<1>1. PICK C : C = CellLines
  OBVIOUS
<1>2. table \in Seq(C)
  BY <1>1, TextAssumptions DEF Reading!ConstantsFit, CellLines, Texts1
<1>3. Reading!Header \in C
  <2>1. <<"a">> \in Texts1
    BY DEF Texts1, Reading!Characters
  <2>2. PICK T : T = Texts1
    OBVIOUS
  <2>3. <<<<"a">>, <<"a">>>> \in Seq(T) /\ <<<<"a">>, <<"a">>>> # <<>>
    BY <2>1, <2>2
  <2> QED BY <1>1, <2>2, <2>3 DEF CellLines, Reading!Header
<1>4. PICK h : h = Reading!Header
  OBVIOUS
<1>5. <<h>> \o table \in Seq(C) /\ Len(<<h>> \o table) \in Nat /\ Len(<<h>> \o table) # 0 /\ (<<h>> \o table)[1] = h
  BY <1>2, <1>3, <1>4
<1>6. Len(Reading!Header) = 2 /\ Reading!Header[1] = <<"a">> /\ Reading!Header[2] = <<"a">>
  BY DEF Reading!Header
<1> QED BY <1>1, <1>4, <1>5, <1>6 DEF Lines1

LabelsAt(t) ==
    /\ Len(t) >= 3 /\ t[1] = "a" /\ t[2] = ";" /\ t[3] = "a"
    /\ Len(t) = 3 \/ (Len(t) > 3 /\ t[4] = Reading!NewLine)

\* The text begins with the labels of two fields.
LEMMA LabelsFirst ==
    ASSUME NEW lines \in Seq(CellLines), Len(lines) \in Nat, Len(lines) # 0, NEW t \in Texts1, NEW d, LaidOut(d, lines, t),
           Len(lines[1]) = 2, lines[1][1] = <<"a">>, lines[1][2] = <<"a">>
    PROVE  LabelsAt(t)
<1>1. Reading!Escape(<<"a">>) = <<"a">> /\ Len(<<"a">>) = 1 /\ <<"a">>[1] = "a"
  <2>1. <<"a">> \in Seq(Reading!Characters)
    BY DEF Reading!Characters
  <2>2. Plain(<<"a">>)
    <3>1. DOMAIN <<"a">> = {1} /\ <<"a">>[1] = "a"
      OBVIOUS
    <3> QED BY <3>1 DEF Plain, Reading!Quote, Reading!NewLine
  <2> QED BY <2>1, <2>2, EscapedCell
<1>2. PICK y, n, N : y = <<"a">> /\ n = Len(lines) /\ N = Len(t)
  OBVIOUS
<1>3. Len(y) = 1 /\ y[1] = "a" /\ Reading!Escape(lines[1][1]) = y /\ Reading!Escape(lines[1][2]) = y /\ n \in Nat /\ n # 0
      /\ N \in Nat /\ 1 \in 1 .. n
  <2>1. PICK S : S = Reading!Characters
    OBVIOUS
  <2>2. t \in Seq(S)
    BY <2>1 DEF Texts1
  <2>3. N \in Nat
    BY <1>2, <2>2
  <2> QED BY <1>1, <1>2, <2>3
<1>4. d[1][1] = 0
  BY Zenon DEF LaidOut
<1>5. \A c \in 1 .. 2 :
        /\ d[1][c] \in Nat /\ d[1][c] + Len(y) <= Len(t)
        /\ \A m \in 1 .. Len(y) : t[d[1][c] + m] = y[m]
        /\ c < 2 => t[d[1][c] + Len(y) + 1] = ";" /\ d[1][c + 1] = d[1][c] + Len(y) + 1
        /\ c = 2 /\ 1 < n => t[d[1][c] + Len(y) + 1] = Reading!NewLine
        /\ c = 2 /\ 1 = n => Len(t) = d[1][c] + Len(y)
  <2> SUFFICES ASSUME NEW c \in 1 .. 2
               PROVE  /\ d[1][c] \in Nat /\ d[1][c] + Len(y) <= Len(t)
                      /\ \A m \in 1 .. Len(y) : t[d[1][c] + m] = y[m]
                      /\ c < 2 => t[d[1][c] + Len(y) + 1] = ";" /\ d[1][c + 1] = d[1][c] + Len(y) + 1
                      /\ c = 2 /\ 1 < n => t[d[1][c] + Len(y) + 1] = Reading!NewLine
                      /\ c = 2 /\ 1 = n => Len(t) = d[1][c] + Len(y)
    OBVIOUS
  <2>1. c = 1 \/ c = 2
    OBVIOUS
  <2>2. Reading!Escape(lines[1][c]) = y
    BY <1>3, <2>1
  <2>3. 1 \in 1 .. Len(lines) /\ c \in 1 .. Len(lines[1])
    BY <1>2, <1>3
  <2>4. LET e == Reading!Escape(lines[1][c])
        IN  /\ d[1][c] \in Nat /\ d[1][c] + Len(e) <= Len(t)
            /\ \A m \in 1 .. Len(e) : t[d[1][c] + m] = e[m]
            /\ c < Len(lines[1]) => t[d[1][c] + Len(e) + 1] = ";" /\ d[1][c + 1] = d[1][c] + Len(e) + 1
            /\ c = Len(lines[1]) /\ 1 < Len(lines) =>
                 t[d[1][c] + Len(e) + 1] = Reading!NewLine /\ d[1 + 1][1] = d[1][c] + Len(e) + 1
            /\ c = Len(lines[1]) /\ 1 = Len(lines) => Len(t) = d[1][c] + Len(e)
    BY <2>3, Zenon DEF LaidOut
  <2> QED BY <1>2, <2>2, <2>4, Zenon
<1>6. t[1] = "a" /\ t[2] = ";" /\ d[1][2] = 2
  <2>1. 1 \in 1 .. 2 /\ 1 \in 1 .. Len(y) /\ 1 < 2
    BY <1>3
  <2>2. t[d[1][1] + 1] = y[1]
    BY <1>5, <2>1, Zenon
  <2>3. t[d[1][1] + Len(y) + 1] = ";" /\ d[1][1 + 1] = d[1][1] + Len(y) + 1
    BY <1>5, <2>1, Zenon
  <2>4. d[1][1] + 1 = 1 /\ d[1][1] + Len(y) + 1 = 2 /\ 1 + 1 = 2
    BY <1>3, <1>4
  <2> QED BY <1>3, <2>2, <2>3, <2>4
<1>7. t[3] = "a" /\ N >= 3 /\ (1 < n => t[4] = Reading!NewLine) /\ (1 = n => N = 3)
  <2>1. 2 \in 1 .. 2 /\ 1 \in 1 .. Len(y)
    BY <1>3
  <2>2. /\ t[d[1][2] + 1] = y[1] /\ d[1][2] + Len(y) <= Len(t)
        /\ 1 < n => t[d[1][2] + Len(y) + 1] = Reading!NewLine
        /\ 1 = n => Len(t) = d[1][2] + Len(y)
    BY <1>5, <2>1, Zenon
  <2>3. PICK D, E : D = d[1][2] /\ E = Len(y)
    OBVIOUS
  <2>4. D = 2 /\ E = 1 /\ D + E <= N /\ (1 = n => N = D + E)
    BY <1>2, <1>3, <1>6, <2>2, <2>3
  <2>5. D + 1 = 3 /\ D + E + 1 = 4 /\ N >= 3 /\ (1 = n => N = 3)
    BY <1>3, <2>4
  <2> QED BY <1>3, <2>2, <2>3, <2>5
<1>8. 1 < n => N > 3
  <2> SUFFICES ASSUME 1 < n PROVE N > 3
    OBVIOUS
  <2>1. 1 \in 1 .. Len(lines) /\ 2 \in 1 .. Len(lines[1]) /\ 2 \in 1 .. Len(lines) /\ lines[2] \in CellLines
    <3>1. PICK C : C = CellLines
      OBVIOUS
    <3>2. lines \in Seq(C)
      BY <3>1
    <3>3. 2 \in 1 .. Len(lines) /\ lines[2] \in C
      BY <1>2, <1>3, <3>2
    <3> QED BY <1>2, <1>3, <3>1, <3>3
  <2>2. Len(lines[2]) \in Nat /\ Len(lines[2]) # 0
    BY <2>1, LineOfCells
  <2>3. 1 \in 1 .. Len(lines[2])
    BY <2>2
  <2>4. d[1 + 1][1] = d[1][2] + Len(Reading!Escape(lines[1][2])) + 1
    BY <2>1, <1>2, Zenon DEF LaidOut
  <2>5. d[2][1] + Len(Reading!Escape(lines[2][1])) <= Len(t)
    BY <2>1, <2>3, Zenon DEF LaidOut
  <2>6. lines[2][1] \in Texts1
    <3>1. PICK T, k : T = Texts1 /\ k = lines[2]
      OBVIOUS
    <3>2. k \in Seq(T) /\ 1 \in 1 .. Len(k)
      BY <2>1, <2>3, <3>1 DEF CellLines
    <3> QED BY <3>1, <3>2
  <2>7. Len(Reading!Escape(lines[2][1])) \in Nat
    <3>1. PICK S, e : S = Reading!Characters /\ e = Reading!Escape(lines[2][1])
      OBVIOUS
    <3>2. e \in Seq(S)
      BY <2>6, <3>1, EscapedCell DEF Texts1
    <3> QED BY <3>1, <3>2
  <2>8. d[2][1] = 4
    <3>1. Len(Reading!Escape(lines[1][2])) = 1 /\ 1 + 1 = 2
      BY <1>3
    <3>2. d[2][1] = 2 + 1 + 1
      BY <1>6, <2>4, <3>1, Zenon
    <3> QED BY <3>2
  <2> QED BY <1>2, <1>3, <2>5, <2>7, <2>8
<1>9. Len(t) >= 3 /\ (Len(t) = 3 \/ (Len(t) > 3 /\ t[4] = Reading!NewLine))
  <2>1. n = 1 \/ 1 < n
    BY <1>3
  <2> QED BY <1>2, <1>7, <1>8, <2>1
<1> QED BY <1>6, <1>7, <1>9 DEF LabelsAt

LEMMA CountedIn ==
    ASSUME NEW t, NEW c
    PROVE  Reading!Count(t, c) = Cardinality({i \in DOMAIN t : t[i] = c})
BY DEF Reading!Count, Reading!Cardinality, Cardinality

LEMMA SemicolonDetected ==
    ASSUME NEW t \in Texts1, LabelsAt(t)
    PROVE  Reading!Detected(t) = ";"
<1> DEFINE f == Reading!FirstLine(t)
           breaks == {i \in DOMAIN t : t[i] = Reading!NewLine}
<1>1. PICK N, a1, a2, a3, br : N = Len(t) /\ a1 = t[1] /\ a2 = t[2] /\ a3 = t[3] /\ br = Reading!NewLine
  OBVIOUS
<1>1a. N \in Nat /\ DOMAIN t = 1 .. N
  <2>1. PICK S : S = Reading!Characters
    OBVIOUS
  <2>2. t \in Seq(S)
    BY <2>1 DEF Texts1
  <2> QED BY <1>1, <2>2
<1>2. N >= 3 /\ (N = 3 \/ (N > 3 /\ t[4] = br))
  BY <1>1 DEF LabelsAt
<1>2b. a1 = "a" /\ a2 = ";" /\ a3 = "a"
  BY <1>1 DEF LabelsAt
<1>2a. a1 # br /\ a2 # br /\ a3 # br
  BY <1>1, <1>2b DEF Reading!NewLine
<1>3. DOMAIN f = 1 .. 3 /\ f[1] = a1 /\ f[2] = a2 /\ f[3] = a3
  <2>1. CASE N = 3
    <3>1. breaks = {}
      <4> SUFFICES ASSUME NEW i \in 1 .. 3, t[i] = Reading!NewLine PROVE FALSE
        BY <1>1a, <2>1, <1>1
      <4>1. i = 1 \/ i = 2 \/ i = 3
        OBVIOUS
      <4> QED BY <1>1, <1>2a, <4>1
    <3>2. f = t
      BY <3>1 DEF Reading!FirstLine
    <3> QED BY <1>1, <1>1a, <2>1, <3>2
  <2>2. CASE N > 3 /\ t[4] = br
    <3>1. 4 \in breaks
      BY <1>1, <1>1a, <2>2
    <3>2. \A i \in breaks : i \in Nat /\ 4 <= i
      <4> SUFFICES ASSUME NEW i \in breaks, ~(4 <= i) PROVE FALSE
        BY <1>1a
      <4>1. i = 1 \/ i = 2 \/ i = 3
        BY <1>1a
      <4> QED BY <1>1, <1>2a, <4>1
    <3> DEFINE first == CHOOSE i \in breaks : \A j \in breaks : i <= j
    <3>3. first = 4
      <4>1. first \in breaks /\ \A j \in breaks : first <= j
        BY <3>1, <3>2
      <4> HIDE DEF breaks, first
      <4> QED BY <3>1, <3>2, <4>1
    <3>4. f = SubSeq(t, 1, first - 1)
      BY <3>1 DEF Reading!FirstLine
    <3> HIDE DEF first
    <3>5. f = SubSeq(t, 1, 3)
      BY <3>3, <3>4
    <3>6. \A i \in 1 .. 3 : f[i] = t[i]
      BY <1>1a, <2>2, <3>5
    <3>7. DOMAIN f = 1 .. 3
      BY <1>1a, <2>2, <3>5
    <3> QED BY <1>1, <3>6, <3>7
  <2> QED BY <1>2, <2>1, <2>2
<1> HIDE DEF f
<1>4. Reading!Count(f, "tab") = 0
  <2>1. {i \in DOMAIN f : f[i] = "tab"} = {}
    <3>1. \A i \in 1 .. 3 : i = 1 \/ i = 2 \/ i = 3
      OBVIOUS
    <3>2. \A i \in 1 .. 3 : f[i] # "tab"
      BY <1>2b, <1>3, <3>1
    <3> QED BY <1>3, <3>2
  <2> QED BY <2>1, CountedIn, FS_EmptySet
<1>5. Reading!Count(f, ",") = 0
  <2>1. {i \in DOMAIN f : f[i] = ","} = {}
    <3>1. \A i \in 1 .. 3 : i = 1 \/ i = 2 \/ i = 3
      OBVIOUS
    <3>2. \A i \in 1 .. 3 : f[i] # ","
      BY <1>2b, <1>3, <3>1
    <3> QED BY <1>3, <3>2
  <2> QED BY <2>1, CountedIn, FS_EmptySet
<1>6. Reading!Count(f, ";") = 1
  <2>1. {i \in DOMAIN f : f[i] = ";"} = {2}
    <3>1. \A i \in 1 .. 3 : i = 1 \/ i = 2 \/ i = 3
      OBVIOUS
    <3>2. \A i \in 1 .. 3 : f[i] = ";" <=> i = 2
      BY <1>2b, <1>3, <3>1
    <3>3. 2 \in 1 .. 3
      OBVIOUS
    <3> QED BY <1>3, <3>2, <3>3, Zenon
  <2> QED BY <2>1, CountedIn, FS_Singleton
<1>7. ~(Reading!Count(f, "tab") > Reading!Count(f, ";")) /\ Reading!Count(f, ";") >= Reading!Count(f, ",")
  <2>1. ~(0 > 1) /\ 1 >= 0
    OBVIOUS
  <2> QED BY <1>4, <1>5, <1>6, <2>1, Zenon
<1> QED BY <1>7, Zenon DEF Reading!Detected, f

----------------------------------------------------------------------------
(* What has been read of a cell or of a line.                              *)

\* The sequence is the first k members of another one.
PrefixOf(s, x, k, S) == s \in Seq(S) /\ Len(s) = k /\ \A i \in 1 .. k : s[i] = x[i]

LEMMA NoPrefix == ASSUME NEW S, NEW x PROVE PrefixOf(<<>>, x, 0, S)
BY DEF PrefixOf

LEMMA LongerPrefix ==
    ASSUME NEW S, NEW x, NEW k \in Nat, NEW s, PrefixOf(s, x, k, S), NEW m, m = x[k + 1], m \in S
    PROVE  PrefixOf(Append(s, m), x, k + 1, S)
<1>1. s \in Seq(S) /\ Len(s) = k /\ \A i \in 1 .. k : s[i] = x[i]
  BY DEF PrefixOf
<1>2. PICK w : w = Append(s, m)
  OBVIOUS
<1>3. w \in Seq(S) /\ Len(w) = k + 1 /\ w[k + 1] = m /\ \A i \in 1 .. k : w[i] = s[i]
  BY <1>1, <1>2
<1>4. \A i \in 1 .. k + 1 : i \in 1 .. k \/ i = k + 1
  OBVIOUS
<1>5. \A i \in 1 .. k + 1 : w[i] = x[i]
  BY <1>1, <1>3, <1>4
<1>6. PrefixOf(w, x, k + 1, S)
  BY <1>3, <1>5 DEF PrefixOf
<1> QED BY <1>2, <1>6

LEMMA WholePrefix ==
    ASSUME NEW S, NEW x \in Seq(S), NEW s, PrefixOf(s, x, Len(x), S)
    PROVE  s = x
<1>1. s \in Seq(S) /\ Len(s) = Len(x) /\ \A i \in 1 .. Len(x) : s[i] = x[i]
  BY DEF PrefixOf
<1>2. s = [i \in 1 .. Len(s) |-> s[i]] /\ x = [i \in 1 .. Len(x) |-> x[i]]
  BY <1>1
<1> QED BY <1>1, <1>2

----------------------------------------------------------------------------
(* A step by the character that is read.                                   *)

Separated == delimiter = ";"
Within == index \in Nat /\ Len(text) \in Nat /\ index <= Len(text)
AfterQuote == index < Len(text) /\ text[index + 1] = Reading!Quote

LEMMA CharactersDiffer == Reading!Quote # ";" /\ Reading!NewLine # ";" /\ Reading!Quote # Reading!NewLine
BY DEF Reading!Quote, Reading!NewLine

LEMMA NotAtEnd == ASSUME Within PROVE index # Len(text) + 1
BY DEF Within

LEMMA ReadsOther ==
    ASSUME Within, Reading!ParseDelimited, text[index] # Reading!Quote, Separated,
           quoted \/ text[index] \notin {";", Reading!NewLine}
    PROVE  Reading!OtherCharacter
<1>1. index # Len(text) + 1
  BY NotAtEnd
<1> QED BY <1>1, Zenon DEF Reading!ParseDelimited, Separated, Reading!DoubledQuote, Reading!SingleQuote, Reading!EndCell,
                   Reading!EndLine, Reading!EndText, Reading!Read

LEMMA ReadsDoubledQuote ==
    ASSUME Within, Reading!ParseDelimited, text[index] = Reading!Quote, Separated, quoted, AfterQuote
    PROVE  Reading!DoubledQuote
<1>1. index # Len(text) + 1
  BY NotAtEnd
<1> QED BY <1>1, CharactersDiffer, Zenon DEF Reading!ParseDelimited, Separated, Reading!SingleQuote, Reading!EndCell,
                   Reading!EndLine, Reading!EndText, Reading!OtherCharacter, Reading!Read, Reading!Follows, AfterQuote

LEMMA ReadsSingleQuote ==
    ASSUME Within, Reading!ParseDelimited, text[index] = Reading!Quote, Separated, ~(quoted /\ AfterQuote)
    PROVE  Reading!SingleQuote
<1>1. index # Len(text) + 1
  BY NotAtEnd
<1> QED BY <1>1, CharactersDiffer, Zenon DEF Reading!ParseDelimited, Separated, Reading!DoubledQuote, Reading!EndCell,
                   Reading!EndLine, Reading!EndText, Reading!OtherCharacter, Reading!Read, Reading!Follows, AfterQuote

LEMMA ReadsEndOfCell ==
    ASSUME Within, Reading!ParseDelimited, text[index] = ";", Separated, ~quoted
    PROVE  Reading!EndCell
<1>1. index # Len(text) + 1
  BY NotAtEnd
<1> QED BY <1>1, CharactersDiffer, Zenon DEF Reading!ParseDelimited, Separated, Reading!DoubledQuote, Reading!SingleQuote,
                   Reading!EndLine, Reading!EndText, Reading!OtherCharacter, Reading!Read

LEMMA ReadsEndOfLine ==
    ASSUME Within, Reading!ParseDelimited, text[index] = Reading!NewLine, Separated, ~quoted
    PROVE  Reading!EndLine
<1>1. index # Len(text) + 1
  BY NotAtEnd
<1> QED BY <1>1, CharactersDiffer, Zenon DEF Reading!ParseDelimited, Separated, Reading!DoubledQuote, Reading!SingleQuote,
                   Reading!EndCell, Reading!EndText, Reading!OtherCharacter, Reading!Read

LEMMA ReadsEndOfText ==
    ASSUME Len(text) \in Nat, index = Len(text) + 1, Reading!ParseDelimited
    PROVE  Reading!EndText
<1>1. ~(index <= Len(text))
  OBVIOUS
<1> QED BY <1>1, Zenon DEF Reading!ParseDelimited, Separated, Reading!DoubledQuote, Reading!SingleQuote, Reading!EndCell,
                   Reading!EndLine, Reading!OtherCharacter, Reading!Read

LEMMA ReadsNoMore ==
    ASSUME Len(text) \in Nat, index = Len(text) + 2
    PROVE  ~Reading!ParseDelimited
<1>1. ~(index <= Len(text)) /\ index # Len(text) + 1
  OBVIOUS
<1> QED BY <1>1, Zenon DEF Reading!ParseDelimited, Separated, Reading!DoubledQuote, Reading!SingleQuote, Reading!EndCell,
                   Reading!EndLine, Reading!EndText, Reading!OtherCharacter, Reading!Read

----------------------------------------------------------------------------
(* In a cell that lies after the position s.                               *)

InPlain(x, s) ==
    /\ quoted = FALSE /\ Plain(x)
    /\ \E k \in 0 .. Len(x) : index = s + k + 1 /\ PrefixOf(current, x, k, Reading!Characters)

AtQuotes(x, s) == quoted = FALSE /\ ~Plain(x) /\ index = s + 1 /\ current = <<>>

InQuotes(x, s) ==
    /\ quoted = TRUE /\ ~Plain(x)
    /\ \E o : /\ QuotedAt(Reading!Escape(x), x, o)
              /\ \E k \in 0 .. Len(x) : index = s + o[k] + 2 /\ PrefixOf(current, x, k, Reading!Characters)

AtCellEnd(x, s) == quoted = FALSE /\ index = s + Len(Reading!Escape(x)) + 1 /\ current = x

InCell(x, s) == InPlain(x, s) \/ AtQuotes(x, s) \/ InQuotes(x, s) \/ AtCellEnd(x, s)

\* A cell is begun.
LEMMA CellBegins ==
    ASSUME NEW x \in Texts1, NEW s \in Nat, quoted' = FALSE, index' = s + 1, current' = <<>>
    PROVE  InCell(x, s)'
<1>1. CASE Plain(x)
  <2>1. 0 \in 0 .. Len(x) /\ s + 0 + 1 = s + 1
    <3>1. PICK S : S = Reading!Characters
      OBVIOUS
    <3>2. x \in Seq(S)
      BY <3>1 DEF Texts1
    <3> QED BY <3>2
  <2>2. PrefixOf(<<>>, x, 0, Reading!Characters)
    BY NoPrefix
  <2> QED BY <1>1, <2>1, <2>2, Zenon DEF InCell, InPlain
<1>2. CASE ~Plain(x)
  BY <1>2, Zenon DEF InCell, AtQuotes
<1> QED BY <1>1, <1>2

\* Where the cell lies and what follows it
CellLies(x, s) ==
    /\ Len(text) \in Nat /\ LiesIn(text, Reading!Escape(x), s)
    /\ s + Len(Reading!Escape(x)) < Len(text) => text[s + Len(Reading!Escape(x)) + 1] # Reading!Quote

LEMMA TextLength ==
    ASSUME NEW x \in Texts1
    PROVE  /\ Len(x) \in Nat /\ DOMAIN x = 1 .. Len(x) /\ \A i \in 1 .. Len(x) : x[i] \in Reading!Characters
           /\ Reading!Escape(x) \in Texts1 /\ Len(Reading!Escape(x)) \in Nat
<1>1. PICK S, e : S = Reading!Characters /\ e = Reading!Escape(x)
  OBVIOUS
<1>2. x \in Seq(S)
  BY <1>1 DEF Texts1
<1>3. e \in Seq(S)
  BY <1>1, <1>2, EscapedCell
<1>4. Len(x) \in Nat /\ DOMAIN x = 1 .. Len(x) /\ \A i \in 1 .. Len(x) : x[i] \in S
  BY <1>2
<1>5. Len(e) \in Nat
  BY <1>3
<1> QED BY <1>1, <1>3, <1>4, <1>5 DEF Texts1

\* What is read in a cell
LEMMA ReadInCell ==
    ASSUME NEW x \in Texts1, NEW s \in Nat, CellLies(x, s), NEW i, i \in 1 .. Len(Reading!Escape(x)), index = s + i
    PROVE  Within /\ text[index] = Reading!Escape(x)[i]
<1>1. PICK e, N, E, j : e = Reading!Escape(x) /\ N = Len(text) /\ E = Len(e) /\ j = index
  OBVIOUS
<1>2. E \in Nat
  BY <1>1, TextLength
<1>3. N \in Nat /\ s + E <= N /\ \A m \in 1 .. E : text[s + m] = e[m]
  BY <1>1 DEF CellLies, LiesIn
<1>4. i \in 1 .. E /\ j = s + i
  BY <1>1
<1>5. j \in Nat /\ j <= N
  BY <1>2, <1>3, <1>4
<1>6. text[j] = e[i]
  BY <1>3, <1>4
<1> QED BY <1>1, <1>3, <1>5, <1>6 DEF Within

LEMMA PlainStep ==
    ASSUME NEW x \in Texts1, NEW s \in Nat, CellLies(x, s), Separated, InPlain(x, s), ~AtCellEnd(x, s),
           Reading!ParseDelimited
    PROVE  InCell(x, s)' /\ UNCHANGED <<table, text, delimiter, readRows, row>>
<1>1. Plain(x) /\ quoted = FALSE /\ Reading!Escape(x) = x
  BY EscapedCell DEF InPlain, Texts1
<1>2. PICK k \in 0 .. Len(x) : index = s + k + 1 /\ PrefixOf(current, x, k, Reading!Characters)
  BY DEF InPlain
<1>3. PICK l : l = Len(x)
  OBVIOUS
<1>4. l \in Nat /\ k \in 0 .. l /\ k \in Nat /\ \A i \in 1 .. l : x[i] \in Reading!Characters
  BY <1>3, TextLength
<1>5. k # l
  <2> SUFFICES ASSUME k = l PROVE AtCellEnd(x, s)
    OBVIOUS
  <2>1. current = x
    BY <1>2, <1>3, WholePrefix DEF Texts1
  <2> QED BY <1>1, <1>2, <1>3, <2>1 DEF AtCellEnd
<1>6. k + 1 \in 1 .. l /\ s + k + 1 = s + (k + 1) /\ k + 1 \in 0 .. l
  BY <1>4, <1>5
<1>7. k + 1 \in 1 .. Len(Reading!Escape(x)) /\ index = s + (k + 1)
  BY <1>1, <1>2, <1>3, <1>6
<1>8. Within /\ text[index] = x[k + 1]
  BY <1>1, <1>7, ReadInCell, Zenon
<1>9. text[index] # Reading!Quote /\ text[index] \notin {";", Reading!NewLine}
  <2>1. k + 1 \in DOMAIN x
    BY <1>3, <1>6, TextLength
  <2> QED BY <1>1, <1>8, <2>1 DEF Plain
<1>10. Reading!OtherCharacter
  BY <1>8, <1>9, ReadsOther
<1>11. /\ current' = Append(current, text[index]) /\ index' = index + 1
       /\ UNCHANGED <<table, text, delimiter, readRows, row, quoted>>
  BY <1>10, Zenon DEF Reading!OtherCharacter
<1>12. PrefixOf(current', x, k + 1, Reading!Characters)
  <2>1. text[index] \in Reading!Characters
    BY <1>4, <1>6, <1>8
  <2>2. PrefixOf(Append(current, text[index]), x, k + 1, Reading!Characters)
    BY <1>2, <1>4, <1>8, <2>1, LongerPrefix
  <2> QED BY <1>11, <2>2
<1>13. index' = s + (k + 1) + 1
  BY <1>7, <1>11
<1>14. InPlain(x, s)'
  <2>1. quoted' = FALSE
    BY <1>1, <1>11, Zenon
  <2>2. k + 1 \in 0 .. Len(x)
    BY <1>3, <1>6
  <2> QED BY <1>1, <1>12, <1>13, <2>1, <2>2, Zenon DEF InPlain
<1> QED BY <1>11, <1>14, Zenon DEF InCell

LEMMA OpeningStep ==
    ASSUME NEW x \in Texts1, NEW s \in Nat, CellLies(x, s), Separated, AtQuotes(x, s),
           Reading!ParseDelimited
    PROVE  InCell(x, s)' /\ UNCHANGED <<table, text, delimiter, readRows, row>>
<1>1. ~Plain(x) /\ quoted = FALSE /\ index = s + 1 /\ current = <<>>
  BY Zenon DEF AtQuotes
<1>2. PICK o : QuotedAt(Reading!Escape(x), x, o)
  BY <1>1, EscapedCell DEF Texts1
<1>3. PICK e, E, l : e = Reading!Escape(x) /\ E = Len(e) /\ l = Len(x)
  OBVIOUS
<1>4. E \in Nat /\ l \in Nat /\ E = o[l] + 2 /\ o[l] \in Nat /\ e[1] = Reading!Quote /\ o[0] = 0
  <2>1. E \in Nat /\ l \in Nat
    BY <1>3, TextLength
  <2>2. E = o[l] + 2 /\ e[1] = Reading!Quote /\ o[0] = 0 /\ \A k \in 0 .. l : o[k] \in Nat
    BY <1>2, <1>3 DEF QuotedAt
  <2>3. l \in 0 .. l
    BY <2>1
  <2> QED BY <2>1, <2>2, <2>3
<1>5. 1 \in 1 .. Len(Reading!Escape(x))
  BY <1>3, <1>4
<1>6. Within /\ text[index] = Reading!Quote
  BY <1>1, <1>3, <1>4, <1>5, ReadInCell, Zenon
<1>7. Reading!SingleQuote
  <2>1. ~(quoted /\ AfterQuote)
    BY <1>1, Zenon
  <2> QED BY <1>6, <2>1, ReadsSingleQuote
<1>8. /\ quoted' = ~quoted /\ index' = index + 1
      /\ UNCHANGED <<table, text, delimiter, readRows, row, current>>
  BY <1>7, Zenon DEF Reading!SingleQuote
<1>9. InQuotes(x, s)'
  <2>1. quoted' = TRUE
    BY <1>1, <1>8, Zenon
  <2>2. index' = s + o[0] + 2 /\ 0 \in 0 .. Len(x)
    BY <1>1, <1>3, <1>4, <1>8
  <2>3. PrefixOf(current', x, 0, Reading!Characters)
    BY <1>1, <1>8, NoPrefix
  <2> QED BY <1>1, <1>2, <2>1, <2>2, <2>3, Zenon DEF InQuotes
<1> QED BY <1>8, <1>9, Zenon DEF InCell

LEMMA QuotedStep ==
    ASSUME NEW x \in Texts1, NEW s \in Nat, CellLies(x, s), Separated, InQuotes(x, s),
           Reading!ParseDelimited
    PROVE  InCell(x, s)' /\ UNCHANGED <<table, text, delimiter, readRows, row>>
<1>1. ~Plain(x) /\ quoted = TRUE
  BY Zenon DEF InQuotes
<1>2. PICK o : /\ QuotedAt(Reading!Escape(x), x, o)
               /\ \E k \in 0 .. Len(x) : index = s + o[k] + 2 /\ PrefixOf(current, x, k, Reading!Characters)
  BY Zenon DEF InQuotes
<1>3. PICK k \in 0 .. Len(x) : index = s + o[k] + 2 /\ PrefixOf(current, x, k, Reading!Characters)
  BY <1>2
<1>4. PICK e, E, l, q, j : e = Reading!Escape(x) /\ E = Len(e) /\ l = Len(x) /\ q = Reading!Quote /\ j = o[k]
  OBVIOUS
<1>5. E \in Nat /\ l \in Nat /\ k \in 0 .. l /\ k \in Nat /\ \A i \in 1 .. l : x[i] \in Reading!Characters
  BY <1>4, TextLength
<1>6. /\ E = o[l] + 2 /\ e[E] = q
      /\ \A m \in 0 .. l : o[m] \in Nat /\ o[m] <= o[l]
      /\ \A m \in 1 .. l : IF x[m] = q THEN o[m] = o[m - 1] + 2 /\ e[o[m - 1] + 2] = q /\ e[o[m - 1] + 3] = q
                           ELSE o[m] = o[m - 1] + 1 /\ e[o[m - 1] + 2] = x[m]
  BY <1>2, <1>4 DEF QuotedAt
<1>7. j \in Nat /\ j + 2 \in 1 .. E /\ index = s + (j + 2) /\ l \in 0 .. l
  <2>1. j \in Nat /\ j <= o[l] /\ l \in 0 .. l
    BY <1>4, <1>5, <1>6
  <2>2. PICK w : w = o[l]
    OBVIOUS
  <2>3. w \in Nat /\ j <= w /\ E = w + 2 /\ index = s + j + 2
    BY <1>3, <1>4, <1>6, <2>1, <2>2
  <2> QED BY <2>1, <2>3
<1>8. Within /\ text[index] = e[j + 2]
  <2>1. j + 2 \in 1 .. Len(Reading!Escape(x))
    BY <1>4, <1>7
  <2> QED BY <1>4, <1>7, <2>1, ReadInCell, Zenon
<1>9. Len(text) \in Nat /\ s + E <= Len(text) /\ (\A m \in 1 .. E : text[s + m] = e[m])
      /\ (s + E < Len(text) => text[s + E + 1] # q)
  BY <1>4 DEF CellLies, LiesIn
<1>10. CASE k # l
  <2>1. k + 1 \in 1 .. l /\ (k + 1) - 1 = k /\ k + 1 \in 0 .. l
    BY <1>5, <1>10
  <2>2. IF x[k + 1] = q THEN o[k + 1] = j + 2 /\ e[j + 2] = q /\ e[j + 3] = q
        ELSE o[k + 1] = j + 1 /\ e[j + 2] = x[k + 1]
    BY <1>4, <1>6, <2>1
  <2>3. x[k + 1] \in Reading!Characters
    BY <1>5, <2>1
  <2>4. o[k + 1] \in Nat /\ o[k + 1] <= o[l] /\ o[l] \in Nat
    BY <1>6, <1>7, <2>1
  <2>5. CASE x[k + 1] = q
    <3>1. text[index] = Reading!Quote /\ o[k + 1] = j + 2 /\ e[j + 3] = q
      BY <1>4, <1>8, <2>2, <2>5
    <3>2. j + 3 \in 1 .. E /\ index + 1 = s + (j + 3) /\ index < Len(text)
      <4>1. PICK w, v, N : w = o[l] /\ v = o[k + 1] /\ N = Len(text)
        OBVIOUS
      <4>2. w \in Nat /\ v = j + 2 /\ v <= w /\ E = w + 2 /\ N \in Nat /\ s + E <= N
        BY <1>6, <1>9, <2>4, <3>1, <4>1
      <4>3. j + 3 \in 1 .. E /\ s + (j + 2) < N /\ s + (j + 2) + 1 = s + (j + 3)
        BY <1>7, <4>2
      <4> QED BY <1>7, <4>1, <4>3
    <3>3. text[index + 1] = q
      BY <1>9, <3>1, <3>2
    <3>4. Reading!DoubledQuote
      <4>1. quoted /\ AfterQuote
        BY <1>1, <1>4, <3>2, <3>3, Zenon DEF AfterQuote
      <4> QED BY <1>8, <3>1, <4>1, ReadsDoubledQuote
    <3>5. /\ current' = Append(current, Reading!Quote) /\ index' = index + 2
          /\ UNCHANGED <<table, text, delimiter, readRows, row, quoted>>
      BY <3>4, Zenon DEF Reading!DoubledQuote
    <3>6. PrefixOf(current', x, k + 1, Reading!Characters)
      <4>1. PrefixOf(Append(current, Reading!Quote), x, k + 1, Reading!Characters)
        BY <1>3, <1>4, <1>5, <2>3, <2>5, LongerPrefix
      <4> QED BY <3>5, <4>1
    <3>7. index' = s + o[k + 1] + 2
      <4>1. index' = s + (j + 2) + 2
        BY <1>7, <3>5
      <4> QED BY <3>1, <4>1
    <3>8. InQuotes(x, s)'
      <4>1. quoted' = TRUE
        BY <1>1, <3>5, Zenon
      <4>2. k + 1 \in 0 .. Len(x)
        BY <1>4, <2>1
      <4> QED BY <1>1, <1>2, <3>6, <3>7, <4>1, <4>2, Zenon DEF InQuotes
    <3> QED BY <3>5, <3>8, Zenon DEF InCell
  <2>6. CASE x[k + 1] # q
    <3>1. text[index] # Reading!Quote /\ text[index] = x[k + 1] /\ o[k + 1] = j + 1
      BY <1>4, <1>8, <2>2, <2>6
    <3>2. Reading!OtherCharacter
      <4>1. quoted \/ text[index] \notin {";", Reading!NewLine}
        BY <1>1, Zenon
      <4> QED BY <1>8, <3>1, <4>1, ReadsOther
    <3>3. /\ current' = Append(current, text[index]) /\ index' = index + 1
          /\ UNCHANGED <<table, text, delimiter, readRows, row, quoted>>
      BY <3>2, Zenon DEF Reading!OtherCharacter
    <3>4. PrefixOf(current', x, k + 1, Reading!Characters)
      <4>1. PrefixOf(Append(current, text[index]), x, k + 1, Reading!Characters)
        BY <1>3, <1>5, <2>3, <3>1, LongerPrefix
      <4> QED BY <3>3, <4>1
    <3>5. index' = s + o[k + 1] + 2
      <4>1. index' = s + (j + 1) + 2
        BY <1>7, <3>3
      <4> QED BY <3>1, <4>1
    <3>6. InQuotes(x, s)'
      <4>1. quoted' = TRUE
        BY <1>1, <3>3, Zenon
      <4>2. k + 1 \in 0 .. Len(x)
        BY <1>4, <2>1
      <4> QED BY <1>1, <1>2, <3>4, <3>5, <4>1, <4>2, Zenon DEF InQuotes
    <3> QED BY <3>3, <3>6, Zenon DEF InCell
  <2> QED BY <2>5, <2>6
<1>11. CASE k = l
  <2>1. j + 2 = E /\ index = s + E /\ text[index] = Reading!Quote
    BY <1>4, <1>6, <1>7, <1>8, <1>11
  <2>2. ~AfterQuote
    <3>1. index + 1 = s + E + 1
      BY <1>5, <2>1
    <3> QED BY <1>4, <1>9, <2>1, <3>1, Zenon DEF AfterQuote
  <2>3. Reading!SingleQuote
    <3>1. ~(quoted /\ AfterQuote)
      BY <2>2, Zenon
    <3> QED BY <1>8, <2>1, <3>1, ReadsSingleQuote
  <2>4. /\ quoted' = ~quoted /\ index' = index + 1
        /\ UNCHANGED <<table, text, delimiter, readRows, row, current>>
    BY <2>3, Zenon DEF Reading!SingleQuote
  <2>5. current' = x
    <3>1. current = x
      BY <1>3, <1>4, <1>11, WholePrefix DEF Texts1
    <3> QED BY <2>4, <3>1
  <2>6. index' = s + E + 1
    BY <2>1, <2>4
  <2>7. quoted' = FALSE
    BY <1>1, <2>4, Zenon
  <2>8. AtCellEnd(x, s)'
    BY <1>4, <2>5, <2>6, <2>7, Zenon DEF AtCellEnd
  <2> QED BY <2>4, <2>8, Zenon DEF InCell
<1> QED BY <1>10, <1>11

\* A step in a cell, but not at its end
LEMMA CellStep ==
    ASSUME NEW x \in Texts1, NEW s \in Nat, CellLies(x, s), Separated, InCell(x, s), ~AtCellEnd(x, s),
           Reading!ParseDelimited
    PROVE  InCell(x, s)' /\ UNCHANGED <<table, text, delimiter, readRows, row>>
BY PlainStep, OpeningStep, QuotedStep, Zenon DEF InCell

----------------------------------------------------------------------------
(* The reading of a text.                                                  *)

\* The lines with a value
Valued(lines) == {n \in 1 .. Len(lines) : ~Reading!Blank(lines[n])}

\* In the cell c of the line r; u[n] is what is kept of the first n lines.
InPlace(d, u, lines, r, c) ==
    /\ r \in 1 .. Len(lines) /\ c \in 1 .. Len(lines[r])
    /\ readRows = u[r - 1] /\ PrefixOf(row, lines[r], c - 1, Texts1)
    /\ InCell(lines[r][c], d[r][c])

TextDone(u, lines) == index = Len(text) + 2 /\ readRows = u[Len(lines)]

TextRead(d, u, lines) ==
    /\ LaidOut(d, lines, text) /\ KeptAt(u, lines, Valued(lines), Len(lines))
    /\ TextDone(u, lines) \/ \E r, c : InPlace(d, u, lines, r, c)

\* What WithValues keeps of the first lines
ValuedAt(f, lines) ==
    f = [n \in 0 .. Len(lines) |->
           IF n = 0 THEN <<>>
           ELSE IF Reading!Blank(lines[n]) THEN f[n - 1] ELSE Append(f[n - 1], lines[n])]
UpToLine(lines) == CHOOSE f : ValuedAt(f, lines)

ReadingPage ==
    page = "text" =>
      /\ table \in Tables /\ text \in Texts1 /\ Separated
      /\ \E d : TextRead(d, UpToLine(Lines1), Lines1)

LEMMA LineFacts ==
    ASSUME NEW lines \in Seq(CellLines), NEW r \in 1 .. Len(lines)
    PROVE  /\ Len(lines) \in Nat /\ lines[r] \in Seq(Texts1) /\ Len(lines[r]) \in Nat /\ Len(lines[r]) # 0
           /\ \A c \in 1 .. Len(lines[r]) : lines[r][c] \in Texts1
<1>1. PICK C : C = CellLines
  OBVIOUS
<1>2. lines \in Seq(C)
  BY <1>1
<1>3. Len(lines) \in Nat /\ lines[r] \in C
  BY <1>2
<1>4. lines[r] \in Seq(Texts1)
  BY <1>1, <1>3 DEF CellLines
<1>5. Len(lines[r]) \in Nat /\ Len(lines[r]) # 0
  BY <1>1, <1>3, LineOfCells
<1>6. PICK T, x : T = Texts1 /\ x = lines[r]
  OBVIOUS
<1>7. x \in Seq(T)
  BY <1>4, <1>6
<1>8. \A c \in 1 .. Len(x) : x[c] \in T
  BY <1>7
<1> QED BY <1>3, <1>4, <1>5, <1>6, <1>8

\* Where a cell of length l in the text lies, and what follows it
CellAt(lines, d, r, c, x, s, l) ==
    /\ x \in Texts1 /\ s \in Nat /\ l \in Nat /\ CellLies(x, s) /\ Len(text) \in Nat
    /\ c < Len(lines[r]) =>
         /\ s + l < Len(text) /\ text[s + l + 1] = ";"
         /\ c + 1 \in 1 .. Len(lines[r]) /\ d[r][c + 1] = s + l + 1 /\ d[r][c + 1] \in Nat
    /\ c = Len(lines[r]) /\ r < Len(lines) =>
         /\ s + l < Len(text) /\ text[s + l + 1] = Reading!NewLine
         /\ r + 1 \in 1 .. Len(lines) /\ 1 \in 1 .. Len(lines[r + 1])
         /\ d[r + 1][1] = s + l + 1 /\ d[r + 1][1] \in Nat
    /\ c = Len(lines[r]) /\ r = Len(lines) => Len(text) = s + l

LEMMA CellFacts ==
    ASSUME NEW lines \in Seq(CellLines), NEW d, LaidOut(d, lines, text), text \in Texts1,
           NEW r \in 1 .. Len(lines), NEW c \in 1 .. Len(lines[r]), NEW x, x = lines[r][c], NEW s, s = d[r][c]
    PROVE  CellAt(lines, d, r, c, x, s, Len(Reading!Escape(x)))
<1>1. \A v \in 1 .. Len(lines) : \A w \in 1 .. Len(lines[v]) :
         LET e == Reading!Escape(lines[v][w])
         IN  /\ d[v][w] \in Nat /\ d[v][w] + Len(e) <= Len(text)
             /\ \A m \in 1 .. Len(e) : text[d[v][w] + m] = e[m]
             /\ w < Len(lines[v]) => text[d[v][w] + Len(e) + 1] = ";" /\ d[v][w + 1] = d[v][w] + Len(e) + 1
             /\ w = Len(lines[v]) /\ v < Len(lines) =>
                  text[d[v][w] + Len(e) + 1] = Reading!NewLine /\ d[v + 1][1] = d[v][w] + Len(e) + 1
             /\ w = Len(lines[v]) /\ v = Len(lines) => Len(text) = d[v][w] + Len(e)
  BY Zenon DEF LaidOut
<1>2. PICK e, E, N, R, C : e = Reading!Escape(x) /\ E = Len(e) /\ N = Len(text) /\ R = Len(lines) /\ C = Len(lines[r])
  OBVIOUS
<1>3. /\ s \in Nat /\ s + E <= N /\ \A m \in 1 .. E : text[s + m] = e[m]
      /\ c < C => text[s + E + 1] = ";" /\ d[r][c + 1] = s + E + 1
      /\ c = C /\ r < R => text[s + E + 1] = Reading!NewLine /\ d[r + 1][1] = s + E + 1
      /\ c = C /\ r = R => N = s + E
  BY <1>1, <1>2, Zenon
<1>3a. s \in Nat /\ (c = C /\ r = R => N = s + E)
  BY <1>3, Zenon
<1>4. x \in Texts1 /\ R \in Nat /\ C \in Nat /\ r \in 1 .. R /\ c \in 1 .. C
  BY <1>2, LineFacts
<1>5. E \in Nat /\ N \in Nat
  <2>1. PICK S : S = Reading!Characters
    OBVIOUS
  <2>2. text \in Seq(S)
    BY <2>1 DEF Texts1
  <2>3. N \in Nat
    BY <1>2, <2>2
  <2> QED BY <1>2, <1>4, <2>3, TextLength
<1>6. \A v \in 1 .. R : \A w \in 1 .. Len(lines[v]) : d[v][w] \in Nat /\ d[v][w] <= N
  <2> SUFFICES ASSUME NEW v \in 1 .. R, NEW w \in 1 .. Len(lines[v]) PROVE d[v][w] \in Nat /\ d[v][w] <= N
    OBVIOUS
  <2>1. PICK g, G, z : g = Reading!Escape(lines[v][w]) /\ G = Len(g) /\ z = d[v][w]
    OBVIOUS
  <2>2. z \in Nat /\ z + G <= N
    BY <1>1, <1>2, <2>1, Zenon
  <2>3. G \in Nat
    <3>1. lines[v][w] \in Texts1
      BY <1>2, LineFacts
    <3> QED BY <2>1, <3>1, TextLength
  <2>4. z <= N
    BY <1>5, <2>2, <2>3
  <2> QED BY <2>1, <2>2, <2>4
<1>7. ASSUME c < C
      PROVE  s + E < N /\ c + 1 \in 1 .. C /\ d[r][c + 1] \in Nat
  <2>1. c + 1 \in 1 .. C
    BY <1>4, <1>7
  <2>2. d[r][c + 1] \in Nat /\ d[r][c + 1] <= N /\ d[r][c + 1] = s + E + 1
    BY <1>2, <1>3, <1>4, <1>6, <1>7, <2>1, Zenon
  <2>3. s + E < N
    <3>1. PICK z : z = d[r][c + 1]
      OBVIOUS
    <3>2. z \in Nat /\ z <= N /\ z = s + E + 1
      BY <2>2, <3>1
    <3> QED BY <1>3a, <1>5, <3>2
  <2> QED BY <2>1, <2>2, <2>3
<1>8. ASSUME c = C, r < R
      PROVE  s + E < N /\ r + 1 \in 1 .. R /\ 1 \in 1 .. Len(lines[r + 1]) /\ d[r + 1][1] \in Nat
  <2>1. r + 1 \in 1 .. R
    BY <1>4, <1>8
  <2>2. 1 \in 1 .. Len(lines[r + 1])
    <3>1. PICK k : k = Len(lines[r + 1])
      OBVIOUS
    <3>2. k \in Nat /\ k # 0
      BY <1>2, <2>1, <3>1, LineFacts
    <3>3. 1 \in 1 .. k
      BY <3>2
    <3> QED BY <3>1, <3>3
  <2>3. d[r + 1][1] \in Nat /\ d[r + 1][1] <= N /\ d[r + 1][1] = s + E + 1
    BY <1>3, <1>6, <1>8, <2>1, <2>2, Zenon
  <2>4. s + E < N
    <3>1. PICK z : z = d[r + 1][1]
      OBVIOUS
    <3>2. z \in Nat /\ z <= N /\ z = s + E + 1
      BY <2>3, <3>1
    <3> QED BY <1>3a, <1>5, <3>2
  <2> QED BY <2>1, <2>2, <2>3, <2>4
<1>9. CellLies(x, s)
  <2>1. s + E < N => text[s + E + 1] # Reading!Quote
    <3>1. CASE c < C
      BY <1>3, <3>1, CharactersDiffer, Zenon
    <3>2. CASE c = C /\ r < R
      BY <1>3, <3>2, CharactersDiffer, Zenon
    <3>3. CASE c = C /\ r = R
      <4>1. ~(s + E < N)
        BY <1>3a, <1>5, <3>3
      <4> QED BY <4>1
    <3>4. c < C \/ (c = C /\ r < R) \/ (c = C /\ r = R)
      BY <1>4
    <3> QED BY <3>1, <3>2, <3>3, <3>4
  <2> QED BY <1>2, <1>3, <1>5, <2>1, Zenon DEF CellLies, LiesIn
<1>10. CASE c < C
  <2>1. ~(c = C)
    BY <1>4, <1>10
  <2> QED BY <1>2, <1>3, <1>4, <1>5, <1>7, <1>9, <1>10, <2>1, Zenon DEF CellAt
<1>11. CASE c = C /\ r < R
  <2>1. ~(c < C) /\ ~(r = R)
    BY <1>4, <1>11
  <2> QED BY <1>2, <1>3, <1>4, <1>5, <1>8, <1>9, <1>11, <2>1, Zenon DEF CellAt
<1>12. CASE c = C /\ r = R
  <2>1. ~(c < C) /\ ~(r < R)
    BY <1>4, <1>12
  <2> QED BY <1>2, <1>3, <1>4, <1>5, <1>9, <1>12, <2>1, Zenon DEF CellAt
<1>13. c < C \/ (c = C /\ r < R) \/ (c = C /\ r = R)
  BY <1>4
<1> QED BY <1>10, <1>11, <1>12, <1>13

\* At the end of a cell comes the next one of its line.
LEMMA NextCell ==
    ASSUME NEW lines \in Seq(CellLines), text \in Texts1, Separated, NEW d, LaidOut(d, lines, text), NEW u,
           NEW r, NEW c, InPlace(d, u, lines, r, c), AtCellEnd(lines[r][c], d[r][c]), c < Len(lines[r]),
           Reading!ParseDelimited
    PROVE  InPlace(d, u, lines, r, c + 1)' /\ UNCHANGED <<table, text, delimiter>>
<1>1. /\ r \in 1 .. Len(lines) /\ c \in 1 .. Len(lines[r])
      /\ readRows = u[r - 1] /\ PrefixOf(row, lines[r], c - 1, Texts1)
  BY Zenon DEF InPlace
<1>2. PICK x, s, E : x = lines[r][c] /\ s = d[r][c] /\ E = Len(Reading!Escape(x))
  OBVIOUS
<1>3. /\ x \in Texts1 /\ s \in Nat /\ Len(text) \in Nat /\ s + E < Len(text) /\ text[s + E + 1] = ";"
      /\ c + 1 \in 1 .. Len(lines[r]) /\ d[r][c + 1] = s + E + 1 /\ d[r][c + 1] \in Nat
  <2>1. CellAt(lines, d, r, c, x, s, E)
    BY <1>1, <1>2, CellFacts
  <2> QED BY <2>1, Zenon DEF CellAt
<1>4. s \in Nat /\ Len(text) \in Nat /\ s + E < Len(text) /\ E \in Nat
  BY <1>2, <1>3, TextLength, Zenon
<1>5. quoted = FALSE /\ index = s + E + 1 /\ current = x
  BY <1>2, Zenon DEF AtCellEnd
<1>6. Within
  <2>1. PICK N, i : N = Len(text) /\ i = index
    OBVIOUS
  <2>2. i \in Nat /\ i <= N
    BY <1>4, <1>5, <2>1
  <2> QED BY <1>4, <2>1, <2>2 DEF Within
<1>7. Reading!EndCell
  <2>1. text[index] = ";" /\ ~quoted
    BY <1>3, <1>5, Zenon
  <2> QED BY <1>6, <2>1, ReadsEndOfCell, Zenon
<1>8. /\ row' = Append(row, current) /\ current' = <<>> /\ index' = index + 1
      /\ UNCHANGED <<table, text, delimiter, readRows, quoted>>
  BY <1>7, Zenon DEF Reading!EndCell
<1>9. c \in Nat /\ c - 1 \in Nat /\ (c - 1) + 1 = c /\ (c + 1) - 1 = c
  <2>1. PICK C : C = Len(lines[r])
    OBVIOUS
  <2>2. c \in 1 .. C /\ C \in Nat
    BY <1>1, <2>1, LineFacts
  <2> QED BY <2>2
<1>10. PrefixOf(row', lines[r], c, Texts1)
  <2>1. current = lines[r][(c - 1) + 1] /\ current \in Texts1
    BY <1>2, <1>3, <1>5, <1>9, Zenon
  <2>2. PrefixOf(Append(row, current), lines[r], (c - 1) + 1, Texts1)
    BY <1>1, <1>9, <2>1, LongerPrefix
  <2> QED BY <1>8, <1>9, <2>2
<1>11. InCell(lines[r][c + 1], d[r][c + 1])'
  <2>1. PICK y, z : y = lines[r][c + 1] /\ z = d[r][c + 1]
    OBVIOUS
  <2>2. y \in Texts1 /\ z \in Nat
    BY <1>1, <1>3, <2>1, LineFacts, Zenon
  <2>3. quoted' = FALSE /\ current' = <<>>
    BY <1>5, <1>8, Zenon
  <2>4. index' = z + 1
    BY <1>3, <1>5, <1>8, <2>1, Zenon
  <2>5. InCell(y, z)'
    BY <2>2, <2>3, <2>4, CellBegins
  <2> QED BY <2>1, <2>5
<1>12. readRows' = u[r - 1] /\ PrefixOf(row', lines[r], (c + 1) - 1, Texts1)
  BY <1>1, <1>8, <1>9, <1>10
<1> QED BY <1>1, <1>3, <1>8, <1>11, <1>12, Zenon DEF InPlace

\* At the end of a line it is kept if it has a value.
LEMMA RowEnds ==
    ASSUME NEW lines \in Seq(CellLines), NEW d, NEW u, KeptAt(u, lines, Valued(lines), Len(lines)),
           NEW r \in 1 .. Len(lines), NEW c, c = Len(lines[r]),
           readRows = u[r - 1], PrefixOf(row, lines[r], c - 1, Texts1), current = lines[r][c], Reading!EndRow
    PROVE  readRows' = u[r] /\ row' = <<>> /\ current' = <<>>
<1>1. Len(lines) \in Nat /\ lines[r] \in Seq(Texts1) /\ c \in Nat /\ c # 0 /\ c \in 1 .. Len(lines[r])
  <2>1. Len(lines) \in Nat /\ lines[r] \in Seq(Texts1) /\ Len(lines[r]) \in Nat /\ Len(lines[r]) # 0
    BY LineFacts
  <2>2. PICK k : k = Len(lines[r])
    OBVIOUS
  <2>3. k \in Nat /\ k # 0
    BY <2>1, <2>2
  <2>4. k \in 1 .. k
    BY <2>3
  <2> QED BY <2>1, <2>2, <2>3, <2>4
<1>2. lines[r][c] \in Texts1
  BY <1>1, LineFacts
<1>3. c - 1 \in Nat /\ (c - 1) + 1 = c
  BY <1>1
<1>4. PrefixOf(Append(row, current), lines[r], c, Texts1)
  <2>1. current = lines[r][(c - 1) + 1] /\ current \in Texts1
    BY <1>2, <1>3
  <2>2. PrefixOf(Append(row, current), lines[r], (c - 1) + 1, Texts1)
    BY <1>3, <2>1, LongerPrefix
  <2> QED BY <1>3, <2>2
<1>5. Append(row, current) = lines[r]
  BY <1>1, <1>4, WholePrefix
<1>6. /\ readRows' = IF Reading!Blank(lines[r]) THEN readRows ELSE Append(readRows, lines[r])
      /\ row' = <<>> /\ current' = <<>>
  BY <1>5, Zenon DEF Reading!EndRow
<1>7. u[r] = IF r \in Valued(lines) THEN Append(u[r - 1], lines[r]) ELSE u[r - 1]
  <2>1. r \in 0 .. Len(lines) /\ r # 0
    BY <1>1
  <2> QED BY <2>1, Zenon DEF KeptAt
<1>8. r \in Valued(lines) <=> ~Reading!Blank(lines[r])
  BY DEF Valued
<1> QED BY <1>6, <1>7, <1>8, Zenon

\* At the end of a line comes the first cell of the next one.
LEMMA NextLine ==
    ASSUME NEW lines \in Seq(CellLines), text \in Texts1, Separated, NEW d, LaidOut(d, lines, text),
           NEW u, KeptAt(u, lines, Valued(lines), Len(lines)),
           NEW r, NEW c, InPlace(d, u, lines, r, c), AtCellEnd(lines[r][c], d[r][c]), c = Len(lines[r]),
           r < Len(lines), Reading!ParseDelimited
    PROVE  InPlace(d, u, lines, r + 1, 1)' /\ UNCHANGED <<table, text, delimiter>>
<1>1. /\ r \in 1 .. Len(lines) /\ c \in 1 .. Len(lines[r])
      /\ readRows = u[r - 1] /\ PrefixOf(row, lines[r], c - 1, Texts1)
  BY Zenon DEF InPlace
<1>2. PICK x, s, E : x = lines[r][c] /\ s = d[r][c] /\ E = Len(Reading!Escape(x))
  OBVIOUS
<1>3. /\ x \in Texts1 /\ s \in Nat /\ Len(text) \in Nat /\ s + E < Len(text) /\ text[s + E + 1] = Reading!NewLine
      /\ r + 1 \in 1 .. Len(lines) /\ 1 \in 1 .. Len(lines[r + 1])
      /\ d[r + 1][1] = s + E + 1 /\ d[r + 1][1] \in Nat
  <2>1. CellAt(lines, d, r, c, x, s, E)
    BY <1>1, <1>2, CellFacts
  <2> QED BY <2>1, Zenon DEF CellAt
<1>4. E \in Nat
  BY <1>2, <1>3, TextLength, Zenon
<1>5. quoted = FALSE /\ index = s + E + 1 /\ current = x
  BY <1>2, Zenon DEF AtCellEnd
<1>6. Within
  <2>1. PICK N, i : N = Len(text) /\ i = index
    OBVIOUS
  <2>2. i \in Nat /\ i <= N
    BY <1>3, <1>4, <1>5, <2>1
  <2> QED BY <1>3, <2>1, <2>2 DEF Within
<1>7. Reading!EndLine
  <2>1. text[index] = Reading!NewLine /\ ~quoted
    BY <1>3, <1>5, Zenon
  <2> QED BY <1>6, <2>1, ReadsEndOfLine, Zenon
<1>8. /\ Reading!EndRow /\ index' = index + 1
      /\ UNCHANGED <<table, text, delimiter, quoted>>
  BY <1>7, Zenon DEF Reading!EndLine
<1>9. readRows' = u[r] /\ row' = <<>> /\ current' = <<>>
  <2>1. current = lines[r][c]
    BY <1>2, <1>5
  <2> QED BY <1>1, <1>8, <2>1, RowEnds
<1>10. InCell(lines[r + 1][1], d[r + 1][1])'
  <2>1. PICK y, z : y = lines[r + 1][1] /\ z = d[r + 1][1]
    OBVIOUS
  <2>2. y \in Texts1 /\ z \in Nat
    BY <1>3, <2>1, LineFacts, Zenon
  <2>3. quoted' = FALSE /\ current' = <<>>
    BY <1>5, <1>8, <1>9, Zenon
  <2>4. index' = z + 1
    BY <1>3, <1>5, <1>8, <2>1, Zenon
  <2>5. InCell(y, z)'
    BY <2>2, <2>3, <2>4, CellBegins
  <2> QED BY <2>1, <2>5
<1>11. (r + 1) - 1 = r /\ 1 - 1 = 0
  <2>1. PICK R : R = Len(lines)
    OBVIOUS
  <2>2. R \in Nat /\ r \in 1 .. R
    BY <1>1, <2>1, LineFacts
  <2> QED BY <2>2
<1>12. readRows' = u[(r + 1) - 1] /\ PrefixOf(row', lines[r + 1], 1 - 1, Texts1)
  <2>1. PrefixOf(<<>>, lines[r + 1], 0, Texts1)
    BY NoPrefix
  <2> QED BY <1>9, <1>11, <2>1
<1> QED BY <1>3, <1>8, <1>10, <1>12, Zenon DEF InPlace

\* At the end of the last line everything is read.
LEMMA LastLine ==
    ASSUME NEW lines \in Seq(CellLines), text \in Texts1, Separated, NEW d, LaidOut(d, lines, text),
           NEW u, KeptAt(u, lines, Valued(lines), Len(lines)),
           NEW r, NEW c, InPlace(d, u, lines, r, c), AtCellEnd(lines[r][c], d[r][c]), c = Len(lines[r]),
           r = Len(lines), Reading!ParseDelimited
    PROVE  TextDone(u, lines)' /\ UNCHANGED <<table, text, delimiter>>
<1>1. /\ r \in 1 .. Len(lines) /\ c \in 1 .. Len(lines[r])
      /\ readRows = u[r - 1] /\ PrefixOf(row, lines[r], c - 1, Texts1)
  BY Zenon DEF InPlace
<1>2. PICK x, s, E : x = lines[r][c] /\ s = d[r][c] /\ E = Len(Reading!Escape(x))
  OBVIOUS
<1>3. Len(text) \in Nat /\ Len(text) = s + E
  <2>1. CellAt(lines, d, r, c, x, s, E)
    BY <1>1, <1>2, CellFacts
  <2> QED BY <2>1, Zenon DEF CellAt
<1>4. index = s + E + 1 /\ current = x
  BY <1>2, Zenon DEF AtCellEnd
<1>5. index = Len(text) + 1
  BY <1>3, <1>4
<1>6. Reading!EndText
  BY <1>3, <1>5, ReadsEndOfText
<1>7. Reading!EndRow /\ index' = index + 1 /\ UNCHANGED <<table, text, delimiter>>
  BY <1>6, Zenon DEF Reading!EndText
<1>8. readRows' = u[r]
  <2>1. current = lines[r][c]
    BY <1>2, <1>4
  <2> QED BY <1>1, <1>7, <2>1, RowEnds
<1>9. index' = Len(text) + 2
  BY <1>3, <1>5, <1>7
<1> QED BY <1>7, <1>8, <1>9 DEF TextDone

LEMMA ReadingGoesOn ==
    ASSUME NEW lines \in Seq(CellLines), text \in Texts1, Separated, NEW d, NEW u, TextRead(d, u, lines),
           Reading!ParseDelimited
    PROVE  TextRead(d, u, lines)' /\ UNCHANGED <<table, text, delimiter>>
<1>1. /\ LaidOut(d, lines, text) /\ KeptAt(u, lines, Valued(lines), Len(lines))
      /\ TextDone(u, lines) \/ \E r, c : InPlace(d, u, lines, r, c)
  BY DEF TextRead
<1>2. ~TextDone(u, lines)
  <2>1. Len(text) \in Nat
    <3>1. PICK S : S = Reading!Characters
      OBVIOUS
    <3>2. text \in Seq(S)
      BY <3>1 DEF Texts1
    <3> QED BY <3>2
  <2> QED BY <2>1, ReadsNoMore DEF TextDone
<1>3. PICK r, c : InPlace(d, u, lines, r, c)
  BY <1>1, <1>2
<1>4. /\ r \in 1 .. Len(lines) /\ c \in 1 .. Len(lines[r])
      /\ readRows = u[r - 1] /\ PrefixOf(row, lines[r], c - 1, Texts1)
      /\ InCell(lines[r][c], d[r][c])
  BY <1>3, Zenon DEF InPlace
<1>5. SUFFICES (TextDone(u, lines)' \/ \E v, w : InPlace(d, u, lines, v, w)') /\ UNCHANGED <<table, text, delimiter>>
  BY <1>1, Zenon DEF TextRead
<1>6. CASE ~AtCellEnd(lines[r][c], d[r][c])
  <2>1. PICK x, s : x = lines[r][c] /\ s = d[r][c]
    OBVIOUS
  <2>2. x \in Texts1 /\ s \in Nat /\ CellLies(x, s)
    <3>1. CellAt(lines, d, r, c, x, s, Len(Reading!Escape(x)))
      BY <1>1, <1>4, <2>1, CellFacts
    <3> QED BY <3>1, Zenon DEF CellAt
  <2>3. InCell(x, s)' /\ UNCHANGED <<table, text, delimiter, readRows, row>>
    BY <1>4, <1>6, <2>1, <2>2, CellStep, Zenon
  <2>4. InPlace(d, u, lines, r, c)'
    BY <1>4, <2>1, <2>3, Zenon DEF InPlace
  <2> QED BY <2>3, <2>4
<1>7. CASE AtCellEnd(lines[r][c], d[r][c])
  <2>1. c < Len(lines[r]) \/ (c = Len(lines[r]) /\ r < Len(lines)) \/ (c = Len(lines[r]) /\ r = Len(lines))
    <3>1. PICK R, C : R = Len(lines) /\ C = Len(lines[r])
      OBVIOUS
    <3>2. R \in Nat /\ C \in Nat /\ r \in 1 .. R /\ c \in 1 .. C
      BY <1>4, <3>1, LineFacts
    <3>3. c < C \/ (c = C /\ r < R) \/ (c = C /\ r = R)
      BY <3>2
    <3> QED BY <3>1, <3>3
  <2> QED BY <1>1, <1>3, <1>7, <2>1, NextCell, NextLine, LastLine
<1> QED BY <1>6, <1>7

LEMMA KeptLines ==
    ASSUME NEW lines \in Seq(CellLines)
    PROVE  /\ KeptAt(UpToLine(lines), lines, Valued(lines), Len(lines))
           /\ WithValues(lines) = UpToLine(lines)[Len(lines)]
           /\ UpToLine(lines)[0] = <<>>
           /\ \A n \in 0 .. Len(lines) : UpToLine(lines)[n] \in Seq(CellLines)
<1>1. Len(lines) \in Nat
  <2>1. PICK C : C = CellLines
    OBVIOUS
  <2>2. lines \in Seq(C)
    BY <2>1
  <2> QED BY <2>2
<1>2. ASSUME NEW f PROVE ValuedAt(f, lines) <=> KeptAt(f, lines, Valued(lines), Len(lines))
  <2>1. \A n \in 0 .. Len(lines) : n # 0 => (n \in Valued(lines) <=> ~Reading!Blank(lines[n]))
    BY <1>1 DEF Valued
  <2>2. [n \in 0 .. Len(lines) |->
           IF n = 0 THEN <<>>
           ELSE IF Reading!Blank(lines[n]) THEN f[n - 1] ELSE Append(f[n - 1], lines[n])]
        = [n \in 0 .. Len(lines) |->
             IF n = 0 THEN <<>>
             ELSE IF n \in Valued(lines) THEN Append(f[n - 1], lines[n]) ELSE f[n - 1]]
    BY <2>1
  <2> QED BY <2>2, Zenon DEF ValuedAt, KeptAt
<1>3. \E f : ValuedAt(f, lines)
  BY <1>1, <1>2, KeptAtExists
<1>4. KeptAt(UpToLine(lines), lines, Valued(lines), Len(lines))
  BY <1>2, <1>3, Zenon DEF UpToLine
<1>5. WithValues(lines) = UpToLine(lines)[Len(lines)]
  BY Zenon DEF WithValues, UpToLine, ValuedAt
<1>6. UpToLine(lines)[0] = <<>>
  <2>1. 0 \in 0 .. Len(lines)
    BY <1>1
  <2> QED BY <1>4, <2>1, Zenon DEF KeptAt
<1>7. \A n \in 0 .. Len(lines) : UpToLine(lines)[n] \in Seq(CellLines)
  BY <1>4, KeptInOrder DEF InOrder
<1> QED BY <1>4, <1>5, <1>6, <1>7

\* The reading of a text begins in the first cell of its first line.
LEMMA ReadingBegins ==
    ASSUME Reading!TextInit
    PROVE  table \in Tables /\ text \in Texts1 /\ Separated /\ \E d : TextRead(d, UpToLine(Lines1), Lines1)
<1>1. /\ table \in Tables /\ text = Reading!Written(Lines1) /\ index = 1 /\ delimiter = Reading!Detected(text)
      /\ readRows = <<>> /\ row = <<>> /\ current = <<>> /\ quoted = FALSE
  BY Zenon DEF Reading!TextInit, Lines1
<1>2. PICK L : L = Lines1
  OBVIOUS
<1>3. /\ L \in Seq(CellLines) /\ Len(L) \in Nat /\ Len(L) # 0
      /\ L[1] = Reading!Header /\ Len(Reading!Header) = 2
      /\ Reading!Header[1] = <<"a">> /\ Reading!Header[2] = <<"a">>
  BY <1>1, <1>2, LinesWritten
<1>4. L # <<>>
  <2>1. Len(<<>>) = 0
    OBVIOUS
  <2> QED BY <1>3, <2>1
<1>5. text \in Texts1 /\ \E d : LaidOut(d, L, text)
  BY <1>1, <1>2, <1>3, <1>4, WrittenLines
<1>6. PICK d : LaidOut(d, L, text)
  BY <1>5
<1>7. LabelsAt(text)
  <2>1. Len(L[1]) = 2 /\ L[1][1] = <<"a">> /\ L[1][2] = <<"a">>
    BY <1>3, Zenon
  <2> QED BY <1>3, <1>5, <1>6, <2>1, LabelsFirst
<1>8. Separated
  BY <1>1, <1>5, <1>7, SemicolonDetected, Zenon DEF Separated
<1> DEFINE u == UpToLine(L)
<1>9. KeptAt(u, L, Valued(L), Len(L)) /\ u[0] = <<>>
  BY <1>3, KeptLines
<1> HIDE DEF u
<1>10. InPlace(d, u, L, 1, 1)
  <2>1. 1 \in 1 .. Len(L) /\ 1 - 1 = 0
    <3>1. PICK R : R = Len(L)
      OBVIOUS
    <3>2. R \in Nat /\ R # 0
      BY <1>3, <3>1, Zenon
    <3>3. 1 \in 1 .. R
      BY <3>2
    <3> QED BY <3>1, <3>3
  <2>2. 1 \in 1 .. Len(L[1]) /\ L[1][1] \in Texts1
    <3>1. PICK C : C = Len(L[1])
      OBVIOUS
    <3>2. C \in Nat /\ C # 0
      BY <1>3, <2>1, <3>1, LineFacts, Zenon
    <3>3. 1 \in 1 .. C
      BY <3>2
    <3>4. \A c \in 1 .. Len(L[1]) : L[1][c] \in Texts1
      BY <1>3, <2>1, LineFacts, Zenon
    <3> QED BY <3>1, <3>3, <3>4
  <2>3. PrefixOf(row, L[1], 1 - 1, Texts1)
    BY <1>1, <2>1, NoPrefix
  <2>4. PICK x : x = L[1][1]
    OBVIOUS
  <2>5. d[1][1] = 0
    BY <1>6, Zenon DEF LaidOut
  <2>6. index = 0 + 1 /\ 0 + 0 + 1 = 0 + 1
    BY <1>1
  <2>7. InCell(x, 0)
    <3>1. CASE Plain(x)
      <4>1. Len(x) \in Nat
        BY <2>2, <2>4, TextLength
      <4>2. 0 \in 0 .. Len(x)
        BY <4>1
      <4>3. PrefixOf(current, x, 0, Reading!Characters)
        BY <1>1, NoPrefix
      <4> QED BY <1>1, <2>6, <3>1, <4>2, <4>3, Zenon DEF InCell, InPlain
    <3>2. CASE ~Plain(x)
      BY <1>1, <2>6, <3>2, Zenon DEF InCell, AtQuotes
    <3> QED BY <3>1, <3>2
  <2> QED BY <1>1, <1>9, <2>1, <2>2, <2>3, <2>4, <2>5, <2>7, Zenon DEF InPlace
<1>11. TextRead(d, u, L)
  BY <1>6, <1>9, <1>10, Zenon DEF TextRead
<1> QED BY <1>1, <1>2, <1>5, <1>8, <1>11, Zenon DEF u

LEMMA ReadingIsKept ==
    ASSUME table \in Tables, text \in Texts1, Separated, \E d : TextRead(d, UpToLine(Lines1), Lines1),
           Reading!ParseDelimited
    PROVE  /\ table' \in Tables /\ text' \in Texts1 /\ Separated'
           /\ \E d : TextRead(d, UpToLine(Lines1), Lines1)'
<1>1. PICK d : TextRead(d, UpToLine(Lines1), Lines1)
  OBVIOUS
<1>2. PICK L, u : L = Lines1 /\ u = UpToLine(L)
  OBVIOUS
<1>3. L \in Seq(CellLines)
  BY <1>2, LinesWritten
<1>4. TextRead(d, u, L)' /\ UNCHANGED <<table, text, delimiter>>
  BY <1>1, <1>2, <1>3, ReadingGoesOn
<1>5. Lines1' = L
  BY <1>2, <1>4 DEF Lines1
<1>6. TextRead(d, UpToLine(Lines1), Lines1)'
  BY <1>2, <1>4, <1>5
<1> QED BY <1>4, <1>6 DEF Separated

LEMMA ReadingInvariant == Spec => []ReadingPage
<1>1. Init => ReadingPage
  BY ReadingBegins, Zenon DEF Init, ReadingPage
<1>2. ReadingPage /\ [Next]_vars => ReadingPage'
  <2> SUFFICES ASSUME ReadingPage, [Next]_vars PROVE ReadingPage'
    OBVIOUS
  <2>1. CASE page = "text" /\ Reading!ParseDelimited /\ page' = page
    BY <2>1, ReadingIsKept, Zenon DEF ReadingPage
  <2>2. CASE page # "text" /\ page' = page
    BY <2>2 DEF ReadingPage
  <2>3. CASE UNCHANGED vars
    <3>1. UNCHANGED <<page, table, text, index, delimiter, readRows, row, current, quoted>>
      BY <2>3 DEF vars, readVars
    <3>2. Lines1' = Lines1 /\ Separated' = Separated
      BY <3>1 DEF Lines1, Separated
    <3>3. ASSUME NEW d, NEW u, NEW L PROVE TextRead(d, u, L)' = TextRead(d, u, L)
      <4>1. ASSUME NEW x, NEW s PROVE InCell(x, s)' = InCell(x, s)
        BY <3>1 DEF InCell, InPlain, AtQuotes, InQuotes, AtCellEnd
      <4>2. ASSUME NEW r, NEW c PROVE InPlace(d, u, L, r, c)' = InPlace(d, u, L, r, c)
        BY <3>1, <4>1 DEF InPlace
      <4>3. TextDone(u, L)' = TextDone(u, L) /\ LaidOut(d, L, text)' = LaidOut(d, L, text)
        BY <3>1 DEF TextDone
      <4> QED BY <4>2, <4>3 DEF TextRead
    <3> QED BY <3>1, <3>2, <3>3 DEF ReadingPage
  <2>4. Next => \/ page = "text" /\ Reading!ParseDelimited /\ page' = page
                \/ page # "text" /\ page' = page
    BY DEF Next
  <2> QED BY <2>1, <2>2, <2>3, <2>4
<1> QED BY <1>1, <1>2, PTL DEF Spec

\* In a cell no position is read that lies behind the text.
LEMMA InCellInText ==
    ASSUME NEW x \in Texts1, NEW s \in Nat, CellLies(x, s), InCell(x, s)
    PROVE  index <= Len(text) + 1
<1>1. PICK e, E, N, l : e = Reading!Escape(x) /\ E = Len(e) /\ N = Len(text) /\ l = Len(x)
  OBVIOUS
<1>2. E \in Nat /\ N \in Nat /\ l \in Nat /\ s + E <= N
  BY <1>1, TextLength DEF CellLies, LiesIn
<1>3. CASE InPlain(x, s)
  <2>1. e = x /\ E = l
    BY <1>1, <1>3, EscapedCell DEF InPlain, Texts1
  <2>2. PICK k \in 0 .. l : index = s + k + 1
    BY <1>1, <1>3 DEF InPlain
  <2> QED BY <1>1, <1>2, <2>1, <2>2
<1>4. CASE AtQuotes(x, s) \/ InQuotes(x, s)
  <2>1. ~Plain(x)
    BY <1>4 DEF AtQuotes, InQuotes
  <2>2. PICK o, k : /\ QuotedAt(e, x, o)
                    /\ index = s + 1 \/ (k \in 0 .. l /\ index = s + o[k] + 2)
    <3>1. CASE AtQuotes(x, s)
      BY <1>1, <2>1, <3>1, EscapedCell DEF AtQuotes, Texts1
    <3>2. CASE InQuotes(x, s)
      BY <1>1, <3>2 DEF InQuotes
    <3> QED BY <1>4, <3>1, <3>2
  <2>3. E = o[l] + 2 /\ \A m \in 0 .. l : o[m] \in Nat /\ o[m] <= o[l]
    BY <1>1, <2>2 DEF QuotedAt
  <2>4. index = s + 1 \/ (o[k] \in Nat /\ o[k] <= o[l] /\ index = s + o[k] + 2)
    BY <2>2, <2>3
  <2>5. o[l] \in Nat
    BY <1>2, <2>3
  <2>6. PICK w, v : w = o[l] /\ v = o[k]
    OBVIOUS
  <2>7. w \in Nat /\ E = w + 2 /\ (index = s + 1 \/ (v \in Nat /\ v <= w /\ index = s + v + 2))
    BY <2>3, <2>4, <2>5, <2>6
  <2>8. index <= N + 1
    BY <1>2, <2>7
  <2> QED BY <1>1, <2>8
<1>5. CASE AtCellEnd(x, s)
  <2>1. index = s + E + 1
    BY <1>1, <1>5 DEF AtCellEnd
  <2>2. index <= N + 1
    BY <1>2, <2>1
  <2> QED BY <1>1, <2>2
<1> QED BY <1>3, <1>4, <1>5 DEF InCell

\* An inventory that was written is read again as it was, whatever its cells hold
\* (ReadsWhatWasWritten: importExportHelpers.tsx:448 parseDelimited, 1499 vehiclesToCSV).
THEOREM WrittenIsReadAgain == Spec => []ReadsWhatWasWritten
<1>1. ReadingPage => ReadsWhatWasWritten
  <2> SUFFICES ASSUME ReadingPage, page = "text", index = Len(text) + 2
               PROVE  readRows = WithValues(Lines1)
    BY DEF ReadsWhatWasWritten, Lines1
  <2>1. table \in Tables /\ text \in Texts1 /\ \E d : TextRead(d, UpToLine(Lines1), Lines1)
    BY DEF ReadingPage
  <2>2. PICK d, u, L : L = Lines1 /\ u = UpToLine(L) /\ TextRead(d, u, L)
    BY <2>1
  <2>3. L \in Seq(CellLines)
    BY <2>1, <2>2, LinesWritten
  <2>4. TextDone(u, L)
    <3> SUFFICES ASSUME NEW r, NEW c, InPlace(d, u, L, r, c) PROVE FALSE
      BY <2>2 DEF TextRead
    <3>1. r \in 1 .. Len(L) /\ c \in 1 .. Len(L[r]) /\ InCell(L[r][c], d[r][c]) /\ LaidOut(d, L, text)
      BY <2>2, Zenon DEF InPlace, TextRead
    <3>2. PICK x, s : x = L[r][c] /\ s = d[r][c]
      OBVIOUS
    <3>3. x \in Texts1 /\ s \in Nat /\ CellLies(x, s)
      <4>1. CellAt(L, d, r, c, x, s, Len(Reading!Escape(x)))
        BY <2>1, <2>3, <3>1, <3>2, CellFacts
      <4> QED BY <4>1, Zenon DEF CellAt
    <3>4. index <= Len(text) + 1
      BY <3>1, <3>2, <3>3, InCellInText
    <3>5. Len(text) \in Nat
      BY <3>3 DEF CellLies
    <3> QED BY <3>4, <3>5
  <2>5. WithValues(L) = u[Len(L)]
    BY <2>2, <2>3, KeptLines
  <2> QED BY <2>2, <2>4, <2>5 DEF TextDone
<1> QED BY <1>1, ReadingInvariant, PTL

----------------------------------------------------------------------------
(* The types of all pages.                                                 *)

\* One of the four pages is shown, and the edits of the import are bounded.
PageKnown ==
    /\ page \in {"dialog", "import", "values", "text"}
    /\ page = "import" => importEdits \in 0 .. MaxImportEdits

LEMMA EditsAreBounded ==
    ASSUME importEdits \in 0 .. MaxImportEdits, MaxImportEdits \in Nat, Import!Next
    PROVE  importEdits' \in 0 .. MaxImportEdits
<1>1. importEdits' = importEdits \/ (importEdits < MaxImportEdits /\ importEdits' = importEdits + 1)
  BY DEF Import!Next, Import!ServeList, Import!ListArrives, Import!Reopen, Import!TransferPanel,
         Import!ChooseFile, Import!LoadTable, Import!EcosPanel, Import!AddProbe, Import!MappingPanel,
         Import!SetColumnMapping, Import!ReviewPanel, Import!UpdateRow, Import!SetRowSelected,
         Import!SetRowMode, Import!SaveSelected, Import!Loop, Import!Store, Import!UpdateVehicle,
         Import!CreateVehicle, Import!Answered, Import!Failed, Import!Done, Import!UpsertMapping,
         Import!SaveCVs, Import!Finish, Import!OtherUser, Import!Correct
<1> QED BY <1>1

LEMMA PagesAreKnown == Spec => []PageKnown
<1>0. MaxImportEdits \in Nat
  BY ImportAssumptions DEF Import!ConstantsFit
<1>1. Init => PageKnown
  BY <1>0 DEF Init, PageKnown, ImportInit, Import!Init
<1>2. PageKnown /\ [Next]_vars => PageKnown'
  <2> SUFFICES ASSUME PageKnown, [Next]_vars PROVE PageKnown'
    OBVIOUS
  <2>1. CASE page = "import" /\ Import!Next /\ page' = page
    BY <1>0, <2>1, EditsAreBounded DEF PageKnown
  <2>2. CASE page # "import" /\ page' = page
    BY <2>2 DEF PageKnown
  <2>3. CASE UNCHANGED vars
    BY <2>3 DEF PageKnown, vars, importVars, importCore
  <2>4. Next => \/ page = "import" /\ Import!Next /\ page' = page
                \/ page # "import" /\ page' = page
    BY DEF Next
  <2> QED BY <2>1, <2>2, <2>3, <2>4
<1> QED BY <1>1, <1>2, PTL DEF Spec

LEMMA DialogTyped ==
    ASSUME DialogTypes
    PROVE  EditorTypeOK
<1>1. DOMAIN fleet \subseteq 1 .. drawn /\ drawn <= MaxVehicles
  BY DEF DialogTypes, Fleet
<1>2. \A x \in Vehicle : VehicleOK(x)
  <2> SUFFICES ASSUME NEW x \in Vehicle PROVE VehicleOK(x)
    OBVIOUS
  <2>1. PICK S, p : S = StoredImage /\ p = x.images
    OBVIOUS
  <2>2. p \in Seq(S) /\ S \subseteq Image
    <3>1. x.images \in StoredImages
      BY DEF Vehicle
    <3>2. p \in Seq(S)
      BY <2>1, <3>1 DEF StoredImages
    <3>3. StoredImage \subseteq Image
      BY DEF StoredImage, Image
    <3> QED BY <2>1, <3>2, <3>3
  <2>3. \A i \in DOMAIN p : p[i] \in Image
    BY <2>2
  <2> QED BY <2>1, <2>3 DEF Vehicle, VehicleOK
<1>3. /\ \A v \in DOMAIN fleet : VehicleOK(fleet[v])
      /\ \A v \in DOMAIN list : VehicleOK(list[v])
  BY <1>2 DEF DialogTypes, Fleet
<1>4. /\ modal.mode \in {"create", "edit", "view"} /\ modal.id \in 0 .. drawn
      /\ modal.form.text \in Texts \cup {Empty} /\ modal.parts \subseteq Parts
      /\ modal.pending \in ShownImages
  BY DEF DialogTypes, Dialogs, Modes
<1>5. \A i \in DOMAIN modal.pending : modal.pending[i] \in Image
  <2>1. PICK S, p : S = ShownImage /\ p = modal.pending
    OBVIOUS
  <2>2. p \in Seq(S) /\ S \subseteq Image
    BY <1>4, <2>1 DEF ShownImages, ShownImage
  <2>3. \A i \in DOMAIN p : p[i] \in Image
    BY <2>2
  <2> QED BY <2>1, <2>3
<1>6. job.at \in {"none", "submit", "answer", "loop"}
  BY DEF DialogTypes, Jobs, NotSaving
<1> QED BY <1>1, <1>3, <1>4, <1>5, <1>6 DEF EditorTypeOK

LEMMA ImportTyped ==
    ASSUME ImportTypes, importEdits \in 0 .. MaxImportEdits
    PROVE  Import!TypeOK
<1>1. importList.at \in {"none", "asked", "sent"}
  BY DEF ImportTypes, ViewTypes, ListAnswer
<1>2. importJob.at \in {"none", "next", "map", "cv"}
  BY DEF ImportTypes, LoopJob, NextJob, RowJob, Import!NoJob
<1> QED BY <1>1, <1>2 DEF ImportTypes, ViewTypes, VehicleTable, RowTable, Import!TypeOK

LEMMA ValuesTyped ==
    ASSUME CVTypes
    PROVE  CVs!CVTypeOK
<1>1. /\ DOMAIN stored \subseteq 1 .. cvDrawn /\ cvDrawn <= MaxId
      /\ \A v \in DOMAIN stored : stored[v] \in CVs!Inputs
      /\ \A v \in DOMAIN copy : copy[v] \in CVs!Inputs
      /\ editing \in 0 .. cvDrawn
      /\ \A i \in DOMAIN refreshes : refreshes[i].read => DOMAIN refreshes[i].values \subseteq 1 .. cvDrawn
  BY CVConstants DEF CVTypes, ValueTable, AnswerFits
<1>2. \A i \in DOMAIN preview : preview[i] \in CVRow(cvDrawn)
  <2>1. PICK S : S = CVRow(cvDrawn)
    OBVIOUS
  <2>2. preview \in Seq(S)
    BY <2>1 DEF CVTypes
  <2> QED BY <2>1, <2>2
<1>3. \A i \in DOMAIN preview :
        /\ preview[i].input \in CVs!Inputs
        /\ preview[i].status \in {"new", "changed", "same", "invalid"}
        /\ preview[i].existing \in 0 .. cvDrawn
  BY <1>2 DEF CVRow, CVStatuses
<1>4. saving.at \in {"none", "read", "put"}
  BY DEF CVTypes, CVJobs, CVs!NotSaving
<1> QED BY <1>1, <1>3, <1>4 DEF CVs!CVTypeOK

LEMMA TextTyped ==
    ASSUME ReadingPage, page = "text"
    PROVE  readRows \in Seq(Seq(Seq(Reading!Characters)))
<1>1. PICK d, u, L : L = Lines1 /\ u = UpToLine(L) /\ TextRead(d, u, L)
  BY DEF ReadingPage
<1>2. L \in Seq(CellLines) /\ Len(L) \in Nat
  BY <1>1, LinesWritten DEF ReadingPage
<1>3. \A n \in 0 .. Len(L) : u[n] \in Seq(CellLines)
  BY <1>1, <1>2, KeptLines
<1>4. \E n \in 0 .. Len(L) : readRows = u[n]
  <2>1. CASE TextDone(u, L)
    BY <1>2, <2>1 DEF TextDone
  <2>2. ASSUME NEW r, NEW c, InPlace(d, u, L, r, c) PROVE \E n \in 0 .. Len(L) : readRows = u[n]
    <3>1. r \in 1 .. Len(L) /\ readRows = u[r - 1]
      BY <2>2, Zenon DEF InPlace
    <3>2. r - 1 \in 0 .. Len(L)
      BY <1>2, <3>1
    <3> QED BY <3>1, <3>2
  <2> QED BY <1>1, <2>1, <2>2 DEF TextRead
<1>5. readRows \in Seq(CellLines)
  BY <1>3, <1>4
<1>6. CellLines \subseteq Seq(Texts1)
  BY DEF CellLines
<1>7. PICK C, T : C = CellLines /\ T = Seq(Texts1)
  OBVIOUS
<1>8. readRows \in Seq(T)
  <2>1. readRows \in Seq(C) /\ C \subseteq T
    BY <1>5, <1>6, <1>7
  <2> QED BY <2>1
<1> QED BY <1>7, <1>8 DEF Texts1

\* What is shown and asked for stays of the kind that is stored, on each page (TypesOK:
\* VehiclesView.tsx, ImportExportView.tsx, cvImport.ts, importExportHelpers.tsx:448).
THEOREM PagesKeepTypes == Spec => []TypesOK
<1>1. PageKnown /\ DialogPage /\ ImportPage /\ CVPage /\ ReadingPage => TypesOK
  <2> SUFFICES ASSUME PageKnown, DialogPage, ImportPage, CVPage, ReadingPage PROVE TypesOK
    OBVIOUS
  <2>1. CASE page = "dialog"
    BY <2>1, DialogTyped, Zenon DEF TypesOK, DialogPage
  <2>2. CASE page = "import"
    BY <2>2, ImportTyped DEF TypesOK, PageKnown, ImportPage, ImportFits
  <2>3. CASE page = "values"
    BY <2>3, ValuesTyped DEF TypesOK, CVPage
  <2>4. CASE page = "text"
    BY <2>4, TextTyped DEF TypesOK
  <2> QED BY <2>1, <2>2, <2>3, <2>4 DEF PageKnown
<1> QED BY <1>1, PagesAreKnown, DialogInvariant, ImportInvariant, CVInvariant, ReadingInvariant, PTL
==============================================================================
