------------------------- MODULE InventoryNumbers -------------------------
(***************************************************************************)
(* Inventory numbers of vehicles: the numbering schemes                    *)
(* (backend/internal/application/inventory_numbers.go), the draw of a      *)
(* number and the history of changed numbers in Create, Update and Delete  *)
(* of a vehicle (backend/internal/application/vehicles.go).                *)
(*                                                                         *)
(* A number is what formatInventoryNumber prints: a prefix and an integer  *)
(* padded with zeros, so two schemes, or one scheme before and after a     *)
(* change of its padding, may print the same integer differently.          *)
(***************************************************************************)
EXTENDS Integers, FiniteSets

CONSTANTS VehicleIds,     \* ids that randomID may return
          Requests,       \* HTTP requests being served
          Categories,     \* categories with a scheme, among them "Fahrzeug"
          SchemeInputs,   \* what an admin may set a scheme to
          TypedNumbers,   \* numbers typed into the vehicle form
          MaxAttempts,    \* candidates tried per draw, 500 in the code
          MaxNumber       \* bound: no scheme counts beyond it

Prefixes == Categories    \* each scheme starts with a prefix of its own
Numbers == [prefix : Prefixes, n : 1 .. MaxNumber, width : 1 .. 12]
Schemes == [prefix : Prefixes, next : 1 .. MaxNumber, padding : 1 .. 12,
            active : BOOLEAN]

NoVehicle == "no vehicle"

ASSUME RequestsAssumption == IsFiniteSet(Requests)
ASSUME IdsAssumption == NoVehicle \notin VehicleIds
ASSUME CategoriesAssumption == "Fahrzeug" \in Categories
ASSUME BoundsAssumption == MaxAttempts \in Nat /\ MaxNumber \in 1 .. 99
ASSUME InputsAssumption == SchemeInputs \subseteq Schemes /\ TypedNumbers \subseteq Numbers

VARIABLES schemes,    \* inventory_number_schemes: category -> scheme
          vehicles,   \* vehicles: id -> inventory number
          history,    \* id -> latest row of inventory_number_history, see Create
          spent,      \* ids that were given out
          drawn,      \* numbers that draws have given out
          req         \* updates that have read the vehicle
vars == <<schemes, vehicles, history, spent, drawn, req>>

NoNumber == [prefix |-> "none", n |-> 0, width |-> 0]
Idle == [vehicle |-> NoVehicle, number |-> NoNumber, existing |-> NoNumber]
Updates == [vehicle : VehicleIds, number : Numbers, existing : Numbers]
HistoryRows == [old : Numbers \cup {NoNumber}, new : Numbers]

TypeOK ==
    /\ schemes \in [Categories -> Schemes]
    /\ DOMAIN vehicles \subseteq spent /\ spent \subseteq VehicleIds
    /\ \A v \in DOMAIN vehicles : vehicles[v] \in Numbers
    /\ DOMAIN history = DOMAIN vehicles
    /\ \A v \in DOMAIN history : history[v] \in HistoryRows
    /\ drawn \subseteq Numbers
    /\ req \in [Requests -> Updates \cup {Idle}]

NoRows == [id \in {} |-> {}]     \* an empty table

Init ==
    /\ schemes = [c \in Categories |->
                    [prefix |-> c, next |-> 1, padding |-> 6, active |-> TRUE]]
    /\ vehicles = NoRows
    /\ history = NoRows
    /\ spent = {}
    /\ drawn = {}
    /\ req = [r \in Requests |-> Idle]

\* A table as a function from ids to rows: insert a row, delete rows.
With(f, id, row) == [x \in DOMAIN f \cup {id} |-> IF x = id THEN row ELSE f[x]]
Without(f, ids) == [x \in DOMAIN f \ ids |-> f[x]]

----------------------------------------------------------------------------
(* Schemes.                                                                *)

Digits(n) == IF n < 10 THEN 1 ELSE 2

\* prefix-%0*d
Format(prefix, n, padding) ==
    [prefix |-> prefix, n |-> n,
     width |-> IF padding > Digits(n) THEN padding ELSE Digits(n)]

\* The numbers drawn so far count no longer: the scheme may go back to them.
UpdateScheme(c, input) ==
    /\ schemes' = [schemes EXCEPT ![c] = input]
    /\ drawn' = {}
    /\ UNCHANGED <<vehicles, history, spent, req>>

\* The active scheme of the category, otherwise the active one of "Fahrzeug".
SchemeFor(c) ==
    {s \in {c, "Fahrzeug"} : schemes[s].active /\ (s # c => ~schemes[c].active)}

\* A number no vehicle but v has.
Available(number, v) == \A w \in DOMAIN vehicles \ {v} : vehicles[w] # number

Candidate(s, k) == Format(schemes[s].prefix, schemes[s].next + k, schemes[s].padding)

\* The first available number after k taken ones; the draw fails after MaxAttempts.
\* fault: the candidate itself is not looked up
DrawsAny(s, k) ==
    /\ k < MaxAttempts
    /\ \A j \in 0 .. k - 1 : ~Available(Candidate(s, j), NoVehicle)

Draws(s, k) ==
    /\ k < MaxAttempts
    /\ Available(Candidate(s, k), NoVehicle)
    /\ \A j \in 0 .. k - 1 : ~Available(Candidate(s, j), NoVehicle)

----------------------------------------------------------------------------
(* Vehicles.                                                               *)

\* No history row is written for the first number; it is kept here as the row that
\* a later one continues.
Created(v, number) ==
    /\ v \notin spent
    /\ vehicles' = With(vehicles, v, number)
    /\ history' = With(history, v, [old |-> NoNumber, new |-> number])
    /\ spent' = spent \cup {v}

\* Create without a number: one transaction.
CreateDrawing(v, c) ==
    \E s \in SchemeFor(c), k \in 0 .. MaxNumber :
        /\ schemes[s].next + k < MaxNumber
        /\ Draws(s, k)
        /\ Created(v, Candidate(s, k))
        /\ drawn' = drawn \cup {Candidate(s, k)}
        /\ schemes' = [schemes EXCEPT ![s].next = @ + k + 1]
        /\ UNCHANGED req

\* Create with a number.
CreateTyped(v, number) ==
    /\ Available(number, NoVehicle)
    /\ Created(v, number)
    /\ UNCHANGED <<schemes, drawn, req>>

\* Update reads the vehicle before its transaction; a blank number keeps the one read.
BeginUpdate(r, v, number) ==
    /\ req[r] = Idle
    /\ v \in DOMAIN vehicles
    /\ req' = [req EXCEPT ![r] =
                 [vehicle |-> v, existing |-> vehicles[v],
                  number |-> IF number = NoNumber THEN vehicles[v] ELSE number]]
    /\ UNCHANGED <<schemes, vehicles, history, spent, drawn>>

\* fault: only typed numbers get into the history
UpdateForgetsHistory(r) ==
    LET v == req[r].vehicle
        number == req[r].number
    IN  /\ v \in DOMAIN vehicles
        /\ Available(number, v)
        /\ vehicles' = [vehicles EXCEPT ![v] = number]
        /\ history' = IF number # req[r].existing /\ number \in TypedNumbers \ drawn
                        THEN [history EXCEPT ![v] = [old |-> req[r].existing,
                                                     new |-> number]]
                        ELSE history
        /\ req' = [req EXCEPT ![r] = Idle]
        /\ UNCHANGED <<schemes, spent, drawn>>

\* fault: the history row takes the new number for the old one
UpdateRecordsNewTwice(r) ==
    LET v == req[r].vehicle
        number == req[r].number
    IN  /\ v \in DOMAIN vehicles
        /\ Available(number, v)
        /\ vehicles' = [vehicles EXCEPT ![v] = number]
        /\ history' = IF number # req[r].existing
                        THEN [history EXCEPT ![v] = [old |-> number, new |-> number]]
                        ELSE history
        /\ req' = [req EXCEPT ![r] = Idle]
        /\ UNCHANGED <<schemes, spent, drawn>>

\* fault: a vehicle deleted meanwhile is inserted again
UpdateBringsBack(r) ==
    LET v == req[r].vehicle
        number == req[r].number
    IN  /\ req[r] # Idle
        /\ Available(number, v)
        /\ vehicles' = With(vehicles, v, number)
        /\ history' = With(history, v, [old |-> req[r].existing, new |-> number])
        /\ req' = [req EXCEPT ![r] = Idle]
        /\ UNCHANGED <<schemes, spent, drawn>>

\* The code looks for the number only if it differs from the one read; for an equal
\* one that another vehicle has taken since, UNIQUE(inventory_number) fails the UPDATE.
Update(r) ==
    LET v == req[r].vehicle
        number == req[r].number
    IN  /\ v \in DOMAIN vehicles
        /\ Available(number, v)
        /\ vehicles' = [vehicles EXCEPT ![v] = number]
        /\ history' = IF number # req[r].existing
                        THEN [history EXCEPT ![v] = [old |-> req[r].existing,
                                                     new |-> number]]
                        ELSE history
        /\ req' = [req EXCEPT ![r] = Idle]
        /\ UNCHANGED <<schemes, spent, drawn>>

\* The vehicle is gone, the number is taken or a statement failed.
UpdateFails(r) ==
    /\ req[r] # Idle
    /\ req' = [req EXCEPT ![r] = Idle]
    /\ UNCHANGED <<schemes, vehicles, history, spent, drawn>>

\* The rows of its history stay, as references are not enforced (sqlite.go:27); they are
\* left out, as no operation on vehicles reads them and the id never comes back.
Delete(v) ==
    /\ v \in DOMAIN vehicles
    /\ vehicles' = Without(vehicles, {v})
    /\ history' = Without(history, {v})
    /\ UNCHANGED <<schemes, spent, drawn, req>>

Next ==
    \/ \E c \in Categories, input \in SchemeInputs : UpdateScheme(c, input)
    \/ \E v \in VehicleIds, c \in Categories : CreateDrawing(v, c)
    \/ \E v \in VehicleIds, number \in TypedNumbers : CreateTyped(v, number)
    \/ \E r \in Requests, v \in VehicleIds, number \in TypedNumbers \cup {NoNumber} :
          BeginUpdate(r, v, number)
    \/ \E r \in Requests : Update(r) \/ UpdateFails(r)
    \/ \E v \in VehicleIds : Delete(v)

Spec == Init /\ [][Next]_vars

----------------------------------------------------------------------------
(* Properties.                                                             *)

\* No two vehicles have the same number.  Create relies on its own lookup for that,
\* Update on the UNIQUE constraint as well (vehicles.go:364, 1914).
NumbersUnique ==
    \A v, w \in DOMAIN vehicles : v # w => vehicles[v] # vehicles[w]

OwnPrefixes == \A c, d \in Categories : schemes[c].prefix = schemes[d].prefix => c = d

\* A drawn number is new: until an admin changes a scheme, and unless two schemes print
\* one prefix, a number is not drawn a second time even when its vehicle has been
\* deleted (vehicles.go:1925).
NeverDrawnTwice ==
    [][OwnPrefixes /\ schemes' # schemes =>
         \A v \in DOMAIN vehicles' \ DOMAIN vehicles : vehicles'[v] \notin drawn]_vars

\* Schemes, draws and updates keep the promises of NumberBook.  Numbers count as issued
\* while each scheme prints numbers of its own.
Book == INSTANCE NumberBook
          WITH book <- vehicles, struck <- spent \ DOMAIN vehicles,
               issued <- IF OwnPrefixes THEN drawn ELSE {}
KeepsTheBook == Book!Spec

\* The history of a vehicle ends with the number it has.
HistoryEndsWithNumber == \A v \in DOMAIN vehicles : history[v].new = vehicles[v]

\* A new history row starts from the number the vehicle had.
HistoryContinues ==
    \A v \in DOMAIN history \cap DOMAIN history' :
       history'[v] # history[v] => history'[v].old = vehicles[v]
=============================================================================
