----------------------- MODULE InventoryNumbersProofs -----------------------
(* What InventoryNumbers keeps true for every set of vehicles, requests,     *)
(* categories, scheme inputs and typed numbers.                              *)
EXTENDS MCInventoryNumbers, FiniteSetTheorems, TLAPS

----------------------------------------------------------------------------
(* What is printed.                                                          *)

(* A printed number is a number.                                             *)
LEMMA FormatType ==
  ASSUME NEW prefix \in Prefixes, NEW n \in 1 .. MaxNumber, NEW padding \in 1 .. 12
  PROVE  Format(prefix, n, padding) \in Numbers
<1>1. Digits(n) \in 1 .. 12
  BY DEF Digits
<1> QED
  BY <1>1 DEF Format, Numbers

(* A draw finds a number that is printed by the scheme and that no vehicle   *)
(* has.                                                                      *)
LEMMA DrawFacts ==
  ASSUME TypeOK, NEW s \in Categories, NEW k \in 0 .. MaxNumber,
         schemes[s].next + k < MaxNumber, Draws(s, k)
  PROVE  /\ Candidate(s, k) \in Numbers
         /\ \A w \in DOMAIN vehicles : vehicles[w] # Candidate(s, k)
<1>1. schemes[s] \in Schemes
  BY DEF TypeOK
<1>2. /\ schemes[s].prefix \in Prefixes /\ schemes[s].padding \in 1 .. 12
      /\ schemes[s].next \in 1 .. MaxNumber
  BY <1>1 DEF Schemes
<1>3. schemes[s].next + k \in 1 .. MaxNumber
  BY <1>2, BoundsAssumption
<1>4. Candidate(s, k) \in Numbers
  BY <1>2, <1>3, FormatType DEF Candidate
<1>5. DOMAIN vehicles \ {NoVehicle} = DOMAIN vehicles
  BY IdsAssumption DEF TypeOK
<1>6. \A w \in DOMAIN vehicles : vehicles[w] # Candidate(s, k)
  BY <1>5 DEF Draws, Available
<1> QED
  BY <1>4, <1>6

----------------------------------------------------------------------------
(* The tables after a vehicle was created.                                   *)

(* A new vehicle keeps the types of the tables ...                           *)
LEMMA CreatedTypes ==
  ASSUME TypeOK, NEW v \in VehicleIds, NEW number \in Numbers, Created(v, number)
  PROVE  /\ DOMAIN vehicles' \subseteq spent' /\ spent' \subseteq VehicleIds
         /\ \A w \in DOMAIN vehicles' : vehicles'[w] \in Numbers
         /\ DOMAIN history' = DOMAIN vehicles'
         /\ \A w \in DOMAIN history' : history'[w] \in HistoryRows
<1>1. [old |-> NoNumber, new |-> number] \in HistoryRows
  BY DEF HistoryRows
<1> QED
  BY <1>1 DEF TypeOK, Created, With

(* ... and, with a number no vehicle has, their uniqueness.                  *)
LEMMA CreatedUnique ==
  ASSUME NumbersUnique, NEW v, NEW number, Created(v, number),
         \A w \in DOMAIN vehicles : vehicles[w] # number
  PROVE  NumbersUnique'
BY DEF NumbersUnique, Created, With

----------------------------------------------------------------------------
(* The invariant.                                                            *)

IInv == TypeOK /\ NumbersUnique

(* No vehicle is in the tables of a fresh installation.                      *)
LEMMA InitInvariant == Init => IInv
<1> SUFFICES ASSUME Init PROVE IInv
  OBVIOUS
<1>1. ASSUME NEW c \in Categories
      PROVE  [prefix |-> c, next |-> 1, padding |-> 6, active |-> TRUE] \in Schemes
  BY BoundsAssumption DEF Schemes, Prefixes
<1>2. schemes \in [Categories -> Schemes]
  BY <1>1 DEF Init
<1>3. DOMAIN vehicles = {} /\ DOMAIN history = {}
  BY DEF Init, NoRows
<1>4. req \in [Requests -> Updates \cup {Idle}] /\ spent = {} /\ drawn = {}
  BY DEF Init
<1> QED
  BY <1>2, <1>3, <1>4 DEF IInv, TypeOK, NumbersUnique

(* A vehicle that is created with a drawn number.                            *)
LEMMA DrawingKeeps ==
  ASSUME IInv, NEW v \in VehicleIds, NEW c \in Categories, CreateDrawing(v, c)
  PROVE  IInv'
<1>1. PICK s \in SchemeFor(c), k \in 0 .. MaxNumber :
        /\ schemes[s].next + k < MaxNumber
        /\ Draws(s, k)
        /\ Created(v, Candidate(s, k))
        /\ drawn' = drawn \cup {Candidate(s, k)}
        /\ schemes' = [schemes EXCEPT ![s].next = @ + k + 1]
        /\ UNCHANGED req
  BY DEF CreateDrawing
<1>2. s \in Categories
  BY CategoriesAssumption DEF SchemeFor
<1>3. /\ Candidate(s, k) \in Numbers
      /\ \A w \in DOMAIN vehicles : vehicles[w] # Candidate(s, k)
  BY <1>1, <1>2, DrawFacts DEF IInv
<1>4. schemes' \in [Categories -> Schemes]
  <2>1. schemes \in [Categories -> Schemes] /\ schemes[s] \in Schemes
    BY <1>2 DEF IInv, TypeOK
  <2>2. schemes[s].next + k + 1 \in 1 .. MaxNumber
    BY <1>1, <2>1, BoundsAssumption DEF Schemes
  <2>3. [schemes[s] EXCEPT !.next = schemes[s].next + k + 1] \in Schemes
    BY <2>1, <2>2 DEF Schemes
  <2> QED
    BY <1>1, <2>1, <2>3
<1>5. TypeOK'
  <2>1. /\ DOMAIN vehicles' \subseteq spent' /\ spent' \subseteq VehicleIds
        /\ \A w \in DOMAIN vehicles' : vehicles'[w] \in Numbers
        /\ DOMAIN history' = DOMAIN vehicles'
        /\ \A w \in DOMAIN history' : history'[w] \in HistoryRows
    BY <1>1, <1>3, CreatedTypes DEF IInv
  <2>2. drawn' \subseteq Numbers /\ req' \in [Requests -> Updates \cup {Idle}]
    BY <1>1, <1>3 DEF IInv, TypeOK
  <2> QED
    BY <1>4, <2>1, <2>2 DEF TypeOK
<1>6. NumbersUnique'
  BY <1>1, <1>3, CreatedUnique DEF IInv
<1> QED
  BY <1>5, <1>6 DEF IInv

(* A vehicle that is created with a typed number.                            *)
LEMMA TypedKeeps ==
  ASSUME IInv, NEW v \in VehicleIds, NEW number \in TypedNumbers,
         CreateTyped(v, number)
  PROVE  IInv'
<1>1. number \in Numbers
  BY InputsAssumption
<1>2. \A w \in DOMAIN vehicles : vehicles[w] # number
  BY IdsAssumption DEF CreateTyped, Available, IInv, TypeOK
<1>3. Created(v, number) /\ UNCHANGED <<schemes, drawn, req>>
  BY DEF CreateTyped
<1>4. /\ DOMAIN vehicles' \subseteq spent' /\ spent' \subseteq VehicleIds
      /\ \A w \in DOMAIN vehicles' : vehicles'[w] \in Numbers
      /\ DOMAIN history' = DOMAIN vehicles'
      /\ \A w \in DOMAIN history' : history'[w] \in HistoryRows
  BY <1>1, <1>3, CreatedTypes DEF IInv
<1>5. TypeOK'
  BY <1>3, <1>4 DEF IInv, TypeOK
<1>6. NumbersUnique'
  BY <1>2, <1>3, CreatedUnique DEF IInv
<1> QED
  BY <1>5, <1>6 DEF IInv

(* The read of an update.                                                    *)
LEMMA BeginKeeps ==
  ASSUME IInv, NEW r \in Requests, NEW v \in VehicleIds,
         NEW number \in TypedNumbers \cup {NoNumber}, BeginUpdate(r, v, number)
  PROVE  IInv'
<1> DEFINE q == [vehicle |-> v, existing |-> vehicles[v],
                 number |-> IF number = NoNumber THEN vehicles[v] ELSE number]
<1>1. vehicles[v] \in Numbers /\ req' = [req EXCEPT ![r] = q]
  BY DEF BeginUpdate, IInv, TypeOK
<1>2. q \in Updates
  BY <1>1, InputsAssumption DEF Updates
<1>3. req' \in [Requests -> Updates \cup {Idle}]
  <2> HIDE DEF q
  <2> QED
    BY <1>1, <1>2 DEF IInv, TypeOK
<1>4. UNCHANGED <<schemes, vehicles, history, spent, drawn>>
  BY DEF BeginUpdate
<1> QED
  BY <1>3, <1>4 DEF IInv, TypeOK, NumbersUnique

(* The transaction of an update.                                             *)
LEMMA UpdateKeeps ==
  ASSUME IInv, NEW r \in Requests, Update(r)
  PROVE  IInv'
<1> DEFINE v == req[r].vehicle
           number == req[r].number
<1>1. /\ v \in DOMAIN vehicles
      /\ \A w \in DOMAIN vehicles \ {v} : vehicles[w] # number
      /\ vehicles' = [vehicles EXCEPT ![v] = number]
      /\ history' = IF number # req[r].existing
                      THEN [history EXCEPT ![v] = [old |-> req[r].existing,
                                                   new |-> number]]
                      ELSE history
      /\ req' = [req EXCEPT ![r] = Idle]
      /\ UNCHANGED <<schemes, spent, drawn>>
  BY DEF Update, Available
<1>2. req[r] \in Updates
  <2>1. req[r] \in Updates \cup {Idle}
    BY DEF IInv, TypeOK
  <2>2. v # NoVehicle
    BY <1>1, IdsAssumption DEF IInv, TypeOK
  <2> QED
    BY <2>1, <2>2 DEF Idle
<1>3. number \in Numbers /\ req[r].existing \in Numbers
  BY <1>2 DEF Updates
<1>4. [old |-> req[r].existing, new |-> number] \in HistoryRows
  BY <1>3 DEF HistoryRows
<1> HIDE DEF v, number
<1>5. DOMAIN vehicles' = DOMAIN vehicles /\ DOMAIN history' = DOMAIN history
  BY <1>1
<1>6. \A w \in DOMAIN vehicles' : vehicles'[w] \in Numbers
  BY <1>1, <1>3 DEF IInv, TypeOK
<1>7. \A w \in DOMAIN history' : history'[w] \in HistoryRows
  BY <1>1, <1>4 DEF IInv, TypeOK
<1>8. TypeOK'
  BY <1>1, <1>5, <1>6, <1>7 DEF IInv, TypeOK
<1>9. NumbersUnique'
  BY <1>1, <1>5 DEF IInv, NumbersUnique
<1> QED
  BY <1>8, <1>9 DEF IInv

(* Every step keeps the invariant.                                           *)
LEMMA StepInvariant == IInv /\ [Next]_vars => IInv'
<1> SUFFICES ASSUME IInv, [Next]_vars PROVE IInv'
  OBVIOUS
<1>1. ASSUME NEW c \in Categories, NEW input \in SchemeInputs, UpdateScheme(c, input)
      PROVE  IInv'
  <2>1. input \in Schemes
    BY InputsAssumption
  <2>2. schemes' \in [Categories -> Schemes]
    BY <1>1, <2>1 DEF UpdateScheme, IInv, TypeOK
  <2> QED
    BY <1>1, <2>2 DEF UpdateScheme, IInv, TypeOK, NumbersUnique
<1>2. ASSUME NEW r \in Requests, UpdateFails(r)
      PROVE  IInv'
  BY <1>2 DEF UpdateFails, IInv, TypeOK, NumbersUnique
<1>3. ASSUME NEW v \in VehicleIds, Delete(v)
      PROVE  IInv'
  BY <1>3 DEF Delete, Without, IInv, TypeOK, NumbersUnique
<1>4. CASE UNCHANGED vars
  BY <1>4 DEF vars, IInv, TypeOK, NumbersUnique
<1> QED
  BY <1>1, <1>2, <1>3, <1>4, DrawingKeeps, TypedKeeps, BeginKeeps, UpdateKeeps
  DEF Next

(* The invariant holds in every state.                                       *)
THEOREM Invariant == Spec => []IInv
BY InitInvariant, StepInvariant, PTL DEF Spec

(* Tables and updates keep their types: a scheme never stands below 1 and    *)
(* every vehicle has a number.                                               *)
THEOREM TypeCorrect == Spec => []TypeOK
<1>1. IInv => TypeOK
  BY DEF IInv
<1> QED
  BY <1>1, Invariant, PTL

(* No two vehicles have the same number, however creates, updates, deletes   *)
(* and edits of the schemes interleave (vehicles.go:364, 1914).              *)
THEOREM NumbersAreUnique == Spec => []NumbersUnique
<1>1. IInv => NumbersUnique
  BY DEF IInv
<1> QED
  BY <1>1, Invariant, PTL

----------------------------------------------------------------------------
(* Drawn numbers.                                                            *)

(* What a scheme prints next lies beyond every number drawn with its prefix, *)
(* as long as the prefixes differ.                                           *)
Behind ==
  OwnPrefixes => \A d \in drawn, c \in Categories :
                    schemes[c].prefix = d.prefix => d.n < schemes[c].next

(* A draw takes a number that is not among the drawn ones, and moves the     *)
(* scheme past it.                                                           *)
LEMMA DrawsNew ==
  ASSUME TypeOK, Behind, NEW v \in VehicleIds, NEW c \in Categories, CreateDrawing(v, c)
  PROVE  /\ Behind' /\ OwnPrefixes' = OwnPrefixes
         /\ \E number \in Numbers :
              /\ Created(v, number) /\ drawn' = drawn \cup {number}
              /\ \A w \in DOMAIN vehicles : vehicles[w] # number
              /\ OwnPrefixes => number \notin drawn
<1>1. PICK s \in SchemeFor(c), k \in 0 .. MaxNumber :
        /\ schemes[s].next + k < MaxNumber
        /\ Draws(s, k)
        /\ Created(v, Candidate(s, k))
        /\ drawn' = drawn \cup {Candidate(s, k)}
        /\ schemes' = [schemes EXCEPT ![s].next = @ + k + 1]
  BY DEF CreateDrawing
<1>2. s \in Categories /\ k \in Nat
  BY CategoriesAssumption, BoundsAssumption DEF SchemeFor
<1>3. /\ Candidate(s, k) \in Numbers
      /\ \A w \in DOMAIN vehicles : vehicles[w] # Candidate(s, k)
  BY <1>1, <1>2, DrawFacts
<1>4. \A a \in Categories : schemes[a] \in Schemes /\ schemes[a].next \in Nat
  BY BoundsAssumption DEF TypeOK, Schemes
<1>5. /\ Candidate(s, k).prefix = schemes[s].prefix
      /\ Candidate(s, k).n = schemes[s].next + k
  BY DEF Candidate, Format
<1>6. /\ \A a \in Categories : schemes'[a].prefix = schemes[a].prefix
      /\ \A a \in Categories \ {s} : schemes'[a].next = schemes[a].next
      /\ schemes'[s].next = schemes[s].next + k + 1
  BY <1>1, <1>2, <1>4 DEF TypeOK, Schemes
<1>7. OwnPrefixes' = OwnPrefixes
  BY <1>6 DEF OwnPrefixes
<1>8. \A d \in drawn : d.n \in Nat
  BY BoundsAssumption DEF TypeOK, Numbers
<1>9. OwnPrefixes => Candidate(s, k) \notin drawn
  BY <1>2, <1>4, <1>5, <1>8 DEF Behind
<1>10. Behind'
  <2> SUFFICES ASSUME OwnPrefixes, NEW d \in drawn', NEW a \in Categories,
                      schemes[a].prefix = d.prefix
               PROVE  d.n < schemes'[a].next
    BY <1>6, <1>7 DEF Behind
  <2>1. CASE d = Candidate(s, k)
    <3>1. a = s
      BY <2>1, <1>2, <1>5 DEF OwnPrefixes
    <3> QED
      BY <2>1, <3>1, <1>2, <1>4, <1>5, <1>6
  <2>2. CASE d \in drawn
    <3>1. d.n < schemes[a].next
      BY <2>2 DEF Behind
    <3> QED
      BY <2>2, <3>1, <1>2, <1>4, <1>6, <1>8
  <2> QED
    BY <1>1, <2>1, <2>2
<1> QED
  BY <1>1, <1>3, <1>7, <1>9, <1>10

(* Nothing else draws, and only an admin moves a scheme.                     *)
LEMMA BehindStep == IInv /\ Behind /\ [Next]_vars => Behind'
<1> SUFFICES ASSUME IInv, Behind, [Next]_vars PROVE Behind'
  OBVIOUS
<1>1. ASSUME NEW c \in Categories, NEW input \in SchemeInputs, UpdateScheme(c, input)
      PROVE  Behind'
  BY <1>1 DEF UpdateScheme, Behind
<1>2. ASSUME NEW v \in VehicleIds, NEW c \in Categories, CreateDrawing(v, c)
      PROVE  Behind'
  BY <1>2, DrawsNew DEF IInv
<1>3. CASE UNCHANGED <<schemes, drawn>>
  BY <1>3 DEF Behind, OwnPrefixes
<1> QED
  BY <1>1, <1>2, <1>3
  DEF Next, CreateTyped, BeginUpdate, Update, UpdateFails, Delete, vars

(* Both invariants in every state.                                           *)
LEMMA Behinds == Spec => [](IInv /\ Behind)
<1>1. Init => Behind
  BY DEF Init, Behind
<1> QED
  BY <1>1, InitInvariant, StepInvariant, BehindStep, PTL DEF Spec

----------------------------------------------------------------------------
(* The book of numbers.                                                      *)

(* A created vehicle is written into the book.                               *)
LEMMA CreatedWrites ==
  ASSUME TypeOK, NEW v \in VehicleIds, NEW number \in Numbers, Created(v, number),
         \A w \in DOMAIN vehicles : vehicles[w] # number
  PROVE  Book!New(v) /\ Book!Write(v) /\ vehicles'[v] = number
<1>1. /\ v \notin spent /\ spent' = spent \cup {v}
      /\ vehicles' = [x \in DOMAIN vehicles \cup {v} |-> IF x = v THEN number ELSE vehicles[x]]
  BY DEF Created, With
<1>2. v \notin DOMAIN vehicles
  BY <1>1 DEF TypeOK
<1>3. spent' \ DOMAIN vehicles' = spent \ DOMAIN vehicles
  BY <1>1, <1>2
<1> QED
  BY <1>1, <1>2, <1>3 DEF Book!New, Book!Write

(* Every step is a step of the book, or none.                                *)
LEMMA BookStep == IInv /\ Behind /\ [Next]_vars => [Book!Next]_(Book!bookVars)
<1> SUFFICES ASSUME IInv, Behind, [Next]_vars PROVE [Book!Next]_(Book!bookVars)
  OBVIOUS
<1> DEFINE issued == IF OwnPrefixes THEN drawn ELSE {}
<1>1. ASSUME NEW c \in Categories, NEW input \in SchemeInputs, UpdateScheme(c, input)
      PROVE  Book!Next
  BY <1>1 DEF UpdateScheme, Book!Next, Book!Reopen
<1>2. ASSUME NEW v \in VehicleIds, NEW c \in Categories, CreateDrawing(v, c)
      PROVE  Book!Next
  <2>1. OwnPrefixes' = OwnPrefixes
    BY <1>2, DrawsNew DEF IInv
  <2>2. PICK number \in Numbers :
          /\ Created(v, number) /\ drawn' = drawn \cup {number}
          /\ \A w \in DOMAIN vehicles : vehicles[w] # number
          /\ OwnPrefixes => number \notin drawn
    BY <1>2, DrawsNew DEF IInv
  <2>3. Book!New(v) /\ Book!Write(v) /\ vehicles'[v] = number
    BY <2>2, CreatedWrites DEF IInv
  <2>4. CASE OwnPrefixes
    BY <2>1, <2>2, <2>3, <2>4 DEF Book!Next, Book!Issue
  <2>5. CASE ~OwnPrefixes
    BY <2>1, <2>3, <2>5 DEF Book!Next, Book!Enter
  <2> QED
    BY <2>4, <2>5
<1>3. ASSUME NEW v \in VehicleIds, NEW number \in TypedNumbers, CreateTyped(v, number)
      PROVE  Book!Next
  <2>1. number \in Numbers /\ \A w \in DOMAIN vehicles : vehicles[w] # number
    BY <1>3, InputsAssumption, IdsAssumption DEF CreateTyped, Available, IInv, TypeOK
  <2>2. Created(v, number) /\ UNCHANGED <<schemes, drawn>>
    BY <1>3 DEF CreateTyped
  <2>3. Book!New(v) /\ Book!Write(v)
    BY <2>1, <2>2, CreatedWrites DEF IInv
  <2> QED
    BY <2>2, <2>3 DEF Book!Next, Book!Enter, OwnPrefixes
<1>4. ASSUME NEW r \in Requests, Update(r)
      PROVE  Book!Next
  <2> DEFINE v == req[r].vehicle
             number == req[r].number
  <2>1. /\ v \in DOMAIN vehicles
        /\ \A w \in DOMAIN vehicles \ {v} : vehicles[w] # number
        /\ vehicles' = [vehicles EXCEPT ![v] = number]
        /\ UNCHANGED <<schemes, spent, drawn>>
    BY <1>4 DEF Update, Available
  <2>2. v \in VehicleIds
    BY <2>1 DEF IInv, TypeOK
  <2>3. number \in Numbers
    <3>1. req[r] \in Updates \cup {Idle} /\ v # NoVehicle
      BY <2>2, IdsAssumption DEF IInv, TypeOK
    <3> QED
      BY <3>1 DEF Idle, Updates
  <2> HIDE DEF v, number
  <2>4. Book!Change(v)
    BY <2>1, <2>3 DEF Book!Change, Book!Write, OwnPrefixes
  <2> QED
    BY <2>2, <2>4 DEF Book!Next
<1>5. ASSUME NEW v \in VehicleIds, Delete(v)
      PROVE  Book!Next
  <2>1. /\ v \in DOMAIN vehicles /\ DOMAIN vehicles \subseteq spent
        /\ vehicles' = [w \in DOMAIN vehicles \ {v} |-> vehicles[w]]
        /\ UNCHANGED <<schemes, spent, drawn>>
    BY <1>5 DEF Delete, Without, IInv, TypeOK
  <2>2. spent' \ DOMAIN vehicles' = (spent \ DOMAIN vehicles) \cup {v}
    BY <2>1
  <2>3. Book!Strike(v)
    BY <2>1, <2>2 DEF Book!Strike, OwnPrefixes
  <2> QED
    BY <2>3 DEF Book!Next
<1>6. CASE UNCHANGED <<schemes, vehicles, spent, drawn>>
  BY <1>6 DEF Book!bookVars, OwnPrefixes
<1> QED
  BY <1>1, <1>2, <1>3, <1>4, <1>5, <1>6 DEF Next, BeginUpdate, UpdateFails, vars

(* Schemes, draws and updates implement the book of numbers: no number       *)
(* stands twice, a deleted vehicle never returns, and a number issued by the *)
(* program is new (vehicles.go:1914).                                        *)
THEOREM BookKept == Spec => KeepsTheBook
<1>1. Init => Book!Init
  BY DEF Init, NoRows, Book!Init
<1> QED
  BY <1>1, Behinds, BookStep, PTL DEF Spec, KeepsTheBook, Book!Spec

(* No number is drawn twice before an admin changes a scheme, even when its  *)
(* vehicle was deleted (vehicles.go:1925).                                   *)
THEOREM NoneDrawnTwice == Spec => NeverDrawnTwice
<1> DEFINE A == OwnPrefixes /\ schemes' # schemes =>
                  \A v \in DOMAIN vehicles' \ DOMAIN vehicles : vehicles'[v] \notin drawn
<1>1. IInv /\ Behind /\ [Next]_vars => [A]_vars
  <2> SUFFICES ASSUME IInv, Behind, Next, OwnPrefixes, schemes' # schemes,
                      NEW v \in DOMAIN vehicles' \ DOMAIN vehicles
               PROVE  vehicles'[v] \notin drawn
    BY DEF vars
  <2>1. CASE UNCHANGED vehicles
    BY <2>1
  <2>2. ASSUME NEW w \in VehicleIds, NEW c \in Categories, CreateDrawing(w, c)
        PROVE  vehicles'[v] \notin drawn
    <3>1. PICK number \in Numbers : Created(w, number) /\ number \notin drawn
      BY <2>2, DrawsNew DEF IInv
    <3> QED
      BY <3>1 DEF Created, With
  <2> QED
    BY <2>1, <2>2 DEF Next, UpdateScheme, CreateTyped, BeginUpdate, Update, UpdateFails, Delete
<1> QED
  BY <1>1, Behinds, PTL DEF Spec, NeverDrawnTwice

----------------------------------------------------------------------------
(* The history of the numbers, as long as updates come one at a time.        *)

(* The history of a vehicle ends with its number, and an update still knows  *)
(* the number of its vehicle, whose id is not given out again.               *)
HistoryKept ==
  /\ HistoryEndsWithNumber
  /\ \A r \in Requests : req[r] # Idle =>
        /\ req[r].vehicle \in spent
        /\ req[r].vehicle \in DOMAIN vehicles => req[r].existing = vehicles[req[r].vehicle]

OneAtATime ==
  \A r, s \in Requests : req[r] # Idle /\ req[s] # Idle => r = s

InTurn == overlapped \in BOOLEAN /\ (~overlapped => OneAtATime /\ HistoryKept)

(* Of finitely many requests, no two are under way.                          *)
LEMMA AtMostOne ==
  ASSUME NEW S, S \subseteq Requests, ~(Cardinality(S) > 1), NEW r \in S, NEW s \in S
  PROVE  r = s
<1>1. IsFiniteSet(S)
  BY RequestsAssumption, FS_Subset
<1>2. Cardinality(S) \in Nat /\ Cardinality(S) # 0
  BY <1>1, FS_CardinalityType, FS_EmptySet
<1>3. Cardinality(S) = 1
  BY <1>2
<1>4. PICK x : S = {x}
  BY <1>1, <1>3, FS_Singleton
<1> QED
  BY <1>4

LEMMA StaysInTurn ==
  ASSUME MCNext, InTurn, ~overlapped'
  PROVE  ~overlapped /\ OneAtATime /\ OneAtATime' /\ HistoryKept
<1>1. ~overlapped /\ ~(Cardinality(Busy') > 1)
  BY DEF MCNext, InTurn
<1>2. ASSUME NEW r \in Requests, NEW s \in Requests, req'[r] # Idle, req'[s] # Idle
      PROVE  r = s
  <2>1. Busy' \subseteq Requests /\ r \in Busy' /\ s \in Busy'
    BY <1>2 DEF Busy
  <2> HIDE DEF Busy
  <2> QED
    BY <1>1, <2>1, AtMostOne
<1> QED
  BY <1>1, <1>2 DEF InTurn, OneAtATime

(* A new vehicle starts a history of its own.                                *)
LEMMA CreatedHistory ==
  ASSUME TypeOK, HistoryKept, NEW v \in VehicleIds, NEW number, Created(v, number), req' = req
  PROVE  HistoryKept' /\ HistoryContinues
<1>1. /\ v \notin spent /\ v \notin DOMAIN vehicles /\ v \notin DOMAIN history
      /\ spent' = spent \cup {v}
      /\ DOMAIN vehicles' = DOMAIN vehicles \cup {v} /\ vehicles'[v] = number
      /\ \A w \in DOMAIN vehicles : vehicles'[w] = vehicles[w]
      /\ history'[v].new = number
      /\ \A w \in DOMAIN history : history'[w] = history[w]
      /\ DOMAIN history = DOMAIN vehicles
  BY DEF Created, With, TypeOK
<1>2. HistoryEndsWithNumber'
  BY <1>1 DEF HistoryKept, HistoryEndsWithNumber
<1>3. ASSUME NEW r \in Requests, req'[r] # Idle
      PROVE  /\ req'[r].vehicle \in spent'
             /\ req'[r].vehicle \in DOMAIN vehicles' =>
                   req'[r].existing = vehicles'[req'[r].vehicle]
  BY <1>1, <1>3 DEF HistoryKept
<1> QED
  BY <1>1, <1>2, <1>3 DEF HistoryKept, HistoryContinues

(* The transaction of the only update.                                       *)
LEMMA UpdateHistory ==
  ASSUME TypeOK, OneAtATime, HistoryKept, NEW r \in Requests, Update(r)
  PROVE  HistoryKept' /\ HistoryContinues
<1> DEFINE v == req[r].vehicle
           number == req[r].number
<1>1. /\ v \in DOMAIN vehicles
      /\ vehicles' = [vehicles EXCEPT ![v] = number]
      /\ history' = IF number # req[r].existing
                      THEN [history EXCEPT ![v] = [old |-> req[r].existing, new |-> number]]
                      ELSE history
      /\ req' = [req EXCEPT ![r] = Idle]
  BY DEF Update
<1>2. req[r] # Idle
  BY <1>1, IdsAssumption DEF TypeOK, Idle
<1>3. req[r].existing = vehicles[v]
  BY <1>1, <1>2 DEF HistoryKept
<1>4. \A s \in Requests : req'[s] = Idle
  BY <1>1, <1>2 DEF OneAtATime, TypeOK
<1> HIDE DEF v, number
<1>5. DOMAIN history = DOMAIN vehicles
  BY DEF TypeOK
<1>6. ASSUME NEW w \in DOMAIN vehicles' PROVE history'[w].new = vehicles'[w]
  <2>1. w \in DOMAIN vehicles /\ history[w].new = vehicles[w]
    BY <1>1 DEF HistoryKept, HistoryEndsWithNumber
  <2>2. CASE w = v
    BY <1>1, <1>3, <1>5, <2>1, <2>2
  <2>3. CASE w # v
    BY <1>1, <1>5, <2>1, <2>3
  <2> QED
    BY <2>2, <2>3
<1>7. ASSUME NEW w \in DOMAIN history, history'[w] # history[w]
      PROVE  history'[w].old = vehicles[w]
  <2>1. w = v /\ history'[w] = [old |-> req[r].existing, new |-> number]
    BY <1>1, <1>5, <1>7
  <2> QED
    BY <1>3, <2>1
<1> QED
  BY <1>4, <1>6, <1>7 DEF HistoryKept, HistoryEndsWithNumber, HistoryContinues

LEMMA HistoryStep ==
  ASSUME TypeOK, OneAtATime, HistoryKept, Next
  PROVE  HistoryKept' /\ HistoryContinues
<1>1. ASSUME NEW c \in Categories, NEW input \in SchemeInputs, UpdateScheme(c, input)
      PROVE  HistoryKept' /\ HistoryContinues
  BY <1>1 DEF UpdateScheme, HistoryKept, HistoryEndsWithNumber, HistoryContinues
<1>2. ASSUME NEW v \in VehicleIds, NEW c \in Categories, CreateDrawing(v, c)
      PROVE  HistoryKept' /\ HistoryContinues
  BY <1>2, CreatedHistory DEF CreateDrawing
<1>3. ASSUME NEW v \in VehicleIds, NEW number \in TypedNumbers, CreateTyped(v, number)
      PROVE  HistoryKept' /\ HistoryContinues
  BY <1>3, CreatedHistory DEF CreateTyped
<1>4. ASSUME NEW r \in Requests, NEW v \in VehicleIds, NEW number \in TypedNumbers \cup {NoNumber},
             BeginUpdate(r, v, number)
      PROVE  HistoryKept' /\ HistoryContinues
  <2> DEFINE q == [vehicle |-> v, existing |-> vehicles[v],
                   number |-> IF number = NoNumber THEN vehicles[v] ELSE number]
  <2>1. q.vehicle = v /\ q.existing = vehicles[v]
    OBVIOUS
  <2>2. req' = [req EXCEPT ![r] = q] /\ v \in DOMAIN vehicles
        /\ UNCHANGED <<vehicles, history, spent>>
    BY <1>4 DEF BeginUpdate
  <2> HIDE DEF q
  <2> QED
    BY <2>1, <2>2 DEF HistoryKept, HistoryEndsWithNumber, HistoryContinues, TypeOK
<1>5. ASSUME NEW r \in Requests, UpdateFails(r)
      PROVE  HistoryKept' /\ HistoryContinues
  BY <1>5 DEF UpdateFails, HistoryKept, HistoryEndsWithNumber, HistoryContinues, TypeOK
<1>6. ASSUME NEW v \in VehicleIds, Delete(v)
      PROVE  HistoryKept' /\ HistoryContinues
  BY <1>6 DEF Delete, Without, HistoryKept, HistoryEndsWithNumber, HistoryContinues, TypeOK
<1> QED
  BY <1>1, <1>2, <1>3, <1>4, <1>5, <1>6, UpdateHistory DEF Next

LEMMA InTurnStep ==
  TypeOK /\ InTurn /\ [MCNext]_<<vars, overlapped>>
    => InTurn' /\ [~overlapped' => HistoryContinues]_vars
<1> SUFFICES ASSUME TypeOK, InTurn, [MCNext]_<<vars, overlapped>>
             PROVE  InTurn' /\ [~overlapped' => HistoryContinues]_vars
  OBVIOUS
<1>1. CASE UNCHANGED <<vars, overlapped>>
  BY <1>1 DEF vars, InTurn, OneAtATime, HistoryKept, HistoryEndsWithNumber
<1>2. CASE MCNext
  <2>1. overlapped' \in BOOLEAN
    BY <1>2 DEF MCNext
  <2>2. ASSUME ~overlapped' PROVE OneAtATime' /\ HistoryKept' /\ HistoryContinues
    <3>1. OneAtATime /\ OneAtATime' /\ HistoryKept
      BY <1>2, <2>2, StaysInTurn
    <3> QED
      BY <1>2, <3>1, HistoryStep DEF MCNext
  <2> QED
    BY <2>1, <2>2 DEF InTurn
<1> QED
  BY <1>1, <1>2

(* Where one update is handled at a time, the history of a vehicle ends with *)
(* the number it has, and each row starts from the number the vehicle had    *)
(* (vehicles.go:396, vehicles_test.go:                                       *)
(* TestUpdateVehicleRecordsInventoryNumberHistory).                          *)
THEOREM HistoryIsKept == MCSpec => HistoryFollowsInTurn
<1>1. MCSpec => Spec
  <2>1. MCInit => Init
    BY DEF MCInit
  <2>2. [MCNext]_<<vars, overlapped>> => [Next]_vars
    BY DEF MCNext, vars
  <2> QED
    BY <2>1, <2>2, PTL DEF MCSpec, Spec
<1>2. MCInit => InTurn
  BY DEF MCInit, Init, NoRows, InTurn, OneAtATime, HistoryKept, HistoryEndsWithNumber
<1>3. InTurn => (~overlapped => HistoryEndsWithNumber)
  BY DEF InTurn, HistoryKept
<1> QED
  BY <1>1, <1>2, <1>3, TypeCorrect, InTurnStep, PTL DEF MCSpec, HistoryFollowsInTurn
=============================================================================
