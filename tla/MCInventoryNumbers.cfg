\* Two updates at a time, schemes edited by an admin.
CONSTANTS
    VehicleIds = {v1, v2}
    Requests = {r1, r2}
    Categories = {"Fahrzeug", "Lokomotive"}
    SchemeInputs <- Edits
    TypedNumbers <- Typed
    MaxAttempts = 2
    MaxNumber = 11
SPECIFICATION MCSpec
SYMMETRY Symmetry
INVARIANTS NumbersUnique
PROPERTIES HistoryFollowsInTurn KeepsTheBook
CHECK_DEADLOCK FALSE
