\* An update by a row leaves what the row does not bring: the fields that
\* vehicleToRequest does not copy are lost.
CONSTANTS
    Texts = {"a"}
    ImageIds = {"i1", "i2", "s"}
    Suggested = {"s"}
    Linked = {"i1"}
    Parts = {"p"}
    FirstVehicle <- FirstMC
    MaxImages = 2
    MaxVehicles = 1
    MaxEdits = 2
    a = a
    b = b
    v1 = v1
    l1 = l1
    VehicleIds = {v1, v2}
    Values = {a, b}
    Lines = {1, 2}
    Files <- OneFile
    Locos = {l1}
    Address <- Addresses
    Stored <- OneVehicle
    OtherKeys = {"number"}
    MaxImportEdits = 2
    Profiles <- MCProfiles
    Folded <- MCFolded
    CVFiles <- MCFiles
    Probes <- MCProbes
    StoredFirst <- OneValue
    MaxId = 4
    MaxCVEdits = 3
    Tables <- MCTables
SPECIFICATION Spec
PROPERTIES UpdatesKeepFields
CHECK_DEADLOCK FALSE
