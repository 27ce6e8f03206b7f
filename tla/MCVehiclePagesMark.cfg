\* One vehicle with an image; the list takes or gives its mark.
CONSTANTS
    Texts = {"a"}
    ImageIds = {"i1", "i2", "s"}
    Suggested = {"s"}
    Linked = {"i1"}
    Parts = {"p"}
    FirstVehicle <- FirstMC
    MaxImages = 2
    MaxVehicles = 1
    MaxEdits = 2
    a = a
    b = b
    v1 = v1
    l1 = l1
    VehicleIds = {v1, v2}
    Values = {a, b}
    Lines = {1, 2}
    Files <- OneFile
    Locos = {l1}
    Address <- Addresses
    Stored <- OneVehicle
    OtherKeys = {"number"}
    MaxImportEdits = 2
    Profiles <- MCProfiles
    Folded <- MCFolded
    CVFiles <- MCFiles
    Probes <- MCProbes
    StoredFirst <- OneValue
    MaxId = 4
    MaxCVEdits = 3
    Tables <- MCTables
SPECIFICATION Spec
PROPERTIES MarksKeepImages
CHECK_DEADLOCK FALSE
