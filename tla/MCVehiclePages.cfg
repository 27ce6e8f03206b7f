\* The dialog: one vehicle with an image at the start, another one made.  The import: a
\* file of two lines and one locomotive, one vehicle at the start.  CV values: one stored,
\* two files, two probes.
CONSTANTS
    Texts = {"a", "b"}
    ImageIds = {"i1", "i2", "i3", "s"}
    Suggested = {"s"}
    Linked = {"i1"}
    Parts = {"p"}
    FirstVehicle <- FirstMC
    MaxImages = 2
    MaxVehicles = 2
    MaxEdits = 4
    a = a
    b = b
    v1 = v1
    l1 = l1
    VehicleIds = {v1, v2}
    Values = {a, b}
    Lines = {1, 2}
    Files <- OneFile
    Locos = {l1}
    Address <- Addresses
    Stored <- OneVehicle
    OtherKeys = {"number"}
    MaxImportEdits = 2
    Profiles <- MCProfiles
    Folded <- MCFolded
    CVFiles <- MCFiles
    Probes <- MCProbes
    StoredFirst <- OneValue
    MaxId = 4
    MaxCVEdits = 3
    Tables <- MCTables
SPECIFICATION Spec
INVARIANTS TypesOK DialogShowsItsVehicle LoopKnowsWhatItStores ImportedAgainIsSame ReadsWhatWasWritten
PROPERTIES SavesKeepImages UpdatesKeepKnown SavedRowsAreStored ImportsAsShown PagesSettle
CHECK_DEADLOCK FALSE
