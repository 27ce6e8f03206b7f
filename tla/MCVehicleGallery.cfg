\* Two requests and a form on the images of a vehicle.
CONSTANTS
    VehicleIds = {v1}
    ImageIds = {i1, i2}
    MaintenanceIds = {m1}
    Files = {f1, f2}
    Requests = {r1, r2}
    Forms = {c1}
    MaxImages = 2
SPECIFICATION MCSpec
SYMMETRY Symmetry
INVARIANTS RowFilesExist FilesNotShared OnePrimaryInTurn
PROPERTIES ImagesKeepTheirFiles LinkedImagesStayInTurn
CHECK_DEADLOCK FALSE
