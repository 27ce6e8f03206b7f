\* A maintenance entry is deleted while an image is linked to it.
CONSTANTS
    VehicleIds = {v1}
    ImageIds = {i1}
    MaintenanceIds = {m1}
    Files = {f1}
    Requests = {r1}
    Forms = {}
    MaxImages = 12
SPECIFICATION MCSpec
INVARIANTS LinksValid
CHECK_DEADLOCK FALSE
