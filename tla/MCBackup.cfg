\* Two requests at a time; the process may stop at any point.
CONSTANTS
    VehicleIds = {v1}
    AttachmentIds = {a1}
    Files = {f1, f2}
    Requests = {r1, r2}
    MayStop = TRUE
SPECIFICATION MCSpec
PROPERTIES RestoreBringsBackInTurn ConnectionReturns
CHECK_DEADLOCK FALSE
