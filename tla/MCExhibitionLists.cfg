\* Two requests at a time; the process may stop at any point.
CONSTANTS
    ListIds = {a, b}
    EntryIds = {e, f}
    Requests = {r1, r2}
    Titles = {t}
    GivenOrders <- MCOrders
SPECIFICATION MCSpec
SYMMETRY MCSymmetry
INVARIANTS
    AuditMatchesLock
PROPERTIES
    OnlyOvertakenWritesAfterLock
    OnlyOvertakenWritesAfterDelete
    LockChangedBySetLocked
