\* Two requests, imports and restores of foreign documents.
CONSTANTS
    k1 = k1
    k2 = k2
    l1 = l1
    l2 = l2
    Keys = {k1, k2}
    g = g
    bad = bad
    x1 = x1
    x2 = x2
    GivenIds = {g}
    RelationIds = {x1, x2}
    Labels = {l1, l2, bad}
    Unreadable = {bad}
    Migrations <- MCMigrations
    Requests = {r1, r2}
    Seed <- MCSeed
    Imports <- MCImports
    Backups <- MCBackups
    MaxWrites = 2
SPECIFICATION Spec
SYMMETRY MCSymmetry
INVARIANTS
    StaleCacheHasCause
    StartFailsOnlyOnForeignDocuments
PROPERTIES
    OnlyWritesChangeRows
