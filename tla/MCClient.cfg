\* The session: two tabs, two users, two logins.  The exhibition page: two lists with two
\* entries each.  The settings: two types with an entry each, two files, one of them
\* compatible; two users; two number schemes.
CONSTANTS
    Tabs = {t1, t2}
    Users = {"erna", "max"}
    RolesOf <- RolesMC
    Hidden = {"importExport"}
    MaxSessions = 2
    MaxSteps = 5
    Lists = {l1, l2}
    Addresses = {a3, a4}
    Days = {"day1", "day2"}
    MaxEntries = 2
    MaxTurns = 3
    Types = {manufacturer, epoch}
    Keys = {k1}
    Files = {f1, f2}
    Compatible = {f1}
    MaxDataTurns = 6
    Self = "erna"
    MaxFormTurns = 5
    Categories = {c1, c2}
    MaxNext = 4
    MaxGeneralTurns = 4
SPECIFICATION Spec
INVARIANTS SessionTypes ReloadShowsSame ActsAsShown EntriesBelong AddressesUnique
INVARIANTS TableShowsStored OverwritesWhatWasShown FormsKeepUp
PROPERTIES PagesSettle
CHECK_DEADLOCK FALSE
