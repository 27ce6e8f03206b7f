\* Two requests at a time.
CONSTANTS
    UserIds = {u1, u2}
    SessionIds = {s1, s2}
    ResetIds = {t1, t2}
    Requests = {r1, r2}
    Passwords = {p1, p2}
    RoleSets <- AdminOrMesse
SPECIFICATION MCSpec
SYMMETRY Symmetry
INVARIANT AdminRemains
PROPERTIES DeletedUsersStayOut NoSessionSurvivesPasswordChange ResetLinkWorksOnceInTurn
CHECK_DEADLOCK FALSE
