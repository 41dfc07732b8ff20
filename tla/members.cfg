SPECIFICATION MembersSpec
CHECK_DEADLOCK FALSE
CONSTANTS
    People = {p1, p2}   Nobody = Nobody   Sessions = {s1}   ApiKeys = {k1}
    Codes = {t1}        AuthCalls = {c1, c2}
    AppProcesses = {server, cli}
CONSTRAINTS TwoUnderWay OneField NotStale
SYMMETRY MembersSymmetry
INVARIANTS
    MembersTypeOK LastAdminRemains SuspendedHasNothing CodesWorkOnce
