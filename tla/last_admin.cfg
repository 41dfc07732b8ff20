SPECIFICATION MembersSpec
CHECK_DEADLOCK FALSE
CONSTANTS
    People = {p1, p2}   Nobody = Nobody   Sessions = {s1}   ApiKeys = {k1}
    Codes = {t1}        AuthCalls = {c1}
    AppProcesses = {server, cli}
CONSTRAINT OneSetup
INVARIANT AdminAlwaysRemains
