SPECIFICATION Spec
CONSTANTS
    Calls = {c1}
    Logins = {l1, l2}
    Logouts = {o1}
    NoReq = NoReq
    MaxPair = 3
    Faults = {"network", "backend", "revoke"}
SYMMETRY Symmetry
INVARIANTS TypeOK ReplayRunsOnce DeadTokenExplained NeverReplaysRefreshToken
CHECK_DEADLOCK FALSE
