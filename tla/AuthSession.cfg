SPECIFICATION Spec
CONSTANTS
    User = {u1}
    NoUser = NoUser
    Req = {q1, q2, q3, q4}
    AccessTTL = 1
    RefreshTTL = 2
    MaxTime = 2
    MaxVersion = 1
SYMMETRY Symmetry
INVARIANTS TypeOK RotationSingleUse RowsPostdateLogoutAll
PROPERTY RejectedStaysRejected
CHECK_DEADLOCK FALSE
