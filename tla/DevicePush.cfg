SPECIFICATION Spec
SYMMETRY Symmetry
CONSTANTS
    User = {u1, u2}
    NoUser = NoUser
    Registration = {r1, r2}
    Push = {n1, n2}
    MaxLogins = 3
INVARIANTS TypeOK QuietAfterLogout SignedInIsServed
PROPERTIES TicketsDisableTheGone
CHECK_DEADLOCK FALSE
