SPECIFICATION Spec
CONSTANTS
    Sms = {alert, otp}
    Stamp = {999, 1000}
    Call = {c1, c2, c3}
    NoKey = NoKey
    RegexParsed = {alert}
    UseAiParser = TRUE
    Bumps = {TRUE, FALSE}
    Faults = {"database", "crash", "broker"}
SYMMETRY Symmetry
INVARIANTS TypeOK AtMostOneEvent TransactionHasLog
PROPERTY ImplementsLedger
CHECK_DEADLOCK FALSE
