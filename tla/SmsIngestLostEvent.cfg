SPECIFICATION Spec
CONSTANTS
    Sms = {alert}
    Stamp = {1000}
    Call = {c1, c2, c3}
    NoKey = NoKey
    RegexParsed = {alert}
    UseAiParser = TRUE
    Bumps = {FALSE}
    Faults = {}
SYMMETRY Symmetry
INVARIANTS FinishedMeansAnnounced
CHECK_DEADLOCK FALSE
