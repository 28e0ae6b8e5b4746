SPECIFICATION Spec
CONSTANTS
    Req = {q1, q2, q3, q4}
    MaxPair = 3
    Faults = {"network", "backend", "revoke"}
SYMMETRY Symmetry
INVARIANTS TypeOK AnswerMatchesEffect
PROPERTY NoRollback
CHECK_DEADLOCK FALSE
