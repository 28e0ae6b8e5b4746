SPECIFICATION Spec
CONSTANTS
    Tx = {t1, t2}
    Scan = {s1}
    Threshold = 2
    NameIsKey = FALSE
    NoSub = NoSub
    Faults = {"broker", "database", "cache", "crash"}
INVARIANTS TypeOK ToldAndCopiedOnce BranchesIndependent
PROPERTIES UserChoiceStands
CHECK_DEADLOCK FALSE
SYMMETRY Symmetry
