SPECIFICATION Spec
CONSTANTS
    Tx = {t1, t2}
    Viewer = {}
    Faults = {"ai", "database", "cache", "crash"}
INVARIANTS TypeOK DeckExplained
PROPERTIES ActedCardsKept
CHECK_DEADLOCK FALSE
