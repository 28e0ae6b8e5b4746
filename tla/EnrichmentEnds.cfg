SPECIFICATION FairSpec
CONSTANTS
    Tx = {t1}
    Viewer = {r1}
    Faults = {"ai", "database", "cache", "crash"}
PROPERTIES EnrichmentEnds
CHECK_DEADLOCK FALSE
