CONSTANTS
    Ids = {c1, c2}
    t1 = t1
    t2 = t2
    Threads = {t1, t2}
    Clients <- MCClients
    Bundles <- MCBundles
    CallBound <- MCCallBound
    Scarce = FALSE
SPECIFICATION Spec
INVARIANTS
    ListIsWhole
    PoolsFreedAsMade
PROPERTIES
    Implements
    CallsEnd
\* Threads may stop calling.
CHECK_DEADLOCK FALSE
