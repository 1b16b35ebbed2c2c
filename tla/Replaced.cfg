CONSTANTS
    Ids = {c1, c2}
    t1 = t1
    t2 = t2
    Threads = {t1}
    Clients <- MCClients
    Bundles <- MCBundles
    CallBound <- MCCallBound
    Scarce = FALSE
SPECIFICATION Spec
INVARIANT EveryPoolFreedAsMade
CHECK_DEADLOCK FALSE
