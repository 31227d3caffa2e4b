\* Two threads of an application connect at once; the daemon is restarted
\* twice, between calls, and obituaries come late.
\* A client that called through the null proxy has crashed, and stops.
SPECIFICATION FairSpec
CONSTANTS
    Threads = {t1, t2}
    MaxTries = 5
    ThreadPool = TRUE
    MaxIncarnations = 3
    DeathDuringCalls = FALSE
INVARIANTS
    ProxyObserved
    NullOnlyAfterOutage
PROPERTIES
    Reconnects
CHECK_DEADLOCK FALSE
