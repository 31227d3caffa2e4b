\* getCplcTest with two threads beside the screen or a client.
\* The programs may come to their end, and the screen may rest for ever.
SPECIFICATION AppSpec
CONSTANTS
    t1 = t1  t2 = t2  t3 = t3  p1 = p1  p2 = p2
    NoThread = NoThread
    Pids = {p1, p2}
    Threads = {t1, t2, t3}
    PidOf <- TwoAndOne
    Programs <- TestAndOther
    Rounds = 2
    Permitted = {p1, p2}
    BindingReports = {"right", "none", "commError"}
    Notifiers = {"cb"}
    DriverFaults = FALSE
    Downloads = FALSE
    ClientDeath = "anytime"
    DaemonDeath = FALSE
    eSEClient_Debug = FALSE
INVARIANTS
    GoneMeansForgotten
    IdlePowerOnlyAfterAmid
PROPERTIES
    QuitPowersDown
    BadBindingEndsPowerUps
CHECK_DEADLOCK FALSE
