\* Client processes die at any time; the death handler runs without the mutex.
\* The system stops when all of them are dead.
SPECIFICATION Spec
CONSTANTS
    t1 = t1  t2 = t2  t3 = t3  t4 = t4  p1 = p1  p2 = p2  p3 = p3  p4 = p4
    NoThread = NoThread
    Pids = {p1, p2}
    Threads = {t1, t2, t3}
    PidOf <- TwoAndOne
    Permitted = {p1, p2}
    BindingReports = {"right", "bindingError"}
    Notifiers = {"cb", "null"}
    DriverFaults = TRUE
    Downloads = TRUE
    ClientDeath = "anytime"
    DaemonDeath = FALSE
    eSEClient_Debug = FALSE
INVARIANTS
    CountMatchesSessions
    NodeOpenWhileRegistered
    AssumedOff
PROPERTIES
    OnlyDeathHandlerCutsPower
CHECK_DEADLOCK FALSE
