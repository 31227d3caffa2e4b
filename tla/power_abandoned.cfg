\* Single-threaded processes that die between two calls, and missing callbacks;
\* p4 is not permitted.
\* The system stops when all of them are dead.
SPECIFICATION FairSpec
CONSTANTS
    t1 = t1  t2 = t2  t3 = t3  t4 = t4  p1 = p1  p2 = p2  p3 = p3  p4 = p4
    NoThread = NoThread
    Pids = {p1, p2, p3, p4}
    Threads = {t1, t2, t3, t4}
    PidOf <- OneEach
    Permitted = {p1, p2, p3}
    BindingReports = {"right", "bindingError"}
    Notifiers = {"cb", "null"}
    DriverFaults = FALSE
    Downloads = FALSE
    ClientDeath = "betweenCalls"
    DaemonDeath = FALSE
    eSEClient_Debug = FALSE
INVARIANTS
    NoIdlePower
    RegisteredMeansInUse
PROPERTIES
    LeaseLiveness
    AbandonedPowersDown
CHECK_DEADLOCK FALSE
