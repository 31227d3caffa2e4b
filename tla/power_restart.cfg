\* The daemon dies at any time and is restarted; killall is compiled in.
SPECIFICATION Spec
CONSTANTS
    t1 = t1  t2 = t2  t3 = t3  t4 = t4  p1 = p1  p2 = p2  p3 = p3  p4 = p4
    NoThread = NoThread
    Pids = {p1, p2}
    Threads = {t1, t2, t3}
    PidOf <- TwoAndOne
    Permitted = {p1, p2}
    BindingReports = {"right", "bindingError"}
    Notifiers = {"cb"}
    DriverFaults = TRUE
    Downloads = TRUE
    ClientDeath = "anytime"
    DaemonDeath = TRUE
    eSEClient_Debug = TRUE
INVARIANTS
    OnlyDeadMiscounted
    NoPhantomCount
    NodeOpenWhileRegistered
    AssumedOff
