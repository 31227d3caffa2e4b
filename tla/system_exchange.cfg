\* Both daemons: the driver fails at any call, firmware downloads come and go,
\* callbacks are missing, p3 is not permitted, the TEE has just the room the
\* clients need, and no process dies.
SPECIFICATION SystemSpec
CONSTANTS
    t1 = t1  t2 = t2  t3 = t3  t4 = t4  p1 = p1  p2 = p2  p3 = p3
    NoThread = NoThread
    Pids = {p1, p2, p3}
    Threads = {t1, t2, t3, t4}
    PidOf <- TwoOneAndOne
    Permitted = {p1, p2}
    BindingReports = {"right", "none", "commError", "bindingError"}
    Notifiers = {"cb", "null"}
    DriverFaults = TRUE
    Downloads = TRUE
    ClientDeath = "never"
    DaemonDeath = FALSE
    eSEClient_Debug = FALSE
    Uids = {"other"}
    CardAnswers <- Answers
    BufferLen = 100
    TeecErrors <- OutOfMemory
    TaErrors = {5}
    MaxContexts = 3
    MaxSessions = 3
    MaxBlocks = 6
    TeeFaults = FALSE
INVARIANTS
    InUsePowered
    CountMatchesSessions
    ExchangePowered
    GrantedMeansAnswered
PROPERTIES
    LeaseSafety
