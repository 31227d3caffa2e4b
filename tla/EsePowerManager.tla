-------------------------- MODULE EsePowerManager --------------------------
(***************************************************************************)
(* The eSE power manager daemon (src/esepmdaemon): client processes share  *)
(* one embedded secure element, and the daemon powers it up for the first  *)
(* powerOn and down after the last powerOff.  Each client process has one  *)
(* entry in pidsMap counting the sessions of its threads, and a death      *)
(* notifier that erases the entry when the process dies.                   *)
(*                                                                         *)
(* BneSEPowerManager::onTransact serves a call under one static mutex; the *)
(* death handler, binderDied, runs in another binder thread WITHOUT it.    *)
(* The steps below are therefore cut where the handler can come between:   *)
(* at the driver calls and at each access to pidsMap that could find an    *)
(* entry gone.  operator[] then makes a new one, with a count of 0 and no  *)
(* notifier.                                                               *)
(***************************************************************************)
EXTENDS Integers, FiniteSets

CONSTANTS
    Pids,           \* client processes
    Threads,        \* their threads; a thread has one binder call in flight
    PidOf,          \* the process of each thread
    NoThread,       \* value of mutex when it is free
    Permitted,      \* processes whose uid is system, root or radio
    BindingReports, \* what the fingerprint CA may answer about the binding
    Notifiers,      \* what powerOn may be given as its callback
    DriverFaults,   \* may open, ioctl and close on the NFC node fail?
    Downloads,      \* may the NFC stack download firmware?
    ClientDeath,    \* when may a client process die?
    DaemonDeath,    \* when may the daemon die (it is restarted by init)?
    eSEClient_Debug \* is killall compiled in?

ASSUME ThreadsAssumption ==
    /\ IsFiniteSet(Threads)
    /\ NoThread \notin Threads
    /\ PidOf \in [Threads -> Pids]
ASSUME PolicyAssumption ==
    /\ Permitted \subseteq Pids
    /\ BindingReports \subseteq {"right", "none", "commError", "bindingError"}
    /\ Notifiers \subseteq {"cb", "null"}
ASSUME EnvironmentAssumption ==
    /\ DriverFaults \in BOOLEAN
    /\ Downloads \in BOOLEAN
    /\ ClientDeath \in {"never", "betweenCalls", "anytime"}
    /\ DaemonDeath \in BOOLEAN
    /\ eSEClient_Debug \in BOOLEAN

VARIABLES
    entries,        \* the processes that have an entry in pidsMap
    pidsMap,        \* client_threadCount of each process, 0 without an entry
    nq_node,        \* the NFC device node; "stale" after a failed close
    isFirstCalled,  \* static flag of isPowerOnAllowed
    mutex,          \* the thread whose call onTransact is serving
    pc,             \* where the call of each thread is
    watch,          \* the ClientDiedNotifier of each thread's latest powerOn
    session,        \* what each thread believes about its power session
    alive,          \* is the client process running?
    spi,            \* driver: P61_STATE_SPI, the element is powered for SPI
    dwnld           \* driver: P61_STATE_DWNLD

mapVars    == <<entries, pidsMap>>
daemonVars == <<mapVars, nq_node, isFirstCalled>>
callVars   == <<mutex, pc>>
clientVars == <<session, alive>>
driverVars == <<spi, dwnld>>
vars == <<daemonVars, callVars, watch, clientVars, driverVars>>

(* A call waits for the mutex, then is at one of the points of Serving.    *)
Waiting == {"waitOn", "waitOff", "waitKill"}
Serving == {"setPower", "link", "undo", "insert", "update", "recount",
            "offUnlink", "offCount", "offTest", "offKeep", "offErase",
            "offCheck", "offPower", "killPower"}

(* Where a powerOn has its local service_data, with the new notifier.      *)
LocalData == {"insert", "update", "recount"}

TypeOK ==
    /\ entries \subseteq Pids
    /\ pidsMap \in [Pids -> Int]
    /\ nq_node \in {"closed", "open", "stale"}
    /\ isFirstCalled \in BOOLEAN
    /\ mutex \in Threads \cup {NoThread}
    /\ pc \in [Threads -> {"idle"} \cup Waiting \cup Serving]
    /\ watch \in [Threads -> {"none", "linked", "erase", "check", "node", "off"}]
    /\ session \in [Threads -> {"none", "granted", "orphaned"}]
    /\ alive \in [Pids -> BOOLEAN]
    /\ spi \in BOOLEAN
    /\ dwnld \in BOOLEAN

isPidsMapEmpty == entries = {}
ThreadsOf(p)   == {t \in Threads : PidOf[t] = p}
Granted(p)     == {t \in ThreadsOf(p) : session[t] = "granted"}
InUse(t)       == session[t] = "granted"

Init ==
    /\ entries = {}
    /\ pidsMap = [p \in Pids |-> 0]
    /\ nq_node = "closed"
    /\ isFirstCalled = TRUE
    /\ mutex = NoThread
    /\ pc = [t \in Threads |-> "idle"]
    /\ watch = [t \in Threads |-> "none"]
    /\ session = [t \in Threads |-> "none"]
    /\ alive = [p \in Pids |-> TRUE]
    /\ spi = FALSE
    /\ dwnld = FALSE

-----------------------------------------------------------------------------
(* The driver.  A call on a descriptor that a failed close gave back to    *)
(* the kernel never reaches it.                                            *)

OpenNode  == nq_node' = IF nq_node = "closed" THEN "open" ELSE nq_node
OpenFails == DriverFaults /\ nq_node = "closed" /\ UNCHANGED nq_node
IoctlFails(node) == DriverFaults \/ node # "open"
CloseNode == nq_node' = "closed" \/ (DriverFaults /\ nq_node' = "stale")

-----------------------------------------------------------------------------
(* Client threads.  A thread pairs its powerOn with one powerOff; only the *)
(* command-line client, which is single-threaded, sends a powerOff that no *)
(* successful powerOn precedes.                                            *)

Goto(t, where) == pc' = [pc EXCEPT ![t] = where]

Call(t, call) ==
    /\ pc[t] = "idle"
    /\ alive[PidOf[t]]
    /\ \/ call = "waitOn"   /\ session[t] = "none"
       \/ call = "waitOff"  /\ (session[t] # "none" \/ ThreadsOf(PidOf[t]) = {t})
       \/ call = "waitKill" /\ eSEClient_Debug
    /\ Goto(t, call)
    /\ UNCHANGED <<daemonVars, mutex, watch, clientVars, driverVars>>

-----------------------------------------------------------------------------
(* Serving a call: onTransact locks the mutex on entry and its lock_guard  *)
(* frees it on every return path.                                          *)

Enter(t, call) == pc[t] = call /\ mutex = NoThread
Continue(t, where) == mutex' = t /\ Goto(t, where)
Reply(t) == mutex' = NoThread /\ Goto(t, "idle")

(* Mutant: an error of the communication with the CA is let pass.          *)
isPowerOnAllowedUnknown(report) == isFirstCalled \/ report # "bindingError"
isPowerOnAllowed(report) == isFirstCalled \/ report \in {"right", "none"}

(* powerOn refused on the binding status; the log of the refusal calls     *)
(* getState, which opens the node.                                         *)
PowerOnForbidden(t, report) ==
    /\ Enter(t, "waitOn")
    /\ ~isPowerOnAllowed(report)
    /\ OpenNode \/ OpenFails
    /\ Reply(t)
    /\ UNCHANGED <<mapVars, isFirstCalled, watch, clientVars, driverVars>>

PowerOnBadUid(t, report) ==
    /\ Enter(t, "waitOn")
    /\ isPowerOnAllowed(report)
    /\ PidOf[t] \notin Permitted
    /\ isFirstCalled' = FALSE
    /\ Reply(t)
    /\ UNCHANGED <<mapVars, nq_node, watch, clientVars, driverVars>>

(* open and P61_GET_SPM_STATUS.                                            *)
PowerOnQuery(t, report) ==
    /\ Enter(t, "waitOn")
    /\ isPowerOnAllowed(report)
    /\ PidOf[t] \in Permitted
    /\ isFirstCalled' = FALSE
    /\ \/ OpenFails /\ Reply(t)
       \/ /\ OpenNode
          /\ \/ IoctlFails(nq_node') /\ Reply(t)
             \/ /\ nq_node' = "open"
                /\ \/ spi /\ Continue(t, "link")
                   \/ ~spi /\ dwnld /\ Reply(t)
                   \/ ~spi /\ ~dwnld /\ Continue(t, "setPower")
    /\ UNCHANGED <<mapVars, watch, clientVars, driverVars>>

(* P61_SET_POWER_SCHEME, then P61_SET_SPM_PWR 1.                           *)
PowerOnSetPower(t) ==
    /\ pc[t] = "setPower"
    /\ \/ IoctlFails(nq_node) /\ Reply(t) /\ UNCHANGED spi
       \/ nq_node = "open" /\ spi' = TRUE /\ Continue(t, "link")
    /\ UNCHANGED <<daemonVars, watch, clientVars, dwnld>>

(* Mutants: the power is not taken back; or from others too; no obituary.  *)
PowerOnLinkNoUndo(t) ==
    /\ pc[t] = "link"
    /\ \/ "null" \in Notifiers /\ Reply(t) /\ UNCHANGED watch
       \/ /\ "cb" \in Notifiers
          /\ watch' = [watch EXCEPT ![t] = "linked"]
          /\ Continue(t, "insert")
    /\ UNCHANGED <<daemonVars, clientVars, driverVars>>
PowerOnLinkAlwaysUndo(t) ==
    /\ pc[t] = "link"
    /\ \/ "null" \in Notifiers /\ Continue(t, "undo") /\ UNCHANGED watch
       \/ /\ "cb" \in Notifiers
          /\ watch' = [watch EXCEPT ![t] = "linked"]
          /\ Continue(t, "insert")
    /\ UNCHANGED <<daemonVars, clientVars, driverVars>>
PowerOnLinkForgotten(t) ==
    /\ pc[t] = "link"
    /\ Continue(t, "insert")
    /\ UNCHANGED <<daemonVars, watch, clientVars, driverVars>>

(* A missing callback and a failed linkToDeath end the call; the latter    *)
(* leaves the power as it is.  linkToDeath fails on a dead process only.   *)
PowerOnLink(t) ==
    /\ pc[t] = "link"
    /\ \/ /\ "null" \in Notifiers
          /\ IF isPidsMapEmpty THEN Continue(t, "undo") ELSE Reply(t)
          /\ UNCHANGED watch
       \/ /\ "cb" \in Notifiers
          /\ ~alive[PidOf[t]]
          /\ Reply(t)
          /\ UNCHANGED watch
       \/ /\ "cb" \in Notifiers
          /\ watch' = [watch EXCEPT ![t] = "linked"]
          /\ Continue(t, "insert")
    /\ UNCHANGED <<daemonVars, clientVars, driverVars>>

(* Mutant: the node is closed whatever the ioctl answered.                 *)
PowerDownAlwaysCloses(t, point) ==
    /\ pc[t] = point
    /\ CloseNode
    /\ \/ IoctlFails(nq_node) /\ UNCHANGED spi
       \/ nq_node = "open" /\ spi' = FALSE
    /\ Reply(t)
    /\ UNCHANGED <<mapVars, isFirstCalled, watch, clientVars, dwnld>>

(* P61_SET_SPM_PWR 0 and close, for powerOn without a callback, powerOff   *)
(* and killall alike: a failed ioctl skips the close.                      *)
PowerDown(t, point) ==
    /\ pc[t] = point
    /\ \/ IoctlFails(nq_node) /\ UNCHANGED <<nq_node, spi>>
       \/ nq_node = "open" /\ spi' = FALSE /\ CloseNode
    /\ Reply(t)
    /\ UNCHANGED <<mapVars, isFirstCalled, watch, clientVars, dwnld>>

PowerOnUndo(t) == PowerDown(t, "undo")

-----------------------------------------------------------------------------
(* pidsMap.  An entry is made by insert, by operator[] if it is absent,    *)
(* and goes with erase.                                                    *)

Access(p) == entries' = entries \cup {p}
Count(p, n) == Access(p) /\ pidsMap' = [pidsMap EXCEPT ![p] = n]
Clear == entries' = {} /\ pidsMap' = [p \in Pids |-> 0]
Erase(p) == entries' = entries \ {p} /\ pidsMap' = [pidsMap EXCEPT ![p] = 0]

(* The notifiers of process p that pidsMap, and nothing else, keeps alive. *)
Kept(p) == {t \in ThreadsOf(p) : watch[t] = "linked" /\ pc[t] \notin LocalData}
Unlink(T) == watch' = [t \in Threads |-> IF t \in T THEN "none" ELSE watch[t]]

(* A client that is running gets the answer 1.                             *)
Granting(t) ==
    session' = IF alive[PidOf[t]] THEN [session EXCEPT ![t] = "granted"] ELSE session

(* Mutant: a second powerOn of a process replaces its entry.               *)
PowerOnInsertReplaces(t) ==
    /\ pc[t] = "insert"
    /\ Count(PidOf[t], 1)
    /\ Granting(t)
    /\ Reply(t)
    /\ UNCHANGED <<nq_node, isFirstCalled, watch, alive, driverVars>>

(* A process that has an entry keeps it, with its first notifier.          *)
PowerOnInsert(t) ==
    /\ pc[t] = "insert"
    /\ \/ /\ PidOf[t] \in entries
          /\ Continue(t, "update")
          /\ UNCHANGED <<mapVars, session>>
       \/ /\ PidOf[t] \notin entries
          /\ Count(PidOf[t], 1)
          /\ Granting(t)
          /\ Reply(t)
    /\ UNCHANGED <<nq_node, isFirstCalled, watch, alive, driverVars>>

PowerOnUpdate(t) ==
    /\ pc[t] = "update"
    /\ Count(PidOf[t], pidsMap[PidOf[t]] + 1)
    /\ Granting(t)
    /\ Continue(t, "recount")
    /\ UNCHANGED <<nq_node, isFirstCalled, watch, alive, driverVars>>

(* The count is read again for the log.  The new notifier dies with the    *)
(* local service_data, for the obituary holds it weakly.                   *)
PowerOnRecount(t) ==
    /\ pc[t] = "recount"
    /\ Access(PidOf[t])
    /\ Unlink({u \in {t} : watch[u] = "linked"})
    /\ Reply(t)
    /\ UNCHANGED <<pidsMap, nq_node, isFirstCalled, clientVars, driverVars>>

-----------------------------------------------------------------------------
PowerOffRefused(t) ==
    /\ Enter(t, "waitOff")
    /\ PidOf[t] \notin Permitted \/ PidOf[t] \notin entries
    /\ session' = [session EXCEPT ![t] = "none"]
    /\ Reply(t)
    /\ UNCHANGED <<daemonVars, watch, alive, driverVars>>

PowerOffEnter(t) ==
    /\ Enter(t, "waitOff")
    /\ PidOf[t] \in Permitted \cap entries
    /\ Continue(t, "offUnlink")
    /\ UNCHANGED <<daemonVars, watch, clientVars, driverVars>>

(* The first powerOff of a process unlinks its notifier, even when other   *)
(* threads of the process keep the entry.                                  *)
PowerOffUnlink(t) ==
    /\ pc[t] = "offUnlink"
    /\ Access(PidOf[t])
    /\ Unlink(Kept(PidOf[t]))
    /\ Continue(t, "offCount")
    /\ UNCHANGED <<pidsMap, nq_node, isFirstCalled, clientVars, driverVars>>

(* Mutant: the count is not decremented.                                   *)
PowerOffCountKeeps(t) ==
    /\ pc[t] = "offCount"
    /\ Access(PidOf[t])
    /\ session' = [session EXCEPT ![t] = "none"]
    /\ Continue(t, "offTest")
    /\ UNCHANGED <<pidsMap, nq_node, isFirstCalled, watch, alive, driverVars>>

(* If a handler has erased the entry meanwhile, the new one counts to -1.  *)
PowerOffCount(t) ==
    /\ pc[t] = "offCount"
    /\ Count(PidOf[t], pidsMap[PidOf[t]] - 1)
    /\ session' = [session EXCEPT ![t] = "none"]
    /\ Continue(t, "offTest")
    /\ UNCHANGED <<nq_node, isFirstCalled, watch, alive, driverVars>>

PowerOffTest(t) ==
    /\ pc[t] = "offTest"
    /\ Access(PidOf[t])
    /\ Continue(t, IF pidsMap[PidOf[t]] > 0 THEN "offKeep" ELSE "offErase")
    /\ UNCHANGED <<pidsMap, nq_node, isFirstCalled, watch, clientVars, driverVars>>

(* The log of the count reads it again: an entry that a handler has erased *)
(* meanwhile is back, with a count of 0, and stays.                        *)
PowerOffKeep(t) ==
    /\ pc[t] = "offKeep"
    /\ Access(PidOf[t])
    /\ Reply(t)
    /\ UNCHANGED <<pidsMap, nq_node, isFirstCalled, watch, clientVars, driverVars>>

(* Mutant: nobody looks whether the element is still in use.               *)
PowerOffEraseReturns(t) ==
    /\ pc[t] = "offErase"
    /\ Erase(PidOf[t])
    /\ Reply(t)
    /\ UNCHANGED <<nq_node, isFirstCalled, watch, clientVars, driverVars>>

PowerOffErase(t) ==
    /\ pc[t] = "offErase"
    /\ Erase(PidOf[t])
    /\ Continue(t, "offCheck")
    /\ UNCHANGED <<nq_node, isFirstCalled, watch, clientVars, driverVars>>

(* Mutant: the other processes of pidsMap are not asked about.             *)
PowerOffCheckSelfish(t) ==
    /\ pc[t] = "offCheck"
    /\ IF nq_node = "open" /\ ~dwnld THEN Continue(t, "offPower") ELSE Reply(t)
    /\ UNCHANGED <<daemonVars, watch, clientVars, driverVars>>

(* A failed P61_GET_SPM_STATUS leaves the local status at -1, every bit    *)
(* set, which reads as a download in progress.                             *)
PowerOffCheck(t) ==
    /\ pc[t] = "offCheck"
    /\ \/ /\ ~isPidsMapEmpty \/ nq_node = "closed" \/ dwnld \/ IoctlFails(nq_node)
          /\ Reply(t)
       \/ /\ isPidsMapEmpty /\ nq_node = "open" /\ ~dwnld
          /\ Continue(t, "offPower")
    /\ UNCHANGED <<daemonVars, watch, clientVars, driverVars>>

PowerOffPower(t) == PowerDown(t, "offPower")

(* getState of any client: served in one step, it may open the node.       *)
GetState ==
    /\ mutex = NoThread
    /\ nq_node = "closed"
    /\ OpenNode
    /\ UNCHANGED <<mapVars, isFirstCalled, callVars, watch, clientVars, driverVars>>

(* killall drops every session behind the back of its owner.               *)
Killall(t) ==
    /\ Enter(t, "waitKill")
    /\ \/ /\ PidOf[t] \notin Permitted
          /\ Reply(t)
          /\ UNCHANGED <<mapVars, nq_node, watch, session>>
       \/ /\ PidOf[t] \in Permitted
          /\ Clear
          /\ Unlink({u \in Threads : watch[u] = "linked"})
          /\ session' = [u \in Threads |-> IF InUse(u) THEN "orphaned" ELSE session[u]]
          /\ \/ OpenFails /\ Reply(t)
             \/ /\ OpenNode
                /\ \/ (dwnld \/ IoctlFails(nq_node')) /\ Reply(t)
                   \/ ~dwnld /\ nq_node' = "open" /\ Continue(t, "killPower")
    /\ UNCHANGED <<isFirstCalled, alive, driverVars>>

KillallPower(t) == PowerDown(t, "killPower")

-----------------------------------------------------------------------------
(* The death handler, one thread per obituary, without the mutex.  Once it *)
(* runs it has its notifier, and unlinkToDeath does not stop it.           *)

binderDiedEnter(t) ==
    /\ watch[t] = "linked"
    /\ ~alive[PidOf[t]]
    /\ watch' = [watch EXCEPT ![t] = "erase"]
    /\ UNCHANGED <<daemonVars, callVars, clientVars, driverVars>>

(* Mutant: pidsMap.clear() for pidsMap.erase(mPid).                        *)
binderDiedClear(t) ==
    /\ watch[t] = "erase"
    /\ Clear
    /\ watch' = [watch EXCEPT ![t] = "check"]
    /\ UNCHANGED <<nq_node, isFirstCalled, callVars, clientVars, driverVars>>

binderDiedErase(t) ==
    /\ watch[t] = "erase"
    /\ Erase(PidOf[t])
    /\ watch' = [u \in Threads |-> IF u = t THEN "check"
                                  ELSE IF u \in Kept(PidOf[t]) THEN "none"
                                  ELSE watch[u]]
    /\ UNCHANGED <<nq_node, isFirstCalled, callVars, clientVars, driverVars>>

binderDiedCheck(t) ==
    /\ watch[t] = "check"
    /\ watch' = [watch EXCEPT ![t] = IF isPidsMapEmpty THEN "node" ELSE "none"]
    /\ UNCHANGED <<daemonVars, callVars, clientVars, driverVars>>

binderDiedNode(t) ==
    /\ watch[t] = "node"
    /\ watch' = [watch EXCEPT ![t] = IF nq_node # "closed" THEN "off" ELSE "none"]
    /\ UNCHANGED <<daemonVars, callVars, clientVars, driverVars>>

(* Mutant: the handler closes the node as powerOff does.                   *)
binderDiedCloses(t) ==
    /\ watch[t] = "off"
    /\ nq_node = "open" /\ nq_node' = "closed" /\ spi' = FALSE
    /\ watch' = [watch EXCEPT ![t] = "none"]
    /\ UNCHANGED <<mapVars, isFirstCalled, callVars, clientVars, dwnld>>

(* No download check here, and no close.                                   *)
binderDiedPower(t) ==
    /\ watch[t] = "off"
    /\ \/ IoctlFails(nq_node) /\ UNCHANGED spi
       \/ nq_node = "open" /\ spi' = FALSE
    /\ watch' = [watch EXCEPT ![t] = "none"]
    /\ UNCHANGED <<daemonVars, callVars, clientVars, dwnld>>

-----------------------------------------------------------------------------
(* The environment.                                                        *)

ClientDies(p) ==
    /\ alive[p]
    /\ \/ ClientDeath = "anytime"
       \/ ClientDeath = "betweenCalls" /\ \A t \in ThreadsOf(p) : pc[t] = "idle"
    /\ alive' = [alive EXCEPT ![p] = FALSE]
    /\ session' = [t \in Threads |-> IF PidOf[t] = p THEN "none" ELSE session[t]]
    /\ UNCHANGED <<daemonVars, callVars, watch, driverVars>>

(* The daemon crashes and init restarts it.  A cause the code has itself:  *)
(* the handler touching the std::map while a served call does is a data    *)
(* race, taken here to have no effect or to crash; and powerOff calls      *)
(* through a null pointer if an entry goes amid its unlinkToDeath.  The    *)
(* node closes with the daemon; the driver keeps the power.  A thread that *)
(* was waiting for an answer gets DEAD_OBJECT: it has no session then,     *)
(* whichever call it was.                                                  *)
DaemonDies ==
    /\ DaemonDeath
    /\ Clear
    /\ nq_node' = "closed"
    /\ isFirstCalled' = TRUE
    /\ mutex' = NoThread
    /\ pc' = [t \in Threads |-> "idle"]
    /\ watch' = [t \in Threads |-> "none"]
    /\ session' = [t \in Threads |->
                     IF session[t] # "none" /\ pc[t] \notin
                            {"recount", "waitOff", "offUnlink", "offCount"}
                     THEN "orphaned" ELSE "none"]
    /\ UNCHANGED <<alive, driverVars>>

Download ==
    /\ Downloads
    /\ dwnld' = ~dwnld
    /\ UNCHANGED <<daemonVars, callVars, watch, clientVars, spi>>

-----------------------------------------------------------------------------
(* One of the reports is what the fingerprint CA answers if it is asked.    *)
Serve(t, reports) ==
    \/ \E report \in reports :
           PowerOnForbidden(t, report) \/ PowerOnBadUid(t, report) \/ PowerOnQuery(t, report)
    \/ PowerOnSetPower(t) \/ PowerOnLink(t) \/ PowerOnUndo(t)
    \/ PowerOnInsert(t) \/ PowerOnUpdate(t) \/ PowerOnRecount(t)
    \/ PowerOffRefused(t) \/ PowerOffEnter(t) \/ PowerOffUnlink(t) \/ PowerOffCount(t)
    \/ PowerOffTest(t) \/ PowerOffKeep(t) \/ PowerOffErase(t)
    \/ PowerOffCheck(t) \/ PowerOffPower(t)
    \/ Killall(t) \/ KillallPower(t)

binderDied(t) ==
    \/ binderDiedEnter(t) \/ binderDiedErase(t) \/ binderDiedCheck(t)
    \/ binderDiedNode(t) \/ binderDiedPower(t)

Next ==
    \/ \E t \in Threads : \/ \E call \in Waiting : Call(t, call)
                          \/ Serve(t, BindingReports)
                          \/ binderDied(t)
    \/ GetState
    \/ \E p \in Pids : ClientDies(p)
    \/ DaemonDies
    \/ Download

Spec == Init /\ [][Next]_vars

(* The daemon's binder threads are scheduled: a served call goes on, a free *)
(* mutex is taken by some waiting call (which one is not said), and a      *)
(* delivered obituary is handled.  Clients owe nothing.                    *)
Fairness ==
    /\ WF_vars(\E t \in Threads : Serve(t, BindingReports))
    /\ \A t \in Threads : WF_vars(binderDied(t))

FairSpec == Spec /\ Fairness

-----------------------------------------------------------------------------
(* Properties.  Which of them a run may ask depends on what its constants  *)
(* let the environment do.                                                 *)

HandlerRunning(t) == watch[t] \in {"erase", "check", "node", "off"}
DeathPending(t)   == \/ watch[t] = "linked" /\ ~alive[PidOf[t]]
                     \/ watch[t] = "erase"

(* A client that powerOn answered with 1 finds the element powered until   *)
(* its own powerOff: no other client's failing, refused or unpaired call   *)
(* takes the power away from it.                                           *)
InUsePowered == \A t \in Threads : InUse(t) => spi

(* client_threadCount of a running process is the number of its threads    *)
(* between a granted powerOn and the serving of their powerOff, whichever  *)
(* calls failed and whichever other processes died.                        *)
CountMatchesSessions ==
    \A p \in Pids : alive[p] => pidsMap[p] = Cardinality(Granted(p))

(* Across daemon restarts: the daemon never counts a session that its      *)
(* client does not have, so no count keeps the element powered for nobody. *)
NoPhantomCount ==
    \A p \in Pids : alive[p] => pidsMap[p] <= Cardinality(Granted(p))

(* What operator[] makes of an erased entry concerns dead processes only:  *)
(* a count of -1 does not outlive the powerOff that counted so, and a      *)
(* running process has an entry exactly when it is counted, but for a      *)
(* powerOff of its own that is about to erase it.                          *)
OnlyDeadMiscounted ==
    \A p \in Pids :
        LET leaving == \E t \in ThreadsOf(p) : pc[t] \in {"offTest", "offErase"} IN
        /\ pidsMap[p] < 0 => pidsMap[p] = -1 /\ leaving /\ ~alive[p]
        /\ alive[p] /\ ~leaving => (p \in entries <=> pidsMap[p] > 0)

(* With no call being served, no obituary being handled, nobody registered,*)
(* the element is off: whoever emptied pidsMap has looked again after it.  *)
NoIdlePower ==
    (/\ mutex = NoThread
     /\ \A t \in Threads : ~HandlerRunning(t)
     /\ isPidsMapEmpty)
        => ~spi

(* Whenever a process is registered the node is not closed, so powerOff's  *)
(* and binderDied's power-off always has a descriptor to use, in spite of  *)
(* the handler that erases entries without the mutex.                      *)
NodeOpenWhileRegistered == ~isPidsMapEmpty => nq_node # "closed"

(* "eSE file not opened - let's assume it's off": at the two places where  *)
(* powerOff and binderDied assume so, it is off, even after a restart of   *)
(* the daemon that left it on.                                             *)
AssumedOff ==
    (/\ nq_node = "closed"
     /\ \E t \in Threads : pc[t] = "offCheck" \/ watch[t] = "node")
        => ~spi

(* While a session is held, the power goes off by nothing but the death    *)
(* handler of another process.                                             *)
OnlyDeathHandlerCutsPower ==
    [][ (spi /\ ~spi' /\ \E u \in Threads : InUse(u))
        => \E t \in Threads : watch[t] = "off" /\ watch'[t] = "none" ]_vars

(* A registered process is running, or its obituary is still to be         *)
(* handled: no entry of a dead process stays in pidsMap.                   *)
RegisteredMeansInUse ==
    \A p \in entries :
        \/ alive[p]
        \/ \E t \in ThreadsOf(p) : DeathPending(t) \/ pc[t] # "idle"

(* "NFCC fw is downloading, power operation is forbidden!": no power       *)
(* operation of the daemon during a download.  Here for the death handler, *)
(* whose switch follows no look at the driver's state at all.              *)
DeathHandlerRespectsDownload ==
    [][ \A t \in Threads : watch[t] = "off" /\ watch'[t] = "none" /\ spi # spi'
                              => ~dwnld ]_vars

(* Once every client process is gone for good, the element is powered off  *)
(* and stays off.                                                          *)
AbandonedPowersDown ==
    <>[](\A p \in Pids : ~alive[p]) => <>[]~spi

(* What the daemon promises its clients, see PowerLease.                   *)
Lease == INSTANCE PowerLease WITH power   <- spi,
                                  holders <- {t \in Threads : InUse(t)}
LeaseSafety == Lease!Spec
LeaseLiveness == Lease!PowerSaved
=============================================================================
