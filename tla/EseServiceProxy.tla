-------------------------- MODULE EseServiceProxy --------------------------
(***************************************************************************)
(* How a client process reaches a daemon: both wrappers, esepmdaemon's and *)
(* eseManagerServiceDaemon's, keep one global proxy for all threads of the *)
(* process, connect when it is null, and have a death observer clear it.   *)
(* Nothing locks the global, and the observer runs in a binder thread of   *)
(* the client, if it has one: an application gets a pool of them from its  *)
(* runtime, but getCplcTest, eSEPowerManagerClient and fptest start none,  *)
(* and a thread in a transaction of its own does not read obituaries.      *)
(* A call is one synchronous transaction of the proxy (BpeSEPowerManager); *)
(* a call through a null proxy ends the process.                           *)
(*                                                                         *)
(* The daemon is a sequence of incarnations, numbered from 1; a proxy is   *)
(* the number of the incarnation it leads to, 0 is the null proxy.         *)
(***************************************************************************)
EXTENDS Naturals, FiniteSets

CONSTANTS
    Threads,         \* the threads of the client process
    MaxTries,        \* getService is tried so often, 10 ms apart
    ThreadPool,      \* does the client process have binder threads?
    MaxIncarnations, \* bound on the restarts of the daemon
    DeathDuringCalls \* may it die while a client call is on its way?

ASSUME ProxyAssumption ==
    /\ IsFiniteSet(Threads)
    /\ MaxTries \in Nat \ {0}
    /\ ThreadPool \in BOOLEAN
    /\ MaxIncarnations \in Nat
    /\ DeathDuringCalls \in BOOLEAN

VARIABLES
    born,   \* how many incarnations there have been
    up,     \* is the latest one running, and published?
    proxy,  \* g_esePM_proxy, g_eseManager_proxy
    links,  \* the incarnations the static death observer is linked to
    pc,     \* where each thread is in the wrapper
    binder, \* its local proxy or binder
    tries,  \* its local count
    result, \* what its latest call returned
    crashed, \* has a thread called through the null proxy?
    outage  \* history: has the process missed its daemon?

daemonVars == <<born, up>>
threadVars == <<pc, binder, tries, result>>
vars == <<daemonVars, proxy, links, threadVars, crashed, outage>>

Connecting == {"enter", "getService", "observe", "link", "assign", "copy", "store"}
Incarnations == 0 .. MaxIncarnations
Running(i) == up /\ i = born

TypeOK ==
    /\ born \in Incarnations
    /\ up \in BOOLEAN
    /\ proxy \in Incarnations
    /\ links \subseteq Incarnations \ {0}
    /\ pc \in [Threads -> {"idle", "use"} \cup Connecting]
    /\ binder \in [Threads -> Incarnations]
    /\ tries \in [Threads -> 0 .. MaxTries]
    /\ result \in [Threads -> {"none", "noProxy", "deadObject", "served"}]
    /\ crashed \in BOOLEAN
    /\ outage \in BOOLEAN

Init ==
    /\ born = 0
    /\ up = FALSE
    /\ proxy = 0
    /\ links = {}
    /\ pc = [t \in Threads |-> "idle"]
    /\ binder = [t \in Threads |-> 0]
    /\ tries = [t \in Threads |-> 0]
    /\ result = [t \in Threads |-> "none"]
    /\ crashed = FALSE
    /\ outage = FALSE

-----------------------------------------------------------------------------
Goto(t, where) == pc' = [pc EXCEPT ![t] = where]
Local(t, i) == binder' = [binder EXCEPT ![t] = i]

(* powerOn and the other calls of the wrapper.                             *)
Call(t) ==
    /\ pc[t] = "idle"
    /\ ~crashed
    /\ Goto(t, IF proxy = 0 THEN "enter" ELSE "use")
    /\ UNCHANGED <<daemonVars, proxy, links, binder, tries, result, crashed, outage>>

(* Mutant: the proxy is cleared before the search.                         *)
EnterClientClears(t) ==
    /\ pc[t] = "enter"
    /\ proxy' = 0
    /\ Goto(t, "getService")
    /\ tries' = [tries EXCEPT ![t] = 0]
    /\ UNCHANGED <<daemonVars, links, binder, result, crashed, outage>>

(* getEsePMServiceClient looks at the proxy again.                         *)
EnterClient(t) ==
    /\ pc[t] = "enter"
    /\ Goto(t, IF proxy = 0 THEN "getService" ELSE "copy")
    /\ tries' = [tries EXCEPT ![t] = 0]
    /\ UNCHANGED <<daemonVars, proxy, links, binder, result, crashed, outage>>

(* After the last try the null binder goes on, and is not linked.          *)
GetService(t) ==
    /\ pc[t] = "getService"
    /\ \/ up /\ Local(t, born) /\ Goto(t, "observe") /\ UNCHANGED <<tries, outage>>
       \/ /\ ~up
          /\ Local(t, 0)
          /\ tries' = [tries EXCEPT ![t] = @ + 1]
          /\ IF tries[t] + 1 < MaxTries
             THEN Goto(t, "getService") /\ UNCHANGED outage
             ELSE Goto(t, "assign") /\ outage' = TRUE
    /\ UNCHANGED <<daemonVars, proxy, links, result, crashed>>

(* The static pointer gets a new observer; the old one is freed, and the   *)
(* obituaries it was linked for are lost.                                  *)
NewObserver(t) ==
    /\ pc[t] = "observe"
    /\ links' = {}
    /\ Goto(t, "link")
    /\ UNCHANGED <<daemonVars, proxy, binder, tries, result, crashed, outage>>

(* Mutant: the new observer is never linked.                               *)
LinkForgotten(t) ==
    /\ pc[t] = "link"
    /\ Goto(t, "assign")
    /\ UNCHANGED <<daemonVars, proxy, links, binder, tries, result, crashed, outage>>

(* linkToDeath takes whichever observer the static pointer holds by now.   *)
(* On a dead binder it fails, and nobody looks at the result.              *)
LinkToDeath(t) ==
    /\ pc[t] = "link"
    /\ links' = IF Running(binder[t]) THEN links \cup {binder[t]} ELSE links
    /\ Goto(t, "assign")
    /\ UNCHANGED <<daemonVars, proxy, binder, tries, result, crashed, outage>>

AssignProxy(t) ==
    /\ pc[t] = "assign"
    /\ proxy' = binder[t]
    /\ Goto(t, "copy")
    /\ UNCHANGED <<daemonVars, links, binder, tries, result, crashed, outage>>

(* The return value is read from the global, which others write.           *)
CopyProxy(t) ==
    /\ pc[t] = "copy"
    /\ Local(t, proxy)
    /\ Goto(t, "store")
    /\ UNCHANGED <<daemonVars, proxy, links, tries, result, crashed, outage>>

StoreProxy(t) ==
    /\ pc[t] = "store"
    /\ proxy' = binder[t]
    /\ Goto(t, IF binder[t] = 0 THEN "idle" ELSE "use")
    /\ result' = IF binder[t] = 0 THEN [result EXCEPT ![t] = "noProxy"] ELSE result
    /\ UNCHANGED <<daemonVars, links, binder, tries, crashed, outage>>

(* The call goes through the global once more: transact, which fails on a  *)
(* proxy whose daemon is dead.                                             *)
Use(t) ==
    /\ pc[t] = "use"
    /\ crashed' = (proxy = 0)
    /\ result' = IF proxy = 0 THEN result
                 ELSE [result EXCEPT ![t] = IF Running(proxy) THEN "served" ELSE "deadObject"]
    /\ Goto(t, "idle")
    /\ UNCHANGED <<daemonVars, proxy, links, binder, tries, outage>>

(* The steps of a call.  A thread of a crashed process takes no more.       *)
Step(t) ==
    /\ ~crashed
    /\ \/ EnterClient(t) \/ GetService(t) \/ NewObserver(t) \/ LinkToDeath(t)
       \/ AssignProxy(t) \/ CopyProxy(t) \/ StoreProxy(t) \/ Use(t)

-----------------------------------------------------------------------------
(* The obituary of a dead incarnation clears the proxy, whatever it holds. *)
binderDied(i) ==
    /\ ThreadPool
    /\ ~crashed
    /\ i \in links
    /\ ~Running(i)
    /\ links' = links \ {i}
    /\ proxy' = 0
    /\ UNCHANGED <<daemonVars, threadVars, crashed, outage>>

DaemonStarts ==
    /\ ~up
    /\ born < MaxIncarnations
    /\ born' = born + 1
    /\ up' = TRUE
    /\ UNCHANGED <<proxy, links, threadVars, crashed, outage>>

DaemonDies ==
    /\ up
    /\ DeathDuringCalls \/ \A t \in Threads : pc[t] = "idle"
    /\ up' = FALSE
    /\ outage' = TRUE
    /\ UNCHANGED <<born, proxy, links, threadVars, crashed>>

Next ==
    \/ \E t \in Threads : Call(t) \/ Step(t)
    \/ \E i \in Incarnations : binderDied(i)
    \/ DaemonStarts
    \/ DaemonDies

Spec == Init /\ [][Next]_vars

(* Threads are scheduled, a transaction with a dead daemon fails rather    *)
(* than wait, and a pool, where there is one, handles its obituaries.  The *)
(* client need not call and the daemon need not start.                     *)
Fairness ==
    /\ \A t \in Threads : WF_vars(Step(t))
    /\ \A i \in Incarnations : WF_vars(binderDied(i))

FairSpec == Spec /\ Fairness

-----------------------------------------------------------------------------
(* Properties.                                                             *)

(* Between calls the proxy is null or the observer is linked to the daemon *)
(* it leads to, though threads that connected at once have replaced each   *)
(* other's observer and proxy: no proxy is left whose death nobody would   *)
(* be told of.                                                             *)
ProxyObserved ==
    (\A t \in Threads : pc[t] = "idle") /\ proxy # 0 => proxy \in links

(* The process goes down on a null proxy only if it has missed its daemon, *)
(* by a death or by a search that gave up: threads that connect at once to *)
(* a daemon that is there cannot do it, in spite of the unlocked global.   *)
NullOnlyAfterOutage == crashed => outage

(* A client with binder threads that survives the restarts of the daemon   *)
(* and goes on calling is served again in the end, once the daemon stays   *)
(* up: no late obituary that clears a new proxy, no failed search that     *)
(* stores null over it, and no dead proxy keeps it away for ever.  Without *)
(* binder threads a dead proxy stays for the life of the process.          *)
Reconnects ==
    \A t \in Threads :
        (/\ <>[](up /\ ~crashed)
         /\ []<>(pc[t] = "idle") /\ []<>(pc[t] = "use"))
            => <>[](result[t] = "served")
=============================================================================
