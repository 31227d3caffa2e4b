----------------------- MODULE EseServiceProxyProofs -----------------------
(***************************************************************************)
(* Machine-checked proofs about EseServiceProxy, for every number of       *)
(* threads, tries and incarnations.                                        *)
(***************************************************************************)
EXTENDS EseServiceProxy, TLAPS

(* The types are inductive once it is known where a search gives up, and   *)
(* that only a binder that was found is linked.                            *)
Placed ==
    /\ up => born # 0
    /\ \A t \in Threads :
          /\ pc[t] = "getService" => tries[t] < MaxTries
          /\ pc[t] \in {"observe", "link"} => binder[t] # 0

Typed == TypeOK /\ Placed

LEMMA TypedInit == Init => Typed
  <1> SUFFICES ASSUME Init PROVE Typed
      OBVIOUS
  <1> USE ProxyAssumption DEF Init, Incarnations
  <1>1. born \in Incarnations /\ proxy \in Incarnations
        OBVIOUS
  <1>2. pc \in [Threads -> {"idle", "use"} \cup Connecting]
        OBVIOUS
  <1>3. binder \in [Threads -> Incarnations] /\ tries \in [Threads -> 0 .. MaxTries]
        OBVIOUS
  <1>4. /\ links \subseteq Incarnations \ {0}
        /\ up \in BOOLEAN /\ crashed \in BOOLEAN /\ outage \in BOOLEAN
        BY Zenon
  <1>5. result \in [Threads -> {"none", "noProxy", "deadObject", "served"}]
        OBVIOUS
  <1>6. Placed
        BY DEF Placed
  <1>7. QED
        BY <1>1, <1>2, <1>3, <1>4, <1>5, <1>6, Zenon DEF Typed, TypeOK

LEMMA TypedNext == Typed /\ [Next]_vars => Typed'
  <1> SUFFICES ASSUME Typed, [Next]_vars PROVE Typed'
      OBVIOUS
  <1> USE ProxyAssumption DEF Typed, TypeOK, Placed, Connecting, Incarnations, Goto, Local,
        daemonVars, threadVars
  <1>1. ASSUME NEW t \in Threads, Call(t) PROVE Typed'
        BY <1>1 DEF Call
  <1>2. ASSUME NEW t \in Threads, EnterClient(t) PROVE Typed'
        BY <1>2 DEF EnterClient
  <1>3. ASSUME NEW t \in Threads, GetService(t) PROVE Typed'
    <2>1. CASE up
          BY <1>3, <2>1 DEF GetService
    <2>2. CASE ~up
      <3>1. tries[t] \in 0 .. MaxTries /\ tries[t] < MaxTries
            BY <1>3 DEF GetService
      <3>2. tries' \in [Threads -> 0 .. MaxTries]
            BY <1>3, <2>2, <3>1 DEF GetService
      <3>3. pc' \in [Threads -> {"idle", "use"} \cup Connecting]
            BY <1>3, <2>2 DEF GetService
      <3>4. Placed'
            BY <1>3, <2>2, <3>1 DEF GetService
      <3>5. outage' \in BOOLEAN
            BY <1>3, <2>2, Zenon DEF GetService
      <3>6. UNCHANGED <<born, up, proxy, links, result, crashed>>
            BY <1>3, <2>2 DEF GetService
      <3>7. binder' \in [Threads -> Incarnations]
            BY <1>3, <2>2 DEF GetService
      <3>8. QED
            BY <3>2, <3>3, <3>4, <3>5, <3>6, <3>7
    <2>3. QED
          BY <2>1, <2>2
  <1>4. ASSUME NEW t \in Threads, NewObserver(t) PROVE Typed'
        BY <1>4 DEF NewObserver
  <1>5. ASSUME NEW t \in Threads, LinkToDeath(t) PROVE Typed'
        BY <1>5 DEF LinkToDeath
  <1>6. ASSUME NEW t \in Threads, AssignProxy(t) PROVE Typed'
        BY <1>6 DEF AssignProxy
  <1>7. ASSUME NEW t \in Threads, CopyProxy(t) PROVE Typed'
        BY <1>7 DEF CopyProxy
  <1>8. ASSUME NEW t \in Threads, StoreProxy(t) PROVE Typed'
        BY <1>8 DEF StoreProxy
  <1>9. ASSUME NEW t \in Threads, Use(t) PROVE Typed'
        BY <1>9 DEF Use
  <1>10. ASSUME NEW i \in Incarnations, binderDied(i) PROVE Typed'
        BY <1>10 DEF binderDied
  <1>11. CASE DaemonStarts
        BY <1>11 DEF DaemonStarts
  <1>12. CASE DaemonDies
        BY <1>12 DEF DaemonDies
  <1>13. CASE UNCHANGED vars
        BY <1>13 DEF vars
  <1>14. QED
        BY <1>1, <1>2, <1>3, <1>4, <1>5, <1>6, <1>7, <1>8, <1>9, <1>10, <1>11,
           <1>12, <1>13 DEF Next, Step

(* Every variable keeps its type: no search tries more often than it may,  *)
(* and the observer is never linked to a null proxy.                       *)
THEOREM ProxyTyping == Spec => []TypeOK
  <1>1. Typed => TypeOK
        BY DEF Typed
  <1>2. QED
        BY <1>1, TypedInit, TypedNext, PTL DEF Spec

-----------------------------------------------------------------------------
(* The null proxy.  Until the process has missed its daemon there is at    *)
(* most one incarnation, running, and whoever has seen it sees it still.   *)

Undisturbed ==
    /\ ~crashed
    /\ up <=> born # 0
    /\ ~up => proxy = 0
    /\ \A i \in links : Running(i)
    /\ \A t \in Threads :
          /\ pc[t] \in {"observe", "link", "assign", "store"} => binder[t] # 0
          /\ pc[t] \in {"observe", "link", "assign", "copy", "store", "use"} => up
          /\ pc[t] \in {"copy", "store", "use"} => proxy # 0

NullInv == outage \/ Undisturbed

LEMMA NullInvNext == Typed /\ NullInv /\ [Next]_vars => NullInv'
  <1> SUFFICES ASSUME Typed, NullInv, [Next]_vars PROVE NullInv'
      OBVIOUS
  <1> USE DEF Typed, TypeOK, NullInv, Goto, Local, daemonVars, threadVars
  <1>1. CASE outage
        BY <1>1 DEF Next, Call, Step, EnterClient, GetService, NewObserver, LinkToDeath,
           AssignProxy, CopyProxy, StoreProxy, Use, binderDied, DaemonStarts,
           DaemonDies, vars
  <1>2. CASE Undisturbed
    <2> USE <1>2 DEF Undisturbed, Running
    <2>1. ASSUME NEW t \in Threads, Call(t) PROVE NullInv'
          BY <2>1 DEF Call
    <2>2. ASSUME NEW t \in Threads, EnterClient(t) PROVE NullInv'
          BY <2>2 DEF EnterClient
    <2>3. ASSUME NEW t \in Threads, GetService(t) PROVE NullInv'
          BY <2>3 DEF GetService
    <2>4. ASSUME NEW t \in Threads, NewObserver(t) PROVE NullInv'
          BY <2>4 DEF NewObserver
    <2>5. ASSUME NEW t \in Threads, LinkToDeath(t) PROVE NullInv'
          BY <2>5 DEF LinkToDeath
    <2>6. ASSUME NEW t \in Threads, AssignProxy(t) PROVE NullInv'
          BY <2>6 DEF AssignProxy
    <2>7. ASSUME NEW t \in Threads, CopyProxy(t) PROVE NullInv'
          BY <2>7 DEF CopyProxy
    <2>8. ASSUME NEW t \in Threads, StoreProxy(t) PROVE NullInv'
          BY <2>8 DEF StoreProxy
    <2>9. ASSUME NEW t \in Threads, Use(t) PROVE NullInv'
          BY <2>9 DEF Use
    <2>10. ASSUME NEW i \in Incarnations, binderDied(i) PROVE FALSE
          BY <2>10 DEF binderDied
    <2>11. CASE DaemonStarts
          BY <2>11 DEF DaemonStarts
    <2>12. CASE DaemonDies
          BY <2>12 DEF DaemonDies
    <2>13. CASE UNCHANGED vars
          BY <2>13 DEF vars
    <2>14. QED
          BY <2>1, <2>2, <2>3, <2>4, <2>5, <2>6, <2>7, <2>8, <2>9, <2>10, <2>11,
             <2>12, <2>13 DEF Next, Step
  <1>3. QED
        BY <1>1, <1>2

(* The process calls through the null proxy only after it has missed its   *)
(* daemon, for any number of threads and whenever the daemon dies.         *)
THEOREM NoNullAtFirst == Spec => []NullOnlyAfterOutage
  <1>1. Init => NullInv
        BY DEF Init, NullInv, Undisturbed
  <1>2. NullInv => NullOnlyAfterOutage
        BY DEF NullInv, Undisturbed, NullOnlyAfterOutage
  <1>3. QED
        BY <1>1, <1>2, TypedInit, TypedNext, NullInvNext, PTL DEF Spec

-----------------------------------------------------------------------------
(* The observed proxy.  A daemon that dies between calls only is the same  *)
(* one for every thread in getEsePMServiceClient; when the proxy is not    *)
(* linked, a thread is about to link the daemon it leads to.               *)

Linking == \E t \in Threads : pc[t] = "link"

ObserverInv ==
    /\ proxy # 0 => proxy \in links \/ Linking
    /\ \A t \in Threads :
          /\ pc[t] \in Connecting => proxy = 0 \/ Running(proxy)
          /\ pc[t] \in {"observe", "link"} => Running(binder[t])
          /\ pc[t] \in {"assign", "store"} =>
                binder[t] = 0 \/ (Running(binder[t]) /\ (binder[t] \in links \/ Linking))

LEMMA ObserverInvNext ==
  ASSUME ~DeathDuringCalls
  PROVE  Typed /\ Typed' /\ ObserverInv /\ [Next]_vars => ObserverInv'
  <1> SUFFICES ASSUME Typed, Typed', ObserverInv, [Next]_vars PROVE ObserverInv'
      OBVIOUS
  <1> USE DEF Typed, TypeOK, ObserverInv, Linking, Connecting, Running, Goto, Local,
        daemonVars, threadVars
  <1>1. ASSUME NEW t \in Threads, Call(t) PROVE ObserverInv'
        BY <1>1 DEF Call
  <1>2. ASSUME NEW t \in Threads, EnterClient(t) PROVE ObserverInv'
        BY <1>2 DEF EnterClient
  <1>3. ASSUME NEW t \in Threads, GetService(t) PROVE ObserverInv'
        BY <1>3 DEF GetService
  <1>4. ASSUME NEW t \in Threads, NewObserver(t) PROVE ObserverInv'
        BY <1>4 DEF NewObserver
  <1>5. ASSUME NEW t \in Threads, LinkToDeath(t) PROVE ObserverInv'
        BY <1>5 DEF LinkToDeath
  <1>6. ASSUME NEW t \in Threads, AssignProxy(t) PROVE ObserverInv'
        BY <1>6 DEF AssignProxy
  <1>7. ASSUME NEW t \in Threads, CopyProxy(t) PROVE ObserverInv'
        BY <1>7 DEF CopyProxy
  <1>8. ASSUME NEW t \in Threads, StoreProxy(t) PROVE ObserverInv'
        BY <1>8 DEF StoreProxy
  <1>9. ASSUME NEW t \in Threads, Use(t) PROVE ObserverInv'
        BY <1>9 DEF Use
  <1>10. ASSUME NEW i \in Incarnations, binderDied(i) PROVE ObserverInv'
        BY <1>10 DEF binderDied
  <1>11. CASE DaemonStarts
        BY <1>11 DEF DaemonStarts
  <1>12. CASE DaemonDies
        BY <1>12 DEF DaemonDies
  <1>13. CASE UNCHANGED vars
        BY <1>13 DEF vars
  <1>14. QED
        BY <1>1, <1>2, <1>3, <1>4, <1>5, <1>6, <1>7, <1>8, <1>9, <1>10, <1>11,
           <1>12, <1>13 DEF Next, Step

(* While the daemon dies between calls only, a proxy that is left between  *)
(* calls has an observer linked to its daemon, however many threads        *)
(* connected at once and replaced each other's observer.                   *)
THEOREM NoProxyUnobserved ==
  ASSUME ~DeathDuringCalls
  PROVE  Spec => []ProxyObserved
  <1>1. Init => ObserverInv
        BY DEF Init, ObserverInv, Connecting
  <1>2. ObserverInv => ProxyObserved
        BY DEF ObserverInv, Linking, ProxyObserved
  <1>3. Typed /\ Typed' /\ ObserverInv /\ [Next]_vars => ObserverInv'
        BY ObserverInvNext
  <1>4. QED
        BY <1>1, <1>2, <1>3, TypedInit, TypedNext, PTL DEF Spec
=============================================================================
