----------------------- MODULE EsePowerManagerProofs -----------------------
(***************************************************************************)
(* Machine-checked proofs about EsePowerManager, for every number of       *)
(* processes and threads.                                                  *)
(***************************************************************************)
EXTENDS EsePowerManager, FiniteSetTheorems, TLAPS

-----------------------------------------------------------------------------
(* Every variable keeps its type.                                          *)

LEMMA TypeInit == Init => TypeOK
  <1> SUFFICES ASSUME Init PROVE TypeOK
      OBVIOUS
  <1>1. pidsMap \in [Pids -> Int] /\ alive \in [Pids -> BOOLEAN]
        BY DEF Init
  <1>2. /\ pc \in [Threads -> {"idle"} \cup Waiting \cup Serving]
        /\ watch \in [Threads -> {"none", "linked", "erase", "check", "node", "off"}]
        /\ session \in [Threads -> {"none", "granted", "orphaned"}]
        BY DEF Init
  <1>3. QED
        BY <1>1, <1>2 DEF Init, TypeOK

LEMMA TypeNext == TypeOK /\ [Next]_vars => TypeOK'
  <1> SUFFICES ASSUME TypeOK, [Next]_vars PROVE TypeOK'
      OBVIOUS
  <1> USE ThreadsAssumption DEF TypeOK, Waiting, Serving, Goto, Enter, Continue,
        Reply, Access, Count, Clear, Erase, Kept, Unlink, Granting, OpenNode, OpenFails,
        IoctlFails, CloseNode,
        mapVars, daemonVars, callVars, clientVars, driverVars
  <1>1. ASSUME NEW t \in Threads, NEW call \in Waiting, Call(t, call)
        PROVE TypeOK'
        BY <1>1 DEF Call
  <1>2. ASSUME NEW t \in Threads, Serve(t, BindingReports)
        PROVE TypeOK'
    <2>1. CASE \E report \in BindingReports : PowerOnForbidden(t, report)
          BY <2>1 DEF PowerOnForbidden
    <2>2. CASE \E report \in BindingReports : PowerOnBadUid(t, report)
          BY <2>2 DEF PowerOnBadUid
    <2>3. CASE \E report \in BindingReports : PowerOnQuery(t, report)
          BY <2>3 DEF PowerOnQuery
    <2>4. CASE PowerOnSetPower(t)
          BY <2>4 DEF PowerOnSetPower
    <2>5. CASE PowerOnLink(t)
          BY <2>5 DEF PowerOnLink
    <2>6. CASE \E point \in {"undo", "offPower", "killPower"} : PowerDown(t, point)
          BY <2>6 DEF PowerDown
    <2>7. CASE PowerOnInsert(t)
          BY <2>7 DEF PowerOnInsert
    <2>8. CASE PowerOnUpdate(t)
          BY <2>8 DEF PowerOnUpdate
    <2>9. CASE PowerOnRecount(t)
          BY <2>9 DEF PowerOnRecount
    <2>10. CASE PowerOffRefused(t)
          BY <2>10 DEF PowerOffRefused
    <2>11. CASE PowerOffEnter(t)
          BY <2>11 DEF PowerOffEnter
    <2>12. CASE PowerOffUnlink(t)
          BY <2>12 DEF PowerOffUnlink
    <2>13. CASE PowerOffCount(t)
          BY <2>13 DEF PowerOffCount
    <2>14. CASE PowerOffTest(t)
          BY <2>14 DEF PowerOffTest
    <2>15. CASE PowerOffKeep(t)
          BY <2>15 DEF PowerOffKeep
    <2>16. CASE PowerOffErase(t)
          BY <2>16 DEF PowerOffErase
    <2>17. CASE PowerOffCheck(t)
          BY <2>17 DEF PowerOffCheck
    <2>18. CASE Killall(t)
          BY <2>18 DEF Killall, InUse
    <2>19. QED
          BY <1>2, <2>1, <2>2, <2>3, <2>4, <2>5, <2>6, <2>7, <2>8, <2>9, <2>10, <2>11,
             <2>12, <2>13, <2>14, <2>15, <2>16, <2>17, <2>18
          DEF Serve, PowerOnUndo, PowerOffPower, KillallPower
  <1>3. ASSUME NEW t \in Threads, binderDied(t)
        PROVE TypeOK'
    <2>1. CASE binderDiedEnter(t)
          BY <2>1 DEF binderDiedEnter
    <2>2. CASE binderDiedErase(t)
          BY <2>2 DEF binderDiedErase
    <2>3. CASE binderDiedCheck(t)
          BY <2>3 DEF binderDiedCheck
    <2>4. CASE binderDiedNode(t)
          BY <2>4 DEF binderDiedNode
    <2>5. CASE binderDiedPower(t)
          BY <2>5 DEF binderDiedPower
    <2>6. QED
          BY <1>3, <2>1, <2>2, <2>3, <2>4, <2>5 DEF binderDied
  <1>4. CASE GetState
        BY <1>4 DEF GetState
  <1>5. ASSUME NEW p \in Pids, ClientDies(p)
        PROVE TypeOK'
        BY <1>5 DEF ClientDies
  <1>6. CASE DaemonDies
        BY <1>6 DEF DaemonDies
  <1>7. CASE Download
        BY <1>7 DEF Download
  <1>8. CASE UNCHANGED vars
        BY <1>8 DEF vars
  <1>9. QED
        BY <1>1, <1>2, <1>3, <1>4, <1>5, <1>6, <1>7, <1>8 DEF Next

(* The state of the daemon, its calls, its clients and the driver keeps    *)
(* its type; the count of a process is an integer, see OnlyDeadMiscounted. *)
THEOREM Typing == Spec => []TypeOK
  BY TypeInit, TypeNext, PTL DEF Spec

-----------------------------------------------------------------------------
(* onTransact serves one call at a time: a call is at a point inside one   *)
(* of its handlers exactly while it has the mutex.                         *)
MutexInv == \A t \in Threads : mutex = t <=> pc[t] \in Serving

(* A call that may still make an entry finds the node not closed; a call   *)
(* about to switch off found pidsMap empty, and only a call that has the   *)
(* mutex can make it non-empty again.                                      *)
Registering == {"setPower", "link", "insert", "update", "recount",
                "offUnlink", "offCount", "offTest", "offKeep", "offErase"}
NodeInv ==
    /\ NodeOpenWhileRegistered
    /\ \A t \in Threads : /\ pc[t] \in Registering => nq_node # "closed"
                          /\ pc[t] \in {"undo", "offPower", "killPower"} => isPidsMapEmpty

(* A handler, or a powerOff that emptied pidsMap, has seen the node open   *)
(* since the daemon started, and the node closes only after a switch-off.  *)
AssumedOffInv ==
    (/\ nq_node = "closed"
     /\ \E t \in Threads : \/ pc[t] = "offCheck"
                            \/ watch[t] \in {"linked", "erase", "check", "node"})
        => ~spi

DaemonInv == MutexInv /\ NodeInv /\ AssumedOffInv

LEMMA DaemonInvInit == Init => DaemonInv
  BY ThreadsAssumption DEF Init, DaemonInv, MutexInv, NodeInv, Registering, AssumedOffInv,
     NodeOpenWhileRegistered, isPidsMapEmpty, Serving

LEMMA DaemonInvNext == TypeOK /\ TypeOK' /\ DaemonInv /\ [Next]_vars => DaemonInv'
  <1> SUFFICES ASSUME TypeOK, TypeOK', DaemonInv, [Next]_vars PROVE DaemonInv'
      OBVIOUS
  <1> USE ThreadsAssumption DEF TypeOK, Waiting, Serving, Goto, Enter, Continue,
        Reply, Access, Count, Clear, Erase, Kept, Unlink, Granting, OpenNode, OpenFails,
        IoctlFails, CloseNode, DaemonInv, MutexInv, NodeInv, Registering, AssumedOffInv,
        NodeOpenWhileRegistered, isPidsMapEmpty,
        mapVars, daemonVars, callVars, clientVars, driverVars
  <1>1. ASSUME NEW t \in Threads, NEW call \in Waiting, Call(t, call)
        PROVE DaemonInv'
        BY <1>1 DEF Call
  <1>2. ASSUME NEW t \in Threads, Serve(t, BindingReports)
        PROVE DaemonInv'
    <2>1. CASE \E report \in BindingReports : PowerOnForbidden(t, report)
          BY <2>1 DEF PowerOnForbidden
    <2>2. CASE \E report \in BindingReports : PowerOnBadUid(t, report)
          BY <2>2 DEF PowerOnBadUid
    <2>3. CASE \E report \in BindingReports : PowerOnQuery(t, report)
          BY <2>3 DEF PowerOnQuery
    <2>4. CASE PowerOnSetPower(t)
          BY <2>4 DEF PowerOnSetPower
    <2>5. CASE PowerOnLink(t)
          BY <2>5 DEF PowerOnLink
    <2>6. CASE \E point \in {"undo", "offPower", "killPower"} : PowerDown(t, point)
          BY <2>6 DEF PowerDown
    <2>7. CASE PowerOnInsert(t)
          BY <2>7 DEF PowerOnInsert
    <2>8. CASE PowerOnUpdate(t)
          BY <2>8 DEF PowerOnUpdate
    <2>9. CASE PowerOnRecount(t)
          BY <2>9 DEF PowerOnRecount
    <2>10. CASE PowerOffRefused(t)
          BY <2>10 DEF PowerOffRefused
    <2>11. CASE PowerOffEnter(t)
          BY <2>11 DEF PowerOffEnter
    <2>12. CASE PowerOffUnlink(t)
          BY <2>12 DEF PowerOffUnlink
    <2>13. CASE PowerOffCount(t)
          BY <2>13 DEF PowerOffCount
    <2>14. CASE PowerOffTest(t)
          BY <2>14 DEF PowerOffTest
    <2>15. CASE PowerOffKeep(t)
          BY <2>15 DEF PowerOffKeep
    <2>16. CASE PowerOffErase(t)
          BY <2>16 DEF PowerOffErase
    <2>17. CASE PowerOffCheck(t)
          BY <2>17 DEF PowerOffCheck
    <2>18. CASE Killall(t)
          BY <2>18 DEF Killall, InUse
    <2>19. QED
          BY <1>2, <2>1, <2>2, <2>3, <2>4, <2>5, <2>6, <2>7, <2>8, <2>9, <2>10, <2>11,
             <2>12, <2>13, <2>14, <2>15, <2>16, <2>17, <2>18
          DEF Serve, PowerOnUndo, PowerOffPower, KillallPower
  <1>3. ASSUME NEW t \in Threads, binderDied(t)
        PROVE DaemonInv'
    <2>1. CASE binderDiedEnter(t)
          BY <2>1 DEF binderDiedEnter
    <2>2. CASE binderDiedErase(t)
          BY <2>2 DEF binderDiedErase
    <2>3. CASE binderDiedCheck(t)
          BY <2>3 DEF binderDiedCheck
    <2>4. CASE binderDiedNode(t)
          BY <2>4 DEF binderDiedNode
    <2>5. CASE binderDiedPower(t)
          BY <2>5 DEF binderDiedPower
    <2>6. QED
          BY <1>3, <2>1, <2>2, <2>3, <2>4, <2>5 DEF binderDied
  <1>4. CASE GetState
        BY <1>4 DEF GetState
  <1>5. ASSUME NEW p \in Pids, ClientDies(p)
        PROVE DaemonInv'
        BY <1>5 DEF ClientDies
  <1>6. CASE DaemonDies
        BY <1>6 DEF DaemonDies
  <1>7. CASE Download
        BY <1>7 DEF Download
  <1>8. CASE UNCHANGED vars
        BY <1>8 DEF vars
  <1>9. QED
        BY <1>1, <1>2, <1>3, <1>4, <1>5, <1>6, <1>7, <1>8 DEF Next

THEOREM DaemonInvariant == Spec => [](TypeOK /\ DaemonInv)
  BY Typing, DaemonInvInit, DaemonInvNext, PTL DEF Spec

-----------------------------------------------------------------------------
(* pidsMap.  The death handler of a process runs after its death, so the   *)
(* accesses of a served call find the entry of a running process where the *)
(* call saw it, and operator[] makes a new one for dead processes only.    *)

MapInv ==
    /\ \A p \in Pids : p \notin entries => pidsMap[p] = 0
    /\ OnlyDeadMiscounted
    /\ \A t \in Threads :
          /\ watch[t] = "erase" => ~alive[PidOf[t]]
          /\ pc[t] = "offErase" => pidsMap[PidOf[t]] <= 0
          /\ pc[t] \in {"update", "recount", "offUnlink", "offCount", "offKeep"}
               /\ alive[PidOf[t]] => PidOf[t] \in entries

LEMMA MapInvInit == Init => MapInv
  BY ThreadsAssumption DEF Init, MapInv, OnlyDeadMiscounted

LEMMA MapInvNext ==
  TypeOK /\ TypeOK' /\ DaemonInv /\ MapInv /\ [Next]_vars => MapInv'
  <1> SUFFICES ASSUME TypeOK, TypeOK', DaemonInv, MapInv, [Next]_vars PROVE MapInv'
      OBVIOUS
  <1> USE ThreadsAssumption DEF TypeOK, Waiting, Serving, Goto, Enter, Continue,
        Reply, Access, Count, Clear, Erase, Kept, Unlink, DaemonInv, MutexInv, MapInv,
        OnlyDeadMiscounted, ThreadsOf, mapVars, daemonVars, callVars, clientVars, driverVars
  <1>1. ASSUME NEW t \in Threads, NEW call \in Waiting, Call(t, call)
        PROVE MapInv'
        BY <1>1 DEF Call
  <1>2. ASSUME NEW t \in Threads, Serve(t, BindingReports)
        PROVE MapInv'
    <2>1. CASE \E report \in BindingReports : PowerOnForbidden(t, report)
          BY <2>1 DEF PowerOnForbidden
    <2>2. CASE \E report \in BindingReports : PowerOnBadUid(t, report)
          BY <2>2 DEF PowerOnBadUid
    <2>3. CASE \E report \in BindingReports : PowerOnQuery(t, report)
          BY <2>3 DEF PowerOnQuery
    <2>4. CASE PowerOnSetPower(t)
          BY <2>4 DEF PowerOnSetPower
    <2>5. CASE PowerOnLink(t)
          BY <2>5 DEF PowerOnLink
    <2>6. CASE \E point \in {"undo", "offPower", "killPower"} : PowerDown(t, point)
          BY <2>6 DEF PowerDown
    <2>7. CASE PowerOnInsert(t)
          BY <2>7 DEF PowerOnInsert
    <2>8. CASE PowerOnUpdate(t)
          BY <2>8 DEF PowerOnUpdate
    <2>9. CASE PowerOnRecount(t)
          BY <2>9 DEF PowerOnRecount
    <2>10. CASE PowerOffRefused(t)
          BY <2>10 DEF PowerOffRefused
    <2>11. CASE PowerOffEnter(t)
          BY <2>11 DEF PowerOffEnter
    <2>12. CASE PowerOffUnlink(t)
          BY <2>12 DEF PowerOffUnlink
    <2>13. CASE PowerOffCount(t)
          BY <2>13 DEF PowerOffCount
    <2>14. CASE PowerOffTest(t)
          BY <2>14 DEF PowerOffTest
    <2>15. CASE PowerOffKeep(t)
          BY <2>15 DEF PowerOffKeep
    <2>16. CASE PowerOffErase(t)
          BY <2>16 DEF PowerOffErase
    <2>17. CASE PowerOffCheck(t)
          BY <2>17 DEF PowerOffCheck
    <2>18. CASE Killall(t)
          BY <2>18 DEF Killall, InUse
    <2>19. QED
          BY <1>2, <2>1, <2>2, <2>3, <2>4, <2>5, <2>6, <2>7, <2>8, <2>9, <2>10, <2>11,
             <2>12, <2>13, <2>14, <2>15, <2>16, <2>17, <2>18
          DEF Serve, PowerOnUndo, PowerOffPower, KillallPower
  <1>3. ASSUME NEW t \in Threads, binderDied(t)
        PROVE MapInv'
    <2>1. CASE binderDiedEnter(t)
          BY <2>1 DEF binderDiedEnter
    <2>2. CASE binderDiedErase(t)
          BY <2>2 DEF binderDiedErase
    <2>3. CASE binderDiedCheck(t)
          BY <2>3 DEF binderDiedCheck
    <2>4. CASE binderDiedNode(t)
          BY <2>4 DEF binderDiedNode
    <2>5. CASE binderDiedPower(t)
          BY <2>5 DEF binderDiedPower
    <2>6. QED
          BY <1>3, <2>1, <2>2, <2>3, <2>4, <2>5 DEF binderDied
  <1>4. CASE GetState
        BY <1>4 DEF GetState
  <1>5. ASSUME NEW p \in Pids, ClientDies(p)
        PROVE MapInv'
        BY <1>5 DEF ClientDies
  <1>6. CASE DaemonDies
        BY <1>6 DEF DaemonDies
  <1>7. CASE Download
        BY <1>7 DEF Download
  <1>8. CASE UNCHANGED vars
        BY <1>8 DEF vars
  <1>9. QED
        BY <1>1, <1>2, <1>3, <1>4, <1>5, <1>6, <1>7, <1>8 DEF Next

LEMMA MapInvariant == Spec => []MapInv
  BY Typing, DaemonInvariant, MapInvInit, MapInvNext, PTL DEF Spec

-----------------------------------------------------------------------------
(* Sessions and counts.  They agree while the daemon lives and killall is  *)
(* not compiled in; what the client processes and the driver do is free.   *)

SessionInv ==
    \A t \in Threads :
        /\ session[t] \in {"none", "granted"}
        /\ InUse(t) => alive[PidOf[t]] /\ PidOf[t] \in Permitted
        /\ pc[t] \in {"waitOn", "setPower", "link", "undo", "insert", "update"}
             => ~InUse(t)
        /\ pc[t] \in {"setPower", "link", "insert", "update"} => PidOf[t] \in Permitted
        /\ pc[t] \in {"waitOff", "offUnlink", "offCount"} /\ alive[PidOf[t]]
             => InUse(t) \/ ThreadsOf(PidOf[t]) = {t}
        /\ pc[t] \notin {"waitKill", "killPower"}

CountInv == SessionInv /\ CountMatchesSessions

LEMMA GrantedFinite ==
  ASSUME NEW p \in Pids
  PROVE  IsFiniteSet(Granted(p)) /\ Cardinality(Granted(p)) \in Nat
  BY ThreadsAssumption, FS_Subset, FS_CardinalityType DEF Granted, ThreadsOf

LEMMA GrantedCount ==
  ASSUME NEW p \in Pids, NEW t
  PROVE  /\ t \notin Granted(p) =>
              Cardinality(Granted(p) \cup {t}) = Cardinality(Granted(p)) + 1
         /\ t \in Granted(p) =>
              Cardinality(Granted(p) \ {t}) = Cardinality(Granted(p)) - 1
         /\ Cardinality(Granted(p)) = 0 <=> Granted(p) = {}
  BY GrantedFinite, FS_AddElement, FS_RemoveElement, FS_EmptySet

LEMMA CountInvInit == Init => CountInv
  <1> SUFFICES ASSUME Init PROVE CountInv
      OBVIOUS
  <1>1. \A p \in Pids : Granted(p) = {}
        BY DEF Init, Granted, ThreadsOf
  <1>2. CountMatchesSessions
        BY <1>1, FS_EmptySet DEF CountMatchesSessions, Init
  <1>3. QED
        BY <1>2 DEF Init, CountInv, SessionInv, InUse

(* A step that leaves counts, sessions and lives alone keeps them agreed.  *)
LEMMA CountFrame ==
  CountMatchesSessions /\ UNCHANGED <<pidsMap, session, alive>> => CountMatchesSessions'
  BY DEF CountMatchesSessions, Granted, ThreadsOf

LEMMA CountInvNext ==
  ASSUME ~DaemonDeath, ~eSEClient_Debug
  PROVE  TypeOK /\ TypeOK' /\ DaemonInv /\ MapInv /\ CountInv /\ [Next]_vars => CountInv'
  <1> SUFFICES ASSUME TypeOK, TypeOK', DaemonInv, MapInv, CountInv, [Next]_vars
               PROVE  CountInv'
      OBVIOUS
  <1> USE ThreadsAssumption DEF TypeOK, Waiting, Serving, Goto, Enter, Continue,
        Reply, CountInv, SessionInv, InUse, mapVars, daemonVars, callVars, clientVars,
        driverVars
  <1>1. ASSUME NEW t \in Threads, NEW call \in Waiting, Call(t, call)
        PROVE CountInv'
        BY <1>1, CountFrame DEF Call, ThreadsOf
  <1>2. ASSUME NEW t \in Threads, Serve(t, BindingReports)
        PROVE CountInv'
    <2>1. CASE \E report \in BindingReports : PowerOnForbidden(t, report)
          BY <2>1, CountFrame DEF PowerOnForbidden, ThreadsOf
    <2>2. CASE \E report \in BindingReports : PowerOnBadUid(t, report)
          BY <2>2, CountFrame DEF PowerOnBadUid, ThreadsOf
    <2>3. CASE \E report \in BindingReports : PowerOnQuery(t, report)
          BY <2>3, CountFrame DEF PowerOnQuery, ThreadsOf
    <2>4. CASE PowerOnSetPower(t)
          BY <2>4, CountFrame DEF PowerOnSetPower, ThreadsOf
    <2>5. CASE PowerOnLink(t)
          BY <2>5, CountFrame DEF PowerOnLink, ThreadsOf
    <2>6. CASE \E point \in {"undo", "offPower", "killPower"} : PowerDown(t, point)
          BY <2>6, CountFrame DEF PowerDown, ThreadsOf
    <2>7. CASE PowerOnInsert(t)
      <3>1. CASE PidOf[t] \in entries
            BY <2>7, <3>1, CountFrame DEF PowerOnInsert, ThreadsOf
      <3>2. CASE PidOf[t] \notin entries
        <4>1. ASSUME NEW p \in Pids, alive'[p]
              PROVE pidsMap'[p] = Cardinality(Granted(p)')
          <5>1. pidsMap[p] = Cardinality(Granted(p))
                BY <2>7, <4>1 DEF PowerOnInsert, CountMatchesSessions
          <5>2. CASE p = PidOf[t]
            <6>1. Granted(p)' = Granted(p) \cup {t} /\ t \notin Granted(p)
                  BY <2>7, <3>2, <4>1, <5>2 DEF PowerOnInsert, Granting, Granted, ThreadsOf
            <6>2. pidsMap'[p] = pidsMap[p] + 1
                  BY <2>7, <3>2, <5>2 DEF PowerOnInsert, Count, MapInv
            <6>3. QED
                  BY <5>1, <6>1, <6>2, GrantedCount
          <5>3. CASE p # PidOf[t]
            <6>1. Granted(p)' = Granted(p) /\ pidsMap'[p] = pidsMap[p]
                  BY <2>7, <3>2, <5>3 DEF PowerOnInsert, Count, Granting, Granted, ThreadsOf
            <6>2. QED
                  BY <5>1, <6>1
          <5>4. QED
                BY <5>2, <5>3
        <4>2. SessionInv'
              BY <2>7, <3>2 DEF PowerOnInsert, Granting, ThreadsOf
        <4>3. QED
              BY <4>1, <4>2 DEF CountMatchesSessions
      <3>3. QED
            BY <3>1, <3>2
    <2>8. CASE PowerOnUpdate(t)
      <3>1. ASSUME NEW p \in Pids, alive'[p]
            PROVE pidsMap'[p] = Cardinality(Granted(p)')
        <4>1. pidsMap[p] = Cardinality(Granted(p))
              BY <2>8, <3>1 DEF PowerOnUpdate, CountMatchesSessions
        <4>2. CASE p = PidOf[t]
          <5>1. Granted(p)' = Granted(p) \cup {t} /\ t \notin Granted(p)
                BY <2>8, <3>1, <4>2 DEF PowerOnUpdate, Granting, Granted, ThreadsOf
          <5>2. pidsMap'[p] = pidsMap[p] + 1
                BY <2>8, <4>2 DEF PowerOnUpdate, Count
          <5>3. QED
                BY <4>1, <5>1, <5>2, GrantedCount
        <4>3. CASE p # PidOf[t]
          <5>1. Granted(p)' = Granted(p) /\ pidsMap'[p] = pidsMap[p]
                BY <2>8, <4>3 DEF PowerOnUpdate, Count, Granting, Granted, ThreadsOf
          <5>2. QED
                BY <4>1, <5>1
        <4>4. QED
              BY <4>2, <4>3
      <3>2. SessionInv'
            BY <2>8 DEF PowerOnUpdate, Granting, ThreadsOf
      <3>3. QED
            BY <3>1, <3>2 DEF CountMatchesSessions
    <2>9. CASE PowerOnRecount(t)
          BY <2>9, CountFrame DEF PowerOnRecount, Access, ThreadsOf
    <2>10. CASE PowerOffRefused(t)
      <3>1. ~InUse(t)
        <4>1. SUFFICES ASSUME InUse(t) PROVE FALSE
              OBVIOUS
        <4>2. Cardinality(Granted(PidOf[t])) = 0
              BY <2>10, <4>1 DEF PowerOffRefused, MapInv, CountMatchesSessions
        <4>3. Granted(PidOf[t]) = {}
              BY <4>2, GrantedCount
        <4>4. QED
              BY <4>1, <4>3 DEF Granted, ThreadsOf
      <3>2. session' = session
            BY <2>10, <3>1 DEF PowerOffRefused
      <3>3. QED
            BY <2>10, <3>2, CountFrame DEF PowerOffRefused, ThreadsOf
    <2>11. CASE PowerOffEnter(t)
          BY <2>11, CountFrame DEF PowerOffEnter, ThreadsOf
    <2>12. CASE PowerOffUnlink(t)
          BY <2>12, CountFrame DEF PowerOffUnlink, ThreadsOf
    <2>13. CASE PowerOffCount(t)
      <3>1. ASSUME NEW p \in Pids, alive'[p]
            PROVE pidsMap'[p] = Cardinality(Granted(p)')
        <4>1. pidsMap[p] = Cardinality(Granted(p))
              BY <2>13, <3>1 DEF PowerOffCount, CountMatchesSessions
        <4>2. CASE p = PidOf[t]
          <5>1. pidsMap[p] > 0
            <6>1. alive[p] /\ p \in entries
                  BY <2>13, <3>1, <4>2 DEF PowerOffCount, MapInv
            <6>2. \A u \in ThreadsOf(p) : pc[u] \notin {"offTest", "offErase"}
                  BY <2>13 DEF PowerOffCount, DaemonInv, MutexInv, ThreadsOf
            <6>3. QED
                  BY <6>1, <6>2 DEF MapInv, OnlyDeadMiscounted
          <5>2. Granted(p) # {}
            <6>1. Cardinality(Granted(p)) # 0
                  BY <4>1, <5>1
            <6>2. QED
                  BY <6>1, GrantedCount
          <5>3. t \in Granted(p)
            <6>1. InUse(t) \/ ThreadsOf(p) = {t}
                  BY <2>13, <3>1, <4>2 DEF PowerOffCount
            <6>2. Granted(p) \subseteq ThreadsOf(p)
                  BY DEF Granted
            <6>3. InUse(t) => t \in Granted(p)
                  BY <4>2 DEF Granted, ThreadsOf
            <6>4. QED
                  BY <5>2, <6>1, <6>2, <6>3
          <5>4. Granted(p)' = Granted(p) \ {t}
                BY <2>13, <4>2 DEF PowerOffCount, Granted, ThreadsOf
          <5>5. pidsMap'[p] = pidsMap[p] - 1
                BY <2>13, <4>2 DEF PowerOffCount, Count
          <5>6. QED
                BY <4>1, <5>3, <5>4, <5>5, GrantedCount
        <4>3. CASE p # PidOf[t]
          <5>1. Granted(p)' = Granted(p) /\ pidsMap'[p] = pidsMap[p]
                BY <2>13, <4>3 DEF PowerOffCount, Count, Granting, Granted, ThreadsOf
          <5>2. QED
                BY <4>1, <5>1
        <4>4. QED
              BY <4>2, <4>3
      <3>2. SessionInv'
            BY <2>13 DEF PowerOffCount, ThreadsOf
      <3>3. QED
            BY <3>1, <3>2 DEF CountMatchesSessions
    <2>14. CASE PowerOffTest(t)
          BY <2>14, CountFrame DEF PowerOffTest, ThreadsOf
    <2>15. CASE PowerOffKeep(t)
          BY <2>15, CountFrame DEF PowerOffKeep, ThreadsOf
    <2>16. CASE PowerOffErase(t)
      <3>1. ASSUME NEW p \in Pids, alive'[p]
            PROVE pidsMap'[p] = pidsMap[p]
            BY <2>16, <3>1 DEF PowerOffErase, Erase, MapInv, OnlyDeadMiscounted
      <3>2. CountMatchesSessions'
            BY <2>16, <3>1 DEF PowerOffErase, CountMatchesSessions, Granted, ThreadsOf
      <3>3. QED
            BY <2>16, <3>2 DEF PowerOffErase, ThreadsOf
    <2>17. CASE PowerOffCheck(t)
          BY <2>17, CountFrame DEF PowerOffCheck, ThreadsOf
    <2>18. CASE Killall(t)
          BY <2>18, CountFrame DEF Killall
    <2>19. QED
          BY <1>2, <2>1, <2>2, <2>3, <2>4, <2>5, <2>6, <2>7, <2>8, <2>9, <2>10, <2>11,
             <2>12, <2>13, <2>14, <2>15, <2>16, <2>17, <2>18
          DEF Serve, PowerOnUndo, PowerOffPower, KillallPower
  <1>3. ASSUME NEW t \in Threads, binderDied(t)
        PROVE CountInv'
    <2>1. CASE binderDiedEnter(t)
          BY <2>1, CountFrame DEF binderDiedEnter, ThreadsOf
    <2>2. CASE binderDiedErase(t)
      <3>1. ASSUME NEW p \in Pids, alive'[p]
            PROVE pidsMap'[p] = pidsMap[p]
            BY <2>2, <3>1 DEF binderDiedErase, Erase, MapInv
      <3>2. CountMatchesSessions'
            BY <2>2, <3>1 DEF binderDiedErase, CountMatchesSessions, Granted, ThreadsOf
      <3>3. QED
            BY <2>2, <3>2 DEF binderDiedErase, ThreadsOf
    <2>3. CASE binderDiedCheck(t)
          BY <2>3, CountFrame DEF binderDiedCheck, ThreadsOf
    <2>4. CASE binderDiedNode(t)
          BY <2>4, CountFrame DEF binderDiedNode, ThreadsOf
    <2>5. CASE binderDiedPower(t)
          BY <2>5, CountFrame DEF binderDiedPower, ThreadsOf
    <2>6. QED
          BY <1>3, <2>1, <2>2, <2>3, <2>4, <2>5 DEF binderDied
  <1>4. CASE GetState
        BY <1>4, CountFrame DEF GetState, ThreadsOf
  <1>5. ASSUME NEW p \in Pids, ClientDies(p)
        PROVE CountInv'
    <2>1. ASSUME NEW q \in Pids, alive'[q]
          PROVE alive[q] /\ Granted(q)' = Granted(q)
          BY <1>5, <2>1 DEF ClientDies, Granted, ThreadsOf
    <2>2. CountMatchesSessions'
          BY <1>5, <2>1 DEF ClientDies, CountMatchesSessions
    <2>3. QED
          BY <1>5, <2>2 DEF ClientDies, ThreadsOf
  <1>6. CASE DaemonDies
        BY <1>6 DEF DaemonDies
  <1>7. CASE Download
        BY <1>7, CountFrame DEF Download, ThreadsOf
  <1>8. CASE UNCHANGED vars
        BY <1>8, CountFrame DEF vars, ThreadsOf
  <1>9. QED
        BY <1>1, <1>2, <1>3, <1>4, <1>5, <1>6, <1>7, <1>8 DEF Next

LEMMA CountInvariant ==
  ASSUME ~DaemonDeath, ~eSEClient_Debug
  PROVE  Spec => []CountInv
  <1>1. TypeOK /\ TypeOK' /\ DaemonInv /\ MapInv /\ CountInv /\ [Next]_vars => CountInv'
        BY CountInvNext
  <1>2. QED
        BY <1>1, Typing, DaemonInvariant, MapInvariant, CountInvInit, PTL DEF Spec

-----------------------------------------------------------------------------
(* Power.  While no client process dies, a session that powerOn is about   *)
(* to grant or has granted finds the element powered: only PowerDown       *)
(* switches it off, with pidsMap empty and the mutex held.                 *)

PowerInv ==
    /\ InUsePowered
    /\ \A t \in Threads : pc[t] \in {"link", "insert", "update"} => spi
    /\ \A t \in Threads : watch[t] \in {"none", "linked"}
    /\ \A p \in Pids : alive[p]

(* powerOff, killall and an undone powerOn never switch off under a held   *)
(* session: there is none when pidsMap is empty.                           *)
LEMMA NobodyInUse ==
  ASSUME TypeOK, MapInv, CountInv, isPidsMapEmpty
  PROVE  \A t \in Threads : ~InUse(t)
  <1> SUFFICES ASSUME NEW t \in Threads, InUse(t) PROVE FALSE
      OBVIOUS
  <1>1. PidOf[t] \in Pids
        BY ThreadsAssumption
  <1>2. pidsMap[PidOf[t]] = 0
        BY <1>1 DEF MapInv, isPidsMapEmpty
  <1>3. alive[PidOf[t]]
        BY DEF CountInv, SessionInv
  <1>4. Cardinality(Granted(PidOf[t])) = 0
        BY <1>1, <1>2, <1>3 DEF CountInv, CountMatchesSessions
  <1>5. Granted(PidOf[t]) = {}
        BY <1>1, <1>4, GrantedCount
  <1>6. QED
        BY <1>5 DEF Granted, ThreadsOf, InUse

(* The three ways to switch off under the mutex find nobody in use.        *)
LEMMA SwitchOffUnused ==
  ASSUME TypeOK, DaemonInv, MapInv, CountInv, NEW t \in Threads,
         PowerOnUndo(t) \/ PowerOffPower(t) \/ KillallPower(t)
  PROVE  \A u \in Threads : ~InUse(u)
  <1>1. isPidsMapEmpty
        BY DEF PowerOnUndo, PowerOffPower, KillallPower, PowerDown, DaemonInv, NodeInv
  <1>2. QED
        BY <1>1, NobodyInUse

(* Nothing else but the death handler switches off.                        *)
LEMMA OthersKeepPower ==
  ASSUME TypeOK, [Next]_vars, spi, ~spi'
  PROVE  \E t \in Threads : \/ PowerOnUndo(t) \/ PowerOffPower(t) \/ KillallPower(t)
                            \/ binderDiedPower(t)
  <1> USE DEF driverVars
  <1>1. ASSUME NEW t \in Threads, NEW call \in Waiting, Call(t, call)
        PROVE FALSE
        BY <1>1 DEF Call
  <1>2. ASSUME NEW t \in Threads, Serve(t, BindingReports)
        PROVE PowerOnUndo(t) \/ PowerOffPower(t) \/ KillallPower(t)
        BY <1>2 DEF Serve, PowerOnForbidden, PowerOnBadUid, PowerOnQuery,
           PowerOnSetPower, PowerOnLink, PowerOnInsert, PowerOnUpdate, PowerOnRecount,
           PowerOffRefused, PowerOffEnter, PowerOffUnlink, PowerOffCount, PowerOffTest,
           PowerOffKeep, PowerOffErase, PowerOffCheck, Killall
  <1>3. ASSUME NEW t \in Threads, binderDied(t)
        PROVE binderDiedPower(t)
        BY <1>3 DEF binderDied, binderDiedEnter, binderDiedErase, binderDiedCheck,
           binderDiedNode
  <1>4. ~GetState /\ ~DaemonDies /\ ~Download /\ ~UNCHANGED vars
        BY DEF GetState, DaemonDies, Download, vars
  <1>5. ASSUME NEW p \in Pids, ClientDies(p)
        PROVE FALSE
        BY <1>5 DEF ClientDies
  <1>6. QED
        BY <1>1, <1>2, <1>3, <1>4, <1>5 DEF Next

LEMMA PowerInvInit == Init => PowerInv
  BY ThreadsAssumption DEF Init, PowerInv, InUsePowered, InUse

LEMMA PowerInvNext ==
  ASSUME ~DaemonDeath, ~eSEClient_Debug, ClientDeath = "never"
  PROVE  TypeOK /\ TypeOK' /\ DaemonInv /\ MapInv /\ CountInv /\ PowerInv /\ [Next]_vars
           => PowerInv'
  <1> SUFFICES ASSUME TypeOK, TypeOK', DaemonInv, MapInv, CountInv, PowerInv, [Next]_vars
               PROVE  PowerInv'
      OBVIOUS
  <1> USE ThreadsAssumption DEF TypeOK, Waiting, Serving, Goto, Enter, Continue,
        Reply, Unlink, Granting, PowerInv, InUsePowered, InUse, mapVars, daemonVars,
        callVars, clientVars, driverVars
  <1>1. ASSUME NEW t \in Threads, NEW call \in Waiting, Call(t, call)
        PROVE PowerInv'
        BY <1>1 DEF Call
  <1>2. ASSUME NEW t \in Threads, Serve(t, BindingReports)
        PROVE PowerInv'
    <2>1. CASE \E report \in BindingReports : PowerOnForbidden(t, report)
          BY <2>1 DEF PowerOnForbidden
    <2>2. CASE \E report \in BindingReports : PowerOnBadUid(t, report)
          BY <2>2 DEF PowerOnBadUid
    <2>3. CASE \E report \in BindingReports : PowerOnQuery(t, report)
          BY <2>3 DEF PowerOnQuery
    <2>4. CASE PowerOnSetPower(t)
          BY <2>4 DEF PowerOnSetPower
    <2>5. CASE PowerOnLink(t)
          BY <2>5 DEF PowerOnLink
    <2>6. CASE PowerOnUndo(t) \/ PowerOffPower(t) \/ KillallPower(t)
      <3>1. \A u \in Threads : ~InUse(u)
            BY <2>6, SwitchOffUnused
      <3>2. \A u \in Threads : pc[u] \in {"link", "insert", "update"} => u = t
            BY <2>6 DEF PowerOnUndo, PowerOffPower, KillallPower, PowerDown,
               DaemonInv, MutexInv
      <3>3. QED
            BY <2>6, <3>1, <3>2 DEF PowerOnUndo, PowerOffPower, KillallPower, PowerDown
    <2>7. CASE PowerOnInsert(t)
          BY <2>7 DEF PowerOnInsert
    <2>8. CASE PowerOnUpdate(t)
          BY <2>8 DEF PowerOnUpdate
    <2>9. CASE PowerOnRecount(t)
          BY <2>9 DEF PowerOnRecount
    <2>10. CASE PowerOffRefused(t)
          BY <2>10 DEF PowerOffRefused
    <2>11. CASE PowerOffEnter(t)
          BY <2>11 DEF PowerOffEnter
    <2>12. CASE PowerOffUnlink(t)
          BY <2>12 DEF PowerOffUnlink
    <2>13. CASE PowerOffCount(t)
          BY <2>13 DEF PowerOffCount
    <2>14. CASE PowerOffTest(t)
          BY <2>14 DEF PowerOffTest
    <2>15. CASE PowerOffKeep(t)
          BY <2>15 DEF PowerOffKeep
    <2>16. CASE PowerOffErase(t)
          BY <2>16 DEF PowerOffErase
    <2>17. CASE PowerOffCheck(t)
          BY <2>17 DEF PowerOffCheck
    <2>18. CASE Killall(t)
          BY <2>18 DEF Killall, CountInv, SessionInv
    <2>19. QED
          BY <1>2, <2>1, <2>2, <2>3, <2>4, <2>5, <2>6, <2>7, <2>8, <2>9, <2>10, <2>11,
             <2>12, <2>13, <2>14, <2>15, <2>16, <2>17, <2>18
          DEF Serve
  <1>3. ASSUME NEW t \in Threads, binderDied(t)
        PROVE PowerInv'
        BY <1>3 DEF binderDied, binderDiedEnter, binderDiedErase, binderDiedCheck,
           binderDiedNode, binderDiedPower
  <1>4. CASE GetState
        BY <1>4 DEF GetState
  <1>5. ASSUME NEW p \in Pids, ClientDies(p)
        PROVE PowerInv'
        BY <1>5 DEF ClientDies
  <1>6. CASE DaemonDies
        BY <1>6 DEF DaemonDies
  <1>7. CASE Download
        BY <1>7 DEF Download
  <1>8. CASE UNCHANGED vars
        BY <1>8 DEF vars
  <1>9. QED
        BY <1>1, <1>2, <1>3, <1>4, <1>5, <1>6, <1>7, <1>8 DEF Next

LEMMA PowerInvariant ==
  ASSUME ~DaemonDeath, ~eSEClient_Debug, ClientDeath = "never"
  PROVE  Spec => []PowerInv
  <1>1. TypeOK /\ TypeOK' /\ DaemonInv /\ MapInv /\ CountInv /\ PowerInv /\ [Next]_vars
          => PowerInv'
        BY PowerInvNext
  <1>2. Spec => []CountInv
        BY CountInvariant
  <1>3. QED
        BY <1>1, <1>2, Typing, DaemonInvariant, MapInvariant, PowerInvInit, PTL DEF Spec

(* Lives change by deaths only, and dead processes stay dead.              *)
LEMMA OnlyClientsDie ==
  ASSUME TypeOK, [Next]_vars, NEW p \in Pids, alive'[p] # alive[p]
  PROVE  ClientDies(p)
  <1>1. ASSUME NEW t \in Threads, NEW call \in Waiting, Call(t, call)
        PROVE  FALSE
        BY <1>1 DEF Call, clientVars
  <1>2. ASSUME NEW t \in Threads, Serve(t, BindingReports)
        PROVE  UNCHANGED alive
        BY <1>2 DEF Serve, clientVars, PowerOnForbidden, PowerOnBadUid, PowerOnQuery,
           PowerOnSetPower, PowerOnLink, PowerOnUndo, PowerOnInsert, PowerOnUpdate,
           PowerOnRecount, PowerOffRefused, PowerOffEnter, PowerOffUnlink, PowerOffCount,
           PowerOffTest, PowerOffKeep, PowerOffErase, PowerOffCheck, PowerOffPower,
           Killall, KillallPower, PowerDown
  <1>3. ASSUME NEW t \in Threads, binderDied(t)
        PROVE  FALSE
        BY <1>3 DEF binderDied, clientVars, binderDiedEnter, binderDiedErase,
           binderDiedCheck, binderDiedNode, binderDiedPower
  <1>4. ~GetState /\ ~DaemonDies /\ ~Download /\ ~UNCHANGED vars
        BY DEF GetState, DaemonDies, Download, vars, clientVars
  <1>5. ASSUME NEW q \in Pids, ClientDies(q)
        PROVE  ClientDies(p)
        BY <1>5 DEF ClientDies, TypeOK
  <1>6. QED
        BY <1>1, <1>2, <1>3, <1>4, <1>5 DEF Next

-----------------------------------------------------------------------------
(* The theorems a reader should know of.                                   *)

(* Whatever dies and whatever fails, a registered process finds the node   *)
(* open (or lost to a failed close), never merely closed.                  *)
THEOREM NodeStaysOpen == Spec => []NodeOpenWhileRegistered
  <1>1. DaemonInv => NodeOpenWhileRegistered
        BY DEF DaemonInv, NodeInv
  <1>2. QED
        BY <1>1, DaemonInvariant, PTL

(* "let's assume it's off" is right in powerOff and in binderDied, whatever*)
(* dies and whatever fails.                                                *)
THEOREM AssumptionRight == Spec => []AssumedOff
  <1>1. DaemonInv => AssumedOff
        BY DEF DaemonInv, AssumedOffInv, AssumedOff
  <1>2. QED
        BY <1>1, DaemonInvariant, PTL

(* Whatever dies, restarts and fails: operator[] finds the entry of a      *)
(* running process where the call saw it, a count is -1 only on its way    *)
(* out, and only for a dead process.                                       *)
THEOREM OnlyDeadCountedWrong == Spec => []OnlyDeadMiscounted
  <1>1. MapInv => OnlyDeadMiscounted
        BY DEF MapInv
  <1>2. QED
        BY <1>1, MapInvariant, PTL

(* While the daemon lives, client_threadCount of a running process is its  *)
(* number of sessions, though others die and driver calls fail.            *)
THEOREM CountsExact ==
  ASSUME ~DaemonDeath, ~eSEClient_Debug
  PROVE  Spec => []CountMatchesSessions
  <1>1. CountInv => CountMatchesSessions
        BY DEF CountInv
  <1>2. Spec => []CountInv
        BY CountInvariant
  <1>3. QED
        BY <1>1, <1>2, PTL

LEMMA OnlyHandlerCutsStep ==
  ASSUME TypeOK, TypeOK', DaemonInv, MapInv, CountInv, [Next]_vars,
         spi, ~spi', NEW u \in Threads, InUse(u)
  PROVE  \E t \in Threads : watch[t] = "off" /\ watch'[t] = "none"
  <1>1. PICK t \in Threads : \/ PowerOnUndo(t) \/ PowerOffPower(t) \/ KillallPower(t)
                             \/ binderDiedPower(t)
        BY OthersKeepPower
  <1>2. binderDiedPower(t)
        BY <1>1, SwitchOffUnused
  <1>3. QED
        BY <1>2 DEF binderDiedPower, TypeOK

(* No call served under the mutex takes the power from a held session; the *)
(* death handler is the only code that can.                                *)
THEOREM OnlyHandlerCuts ==
  ASSUME ~DaemonDeath, ~eSEClient_Debug
  PROVE  Spec => OnlyDeathHandlerCutsPower
  <1>1. TypeOK /\ TypeOK' /\ DaemonInv /\ MapInv /\ CountInv /\ [Next]_vars
          => [ (spi /\ ~spi' /\ \E u \in Threads : InUse(u))
                => \E t \in Threads : watch[t] = "off" /\ watch'[t] = "none" ]_vars
        BY OnlyHandlerCutsStep
  <1>2. Spec => []CountInv
        BY CountInvariant
  <1>3. QED
        BY <1>1, <1>2, Typing, DaemonInvariant, MapInvariant, PTL
        DEF Spec, OnlyDeathHandlerCutsPower

(* While no process dies, whoever powerOn answered with 1 has a powered    *)
(* element until its powerOff, through every driver failure, download,     *)
(* refusal and missing callback.                                           *)
THEOREM SessionsPowered ==
  ASSUME ~DaemonDeath, ~eSEClient_Debug, ClientDeath = "never"
  PROVE  Spec => []InUsePowered
  <1>1. PowerInv => InUsePowered
        BY DEF PowerInv
  <1>2. Spec => []PowerInv
        BY PowerInvariant
  <1>3. QED
        BY <1>1, <1>2, PTL

-----------------------------------------------------------------------------
(* The power manager implements PowerLease while no process dies.          *)

LEMMA LeaseStep ==
  ASSUME ~DaemonDeath, ~eSEClient_Debug, ClientDeath = "never",
         TypeOK, TypeOK', DaemonInv, MapInv, CountInv, PowerInv, [Next]_vars
  PROVE  [Lease!Next]_(Lease!vars)
  <1> USE DEF Lease!vars, InUse, clientVars, driverVars
  <1> DEFINE Held == {t \in Threads : session[t] = "granted"}
  <1>1. ASSUME NEW t \in Threads, NEW call \in Waiting, Call(t, call)
        PROVE UNCHANGED Lease!vars
        BY <1>1 DEF Call
  <1>2. ASSUME NEW t \in Threads, Serve(t, BindingReports)
        PROVE [Lease!Next]_(Lease!vars)
    <2>1. CASE \/ \E report \in BindingReports : \/ PowerOnForbidden(t, report)
                                                  \/ PowerOnBadUid(t, report)
                                                  \/ PowerOnQuery(t, report)
               \/ PowerOnLink(t) \/ PowerOnRecount(t)
               \/ PowerOffEnter(t) \/ PowerOffUnlink(t) \/ PowerOffTest(t)
               \/ PowerOffKeep(t) \/ PowerOffErase(t) \/ PowerOffCheck(t)
          BY <2>1 DEF PowerOnForbidden, PowerOnBadUid, PowerOnQuery, PowerOnLink,
             PowerOnRecount, PowerOffEnter, PowerOffUnlink, PowerOffTest, PowerOffKeep,
             PowerOffErase, PowerOffCheck
    <2>2. CASE PowerOnSetPower(t)
      <3>1. UNCHANGED Held /\ (UNCHANGED spi \/ spi' = TRUE)
            BY <2>2 DEF PowerOnSetPower
      <3>2. QED
            BY <3>1 DEF Lease!Next, Lease!PowerUp, TypeOK
    <2>3. CASE PowerOnUndo(t) \/ PowerOffPower(t) \/ KillallPower(t)
      <3>1. UNCHANGED Held /\ (UNCHANGED spi \/ spi' = FALSE)
            BY <2>3 DEF PowerOnUndo, PowerOffPower, KillallPower, PowerDown
      <3>2. Held = {}
            BY <2>3, SwitchOffUnused
      <3>3. QED
            BY <3>1, <3>2 DEF Lease!Next, Lease!PowerDown, TypeOK
    <2>4. CASE PowerOnInsert(t) \/ PowerOnUpdate(t)
      <3>1. spi /\ UNCHANGED spi
            BY <2>4 DEF PowerOnInsert, PowerOnUpdate, PowerInv
      <3>2. session' = session \/ session' = [session EXCEPT ![t] = "granted"]
            BY <2>4 DEF PowerOnInsert, PowerOnUpdate, Granting
      <3>3. t \notin Held
            BY <2>4 DEF PowerOnInsert, PowerOnUpdate, CountInv, SessionInv
      <3>4. Held' = Held \/ Held' = Held \cup {t}
            BY <3>2 DEF TypeOK
      <3>5. QED
            BY <3>1, <3>3, <3>4 DEF Lease!Next, Lease!Grant
    <2>5. CASE PowerOffRefused(t) \/ PowerOffCount(t)
      <3>1. session' = [session EXCEPT ![t] = "none"] /\ UNCHANGED spi
            BY <2>5 DEF PowerOffRefused, PowerOffCount
      <3>2. Held' = Held \ {t}
            BY <3>1 DEF TypeOK
      <3>3. Held' = Held \/ (t \in Held /\ Held' = Held \ {t})
            BY <3>2
      <3>4. QED
            BY <3>1, <3>3 DEF Lease!Next, Lease!Release
    <2>6. CASE Killall(t)
          BY <2>6 DEF Killall, Enter, CountInv, SessionInv
    <2>7. QED
          BY <1>2, <2>1, <2>2, <2>3, <2>4, <2>5, <2>6 DEF Serve
  <1>3. ASSUME NEW t \in Threads, binderDied(t)
        PROVE UNCHANGED Lease!vars
        BY <1>3, ThreadsAssumption
        DEF binderDied, binderDiedEnter, binderDiedErase, binderDiedCheck, binderDiedNode,
            binderDiedPower, PowerInv, TypeOK
  <1>4. CASE GetState \/ DaemonDies \/ Download \/ UNCHANGED vars
        BY <1>4 DEF GetState, DaemonDies, Download, vars
  <1>5. ASSUME NEW p \in Pids, ClientDies(p)
        PROVE FALSE
        BY <1>5 DEF ClientDies
  <1>6. QED
        BY <1>1, <1>2, <1>3, <1>4, <1>5 DEF Next

(* Every behaviour of the power manager is one of the lease: it grants on  *)
(* a powered element only and switches off with no session held.           *)
THEOREM LeaseImplemented ==
  ASSUME ~DaemonDeath, ~eSEClient_Debug, ClientDeath = "never"
  PROVE  Spec => LeaseSafety
  <1>1. Init => Lease!Init
        BY DEF Init, Lease!Init, InUse
  <1>2. TypeOK /\ TypeOK' /\ DaemonInv /\ MapInv /\ CountInv /\ PowerInv /\ [Next]_vars
          => [Lease!Next]_(Lease!vars)
        BY LeaseStep
  <1>3. Spec => []CountInv /\ []PowerInv
        BY CountInvariant, PowerInvariant
  <1>4. QED
        BY <1>1, <1>2, <1>3, Typing, DaemonInvariant, MapInvariant, PTL
        DEF Spec, LeaseSafety, Lease!Spec
=============================================================================
