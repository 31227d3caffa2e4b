------------------------ MODULE EsePowerDeathProofs ------------------------
(***************************************************************************)
(* What is proved of the power manager when processes die: counts across   *)
(* restarts of the daemon, and the power that no dead client keeps on.     *)
(***************************************************************************)
EXTENDS EsePowerManagerProofs

-----------------------------------------------------------------------------
(* Counts never exceed sessions, whatever dies: a call that will add to    *)
(* the count has no session yet, and who has an entry may give it back.    *)

PhantomInv ==
    /\ \A p \in Pids : pidsMap[p] > 0 => p \in Permitted
    /\ \A t \in Threads :
          /\ pc[t] \in {"waitOn", "setPower", "link", "undo", "insert", "update"}
               => ~InUse(t)
          /\ pc[t] \in {"setPower", "link", "insert", "update"} => PidOf[t] \in Permitted
    /\ NoPhantomCount

(* A step that adds to no count and takes no session leaves them agreed.   *)
LEMMA PhantomFrame ==
  ASSUME NoPhantomCount, TypeOK,
         \A p \in Pids : alive'[p] => alive[p] /\ pidsMap'[p] = pidsMap[p]
                                      /\ Granted(p)' = Granted(p)
  PROVE  NoPhantomCount'
  BY DEF NoPhantomCount

LEMMA PhantomFrameAll ==
  NoPhantomCount /\ UNCHANGED <<pidsMap, session, alive>> => NoPhantomCount'
  BY DEF NoPhantomCount, Granted, ThreadsOf

LEMMA NoCountNoPhantom ==
  ASSUME TypeOK', \A p \in Pids : alive'[p] => pidsMap'[p] = 0
  PROVE  NoPhantomCount'
  <1>1. ASSUME NEW p \in Pids
        PROVE  Cardinality(Granted(p)') \in Nat
        BY ThreadsAssumption, FS_Subset, FS_CardinalityType DEF Granted, ThreadsOf
  <1>2. QED
        BY <1>1 DEF NoPhantomCount

LEMMA PhantomInvNext ==
  TypeOK /\ TypeOK' /\ MapInv /\ PhantomInv /\ [Next]_vars => PhantomInv'
  <1> SUFFICES ASSUME TypeOK, TypeOK', MapInv, PhantomInv, [Next]_vars PROVE PhantomInv'
      OBVIOUS
  <1> USE ThreadsAssumption DEF TypeOK, Waiting, Serving, Goto, Enter, Continue,
        Reply, PhantomInv, InUse, mapVars, daemonVars, callVars, clientVars, driverVars
  <1>1. ASSUME NEW t \in Threads, NEW call \in Waiting, Call(t, call)
        PROVE PhantomInv'
        BY <1>1, PhantomFrameAll DEF Call
  <1>2. ASSUME NEW t \in Threads, Serve(t, BindingReports)
        PROVE PhantomInv'
    <2>1. CASE \E report \in BindingReports : PowerOnForbidden(t, report)
          BY <2>1, PhantomFrameAll DEF PowerOnForbidden
    <2>2. CASE \E report \in BindingReports : PowerOnBadUid(t, report)
          BY <2>2, PhantomFrameAll DEF PowerOnBadUid
    <2>3. CASE \E report \in BindingReports : PowerOnQuery(t, report)
          BY <2>3, PhantomFrameAll DEF PowerOnQuery
    <2>4. CASE PowerOnSetPower(t)
          BY <2>4, PhantomFrameAll DEF PowerOnSetPower
    <2>5. CASE PowerOnLink(t)
          BY <2>5, PhantomFrameAll DEF PowerOnLink
    <2>6. CASE \E point \in {"undo", "offPower", "killPower"} : PowerDown(t, point)
          BY <2>6, PhantomFrameAll DEF PowerDown
    <2>7. CASE PowerOnInsert(t)
      <3>1. CASE PidOf[t] \in entries
            BY <2>7, <3>1, PhantomFrameAll DEF PowerOnInsert
      <3>2. CASE PidOf[t] \notin entries
        <4>1. ASSUME NEW p \in Pids, alive'[p]
              PROVE  pidsMap'[p] <= Cardinality(Granted(p)')
          <5>1. pidsMap[p] <= Cardinality(Granted(p)) /\ Cardinality(Granted(p)) \in Nat
                BY <2>7, <4>1, GrantedFinite DEF PowerOnInsert, NoPhantomCount
          <5>2. CASE p = PidOf[t]
            <6>1. Granted(p)' = Granted(p) \cup {t} /\ t \notin Granted(p)
                  BY <2>7, <3>2, <4>1, <5>2 DEF PowerOnInsert, Granting, Granted, ThreadsOf
            <6>2. pidsMap'[p] = 1
                  BY <2>7, <3>2, <5>2 DEF PowerOnInsert, Count
            <6>3. QED
                  BY <5>1, <6>1, <6>2, GrantedCount
          <5>3. CASE p # PidOf[t]
            <6>1. Granted(p)' = Granted(p) /\ pidsMap'[p] = pidsMap[p]
                  BY <2>7, <3>2, <5>3 DEF PowerOnInsert, Count, Granting, Granted, ThreadsOf
            <6>2. QED
                  BY <5>1, <6>1
          <5>4. QED
                BY <5>2, <5>3
        <4>2. QED
              BY <2>7, <3>2, <4>1 DEF PowerOnInsert, Count, Granting, NoPhantomCount
      <3>3. QED
            BY <3>1, <3>2
    <2>8. CASE PowerOnUpdate(t)
      <3>1. ASSUME NEW p \in Pids, alive'[p]
            PROVE  pidsMap'[p] <= Cardinality(Granted(p)')
        <4>1. pidsMap[p] <= Cardinality(Granted(p)) /\ Cardinality(Granted(p)) \in Nat
              BY <2>8, <3>1, GrantedFinite DEF PowerOnUpdate, NoPhantomCount
        <4>2. CASE p = PidOf[t]
          <5>1. Granted(p)' = Granted(p) \cup {t} /\ t \notin Granted(p)
                BY <2>8, <3>1, <4>2 DEF PowerOnUpdate, Granting, Granted, ThreadsOf
          <5>2. pidsMap'[p] = pidsMap[p] + 1
                BY <2>8, <4>2 DEF PowerOnUpdate, Count
          <5>3. QED
                BY <4>1, <5>1, <5>2, GrantedCount
        <4>3. CASE p # PidOf[t]
          <5>1. Granted(p)' = Granted(p) /\ pidsMap'[p] = pidsMap[p]
                BY <2>8, <4>3 DEF PowerOnUpdate, Count, Granting, Granted, ThreadsOf
          <5>2. QED
                BY <4>1, <5>1
        <4>4. QED
              BY <4>2, <4>3
      <3>2. QED
            BY <2>8, <3>1 DEF PowerOnUpdate, Count, Granting, NoPhantomCount
    <2>9. CASE PowerOnRecount(t)
          BY <2>9, PhantomFrameAll DEF PowerOnRecount
    <2>10. CASE PowerOffRefused(t)
      <3>1. pidsMap[PidOf[t]] <= 0
            BY <2>10 DEF PowerOffRefused, MapInv
      <3>2. ASSUME NEW p \in Pids, alive'[p]
            PROVE  pidsMap'[p] <= Cardinality(Granted(p)')
        <4>1. CASE p = PidOf[t]
          <5>1. pidsMap'[p] <= 0
                BY <2>10, <3>1, <4>1 DEF PowerOffRefused
          <5>2. Cardinality(Granted(p)') \in Nat
                BY FS_Subset, FS_CardinalityType DEF Granted, ThreadsOf
          <5>3. QED
                BY <5>1, <5>2
        <4>2. CASE p # PidOf[t]
          <5>1. Granted(p)' = Granted(p) /\ pidsMap'[p] = pidsMap[p]
                BY <2>10, <4>2 DEF PowerOffRefused, Granted, ThreadsOf
          <5>2. QED
                BY <2>10, <3>2, <5>1 DEF PowerOffRefused, NoPhantomCount
        <4>3. QED
              BY <4>1, <4>2
      <3>3. QED
            BY <2>10, <3>2 DEF PowerOffRefused, NoPhantomCount
    <2>11. CASE PowerOffEnter(t)
          BY <2>11, PhantomFrameAll DEF PowerOffEnter
    <2>12. CASE PowerOffUnlink(t)
          BY <2>12, PhantomFrameAll DEF PowerOffUnlink
    <2>13. CASE PowerOffCount(t)
      <3>1. ASSUME NEW p \in Pids, alive'[p]
            PROVE  pidsMap'[p] <= Cardinality(Granted(p)')
        <4>1. pidsMap[p] <= Cardinality(Granted(p)) /\ Cardinality(Granted(p)) \in Nat
              BY <2>13, <3>1, GrantedFinite DEF PowerOffCount, NoPhantomCount
        <4>2. CASE p = PidOf[t]
          <5>1. pidsMap'[p] = pidsMap[p] - 1
                BY <2>13, <4>2 DEF PowerOffCount, Count
          <5>2. Granted(p)' = Granted(p) \ {t}
                BY <2>13, <4>2 DEF PowerOffCount, Granted, ThreadsOf
          <5>3. CASE t \in Granted(p)
                BY <4>1, <5>1, <5>2, <5>3, GrantedCount
          <5>4. CASE t \notin Granted(p)
            <6>1. Granted(p)' = Granted(p)
                  BY <5>2, <5>4
            <6>2. QED
                  BY <4>1, <5>1, <6>1
          <5>5. QED
                BY <5>3, <5>4
        <4>3. CASE p # PidOf[t]
          <5>1. Granted(p)' = Granted(p) /\ pidsMap'[p] = pidsMap[p]
                BY <2>13, <4>3 DEF PowerOffCount, Count, Granting, Granted, ThreadsOf
          <5>2. QED
                BY <4>1, <5>1
        <4>4. QED
              BY <4>2, <4>3
      <3>2. QED
            BY <2>13, <3>1 DEF PowerOffCount, Count, Granting, NoPhantomCount
    <2>14. CASE PowerOffTest(t)
          BY <2>14, PhantomFrameAll DEF PowerOffTest
    <2>15. CASE PowerOffKeep(t)
          BY <2>15, PhantomFrameAll DEF PowerOffKeep
    <2>16. CASE PowerOffErase(t)
      <3>1. ASSUME NEW p \in Pids, alive'[p]
            PROVE  alive[p] /\ pidsMap'[p] = pidsMap[p] /\ Granted(p)' = Granted(p)
            BY <2>16, <3>1 DEF PowerOffErase, Erase, Granted, ThreadsOf, MapInv, OnlyDeadMiscounted
      <3>2. NoPhantomCount'
            BY <3>1, PhantomFrame
      <3>3. QED
            BY <2>16, <3>2 DEF PowerOffErase, Erase
    <2>17. CASE PowerOffCheck(t)
          BY <2>17, PhantomFrameAll DEF PowerOffCheck
    <2>18. CASE Killall(t)
      <3>1. CASE UNCHANGED <<pidsMap, session>>
            BY <2>18, <3>1, PhantomFrameAll DEF Killall
      <3>2. CASE /\ pidsMap' = [p \in Pids |-> 0]
                 /\ session' = [u \in Threads |-> IF session[u] = "granted" THEN "orphaned"
                                                                            ELSE session[u]]
            BY <2>18, <3>2, NoCountNoPhantom DEF Killall
      <3>3. QED
            BY <2>18, <3>1, <3>2 DEF Killall, Clear
    <2>19. QED
          BY <1>2, <2>1, <2>2, <2>3, <2>4, <2>5, <2>6, <2>7, <2>8, <2>9, <2>10, <2>11,
             <2>12, <2>13, <2>14, <2>15, <2>16, <2>17, <2>18
          DEF Serve, PowerOnUndo, PowerOffPower, KillallPower
  <1>3. ASSUME NEW t \in Threads, binderDied(t)
        PROVE PhantomInv'
    <2>1. CASE binderDiedEnter(t)
          BY <2>1, PhantomFrameAll DEF binderDiedEnter
    <2>2. CASE binderDiedErase(t)
      <3>1. ASSUME NEW p \in Pids, alive'[p]
            PROVE  alive[p] /\ pidsMap'[p] = pidsMap[p] /\ Granted(p)' = Granted(p)
            BY <2>2, <3>1 DEF binderDiedErase, Erase, Granted, ThreadsOf, MapInv, OnlyDeadMiscounted
      <3>2. NoPhantomCount'
            BY <3>1, PhantomFrame
      <3>3. QED
            BY <2>2, <3>2 DEF binderDiedErase, Erase
    <2>3. CASE binderDiedCheck(t)
          BY <2>3, PhantomFrameAll DEF binderDiedCheck
    <2>4. CASE binderDiedNode(t)
          BY <2>4, PhantomFrameAll DEF binderDiedNode
    <2>5. CASE binderDiedPower(t)
          BY <2>5, PhantomFrameAll DEF binderDiedPower
    <2>6. QED
          BY <1>3, <2>1, <2>2, <2>3, <2>4, <2>5 DEF binderDied
  <1>4. CASE GetState
        BY <1>4, PhantomFrameAll DEF GetState
  <1>5. ASSUME NEW p \in Pids, ClientDies(p)
        PROVE PhantomInv'
    <2>1. ASSUME NEW q \in Pids, alive'[q]
          PROVE  alive[q] /\ pidsMap'[q] = pidsMap[q] /\ Granted(q)' = Granted(q)
          BY <1>5, <2>1 DEF ClientDies, Granted, ThreadsOf
    <2>2. NoPhantomCount'
          BY <2>1, PhantomFrame
    <2>3. QED
          BY <1>5, <2>2 DEF ClientDies
  <1>6. CASE DaemonDies
        BY <1>6, NoCountNoPhantom DEF DaemonDies, Clear
  <1>7. CASE Download
        BY <1>7, PhantomFrameAll DEF Download
  <1>8. CASE UNCHANGED vars
        BY <1>8, PhantomFrameAll DEF vars
  <1>9. QED
        BY <1>1, <1>2, <1>3, <1>4, <1>5, <1>6, <1>7, <1>8 DEF Next

LEMMA PhantomInit == Init => PhantomInv
  <1> SUFFICES ASSUME Init PROVE PhantomInv
      OBVIOUS
  <1>1. \A p \in Pids : Cardinality(Granted(p)) \in Nat
        BY GrantedFinite
  <1>2. NoPhantomCount
        BY <1>1 DEF Init, NoPhantomCount
  <1>3. QED
        BY <1>2 DEF Init, PhantomInv, InUse

LEMMA PhantomInvariant == Spec => []PhantomInv
  BY PhantomInit, Typing, MapInvariant, PhantomInvNext, PTL DEF Spec

(* The daemon never counts a session that its client does not have, with   *)
(* deaths of clients, restarts of the daemon, killall and failures of the  *)
(* driver at any time.                                                     *)
THEOREM NoPhantoms == Spec => []NoPhantomCount
  <1>1. PhantomInv => NoPhantomCount
        BY DEF PhantomInv
  <1>2. QED
        BY <1>1, PhantomInvariant, PTL

-----------------------------------------------------------------------------
(* Obituaries.  A single-threaded process that is about to be registered,  *)
(* or that has a session, has its notifier linked until its own powerOff:  *)
(* the entry it is about to get is a new one, so the new notifier is the   *)
(* one that is kept.                                                       *)

LinkedInv ==
    \A t \in Threads : alive[PidOf[t]] /\ ThreadsOf(PidOf[t]) = {t} =>
        /\ pc[t] = "insert" \/ (InUse(t) /\ pc[t] # "offCount") => watch[t] = "linked"
        /\ pc[t] \notin {"update", "recount"}

(* A process without a session has no entry.                               *)
LEMMA NoSessionNoEntry ==
  ASSUME TypeOK, MapInv, PhantomInv, NEW p \in Pids, alive[p],
         \A t \in ThreadsOf(p) : ~InUse(t) /\ pc[t] \notin {"offTest", "offErase"}
  PROVE  p \notin entries
  <1>1. Granted(p) = {}
        BY DEF Granted, InUse
  <1>2. pidsMap[p] <= 0
        BY <1>1, FS_EmptySet DEF PhantomInv, NoPhantomCount
  <1>3. QED
        BY <1>2 DEF TypeOK, MapInv, OnlyDeadMiscounted

LEMMA LinkedInvNext ==
  TypeOK /\ TypeOK' /\ DaemonInv /\ MapInv /\ PhantomInv /\ LinkedInv /\ [Next]_vars
    => LinkedInv'
  <1> SUFFICES ASSUME TypeOK, TypeOK', DaemonInv, MapInv, PhantomInv, LinkedInv, [Next]_vars
               PROVE  LinkedInv'
      OBVIOUS
  <1> USE ThreadsAssumption DEF TypeOK, Waiting, Serving, Goto, Enter, Continue,
        Reply, Kept, Unlink, Granting, LinkedInv, ThreadsOf, InUse, mapVars, daemonVars,
        callVars, clientVars, driverVars
  <1>1. ASSUME NEW t \in Threads, NEW call \in Waiting, Call(t, call)
        PROVE LinkedInv'
        BY <1>1 DEF Call
  <1>2. ASSUME NEW t \in Threads, Serve(t, BindingReports)
        PROVE LinkedInv'
    <2>1. CASE \E report \in BindingReports : PowerOnForbidden(t, report)
          BY <2>1 DEF PowerOnForbidden
    <2>2. CASE \E report \in BindingReports : PowerOnBadUid(t, report)
          BY <2>2 DEF PowerOnBadUid
    <2>3. CASE \E report \in BindingReports : PowerOnQuery(t, report)
          BY <2>3 DEF PowerOnQuery
    <2>4. CASE PowerOnSetPower(t)
          BY <2>4 DEF PowerOnSetPower
    <2>5. CASE PowerOnLink(t)
          BY <2>5 DEF PowerOnLink
    <2>6. CASE \E point \in {"undo", "offPower", "killPower"} : PowerDown(t, point)
          BY <2>6 DEF PowerDown
    <2>7. CASE PowerOnInsert(t)
      <3>1. CASE alive[PidOf[t]] /\ ThreadsOf(PidOf[t]) = {t}
        <4>1. \A u \in ThreadsOf(PidOf[t]) : ~InUse(u) /\ pc[u] = "insert"
              BY <2>7, <3>1 DEF PowerOnInsert, PhantomInv
        <4>2. PidOf[t] \notin entries
              BY <3>1, <4>1, NoSessionNoEntry
        <4>3. QED
              BY <2>7, <4>2 DEF PowerOnInsert
      <3>2. CASE ~(alive[PidOf[t]] /\ ThreadsOf(PidOf[t]) = {t})
            BY <2>7, <3>2 DEF PowerOnInsert
      <3>3. QED
            BY <3>1, <3>2
    <2>8. CASE PowerOnUpdate(t)
          BY <2>8 DEF PowerOnUpdate
    <2>9. CASE PowerOnRecount(t)
          BY <2>9 DEF PowerOnRecount
    <2>10. CASE PowerOffRefused(t)
          BY <2>10 DEF PowerOffRefused
    <2>11. CASE PowerOffEnter(t)
          BY <2>11 DEF PowerOffEnter
    <2>12. CASE PowerOffUnlink(t)
          BY <2>12 DEF PowerOffUnlink
    <2>13. CASE PowerOffCount(t)
          BY <2>13 DEF PowerOffCount
    <2>14. CASE PowerOffTest(t)
          BY <2>14 DEF PowerOffTest
    <2>15. CASE PowerOffKeep(t)
          BY <2>15 DEF PowerOffKeep
    <2>16. CASE PowerOffErase(t)
          BY <2>16 DEF PowerOffErase
    <2>17. CASE PowerOffCheck(t)
          BY <2>17 DEF PowerOffCheck
    <2>18. CASE Killall(t)
          BY <2>18 DEF Killall, DaemonInv, MutexInv
    <2>19. QED
          BY <1>2, <2>1, <2>2, <2>3, <2>4, <2>5, <2>6, <2>7, <2>8, <2>9, <2>10, <2>11,
             <2>12, <2>13, <2>14, <2>15, <2>16, <2>17, <2>18
          DEF Serve, PowerOnUndo, PowerOffPower, KillallPower
  <1>3. ASSUME NEW t \in Threads, binderDied(t)
        PROVE LinkedInv'
    <2>1. CASE binderDiedEnter(t)
          BY <2>1 DEF binderDiedEnter
    <2>2. CASE binderDiedErase(t)
          BY <2>2 DEF binderDiedErase
    <2>3. CASE binderDiedCheck(t)
          BY <2>3 DEF binderDiedCheck
    <2>4. CASE binderDiedNode(t)
          BY <2>4 DEF binderDiedNode
    <2>5. CASE binderDiedPower(t)
          BY <2>5 DEF binderDiedPower
    <2>6. QED
          BY <1>3, <2>1, <2>2, <2>3, <2>4, <2>5 DEF binderDied
  <1>4. CASE GetState
        BY <1>4 DEF GetState
  <1>5. ASSUME NEW p \in Pids, ClientDies(p)
        PROVE LinkedInv'
        BY <1>5 DEF ClientDies
  <1>6. CASE DaemonDies
        BY <1>6 DEF DaemonDies
  <1>7. CASE Download
        BY <1>7 DEF Download
  <1>8. CASE UNCHANGED vars
        BY <1>8 DEF vars
  <1>9. QED
        BY <1>1, <1>2, <1>3, <1>4, <1>5, <1>6, <1>7, <1>8 DEF Next

LEMMA LinkedInvariant == Spec => []LinkedInv
  <1>1. Init => LinkedInv
        BY DEF Init, LinkedInv, InUse
  <1>2. QED
        BY <1>1, LinkedInvNext, PhantomInvariant, MapInvariant, Typing, DaemonInvariant, PTL
        DEF Spec

(* The entry of a dead process with no call under way is only ever erased, *)
(* and until then its notifier waits, linked, or runs.                     *)
LEMMA DeadEntryErased ==
  ASSUME TypeOK, [Next]_vars, NEW p \in Pids, ~alive[p],
         \A t \in ThreadsOf(p) : pc[t] = "idle", p \in entries'
  PROVE  /\ p \in entries
         /\ \A t \in ThreadsOf(p) : DeathPending(t) => DeathPending(t)'
  <1> USE ThreadsAssumption DEF TypeOK, Enter, ThreadsOf, DeathPending, mapVars, daemonVars,
        callVars, clientVars, Access, Count, Clear, Erase, Kept, Unlink
  <1>1. ASSUME NEW t \in Threads, NEW call \in Waiting, Call(t, call)
        PROVE  UNCHANGED <<entries, watch, alive>>
        BY <1>1 DEF Call
  <1>2. ASSUME NEW t \in Threads, Serve(t, BindingReports)
        PROVE  /\ p \in entries
               /\ \A u \in ThreadsOf(p) : DeathPending(u) => DeathPending(u)'
    <2>1. pc[t] # "idle"
          BY <1>2 DEF Serve, PowerOnForbidden, PowerOnBadUid, PowerOnQuery,
             PowerOnSetPower, PowerOnLink, PowerOnUndo, PowerOnInsert, PowerOnUpdate,
             PowerOnRecount, PowerOffRefused, PowerOffEnter, PowerOffUnlink, PowerOffCount,
             PowerOffTest, PowerOffKeep, PowerOffErase, PowerOffCheck, PowerOffPower,
             Killall, KillallPower, PowerDown
    <2>2. PidOf[t] # p
          BY <2>1
    <2>3. CASE PowerOnLink(t) \/ PowerOnInsert(t) \/ PowerOnUpdate(t) \/ PowerOnRecount(t)
          BY <2>2, <2>3 DEF PowerOnLink, PowerOnInsert, PowerOnUpdate, PowerOnRecount
    <2>4. CASE \/ PowerOffUnlink(t) \/ PowerOffCount(t) \/ PowerOffTest(t)
               \/ PowerOffKeep(t) \/ PowerOffErase(t)
          BY <2>2, <2>4 DEF PowerOffUnlink, PowerOffCount, PowerOffTest, PowerOffKeep,
             PowerOffErase
    <2>5. CASE Killall(t)
          BY <2>5 DEF Killall
    <2>6. CASE UNCHANGED <<entries, watch, alive>>
          BY <2>6
    <2>7. QED
          BY <1>2, <2>3, <2>4, <2>5, <2>6 DEF Serve, PowerOnForbidden, PowerOnBadUid,
             PowerOnQuery, PowerOnSetPower, PowerOnUndo, PowerOffRefused, PowerOffEnter,
             PowerOffCheck, PowerOffPower, KillallPower, PowerDown
  <1>3. ASSUME NEW t \in Threads, binderDied(t)
        PROVE  /\ p \in entries
               /\ \A u \in ThreadsOf(p) : DeathPending(u) => DeathPending(u)'
        BY <1>3 DEF binderDied, binderDiedEnter, binderDiedErase, binderDiedCheck,
           binderDiedNode, binderDiedPower
  <1>4. CASE GetState \/ Download \/ UNCHANGED vars
        BY <1>4 DEF GetState, Download, vars
  <1>5. ASSUME NEW q \in Pids, ClientDies(q)
        PROVE  /\ UNCHANGED <<entries, watch>>
               /\ \A u \in ThreadsOf(p) : ~alive'[PidOf[u]]
        BY <1>5 DEF ClientDies
  <1>6. ~DaemonDies
        BY DEF DaemonDies
  <1>7. QED
        BY <1>1, <1>2, <1>3, <1>4, <1>5, <1>6 DEF Next

(* No death comes within a call, so the notifier of a single-threaded      *)
(* process with an entry lives as long as the entry.                       *)
ForgottenInv ==
    /\ \A t \in Threads : pc[t] # "idle" => alive[PidOf[t]]
    /\ \A p \in entries : ~alive[p] => \E t \in ThreadsOf(p) : DeathPending(t)

LEMMA ForgottenInvNext ==
  ASSUME ClientDeath # "anytime", \A t \in Threads : ThreadsOf(PidOf[t]) = {t}
  PROVE  TypeOK /\ TypeOK' /\ MapInv /\ PhantomInv /\ LinkedInv /\ ForgottenInv
           /\ [Next]_vars => ForgottenInv'
  <1> SUFFICES ASSUME TypeOK, TypeOK', MapInv, PhantomInv, LinkedInv, ForgottenInv,
                      [Next]_vars
               PROVE  ForgottenInv'
      OBVIOUS
  <1> USE ThreadsAssumption DEF TypeOK, Waiting, Serving, Goto, Enter, Continue,
        Reply, Access, Count, Clear, Erase, Kept, Unlink, ForgottenInv, DeathPending,
        ThreadsOf, mapVars, daemonVars, callVars, clientVars, driverVars
  <1>1. ASSUME NEW t \in Threads, NEW call \in Waiting, Call(t, call)
        PROVE ForgottenInv'
        BY <1>1 DEF Call
  <1>2. ASSUME NEW t \in Threads, Serve(t, BindingReports)
        PROVE ForgottenInv'
    <2>1. CASE \E report \in BindingReports : PowerOnForbidden(t, report)
          BY <2>1 DEF PowerOnForbidden
    <2>2. CASE \E report \in BindingReports : PowerOnBadUid(t, report)
          BY <2>2 DEF PowerOnBadUid
    <2>3. CASE \E report \in BindingReports : PowerOnQuery(t, report)
          BY <2>3 DEF PowerOnQuery
    <2>4. CASE PowerOnSetPower(t)
          BY <2>4 DEF PowerOnSetPower
    <2>5. CASE PowerOnLink(t)
          BY <2>5 DEF PowerOnLink
    <2>6. CASE \E point \in {"undo", "offPower", "killPower"} : PowerDown(t, point)
          BY <2>6 DEF PowerDown
    <2>7. CASE PowerOnInsert(t)
          BY <2>7 DEF PowerOnInsert
    <2>8. CASE PowerOnUpdate(t)
          BY <2>8 DEF PowerOnUpdate
    <2>9. CASE PowerOnRecount(t)
          BY <2>9 DEF PowerOnRecount
    <2>10. CASE PowerOffRefused(t)
          BY <2>10 DEF PowerOffRefused
    <2>11. CASE PowerOffEnter(t)
          BY <2>11 DEF PowerOffEnter
    <2>12. CASE PowerOffUnlink(t)
          BY <2>12 DEF PowerOffUnlink
    <2>13. CASE PowerOffCount(t)
          BY <2>13 DEF PowerOffCount
    <2>14. CASE PowerOffTest(t)
          BY <2>14 DEF PowerOffTest
    <2>15. CASE PowerOffKeep(t)
          BY <2>15 DEF PowerOffKeep
    <2>16. CASE PowerOffErase(t)
          BY <2>16 DEF PowerOffErase
    <2>17. CASE PowerOffCheck(t)
          BY <2>17 DEF PowerOffCheck
    <2>18. CASE Killall(t)
          BY <2>18 DEF Killall
    <2>19. QED
          BY <1>2, <2>1, <2>2, <2>3, <2>4, <2>5, <2>6, <2>7, <2>8, <2>9, <2>10, <2>11,
             <2>12, <2>13, <2>14, <2>15, <2>16, <2>17, <2>18
          DEF Serve, PowerOnUndo, PowerOffPower, KillallPower
  <1>3. ASSUME NEW t \in Threads, binderDied(t)
        PROVE ForgottenInv'
    <2>1. CASE binderDiedEnter(t)
          BY <2>1 DEF binderDiedEnter
    <2>2. CASE binderDiedErase(t)
          BY <2>2 DEF binderDiedErase
    <2>3. CASE binderDiedCheck(t)
          BY <2>3 DEF binderDiedCheck
    <2>4. CASE binderDiedNode(t)
          BY <2>4 DEF binderDiedNode
    <2>5. CASE binderDiedPower(t)
          BY <2>5 DEF binderDiedPower
    <2>6. QED
          BY <1>3, <2>1, <2>2, <2>3, <2>4, <2>5 DEF binderDied
  <1>4. CASE GetState
        BY <1>4 DEF GetState
  <1>5. ASSUME NEW p \in Pids, ClientDies(p)
        PROVE ForgottenInv'
    <2>1. ASSUME p \in entries
          PROVE  \E t \in ThreadsOf(p) : watch[t] = "linked"
      <3>1. PICK t \in ThreadsOf(p) : InUse(t)
            BY <1>5, <2>1, NoSessionNoEntry DEF ClientDies
      <3>2. QED
            BY <1>5, <3>1 DEF ClientDies, LinkedInv
    <2>2. /\ \A t \in Threads : pc'[t] # "idle" => alive'[PidOf[t]]
          /\ alive' = [alive EXCEPT ![p] = FALSE]
          /\ UNCHANGED <<entries, watch>>
          BY <1>5 DEF ClientDies
    <2>3. QED
          BY <2>1, <2>2
  <1>6. CASE DaemonDies
        BY <1>6 DEF DaemonDies
  <1>7. CASE Download
        BY <1>7 DEF Download
  <1>8. CASE UNCHANGED vars
        BY <1>8 DEF vars
  <1>9. QED
        BY <1>1, <1>2, <1>3, <1>4, <1>5, <1>6, <1>7, <1>8 DEF Next

(* Where every client is single-threaded and dies between calls, no entry  *)
(* of a dead process stays in pidsMap once its obituary has been handled,  *)
(* whatever the driver, the daemon and killall do meanwhile.               *)
THEOREM SingleThreadedForgotten ==
  ASSUME ClientDeath # "anytime", \A t \in Threads : ThreadsOf(PidOf[t]) = {t}
  PROVE  Spec => []RegisteredMeansInUse
  <1>1. Init => ForgottenInv
        BY DEF Init, ForgottenInv
  <1>2. TypeOK /\ ForgottenInv => RegisteredMeansInUse
        BY DEF TypeOK, ForgottenInv, RegisteredMeansInUse
  <1>3. TypeOK /\ TypeOK' /\ MapInv /\ PhantomInv /\ LinkedInv /\ ForgottenInv
          /\ [Next]_vars => ForgottenInv'
        BY ForgottenInvNext
  <1>4. QED
        BY <1>1, <1>2, <1>3, Typing, MapInvariant, PhantomInvariant, LinkedInvariant, PTL
        DEF Spec

-----------------------------------------------------------------------------
(* Power for nobody.  Without failures of the driver, powered means that   *)
(* the node is open; and while pidsMap is empty, whoever is to register or *)
(* to switch off is on its way.                                            *)

DriverInv ==
    /\ nq_node \in {"closed", "open"}
    /\ spi => nq_node = "open"
    /\ ~dwnld
    /\ \A t \in Threads : pc[t] # "idle" => alive[PidOf[t]]

OnItsWay(t) ==
    pc[t] \in {"link", "undo", "insert", "offCheck", "offPower"} \/ HandlerRunning(t)

IdleInv ==
    /\ DriverInv
    /\ spi /\ isPidsMapEmpty => \E t \in Threads : OnItsWay(t)

(* A process that dies in this step has no call under way.                 *)
DiesBetweenCalls ==
    \A p \in Pids : alive[p] /\ ~alive'[p] => \A t \in ThreadsOf(p) : pc[t] = "idle"

LEMMA OrderlyDeaths ==
  ClientDeath # "anytime" /\ TypeOK /\ [Next]_vars => DiesBetweenCalls
  BY OnlyClientsDie DEF DiesBetweenCalls, ClientDies

LEMMA IdleInvNext ==
  ASSUME ~DriverFaults, ~Downloads, ~DaemonDeath, ~eSEClient_Debug
  PROVE  TypeOK /\ TypeOK' /\ DaemonInv /\ CountInv /\ IdleInv /\ DiesBetweenCalls
           /\ [Next]_vars => IdleInv'
  <1> SUFFICES ASSUME TypeOK, TypeOK', DaemonInv, CountInv, IdleInv, [Next]_vars,
                      DiesBetweenCalls
               PROVE  IdleInv'
      OBVIOUS
  <1> USE ThreadsAssumption DEF TypeOK, Waiting, Serving, Goto, Enter, Continue,
        Reply, Access, Count, Clear, Erase, Kept, Unlink, OpenNode, OpenFails, IoctlFails,
        CloseNode, DaemonInv, MutexInv, NodeInv, Registering, IdleInv, DriverInv, OnItsWay,
        HandlerRunning, isPidsMapEmpty, mapVars, daemonVars, callVars, clientVars, driverVars
  <1>1. ASSUME NEW t \in Threads, NEW call \in Waiting, Call(t, call)
        PROVE IdleInv'
        BY <1>1 DEF Call
  <1>2. ASSUME NEW t \in Threads, Serve(t, BindingReports)
        PROVE IdleInv'
    <2>1. CASE \E report \in BindingReports : PowerOnForbidden(t, report)
          BY <2>1 DEF PowerOnForbidden
    <2>2. CASE \E report \in BindingReports : PowerOnBadUid(t, report)
          BY <2>2 DEF PowerOnBadUid
    <2>3. CASE \E report \in BindingReports : PowerOnQuery(t, report)
          BY <2>3 DEF PowerOnQuery
    <2>4. CASE PowerOnSetPower(t)
          BY <2>4 DEF PowerOnSetPower
    <2>5. CASE PowerOnLink(t)
          BY <2>5 DEF PowerOnLink
    <2>6. CASE \E point \in {"undo", "offPower", "killPower"} : PowerDown(t, point)
          BY <2>6 DEF PowerDown
    <2>7. CASE PowerOnInsert(t)
          BY <2>7 DEF PowerOnInsert
    <2>8. CASE PowerOnUpdate(t)
          BY <2>8 DEF PowerOnUpdate
    <2>9. CASE PowerOnRecount(t)
          BY <2>9 DEF PowerOnRecount
    <2>10. CASE PowerOffRefused(t)
          BY <2>10 DEF PowerOffRefused
    <2>11. CASE PowerOffEnter(t)
          BY <2>11 DEF PowerOffEnter
    <2>12. CASE PowerOffUnlink(t)
          BY <2>12 DEF PowerOffUnlink
    <2>13. CASE PowerOffCount(t)
          BY <2>13 DEF PowerOffCount
    <2>14. CASE PowerOffTest(t)
          BY <2>14 DEF PowerOffTest
    <2>15. CASE PowerOffKeep(t)
          BY <2>15 DEF PowerOffKeep
    <2>16. CASE PowerOffErase(t)
          BY <2>16 DEF PowerOffErase
    <2>17. CASE PowerOffCheck(t)
          BY <2>17 DEF PowerOffCheck
    <2>18. CASE Killall(t)
          BY <2>18 DEF Killall, CountInv, SessionInv
    <2>19. QED
          BY <1>2, <2>1, <2>2, <2>3, <2>4, <2>5, <2>6, <2>7, <2>8, <2>9, <2>10, <2>11,
             <2>12, <2>13, <2>14, <2>15, <2>16, <2>17, <2>18
          DEF Serve, PowerOnUndo, PowerOffPower, KillallPower
  <1>3. ASSUME NEW t \in Threads, binderDied(t)
        PROVE IdleInv'
    <2>1. CASE binderDiedEnter(t)
          BY <2>1 DEF binderDiedEnter
    <2>2. CASE binderDiedErase(t)
          BY <2>2 DEF binderDiedErase
    <2>3. CASE binderDiedCheck(t)
          BY <2>3 DEF binderDiedCheck
    <2>4. CASE binderDiedNode(t)
          BY <2>4 DEF binderDiedNode
    <2>5. CASE binderDiedPower(t)
          BY <2>5 DEF binderDiedPower
    <2>6. QED
          BY <1>3, <2>1, <2>2, <2>3, <2>4, <2>5 DEF binderDied
  <1>4. CASE GetState
        BY <1>4 DEF GetState
  <1>5. ASSUME NEW p \in Pids, ClientDies(p)
        PROVE IdleInv'
        BY <1>5 DEF ClientDies, ThreadsOf, DiesBetweenCalls
  <1>6. CASE DaemonDies
        BY <1>6 DEF DaemonDies
  <1>7. CASE Download
        BY <1>7 DEF Download
  <1>8. CASE UNCHANGED vars
        BY <1>8 DEF vars
  <1>9. QED
        BY <1>1, <1>2, <1>3, <1>4, <1>5, <1>6, <1>7, <1>8 DEF Next

LEMMA IdleMeansOff == TypeOK /\ DaemonInv /\ IdleInv => NoIdlePower
  BY ThreadsAssumption
  DEF DaemonInv, MutexInv, TypeOK, Serving, IdleInv, OnItsWay, NoIdlePower

(* When clients die between calls only and the driver does not fail, an    *)
(* element that nobody is registered for is off between calls: of a        *)
(* powerOff and the obituaries that empty pidsMap together, the last one   *)
(* to look finds it empty.                                                 *)
THEOREM NobodyPowersNothing ==
  ASSUME ~DriverFaults, ~Downloads, ~DaemonDeath, ~eSEClient_Debug, ClientDeath # "anytime"
  PROVE  Spec => []NoIdlePower
  <1>1. Init => IdleInv
        BY DEF Init, IdleInv, DriverInv
  <1>2. TypeOK /\ DaemonInv /\ IdleInv => NoIdlePower
        BY IdleMeansOff
  <1>3. TypeOK /\ TypeOK' /\ DaemonInv /\ CountInv /\ IdleInv /\ [Next]_vars => IdleInv'
        BY IdleInvNext, OrderlyDeaths
  <1>4. Spec => []CountInv
        BY CountInvariant
  <1>5. QED
        BY <1>1, <1>2, <1>3, <1>4, Typing, DaemonInvariant, PTL DEF Spec
=============================================================================
