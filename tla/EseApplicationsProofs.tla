----------------------- MODULE EseApplicationsProofs -----------------------
(***************************************************************************)
(* What is proved of the programs that use the power manager, for every    *)
(* number of processes, threads and rounds.                                *)
(***************************************************************************)
EXTENDS EseApplications, EsePowerDeathProofs

-----------------------------------------------------------------------------
(* The programs call the power manager as EsePowerManager lets clients do, *)
(* so what is proved of its clients holds of them.                         *)

AppTypeOK ==
    /\ program \in [Pids -> {"getCplcTest", "MainActivity", "client"}]
    /\ \A p \in Pids : program[p] \in Programs[p]
    /\ stage \in [Threads -> {"unborn", "out", "powerOn", "powerOff", "done",
                             "pairOn", "keyOn", "lastOff"}]
    /\ binding \in BindingReports

LEMMA AppTypeInit == AppInit => AppTypeOK
  <1> SUFFICES ASSUME AppInit PROVE AppTypeOK
      OBVIOUS
  <1>1. program \in [Pids -> {"getCplcTest", "MainActivity", "client"}]
        BY ProgramAssumption DEF AppInit
  <1>2. stage \in [Threads -> {"unborn", "out", "powerOn", "powerOff", "done",
                              "pairOn", "keyOn", "lastOff"}]
        BY DEF AppInit
  <1>3. QED
        BY <1>1, <1>2 DEF AppInit, AppTypeOK

LEMMA AppTypeNext == AppTypeOK /\ [AppNext]_allVars => AppTypeOK'
  <1> SUFFICES ASSUME AppTypeOK, [AppNext]_allVars PROVE AppTypeOK'
      OBVIOUS
  <1> USE BindingAssumption DEF AppTypeOK, Move, appVars, programVars
  <1>1. ASSUME NEW t \in Threads, Goes(t)
        PROVE  AppTypeOK'
    <2>1. CASE Job(t)
          BY <2>1 DEF Job, JobPowerOn, JobPowerOnFailed, JobPowerOff, JobReturns
    <2>2. CASE pthread_create(t) \/ getCplcThreadEnds(t)
          BY <2>2 DEF pthread_create, getCplcThreadEnds
    <2>3. CASE ClientPowerOn(t) \/ ClientPowerOff(t) \/ ClientEnds(t)
          BY <2>3 DEF ClientPowerOn, ClientPowerOff, ClientEnds
    <2>4. QED
          BY <1>1, <2>1, <2>2, <2>3 DEF Goes
  <1>2. ASSUME NEW t \in Threads, onResume(t) \/ startBinding(t) \/ clearBindingInfo(t)
                                   \/ ClientKeyPressed(t)
        PROVE  AppTypeOK'
        BY <1>2 DEF onResume, startBinding, clearBindingInfo, native_eseSendCommandEx,
           sendCommandEx, ClientKeyPressed
  <1>3. ASSUME NEW p \in Pids, ese_powerOff_handler(p)
        PROVE  AppTypeOK'
        BY <1>3 DEF ese_powerOff_handler
  <1>4. CASE fptest \/ BindingChanges
        BY <1>4 DEF fptest, sendCommandEx, BindingChanges
  <1>5. CASE UNCHANGED appVars
        BY <1>5
  <1>6. QED
        BY <1>1, <1>2, <1>3, <1>4, <1>5
        DEF AppNext, User, Obituary, ServeBound, pthread_createFails, getServFails,
            ProcessEnds, allVars

LEMMA ServedAsReported ==
  ASSUME AppTypeOK, NEW t \in Threads, Serve(t, {binding})
  PROVE  Serve(t, BindingReports)
  BY DEF AppTypeOK, Serve

(* What a step of the programs is to the power manager.                    *)
LEMMA AppStep ==
  ASSUME AppTypeOK, [AppNext]_allVars
  PROVE  \/ UNCHANGED vars
         \/ \E t \in Threads, call \in {"waitOn", "waitOff"} : Call(t, call)
         \/ UNCHANGED appVars /\ \E t \in Threads : Serve(t, {binding})
         \/ UNCHANGED appVars /\ \E t \in Threads : binderDied(t)
         \/ UNCHANGED appVars /\ GetState
         \/ UNCHANGED appVars /\ \E p \in Pids : ClientDies(p)
  <1>1. ASSUME NEW t \in Threads, Goes(t)
        PROVE  UNCHANGED vars \/ \E call \in {"waitOn", "waitOff"} : Call(t, call)
        BY <1>1 DEF Goes, Job, JobPowerOn, JobPowerOnFailed, JobPowerOff, JobReturns,
           pthread_create, getCplcThreadEnds, ClientPowerOn, ClientPowerOff, ClientEnds
  <1>2. ASSUME User \/ fptest \/ BindingChanges
        PROVE  UNCHANGED vars
        BY <1>2 DEF User, ese_powerOff_handler, onResume, startBinding, clearBindingInfo,
           native_eseSendCommandEx, ClientKeyPressed, fptest, sendCommandEx, BindingChanges
  <1>3. QED
        BY <1>1, <1>2
        DEF AppNext, Obituary, ServeBound, pthread_createFails, getServFails, ProcessEnds,
            allVars

LEMMA AppNextIsNext == AppTypeOK /\ [AppNext]_allVars => [Next]_vars
  <1>1. {"waitOn", "waitOff"} \subseteq Waiting
        BY DEF Waiting
  <1>2. QED
        BY <1>1, AppStep, ServedAsReported DEF Next

(* The programs are clients of the power manager: each of their behaviours *)
(* is one of EsePowerManager, so what is proved of that holds of them.     *)
THEOREM ProgramsAreClients == AppSpec => Spec
  <1>1. AppInit => Init
        BY DEF AppInit
  <1>2. QED
        BY <1>1, AppNextIsNext, AppTypeInit, AppTypeNext, PTL DEF AppSpec, Spec

LEMMA AppTyping == AppSpec => []AppTypeOK
  BY AppTypeInit, AppTypeNext, PTL DEF AppSpec

-----------------------------------------------------------------------------
(* Where a thread is in its program tells what it may have of the daemon.  *)
StageInv ==
    \A t \in Threads :
        /\ stage[t] \in {"unborn", "out"} => pc[t] = "idle" /\ ~InUse(t)
        /\ stage[t] = "done" => pc[t] = "idle" /\ (InUse(t) => Runs(t, "client"))
        /\ stage[t] = "keyOn" => Runs(t, "client")
        /\ stage[t] \in {"powerOff", "lastOff"} =>
               /\ pc[t] \in {"idle", "waitOff", "offUnlink", "offCount", "offTest",
                             "offKeep", "offErase", "offCheck", "offPower"}
               /\ InUse(t) => pc[t] \in {"waitOff", "offUnlink", "offCount"}

LEMMA StageInvInit == AppInit => StageInv
  BY DEF AppInit, Init, StageInv, InUse

LEMMA StageInvNext == TypeOK /\ AppTypeOK /\ StageInv /\ [AppNext]_allVars => StageInv'
  <1> SUFFICES ASSUME TypeOK, AppTypeOK, StageInv, [AppNext]_allVars PROVE StageInv'
      OBVIOUS
  <1> USE ThreadsAssumption DEF TypeOK, AppTypeOK, StageInv, Move, Runs, InUse, Goto,
        Enter, Continue, Reply, Waiting, Serving, mapVars, daemonVars, callVars, clientVars,
        driverVars, appVars, programVars
  <1>1. ASSUME NEW t \in Threads, Job(t)
        PROVE  StageInv'
    <2>1. CASE JobPowerOn(t)
          BY <2>1 DEF JobPowerOn, Call
    <2>2. CASE JobPowerOnFailed(t)
          BY <2>2 DEF JobPowerOnFailed, vars
    <2>3. CASE JobPowerOff(t)
          BY <2>3 DEF JobPowerOff, Call
    <2>4. CASE JobReturns(t)
          BY <2>4 DEF JobReturns, vars
    <2>5. QED
          BY <1>1, <2>1, <2>2, <2>3, <2>4 DEF Job
  <1>2. ASSUME NEW t \in Threads, pthread_create(t) \/ getCplcThreadEnds(t)
        PROVE  StageInv'
        BY <1>2 DEF pthread_create, getCplcThreadEnds, vars
  <1>3. ASSUME NEW t \in Threads, ClientPowerOn(t) \/ ClientPowerOff(t)
        PROVE  StageInv'
        BY <1>3 DEF ClientPowerOn, ClientPowerOff, Call
  <1>4. ASSUME NEW t \in Threads, ClientEnds(t) \/ ClientKeyPressed(t)
        PROVE  StageInv'
        BY <1>4 DEF ClientEnds, ClientKeyPressed, vars
  <1>5. CASE UNCHANGED <<vars, program, stage>>
        BY <1>5 DEF vars
  <1>6. ASSUME NEW t \in Threads, Serve(t, BindingReports), UNCHANGED appVars
        PROVE  StageInv'
    <2>1. CASE \E report \in BindingReports : PowerOnForbidden(t, report)
          BY <1>6, <2>1 DEF PowerOnForbidden
    <2>2. CASE \E report \in BindingReports : PowerOnBadUid(t, report)
          BY <1>6, <2>2 DEF PowerOnBadUid
    <2>3. CASE \E report \in BindingReports : PowerOnQuery(t, report)
          BY <1>6, <2>3 DEF PowerOnQuery
    <2>4. CASE PowerOnSetPower(t)
          BY <1>6, <2>4 DEF PowerOnSetPower
    <2>5. CASE PowerOnLink(t)
          BY <1>6, <2>5 DEF PowerOnLink
    <2>6. CASE \E point \in {"undo", "offPower", "killPower"} : PowerDown(t, point)
          BY <1>6, <2>6 DEF PowerDown
    <2>7. CASE PowerOnInsert(t)
          BY <1>6, <2>7 DEF PowerOnInsert, Granting
    <2>8. CASE PowerOnUpdate(t)
          BY <1>6, <2>8 DEF PowerOnUpdate, Granting
    <2>9. CASE PowerOnRecount(t)
          BY <1>6, <2>9 DEF PowerOnRecount
    <2>10. CASE PowerOffRefused(t)
          BY <1>6, <2>10 DEF PowerOffRefused
    <2>11. CASE PowerOffEnter(t)
          BY <1>6, <2>11 DEF PowerOffEnter
    <2>12. CASE PowerOffUnlink(t)
          BY <1>6, <2>12 DEF PowerOffUnlink
    <2>13. CASE PowerOffCount(t)
          BY <1>6, <2>13 DEF PowerOffCount
    <2>14. CASE PowerOffTest(t)
          BY <1>6, <2>14 DEF PowerOffTest
    <2>15. CASE PowerOffKeep(t)
          BY <1>6, <2>15 DEF PowerOffKeep
    <2>16. CASE PowerOffErase(t)
          BY <1>6, <2>16 DEF PowerOffErase
    <2>17. CASE PowerOffCheck(t)
          BY <1>6, <2>17 DEF PowerOffCheck
    <2>18. CASE Killall(t)
          BY <1>6, <2>18 DEF Killall
    <2>19. QED
          BY <1>6, <2>1, <2>2, <2>3, <2>4, <2>5, <2>6, <2>7, <2>8, <2>9, <2>10, <2>11,
             <2>12, <2>13, <2>14, <2>15, <2>16, <2>17, <2>18
          DEF Serve, PowerOnUndo, PowerOffPower, KillallPower
  <1>7. ASSUME NEW t \in Threads, binderDied(t), UNCHANGED appVars
        PROVE  StageInv'
        BY <1>7 DEF binderDied, binderDiedEnter, binderDiedErase, binderDiedCheck,
           binderDiedNode, binderDiedPower
  <1>8. ASSUME GetState, UNCHANGED appVars
        PROVE  StageInv'
        BY <1>8 DEF GetState
  <1>9. ASSUME NEW p \in Pids, ClientDies(p), UNCHANGED appVars
        PROVE  StageInv'
        BY <1>9 DEF ClientDies
  <1>10. ASSUME User, ~\E t \in Threads : ClientKeyPressed(t)
        PROVE  UNCHANGED <<vars, program, stage>>
        BY <1>10 DEF User, ese_powerOff_handler, onResume, startBinding, clearBindingInfo,
           native_eseSendCommandEx, sendCommandEx
  <1>11. ASSUME fptest \/ BindingChanges \/ UNCHANGED allVars
        PROVE  UNCHANGED <<vars, program, stage>>
        BY <1>11 DEF fptest, BindingChanges, sendCommandEx, allVars
  <1>12. QED
        BY <1>1, <1>2, <1>3, <1>4, <1>5, <1>6, <1>7, <1>8, <1>9, <1>10, <1>11,
           ServedAsReported
        DEF AppNext, Goes, Obituary, ServeBound, pthread_createFails, getServFails,
            ProcessEnds

LEMMA StageInvariant == AppSpec => []StageInv
  BY StageInvInit, StageInvNext, ProgramsAreClients, Typing, AppTyping, PTL DEF AppSpec

-----------------------------------------------------------------------------
(* Ends of processes.  A thread that is out of its jobs has no call under  *)
(* way; and a process that has ended goes nowhere.                         *)

AtRest(p) == \A t \in ThreadsOf(p) : stage[t] \in {"unborn", "out", "done"}

LEMMA RestingIdle ==
  ASSUME StageInv, NEW p \in Pids, AtRest(p)
  PROVE  \A t \in ThreadsOf(p) : pc[t] = "idle"
  BY DEF StageInv, AtRest, ThreadsOf

LEMMA OnlyTheLivingMove ==
  ASSUME AppTypeOK, [AppNext]_allVars, NEW t \in Threads, ~alive[PidOf[t]]
  PROVE  stage'[t] = stage[t]
  <1> USE DEF AppTypeOK, Move
  <1>1. ASSUME NEW u \in Threads, Goes(u)
        PROVE  stage'[t] = stage[t]
    <2>1. CASE Job(u)
          BY <2>1 DEF Job, JobPowerOn, JobPowerOnFailed, JobPowerOff, JobReturns
    <2>2. CASE pthread_create(u) \/ getCplcThreadEnds(u)
          BY <2>2 DEF pthread_create, getCplcThreadEnds
    <2>3. CASE ClientPowerOn(u) \/ ClientPowerOff(u) \/ ClientEnds(u)
          BY <2>3 DEF ClientPowerOn, ClientPowerOff, ClientEnds
    <2>4. QED
          BY <1>1, <2>1, <2>2, <2>3 DEF Goes
  <1>2. ASSUME NEW u \in Threads, ClientKeyPressed(u)
        PROVE  stage'[t] = stage[t]
        BY <1>2 DEF ClientKeyPressed
  <1>3. ASSUME User, ~\E u \in Threads : ClientKeyPressed(u)
        PROVE  UNCHANGED stage
        BY <1>3 DEF User, ese_powerOff_handler, onResume, startBinding, clearBindingInfo,
           native_eseSendCommandEx, sendCommandEx, programVars
  <1>4. ASSUME fptest \/ BindingChanges \/ UNCHANGED appVars \/ UNCHANGED allVars
        PROVE  UNCHANGED stage
        BY <1>4 DEF fptest, BindingChanges, sendCommandEx, allVars, appVars, programVars
  <1>5. QED
        BY <1>1, <1>2, <1>3, <1>4
        DEF AppNext, Obituary, ServeBound, pthread_createFails, getServFails, ProcessEnds

(* No step brings a process back to life.                                  *)
LEMMA DeadStayDead ==
  ASSUME TypeOK, [Next]_vars, NEW p \in Pids, ~alive[p]
  PROVE  ~alive'[p]
  BY OnlyClientsDie DEF ClientDies

LEMMA EndedAmidStays ==
  ASSUME TypeOK, AppTypeOK, [AppNext]_allVars, NEW p \in Pids, EndedAmid(p)
  PROVE  EndedAmid(p)'
  <1>1. ~alive'[p]
        BY AppNextIsNext, DeadStayDead DEF EndedAmid
  <1>2. \A t \in ThreadsOf(p) : stage'[t] = stage[t]
        BY OnlyTheLivingMove DEF EndedAmid, ThreadsOf
  <1>3. QED
        BY <1>1, <1>2 DEF EndedAmid, ThreadsOf

(* An end that is not amid a job or a call finds its process at rest.      *)
LEMMA EndsAtRest ==
  ASSUME TypeOK, AppTypeOK, [AppNext]_allVars, NEW p \in Pids, alive[p], ~alive'[p],
         ~EndedAmid(p)'
  PROVE  AtRest(p) /\ ClientDies(p) /\ UNCHANGED appVars
  <1>1. ClientDies(p)
        BY AppNextIsNext, OnlyClientsDie
  <1>2. UNCHANGED appVars
    <2>1. UNCHANGED alive => FALSE
          OBVIOUS
    <2>2. QED
          BY <2>1, AppStep DEF Call, vars, clientVars
  <1>3. QED
        BY <1>1, <1>2 DEF EndedAmid, AtRest, ThreadsOf, appVars, programVars

-----------------------------------------------------------------------------
(* Who is gone is forgotten.  A process that comes to its end at rest has  *)
(* no session left, but for a client that was told by a key to end with    *)
(* its session: single-threaded, it has its notifier linked.               *)

LEMMA RestingForgotten ==
  ASSUME TypeOK, AppTypeOK, StageInv, MapInv, CountInv, LinkedInv,
         NEW p \in Pids, alive[p], AtRest(p), p \in entries
  PROVE  \E t \in ThreadsOf(p) : watch[t] = "linked"
  <1>1. PICK t \in ThreadsOf(p) : InUse(t)
    <2>1. pidsMap[p] > 0
          BY RestingIdle DEF MapInv, OnlyDeadMiscounted
    <2>2. Cardinality(Granted(p)) # 0
          BY <2>1 DEF CountInv, CountMatchesSessions
    <2>3. Granted(p) # {}
          BY <2>2, GrantedCount
    <2>4. QED
          BY <2>3 DEF Granted, InUse
  <1>2. program[p] = "client" /\ PidOf[t] = p
        BY <1>1 DEF StageInv, AtRest, ThreadsOf, Runs
  <1>3. Cardinality(ThreadsOf(p)) <= 1
    <2>1. Programs[p] # {"getCplcTest"}
          BY <1>2 DEF AppTypeOK
    <2>2. IsFiniteSet(ThreadsOf(p)) /\ Cardinality(ThreadsOf(p)) \in Nat
          BY ThreadsAssumption, FS_Subset, FS_CardinalityType DEF ThreadsOf
    <2>3. QED
          BY <2>1, <2>2, ProgramAssumption
  <1>4. ThreadsOf(p) = {t}
    <2>1. IsFiniteSet(ThreadsOf(p))
          BY ThreadsAssumption, FS_Subset DEF ThreadsOf
    <2>2. Cardinality(ThreadsOf(p) \ {t}) = Cardinality(ThreadsOf(p)) - 1
          BY <2>1, FS_RemoveElement
    <2>3. /\ IsFiniteSet(ThreadsOf(p) \ {t})
          /\ Cardinality(ThreadsOf(p)) \in Nat
          /\ Cardinality(ThreadsOf(p) \ {t}) \in Nat
          BY <2>1, FS_RemoveElement, FS_CardinalityType
    <2>4. ThreadsOf(p) \ {t} = {}
          BY <1>3, <2>2, <2>3, FS_EmptySet
    <2>5. QED
          BY <2>4
  <1>5. QED
        BY <1>1, <1>2, <1>4, RestingIdle DEF LinkedInv, ThreadsOf

LEMMA GoneInvNext ==
  TypeOK /\ TypeOK' /\ AppTypeOK /\ StageInv /\ MapInv /\ CountInv /\ LinkedInv
    /\ GoneMeansForgotten /\ [AppNext]_allVars => GoneMeansForgotten'
  <1> SUFFICES ASSUME TypeOK, TypeOK', AppTypeOK, StageInv, MapInv, CountInv, LinkedInv,
                      GoneMeansForgotten, [AppNext]_allVars,
                      NEW p \in Pids, p \in entries', ~alive'[p], ~EndedAmid(p)'
               PROVE  \E t \in ThreadsOf(p) : DeathPending(t)'
      BY DEF GoneMeansForgotten, TypeOK
  <1>1. CASE alive[p]
    <2>1. AtRest(p) /\ UNCHANGED <<entries, watch>>
          BY <1>1, EndsAtRest DEF ClientDies, daemonVars, mapVars
    <2>2. QED
          BY <1>1, <2>1, RestingForgotten DEF DeathPending, ThreadsOf
  <1>2. CASE ~alive[p]
    <2>1. ~EndedAmid(p)
          BY EndedAmidStays
    <2>2. \A t \in ThreadsOf(p) : pc[t] = "idle"
          BY <1>2, <2>1, RestingIdle DEF EndedAmid, AtRest
    <2>3. /\ p \in entries
          /\ \A t \in ThreadsOf(p) : DeathPending(t) => DeathPending(t)'
          BY <1>2, <2>2, AppNextIsNext, DeadEntryErased
    <2>4. \E t \in ThreadsOf(p) : DeathPending(t)
          BY <1>2, <2>1, <2>3 DEF GoneMeansForgotten
    <2>5. QED
          BY <2>3, <2>4
  <1>3. QED
        BY <1>1, <1>2

(* A process that came to its end with its threads finished is not in      *)
(* pidsMap, or its obituary is to come, for every number of threads of     *)
(* getCplcTest, rounds and other programs.                                 *)
THEOREM GoneAreForgotten ==
  ASSUME ~DaemonDeath, ~eSEClient_Debug
  PROVE  AppSpec => []GoneMeansForgotten
  <1>1. AppInit => GoneMeansForgotten
        BY DEF AppInit, Init, GoneMeansForgotten
  <1>2. Spec => []CountInv
        BY CountInvariant
  <1>3. QED
        BY <1>1, <1>2, GoneInvNext, ProgramsAreClients, Typing, AppTyping, StageInvariant,
           MapInvariant, LinkedInvariant, PTL DEF AppSpec

-----------------------------------------------------------------------------
(* Power for nobody.  Until a process ends amid its calls, the argument of *)
(* EsePowerDeathProofs is good: every death comes between calls.           *)

AmidInv == IdleInv \/ \E p \in Pids : EndedAmid(p)

LEMMA AmidInvNext ==
  ASSUME ~DriverFaults, ~Downloads, ~DaemonDeath, ~eSEClient_Debug
  PROVE  TypeOK /\ TypeOK' /\ AppTypeOK /\ DaemonInv /\ CountInv /\ StageInv
           /\ AmidInv /\ [AppNext]_allVars => AmidInv'
  <1> SUFFICES ASSUME TypeOK, TypeOK', AppTypeOK, DaemonInv, CountInv, StageInv, AmidInv,
                      [AppNext]_allVars, \A p \in Pids : ~EndedAmid(p)'
               PROVE  IdleInv'
      BY DEF AmidInv
  <1>1. IdleInv
        BY EndedAmidStays DEF AmidInv
  <1>2. DiesBetweenCalls
        BY EndsAtRest, RestingIdle DEF DiesBetweenCalls
  <1>3. QED
        BY <1>1, <1>2, AppNextIsNext, IdleInvNext

(* The threads of getCplcTest that switch on and off at once, and the      *)
(* programs beside them, leave no element powered for nobody, unless a     *)
(* process was ended amid its threads' calls.                              *)
THEOREM IdleIsOff ==
  ASSUME ~DriverFaults, ~Downloads, ~DaemonDeath, ~eSEClient_Debug
  PROVE  AppSpec => []IdlePowerOnlyAfterAmid
  <1>1. AppInit => AmidInv
        BY DEF AppInit, Init, AmidInv, IdleInv, DriverInv
  <1>2. TypeOK /\ DaemonInv /\ AmidInv => IdlePowerOnlyAfterAmid
        BY IdleMeansOff DEF AmidInv, IdlePowerOnlyAfterAmid
  <1>3. TypeOK /\ TypeOK' /\ AppTypeOK /\ DaemonInv /\ CountInv /\ StageInv
          /\ AmidInv /\ [AppNext]_allVars => AmidInv'
        BY AmidInvNext
  <1>4. Spec => []CountInv
        BY CountInvariant
  <1>5. QED
        BY <1>1, <1>2, <1>3, <1>4, ProgramsAreClients, Typing, DaemonInvariant, AppTyping,
           StageInvariant, PTL DEF AppSpec

-----------------------------------------------------------------------------
(* Bad bindings.  Only a call that was allowed before switches on while    *)
(* the binding is in error; it has the mutex, so it is the only one, and   *)
(* no call has the privilege of the first one after it.                    *)

FirstInv == \A t \in Threads : pc[t] = "setPower" => ~isFirstCalled

BadBinding == binding \notin {"right", "none"}
NoneAllowed == ~isFirstCalled /\ \A t \in Threads : pc[t] # "setPower"

LEMMA FirstInvNext == TypeOK /\ FirstInv /\ [Next]_vars => FirstInv'
  <1> SUFFICES ASSUME TypeOK, FirstInv, [Next]_vars PROVE FirstInv'
      OBVIOUS
  <1> USE DEF TypeOK, FirstInv, Goto, Continue, Reply, Waiting, daemonVars, callVars
  <1>1. ASSUME NEW t \in Threads, NEW call \in Waiting, Call(t, call)
        PROVE  FirstInv'
        BY <1>1 DEF Call
  <1>2. ASSUME NEW t \in Threads, Serve(t, BindingReports)
        PROVE  FirstInv'
    <2>1. CASE \E report \in BindingReports :
                  PowerOnForbidden(t, report) \/ PowerOnBadUid(t, report)
          BY <2>1 DEF PowerOnForbidden, PowerOnBadUid
    <2>2. CASE \E report \in BindingReports : PowerOnQuery(t, report)
          BY <2>2 DEF PowerOnQuery
    <2>3. QED
          BY <1>2, <2>1, <2>2 DEF Serve, PowerOnSetPower, PowerOnLink, PowerOnUndo,
             PowerOnInsert, PowerOnUpdate, PowerOnRecount, PowerOffRefused, PowerOffEnter,
             PowerOffUnlink, PowerOffCount, PowerOffTest, PowerOffKeep, PowerOffErase,
             PowerOffCheck, PowerOffPower, Killall, KillallPower, PowerDown
  <1>3. ASSUME NEW t \in Threads, binderDied(t)
        PROVE  FirstInv'
        BY <1>3 DEF binderDied, binderDiedEnter, binderDiedErase, binderDiedCheck,
           binderDiedNode, binderDiedPower
  <1>4. CASE GetState \/ DaemonDies \/ Download \/ UNCHANGED vars
        BY <1>4 DEF GetState, DaemonDies, Download, vars
  <1>5. ASSUME NEW p \in Pids, ClientDies(p)
        PROVE  FirstInv'
        BY <1>5 DEF ClientDies
  <1>6. QED
        BY <1>1, <1>2, <1>3, <1>4, <1>5 DEF Next

(* What a step may do then.                                                *)
Switches ==
    /\ NoneAllowed => NoneAllowed' /\ (spi' => spi)
    /\ ~spi /\ spi' => NoneAllowed'

LEMMA BadBindingStep ==
  ASSUME TypeOK, DaemonInv, FirstInv, AppTypeOK, BadBinding, [AppNext]_allVars
  PROVE  Switches
  <1> USE DEF TypeOK, Switches, NoneAllowed, Goto, Continue, Reply, Enter, daemonVars,
        callVars, driverVars
  <1>1. ASSUME NEW t \in Threads, Serve(t, {binding})
        PROVE  Switches
    <2>1. CASE \E report \in {binding} : \/ PowerOnForbidden(t, report)
                                         \/ PowerOnBadUid(t, report)
                                         \/ PowerOnQuery(t, report)
          BY <2>1 DEF PowerOnForbidden, PowerOnBadUid, PowerOnQuery, isPowerOnAllowed,
             BadBinding
    <2>2. CASE PowerOnSetPower(t)
          BY <2>2 DEF PowerOnSetPower, DaemonInv, MutexInv, FirstInv, Serving
    <2>3. CASE \/ PowerOnLink(t) \/ PowerOnInsert(t) \/ PowerOnUpdate(t)
               \/ PowerOnRecount(t) \/ PowerOffRefused(t) \/ PowerOffEnter(t)
               \/ PowerOffUnlink(t) \/ PowerOffCount(t) \/ PowerOffTest(t)
               \/ PowerOffKeep(t) \/ PowerOffErase(t) \/ PowerOffCheck(t) \/ Killall(t)
          BY <2>3 DEF PowerOnLink, PowerOnInsert, PowerOnUpdate, PowerOnRecount,
             PowerOffRefused, PowerOffEnter, PowerOffUnlink, PowerOffCount, PowerOffTest,
             PowerOffKeep, PowerOffErase, PowerOffCheck, Killall
    <2>4. CASE \E point \in {"undo", "offPower", "killPower"} : PowerDown(t, point)
          BY <2>4 DEF PowerDown
    <2>5. QED
          BY <1>1, <2>1, <2>2, <2>3, <2>4 DEF Serve, PowerOnUndo, PowerOffPower,
             KillallPower
  <1>2. ASSUME NEW t \in Threads, NEW call \in {"waitOn", "waitOff"}, Call(t, call)
        PROVE  Switches
        BY <1>2 DEF Call
  <1>3. ASSUME NEW t \in Threads, binderDied(t)
        PROVE  Switches
        BY <1>3 DEF binderDied, binderDiedEnter, binderDiedErase, binderDiedCheck,
           binderDiedNode, binderDiedPower
  <1>4. ASSUME GetState \/ UNCHANGED vars
        PROVE  Switches
        BY <1>4 DEF GetState, vars
  <1>5. ASSUME NEW p \in Pids, ClientDies(p)
        PROVE  Switches
        BY <1>5 DEF ClientDies
  <1>6. QED
        BY <1>1, <1>2, <1>3, <1>4, <1>5, AppStep

(* While the binding stays in error the element is switched on at most     *)
(* once more, so in the end it is on or off for good.                      *)
THEOREM BadBindingStopsPowerUps == AppSpec => BadBindingEndsPowerUps
  <1>1. Init => FirstInv
        BY DEF Init, FirstInv
  <1>2. TypeOK /\ DaemonInv /\ FirstInv /\ AppTypeOK /\ BadBinding /\ [AppNext]_allVars
          => Switches
        BY BadBindingStep
  <1>3. BadBinding <=> binding \notin {"right", "none"}
        BY DEF BadBinding
  <1>4. Spec => []FirstInv
        BY <1>1, FirstInvNext, Typing, PTL DEF Spec
  <1>5. QED
        BY <1>2, <1>3, <1>4, ProgramsAreClients, DaemonInvariant, AppTyping, PTL
        DEF AppSpec, BadBindingEndsPowerUps, Switches
=============================================================================
