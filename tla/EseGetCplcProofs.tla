-------------------------- MODULE EseGetCplcProofs --------------------------
(***************************************************************************)
(* The two daemons together: what is proved of EsePowerManager alone holds *)
(* of the composed system, and gives every exchange its power and, where   *)
(* the TEE has room for it, its answer.                                    *)
(***************************************************************************)
EXTENDS EseGetCplc, EsePowerManagerProofs

allVars == <<vars, exchangeVars>>

(* Seen from the power manager, the composed system is a power manager.    *)
LEMMA SystemStep == [SystemNext]_allVars => [Next]_vars
  BY DEF SystemNext, PowerStep, getEseCplc, Exchange, allVars

LEMMA SystemRefinesSpec == SystemSpec => Spec
  BY SystemStep, PTL DEF SystemSpec, SystemInit, Spec, allVars

(* An exchange of a process that is running runs inside a session of its   *)
(* thread, which has no other call in flight meanwhile.                    *)
InsideSession ==
    /\ at \in [Threads -> {"idle"} \cup Tee!Steps]
    /\ \A t \in Threads : InExchange(t) /\ alive[PidOf[t]] => InUse(t) /\ pc[t] = "idle"

(* A step of the power manager takes a session only from a thread that has *)
(* a call of its own in flight, and death those of its process.            *)
LEMMA OwnCallEndsSession ==
  ASSUME ~DaemonDeath, ~eSEClient_Debug,
         TypeOK, CountInv, [Next]_vars, NEW t \in Threads,
         InUse(t), pc[t] = "idle", alive'[PidOf[t]]
  PROVE  InUse(t)'
  <1> USE ThreadsAssumption DEF TypeOK, InUse
  <1>1. ASSUME NEW u \in Threads, NEW call \in Waiting, Call(u, call)
        PROVE  InUse(t)'
        BY <1>1 DEF Call, clientVars
  <1>2. ASSUME NEW u \in Threads, Serve(u, BindingReports)
        PROVE  InUse(t)'
    <2>1. CASE UNCHANGED session
          BY <2>1
    <2>2. CASE PowerOnInsert(u) \/ PowerOnUpdate(u)
          BY <2>2 DEF PowerOnInsert, PowerOnUpdate, Granting
    <2>3. CASE PowerOffRefused(u) \/ PowerOffCount(u)
          BY <2>3 DEF PowerOffRefused, PowerOffCount, Enter
    <2>4. CASE Killall(u)
          BY <2>4 DEF Killall, Enter, CountInv, SessionInv
    <2>5. QED
          BY <1>2, <2>1, <2>2, <2>3, <2>4
          DEF Serve, PowerOnForbidden, PowerOnBadUid, PowerOnQuery, PowerOnSetPower,
              PowerOnLink, PowerOnUndo, PowerOnRecount, PowerOffEnter, PowerOffUnlink,
              PowerOffTest, PowerOffKeep, PowerOffErase, PowerOffCheck, PowerOffPower,
              KillallPower, PowerDown, clientVars
  <1>3. ASSUME NEW u \in Threads, binderDied(u)
        PROVE  InUse(t)'
        BY <1>3 DEF binderDied, binderDiedEnter, binderDiedErase, binderDiedCheck,
           binderDiedNode, binderDiedPower, clientVars
  <1>4. CASE GetState \/ DaemonDies \/ Download \/ UNCHANGED vars
        BY <1>4 DEF GetState, DaemonDies, Download, vars, clientVars
  <1>5. ASSUME NEW p \in Pids, ClientDies(p)
        PROVE  InUse(t)'
        BY <1>5 DEF ClientDies
  <1>6. QED
        BY <1>1, <1>2, <1>3, <1>4, <1>5 DEF Next

LEMMA InsideSessionInit == SystemInit => InsideSession
  BY DEF SystemInit, Tee!Init, InsideSession, InExchange

LEMMA InsideSessionNext ==
  ASSUME ~DaemonDeath, ~eSEClient_Debug
  PROVE  TypeOK /\ TypeOK' /\ CountInv /\ CountInv' /\ InsideSession /\ [SystemNext]_allVars
           => InsideSession'
  <1> SUFFICES ASSUME TypeOK, TypeOK', CountInv, CountInv', InsideSession,
                      [SystemNext]_allVars
               PROVE  InsideSession'
      OBVIOUS
  <1>1. CASE PowerStep
    <2>1. at' = at /\ [Next]_vars
          BY <1>1 DEF PowerStep, exchangeVars
    <2>2. ASSUME NEW t \in Threads, InExchange(t), alive'[PidOf[t]]
          PROVE  InUse(t)' /\ pc'[t] = "idle"
      <3>1. InUse(t) /\ pc[t] = "idle" /\ at[t] # "idle"
        <4>1. alive[PidOf[t]]
              BY <2>1, <2>2, ThreadsAssumption, OnlyClientsDie DEF ClientDies
        <4>2. QED
              BY <2>2, <4>1 DEF InsideSession, InExchange
      <3>2. InUse(t)'
            BY <2>1, <2>2, <3>1, OwnCallEndsSession
      <3>3. pc'[t] = "idle"
            BY <1>1, <3>1 DEF PowerStep
      <3>4. QED
            BY <3>2, <3>3
    <2>3. QED
          BY <2>1, <2>2 DEF InsideSession, InExchange, InUse
  <1>2. ASSUME NEW t \in Threads, getEseCplc(t)
        PROVE  InsideSession'
    <2>1. /\ UNCHANGED <<session, pc, alive>>
          /\ pc[t] = "idle"
          /\ session[t] # "none"
          BY <1>2 DEF getEseCplc, vars, callVars, clientVars
    <2>2. InUse(t)
          BY <2>1 DEF CountInv, SessionInv, InUse
    <2>3. at' = [at EXCEPT ![t] = "initContext"]
          BY <1>2 DEF getEseCplc, Tee!Request, Tee!Goto
    <2>4. QED
          BY <2>1, <2>2, <2>3 DEF InsideSession, InExchange, InUse, Tee!Steps
  <1>3. ASSUME NEW t \in Threads, Exchange(t)
        PROVE  InsideSession'
    <2>1. UNCHANGED <<session, pc, alive>>
          BY <1>3 DEF Exchange, vars, callVars, clientVars
    <2>2. at[t] # "idle" /\ \E label \in {"idle"} \cup Tee!Steps : at' = [at EXCEPT ![t] = label]
          BY <1>3 DEF Exchange, Tee!Step, Tee!InitializeContext, Tee!OpenSession,
             Tee!AllocateInput, Tee!AllocateOutput, Tee!InvokeCommand, Tee!ReleaseOutput,
             Tee!ReleaseInput, Tee!CloseSession, Tee!FinalizeContext, Tee!Return,
             Tee!Goto, Tee!Steps
    <2>3. QED
          BY <2>1, <2>2 DEF InsideSession, InExchange, InUse
  <1>4. CASE UNCHANGED allVars
        BY <1>4 DEF allVars, vars, exchangeVars, callVars, clientVars,
           InsideSession, InExchange, InUse
  <1>5. QED
        BY <1>1, <1>2, <1>3, <1>4 DEF SystemNext

(* While no process dies, the element is powered during every exchange.    *)
THEOREM ExchangesPowered ==
  ASSUME ~DaemonDeath, ~eSEClient_Debug, ClientDeath = "never"
  PROVE  SystemSpec => []ExchangePowered
  <1>1. Spec => []TypeOK /\ []CountInv /\ []PowerInv
        BY Typing, CountInvariant, PowerInvariant
  <1>2. TypeOK /\ TypeOK' /\ CountInv /\ CountInv' /\ InsideSession /\ [SystemNext]_allVars
           => InsideSession'
        BY InsideSessionNext
  <1>3. InsideSession /\ PowerInv => ExchangePowered
        BY ThreadsAssumption DEF InsideSession, PowerInv, InUsePowered, ExchangePowered
  <1>4. QED
        BY <1>1, <1>2, <1>3, SystemRefinesSpec, InsideSessionInit, PTL
        DEF SystemSpec, allVars

(* Where processes may die, the power goes off amid the exchange of one    *)
(* that is running by nothing but the death handler of another.            *)
ExchangeCutByDeathOnly ==
    [][ (spi /\ ~spi' /\ \E u \in Threads : InExchange(u) /\ alive[PidOf[u]])
        => \E t \in Threads : watch[t] = "off" /\ watch'[t] = "none" ]_vars

(* Where processes may die, a running client loses the power amid its      *)
(* exchange to the death handler of another process and to nothing else.   *)
THEOREM OnlyHandlerCutsExchanges ==
  ASSUME ~DaemonDeath, ~eSEClient_Debug
  PROVE  SystemSpec => ExchangeCutByDeathOnly
  <1>1. TypeOK /\ TypeOK' /\ DaemonInv /\ MapInv /\ CountInv /\ InsideSession
          /\ [SystemNext]_allVars
          => [ (spi /\ ~spi' /\ \E u \in Threads : InExchange(u) /\ alive[PidOf[u]])
                => \E t \in Threads : watch[t] = "off" /\ watch'[t] = "none" ]_vars
    <2> SUFFICES ASSUME TypeOK, TypeOK', DaemonInv, MapInv, CountInv, InsideSession,
                        [Next]_vars, spi, ~spi', NEW u \in Threads, InExchange(u), alive[PidOf[u]]
                 PROVE  \E t \in Threads : watch[t] = "off" /\ watch'[t] = "none"
        BY SystemStep
    <2>1. InUse(u)
          BY DEF InsideSession
    <2>2. QED
          BY <2>1, OnlyHandlerCutsStep
  <1>2. TypeOK /\ TypeOK' /\ CountInv /\ CountInv' /\ InsideSession /\ [SystemNext]_allVars
           => InsideSession'
        BY InsideSessionNext
  <1>3. Spec => []CountInv
        BY CountInvariant
  <1>4. QED
        BY <1>1, <1>2, <1>3, SystemRefinesSpec, InsideSessionInit, Typing, DaemonInvariant,
           MapInvariant, PTL
        DEF SystemSpec, allVars, ExchangeCutByDeathOnly

-----------------------------------------------------------------------------
(* The answers.  Only threads of permitted processes get to an exchange,   *)
(* so room for each of them in the TEE is room enough.                     *)

Entitled == {t \in Threads : PidOf[t] \in Permitted}

RoomForAll ==
    /\ MaxContexts \in Nat /\ MaxSessions \in Nat /\ MaxBlocks \in Nat
    /\ MaxContexts >= Cardinality(Entitled)
    /\ MaxSessions >= Cardinality(Entitled)
    /\ MaxBlocks >= Cardinality(Entitled) + Cardinality(Entitled)

Inside == {t \in Threads : at[t] # "idle"}

AnsweredInv ==
    /\ at \in [Threads -> {"idle"} \cup Tee!Steps]
    /\ result \in [Threads -> Int]
    /\ context \subseteq Threads /\ teeSession \subseteq Threads
    /\ inputSm \subseteq Threads /\ outputSm \subseteq Threads
    /\ \A t \in Threads :
          /\ t \in context => at[t] \notin {"idle", "initContext", "cleanup1"}
          /\ t \in teeSession => at[t] \in {"allocInput", "allocOutput", "invoke",
                                            "cleanup5", "cleanup4", "cleanup3"}
          /\ t \in inputSm => at[t] \in {"allocOutput", "invoke", "cleanup5", "cleanup4"}
          /\ t \in outputSm => at[t] \in {"invoke", "cleanup5"}
          /\ at[t] \notin {"idle", "initContext"} => result[t] = Tee!TEEC_SUCCESS

(* EseSpiClient counts as everybody does.                                  *)
LEMMA SameCount == \A S : Tee!Cardinality(S) = Cardinality(S)
  BY DEF Tee!Cardinality, Cardinality

(* A caller that holds none of a resource leaves room for itself.          *)
LEMMA RoomLeft ==
  ASSUME NEW S, S \subseteq Entitled, NEW t \in Entitled
  PROVE  /\ Cardinality(Entitled) \in Nat /\ Cardinality(S) \in Nat
         /\ Cardinality(S) <= Cardinality(Entitled)
         /\ t \notin S => Cardinality(S) < Cardinality(Entitled)
  <1>1. IsFiniteSet(Entitled) /\ Cardinality(Entitled) \in Nat
        BY ThreadsAssumption, FS_Subset, FS_CardinalityType DEF Entitled
  <1>2. Cardinality(S) \in Nat /\ Cardinality(S) <= Cardinality(Entitled)
        BY <1>1, FS_Subset, FS_CardinalityType
  <1>3. ASSUME t \notin S
        PROVE  Cardinality(S) < Cardinality(Entitled)
    <2>1. S # Entitled
          BY <1>3
    <2>2. Cardinality(S) # Cardinality(Entitled)
          BY <1>1, <2>1, FS_Subset
    <2>3. QED
          BY <1>1, <1>2, <2>2
  <1>4. QED
        BY <1>1, <1>2, <1>3

LEMMA AnsweredStep ==
  ASSUME ~TeeFaults, RoomForAll, AnsweredInv, Inside \subseteq Entitled, ExchangePowered,
         NEW t \in Threads, Exchange(t)
  PROVE  AnsweredInv'
  <1> USE DEF AnsweredInv, Inside, Tee!Steps, Tee!Goto, Tee!Succeeds, Tee!FailsWith,
              Tee!TEEC_SUCCESS
  <1>1. at[t] # "idle" /\ t \in Entitled
        BY DEF Exchange, Tee!Step, Tee!InitializeContext, Tee!OpenSession,
           Tee!AllocateInput, Tee!AllocateOutput, Tee!InvokeCommand, Tee!ReleaseOutput,
           Tee!ReleaseInput, Tee!CloseSession, Tee!FinalizeContext, Tee!Return
  <1>2. \A S : S \subseteq Inside =>
          /\ Cardinality(Entitled) \in Nat /\ Cardinality(S) \in Nat
          /\ Cardinality(S) <= Cardinality(Entitled)
          /\ t \notin S => Cardinality(S) < Cardinality(Entitled)
        BY <1>1, RoomLeft
  <1>3. CASE Tee!InitializeContext(t)
    <2>1. Tee!Cardinality(context) < MaxContexts
      <3>1. context \subseteq Inside /\ t \notin context
            BY <1>3 DEF Tee!InitializeContext
      <3>2. QED
            BY <1>2, <3>1, SameCount DEF RoomForAll
    <2>2. QED
          BY <1>3, <2>1 DEF Tee!InitializeContext
  <1>4. CASE Tee!OpenSession(t)
    <2>1. Tee!Cardinality(teeSession) < MaxSessions
      <3>1. teeSession \subseteq Inside /\ t \notin teeSession
            BY <1>4 DEF Tee!OpenSession
      <3>2. QED
            BY <1>2, <3>1, SameCount DEF RoomForAll
    <2>2. QED
          BY <1>4, <2>1 DEF Tee!OpenSession
  <1>5. CASE Tee!AllocateInput(t) \/ Tee!AllocateOutput(t)
    <2>1. Tee!Blocks < MaxBlocks
      <3>1. inputSm \subseteq Inside /\ outputSm \subseteq Inside /\ t \notin outputSm
            BY <1>5 DEF Tee!AllocateInput, Tee!AllocateOutput
      <3>2. /\ Cardinality(Entitled) \in Nat
            /\ Cardinality(inputSm) \in Nat /\ Cardinality(inputSm) <= Cardinality(Entitled)
            /\ Cardinality(outputSm) \in Nat /\ Cardinality(outputSm) < Cardinality(Entitled)
            BY <1>2, <3>1
      <3>3. QED
            BY <3>2, SameCount DEF RoomForAll, Tee!Blocks
    <2>2. QED
          BY <1>5, <2>1 DEF Tee!AllocateInput, Tee!AllocateOutput
  <1>6. CASE Tee!InvokeCommand(t, spi)
    <2>1. spi
          BY <1>1 DEF ExchangePowered, InExchange
    <2>2. QED
          BY <1>6, <2>1 DEF Tee!InvokeCommand, Tee!teeVars
  <1>7. CASE Tee!ReleaseOutput(t) \/ Tee!ReleaseInput(t)
        BY <1>7 DEF Tee!ReleaseOutput, Tee!ReleaseInput
  <1>8. CASE Tee!CloseSession(t) \/ Tee!FinalizeContext(t)
        BY <1>8 DEF Tee!CloseSession, Tee!FinalizeContext
  <1>9. CASE Tee!Return(t)
        BY <1>9 DEF Tee!Return, Tee!teeVars
  <1>10. QED
        BY <1>3, <1>4, <1>5, <1>6, <1>7, <1>8, <1>9 DEF Exchange, Tee!Step

LEMMA AnsweredNext ==
  ASSUME ~TeeFaults, RoomForAll
  PROVE  CountInv /\ PowerInv /\ InsideSession /\ ExchangePowered /\ AnsweredInv
           /\ [SystemNext]_allVars => AnsweredInv'
  <1> SUFFICES ASSUME CountInv, PowerInv, InsideSession, ExchangePowered, AnsweredInv,
                      [SystemNext]_allVars
               PROVE  AnsweredInv'
      OBVIOUS
  <1>1. Inside \subseteq Entitled
        BY ThreadsAssumption
        DEF CountInv, SessionInv, PowerInv, InsideSession, InExchange, Inside, Entitled
  <1>2. ASSUME NEW t \in Threads, getEseCplc(t)
        PROVE  AnsweredInv'
        BY <1>2 DEF getEseCplc, Tee!Request, Tee!Goto, Tee!teeVars, AnsweredInv, Inside, Tee!Steps
  <1>3. CASE UNCHANGED exchangeVars
        BY <1>3 DEF exchangeVars, AnsweredInv, Inside
  <1>4. QED
        BY <1>1, <1>2, <1>3, AnsweredStep DEF SystemNext, PowerStep, allVars

(* Every client that was granted power gets its answer, when the TEE has   *)
(* room for all that are permitted and no fault of its own, in spite of    *)
(* failures of the NFC driver.                                             *)
THEOREM GrantedAnswered ==
  ASSUME ~DaemonDeath, ~eSEClient_Debug, ClientDeath = "never", ~TeeFaults, RoomForAll
  PROVE  SystemSpec => []GrantedMeansAnswered
  <1>1. Spec => []TypeOK /\ []CountInv /\ []PowerInv
        BY Typing, CountInvariant, PowerInvariant
  <1>2. TypeOK /\ TypeOK' /\ CountInv /\ CountInv' /\ InsideSession /\ [SystemNext]_allVars
           => InsideSession'
        BY InsideSessionNext
  <1>3. SystemInit => AnsweredInv
        BY DEF SystemInit, Tee!Init, AnsweredInv, Inside, Tee!TEEC_SUCCESS
  <1>4. CountInv /\ PowerInv /\ InsideSession /\ ExchangePowered /\ AnsweredInv
          /\ [SystemNext]_allVars => AnsweredInv'
        BY AnsweredNext
  <1>5. AnsweredInv => GrantedMeansAnswered
        BY DEF AnsweredInv, Inside, GrantedMeansAnswered
  <1>6. QED
        BY <1>1, <1>2, <1>3, <1>4, <1>5, ExchangesPowered, SystemRefinesSpec,
           InsideSessionInit, PTL DEF SystemSpec, allVars

-----------------------------------------------------------------------------
(* The exchanges of the composed system.  The element may lose its power   *)
(* amid them, and their threads may be those of a process that has died:   *)
(* what EseSpiClientProofs proves of a step holds of it with the element   *)
(* reachable or not.                                                       *)

TeeP == INSTANCE EseSpiClientProofs WITH Calls <- Threads, session <- teeSession

LEMMA TeeAssumptions ==
  TeeP!CallsAssumption /\ TeeP!ElementAssumption /\ TeeP!TeeAssumption
  BY TeeConstants
  DEF Tee!CallsAssumption, Tee!ElementAssumption, Tee!TeeAssumption, Tee!TEEC_SUCCESS,
      TeeP!TEEC_SUCCESS, Tee!IsFiniteSet, TeeP!IsFiniteSet

LEMMA SameStep ==
  ASSUME NEW t \in Threads, NEW reachable, Tee!Step(t, reachable)
  PROVE  TeeP!Step(t, reachable)
  <1> USE DEF Tee!Goto, TeeP!Goto, Tee!Succeeds, TeeP!Succeeds, Tee!FailsWith, TeeP!FailsWith,
              Tee!TEEC_SUCCESS, TeeP!TEEC_SUCCESS, Tee!teeVars, TeeP!teeVars
  <1>1. \A S : Tee!Cardinality(S) = TeeP!Cardinality(S)
        BY DEF Tee!Cardinality, TeeP!Cardinality
  <1>2. Tee!InitializeContext(t) => TeeP!InitializeContext(t)
        BY <1>1 DEF Tee!InitializeContext, TeeP!InitializeContext, Tee!INIT_CONTEXT_FAILED,
           TeeP!INIT_CONTEXT_FAILED
  <1>3. Tee!OpenSession(t) => TeeP!OpenSession(t)
        BY <1>1 DEF Tee!OpenSession, TeeP!OpenSession, Tee!OPEN_SESSION_FAILED,
           TeeP!OPEN_SESSION_FAILED
  <1>4. Tee!AllocateInput(t) => TeeP!AllocateInput(t)
        BY <1>1 DEF Tee!AllocateInput, TeeP!AllocateInput, Tee!Blocks, TeeP!Blocks
  <1>5. Tee!AllocateOutput(t) => TeeP!AllocateOutput(t)
        BY <1>1 DEF Tee!AllocateOutput, TeeP!AllocateOutput, Tee!Blocks, TeeP!Blocks
  <1>6. Tee!InvokeCommand(t, reachable) => TeeP!InvokeCommand(t, reachable)
        BY DEF Tee!InvokeCommand, TeeP!InvokeCommand, Tee!Received, TeeP!Received,
           Tee!Overruns, TeeP!Overruns, Tee!HeaderLen, TeeP!HeaderLen
  <1>7. /\ Tee!ReleaseOutput(t) => TeeP!ReleaseOutput(t)
        /\ Tee!ReleaseInput(t) => TeeP!ReleaseInput(t)
        /\ Tee!CloseSession(t) => TeeP!CloseSession(t)
        /\ Tee!FinalizeContext(t) => TeeP!FinalizeContext(t)
        BY DEF Tee!ReleaseOutput, TeeP!ReleaseOutput, Tee!ReleaseInput, TeeP!ReleaseInput,
           Tee!CloseSession, TeeP!CloseSession, Tee!FinalizeContext, TeeP!FinalizeContext
  <1>8. Tee!Return(t) => TeeP!Return(t)
        BY DEF Tee!Return, TeeP!Return, Tee!ServiceStatus, TeeP!ServiceStatus,
           Tee!NO_ERROR, TeeP!NO_ERROR
  <1>9. QED
        BY <1>2, <1>3, <1>4, <1>5, <1>6, <1>7, <1>8 DEF Tee!Step, TeeP!Step

(* What a step of the system is to the exchanges.                          *)
LEMMA ExchangeStep ==
  ASSUME [SystemNext]_allVars
  PROVE  \/ UNCHANGED exchangeVars
         \/ \E t \in Threads : TeeP!Request(t, "getEseCplc", "other")
         \/ \E t \in Threads : TeeP!Step(t, spi)
  <1>1. ASSUME NEW t \in Threads, getEseCplc(t)
        PROVE  TeeP!Request(t, "getEseCplc", "other")
        BY <1>1 DEF getEseCplc, Tee!Request, TeeP!Request, Tee!Goto, TeeP!Goto, Tee!Zeroed,
           TeeP!Zeroed, Tee!teeVars, TeeP!teeVars
  <1>2. QED
        BY <1>1, SameStep DEF SystemNext, PowerStep, Exchange, allVars

LEMMA SystemIInv == SystemSpec => []TeeP!IInv
  <1>1. SystemInit => TeeP!IInv
    <2>1. Tee!Init => TeeP!Init
          BY DEF Tee!Init, TeeP!Init, Tee!TEEC_SUCCESS, TeeP!TEEC_SUCCESS, Tee!BAD_VALUE,
             TeeP!BAD_VALUE, Tee!Zeroed, TeeP!Zeroed
    <2>2. QED
          BY <2>1, TeeP!IInvInit, TeeAssumptions DEF SystemInit
  <1>2. TypeOK /\ TeeP!IInv /\ [SystemNext]_allVars => TeeP!IInv'
    <2> SUFFICES ASSUME TypeOK, TeeP!IInv, [SystemNext]_allVars PROVE TeeP!IInv'
        OBVIOUS
    <2>1. CASE UNCHANGED exchangeVars
          BY <2>1 DEF exchangeVars, TeeP!IInv, TeeP!TypeOK, TeeP!HoldInv, TeeP!AnswerInv
    <2>2. ASSUME NEW t \in Threads, TeeP!Request(t, "getEseCplc", "other")
          PROVE  TeeP!IInv'
      <3>1. "getEseCplc" \in TeeP!Requests
            BY DEF TeeP!Requests
      <3>2. QED
            BY <2>2, <3>1, TeeP!RequestKeepsIInv, TeeAssumptions
    <2>3. ASSUME NEW t \in Threads, TeeP!Step(t, spi)
          PROVE  TeeP!IInv'
      <3>1. spi \in BOOLEAN
            BY DEF TypeOK
      <3>2. QED
            BY <2>3, <3>1, TeeP!StepKeepsIInv, TeeAssumptions
    <2>4. QED
          BY <2>1, <2>2, <2>3, ExchangeStep
  <1>3. QED
        BY <1>1, <1>2, SystemRefinesSpec, Typing, PTL DEF SystemSpec, allVars

(* A call of any client that has returned holds nothing of the TEE, though *)
(* the client died or the element lost its power amid the exchange.        *)
THEOREM SystemLeaksNothing == SystemSpec => []Tee!NothingLeaked
  <1>1. TeeP!IInv => Tee!NothingLeaked
        BY DEF TeeP!IInv, TeeP!HoldInv, TeeP!Steps, Tee!NothingLeaked, Tee!Holds
  <1>2. QED
        BY <1>1, SystemIInv, PTL

(* Nor is a context finalized amid the cleanup of such an exchange.        *)
THEOREM SystemFinalizesEmpty == SystemSpec => Tee!FinalizeAfterRelease
  <1>1. TypeOK /\ TeeP!IInv /\ [SystemNext]_allVars =>
          [\A c \in context \ context' :
              at[c] = "cleanup2" => c \notin teeSession \cup inputSm \cup outputSm]_(Tee!vars)
    <2> SUFFICES ASSUME TypeOK, TeeP!IInv, [SystemNext]_allVars
                 PROVE  \A c \in context \ context' :
                            at[c] = "cleanup2" => c \notin teeSession \cup inputSm \cup outputSm
        OBVIOUS
    <2>1. CASE UNCHANGED context
          BY <2>1
    <2>2. ASSUME NEW t \in Threads, TeeP!Step(t, spi)
          PROVE  \A c \in context \ context' :
                     at[c] = "cleanup2" => c \notin teeSession \cup inputSm \cup outputSm
      <3>1. spi \in BOOLEAN
            BY DEF TypeOK
      <3>2. QED
            BY <2>2, <3>1, TeeP!StepFinalizesEmpty, TeeAssumptions
    <2>3. QED
          BY <2>1, <2>2, ExchangeStep DEF exchangeVars, TeeP!Request, TeeP!teeVars
  <1>2. QED
        BY <1>1, SystemIInv, SystemRefinesSpec, Typing, PTL
        DEF SystemSpec, allVars, Tee!FinalizeAfterRelease

(* A chip is found legal on an answer of the element only, though a client *)
(* may look at the reply of an exchange that lost its power.               *)
THEOREM SystemLegalAnswered == SystemSpec => []Tee!LegalMeansAnswered
  <1>1. TeeP!IInv => Tee!LegalMeansAnswered
        BY DEF TeeP!IInv, TeeP!AnswerInv, Tee!LegalMeansAnswered,
           Tee!native_eseValidateChipLegality, Tee!TEEC_SUCCESS, TeeP!TEEC_SUCCESS
  <1>2. QED
        BY <1>1, SystemIInv, PTL

(* Over both daemons a client has what ApduExchange promises: the answer   *)
(* of the element to what it asked last, or none, whatever dies and        *)
(* whatever fails.                                                         *)
THEOREM SystemExchanges == SystemSpec => Tee!Exchanges!Spec
  <1>1. SystemInit => Tee!Exchanges!Init
    <2>1. SystemInit => at = [t \in Threads |-> "idle"]
          BY DEF SystemInit, Tee!Init
    <2>2. SystemInit => \A t \in Threads : reply[t].chip = "zeros"
          BY DEF SystemInit, Tee!Init, Tee!Zeroed
    <2>3. QED
          BY <2>1, <2>2 DEF Tee!Exchanges!Init
  <1>2. TypeOK /\ TeeP!IInv /\ TeeP!IInv' /\ [SystemNext]_allVars
          => [Tee!Exchanges!Next]_(Tee!Exchanges!vars)
    <2> SUFFICES ASSUME TypeOK, TeeP!IInv, TeeP!IInv', [SystemNext]_allVars
                 PROVE  [Tee!Exchanges!Next]_(Tee!Exchanges!vars)
        OBVIOUS
    <2>1. CASE UNCHANGED exchangeVars
          BY <2>1 DEF exchangeVars, Tee!Exchanges!vars
    <2>2. ASSUME [TeeP!Exchanges!Next]_(TeeP!Exchanges!vars)
          PROVE  [Tee!Exchanges!Next]_(Tee!Exchanges!vars)
          BY <2>2 DEF Tee!Exchanges!Next, TeeP!Exchanges!Next, Tee!Exchanges!vars,
             TeeP!Exchanges!vars, Tee!Exchanges!Ask, TeeP!Exchanges!Ask,
             Tee!Exchanges!Answer, TeeP!Exchanges!Answer, Tee!Exchanges!Fail,
             TeeP!Exchanges!Fail, Tee!Exchanges!Lose, TeeP!Exchanges!Lose
    <2>3. ASSUME NEW t \in Threads, TeeP!Request(t, "getEseCplc", "other")
          PROVE  [TeeP!Exchanges!Next]_(TeeP!Exchanges!vars)
      <3>1. "getEseCplc" \in TeeP!Requests
            BY DEF TeeP!Requests
      <3>2. TeeP!Exchanges!Ask(t)
            BY <2>3, <3>1, TeeP!RequestImplements, TeeAssumptions
      <3>3. QED
            BY <3>2 DEF TeeP!Exchanges!Next
    <2>4. ASSUME NEW t \in Threads, TeeP!Step(t, spi)
          PROVE  [TeeP!Exchanges!Next]_(TeeP!Exchanges!vars)
      <3>1. spi \in BOOLEAN
            BY DEF TypeOK
      <3>2. QED
            BY <2>4, <3>1, TeeP!StepImplements, TeeAssumptions
    <2>5. QED
          BY <2>1, <2>2, <2>3, <2>4, ExchangeStep
  <1>3. QED
        BY <1>1, <1>2, SystemIInv, SystemRefinesSpec, Typing, PTL
        DEF SystemSpec, allVars, Tee!Exchanges!Spec
=============================================================================
