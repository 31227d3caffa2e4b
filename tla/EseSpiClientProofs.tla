------------------------- MODULE EseSpiClientProofs -------------------------
(***************************************************************************)
(* Machine-checked proofs about EseSpiClient, for every number of calls,   *)
(* every limit of the TEE and every failure of it.                         *)
(***************************************************************************)
EXTENDS EseSpiClient, TLAPS

(* How far a call has got says what it holds.  A block may be missing at   *)
(* its cleanup label, which a failed allocation jumps to as well.          *)
HoldInv ==
    \A c \in Calls :
        /\ c \in context => at[c] \in Steps \ {"initContext", "cleanup1"}
        /\ c \in session => at[c] \in {"allocInput", "allocOutput", "invoke",
                                       "cleanup5", "cleanup4", "cleanup3"}
        /\ c \in inputSm => at[c] \in {"allocOutput", "invoke", "cleanup5", "cleanup4"}
        /\ c \in outputSm => at[c] \in {"invoke", "cleanup5"}

(* A reply that is not zeroed any more comes from the element, whole or    *)
(* cut.                                                                    *)
AnswerInv ==
    \A c \in Calls :
        reply[c].chip # "zeros" =>
            /\ result[c] = TEEC_SUCCESS
            /\ at[c] \in {"idle", "cleanup5", "cleanup4", "cleanup3", "cleanup2", "cleanup1"}

IInv == TypeOK /\ HoldInv /\ AnswerInv

LEMMA ZeroedType == \A r \in Requests : Zeroed(r) \in [len : 0 .. BufferLen, chip : {"zeros"}]
  BY ElementAssumption DEF Zeroed, Requests

LEMMA ReceivedType ==
  ASSUME NEW answer \in CardAnswers, NEW r
  PROVE  Received(r, answer) \in [len : 0 .. BufferLen, chip : {"valid", "other", "cut", "zeros"}]
  BY ElementAssumption DEF Received

LEMMA IInvInit == Init => IInv
  <1> SUFFICES ASSUME Init PROVE IInv
      OBVIOUS
  <1>1. Zeroed("getEseCplc") \in [len : 0 .. BufferLen, chip : {"zeros"}]
        BY ZeroedType DEF Requests
  <1>2. reply \in [Calls -> [len : 0 .. BufferLen, chip : {"valid", "other", "cut", "zeros"}]]
        BY <1>1 DEF Init
  <1>3. \A c \in Calls : reply[c].chip = "zeros"
        BY <1>1 DEF Init
  <1>4. QED
        BY <1>2, <1>3 DEF Init, IInv, TypeOK, HoldInv, AnswerInv, Requests, Steps,
           TEEC_SUCCESS, BAD_VALUE

(* The environment's codes are integers.                                   *)
LEMMA CodesAreInts ==
  /\ TeecErrors \subseteq Int
  /\ TaErrors \subseteq Int
  /\ TEEC_SUCCESS \in Int /\ INIT_CONTEXT_FAILED \in Int /\ OPEN_SESSION_FAILED \in Int
  /\ NO_ERROR \in Int /\ BAD_VALUE \in Int /\ PERMISSION_DENIED \in Int
  BY TeeAssumption DEF TEEC_SUCCESS, INIT_CONTEXT_FAILED, OPEN_SESSION_FAILED,
     NO_ERROR, BAD_VALUE, PERMISSION_DENIED

(* A step of a call, with the element reachable or not.                    *)
LEMMA StepKeepsIInv ==
  ASSUME IInv, NEW c \in Calls, NEW reachable \in BOOLEAN, Step(c, reachable)
  PROVE  IInv'
  <1> USE DEF IInv, TypeOK, HoldInv, AnswerInv, Steps, Goto, teeVars
  <1>1. CASE InitializeContext(c)
    <2>1. UNCHANGED reply
          BY <1>1 DEF InitializeContext
    <2>2. TypeOK'
          BY <1>1, CodesAreInts DEF InitializeContext, Succeeds, FailsWith
    <2>3. HoldInv'
          BY <1>1 DEF InitializeContext, Succeeds, FailsWith
    <2>4. AnswerInv'
          BY <1>1, <2>1 DEF InitializeContext, Succeeds, FailsWith
    <2>5. QED
          BY <2>2, <2>3, <2>4
  <1>2. CASE OpenSession(c)
    <2>1. UNCHANGED reply
          BY <1>2 DEF OpenSession
    <2>2. TypeOK'
          BY <1>2, CodesAreInts DEF OpenSession, Succeeds, FailsWith
    <2>3. HoldInv'
          BY <1>2 DEF OpenSession, Succeeds, FailsWith
    <2>4. AnswerInv'
          BY <1>2, <2>1 DEF OpenSession, Succeeds, FailsWith
    <2>5. QED
          BY <2>2, <2>3, <2>4
  <1>3. CASE AllocateInput(c)
    <2>1. UNCHANGED reply
          BY <1>3 DEF AllocateInput
    <2>2. TypeOK'
          BY <1>3, CodesAreInts DEF AllocateInput, Succeeds, FailsWith
    <2>3. HoldInv'
          BY <1>3 DEF AllocateInput, Succeeds, FailsWith
    <2>4. AnswerInv'
          BY <1>3, <2>1 DEF AllocateInput, Succeeds, FailsWith
    <2>5. QED
          BY <2>2, <2>3, <2>4
  <1>4. CASE AllocateOutput(c)
    <2>1. UNCHANGED reply
          BY <1>4 DEF AllocateOutput
    <2>2. TypeOK'
          BY <1>4, CodesAreInts DEF AllocateOutput, Succeeds, FailsWith
    <2>3. HoldInv'
          BY <1>4 DEF AllocateOutput, Succeeds, FailsWith
    <2>4. AnswerInv'
          BY <1>4, <2>1 DEF AllocateOutput, Succeeds, FailsWith
    <2>5. QED
          BY <2>2, <2>3, <2>4
  <1>5. CASE InvokeCommand(c, reachable)
    <2>1. /\ at' = [at EXCEPT ![c] = "cleanup5"]
          /\ UNCHANGED <<request, status, teeVars>>
          /\ at[c] = "invoke"
          BY <1>5 DEF InvokeCommand
    <2>2. CASE \E answer \in CardAnswers :
                  /\ reply' = [reply EXCEPT ![c] = Received(request[c], answer)]
                  /\ result' = [result EXCEPT ![c] = TEEC_SUCCESS]
      <3>1. PICK answer \in CardAnswers :
                   reply' = [reply EXCEPT ![c] = Received(request[c], answer)]
            BY <2>2
      <3>2. Received(request[c], answer)
              \in [len : 0 .. BufferLen, chip : {"valid", "other", "cut", "zeros"}]
            BY ReceivedType
      <3>3. TypeOK'
            BY <2>1, <2>2, <3>1, <3>2, CodesAreInts
      <3>4. AnswerInv'
            BY <2>1, <2>2, <3>1
      <3>5. QED
            BY <2>1, <3>3, <3>4
    <2>3. CASE /\ UNCHANGED reply
               /\ \E e \in TeecErrors \cup TaErrors : result' = [result EXCEPT ![c] = e]
          BY <2>1, <2>3, CodesAreInts
    <2>4. QED
          BY <1>5, <2>2, <2>3 DEF InvokeCommand, Succeeds, FailsWith
  <1>6. CASE ReleaseOutput(c) \/ ReleaseInput(c) \/ CloseSession(c) \/ FinalizeContext(c)
        BY <1>6 DEF ReleaseOutput, ReleaseInput, CloseSession, FinalizeContext
  <1>7. CASE Return(c)
    <2>1. ServiceStatus(0 - result[c]) \in Int
          BY CodesAreInts DEF ServiceStatus
    <2>2. QED
          BY <1>7, <2>1 DEF Return
  <1>8. QED
        BY <1>1, <1>2, <1>3, <1>4, <1>5, <1>6, <1>7 DEF Step

LEMMA RequestKeepsIInv ==
  ASSUME IInv, NEW c \in Calls, NEW r \in Requests, NEW uid, Request(c, r, uid)
  PROVE  IInv'
  <1>1. Zeroed(r) \in [len : 0 .. BufferLen, chip : {"zeros"}]
        BY ZeroedType
  <1>2. reply' = [reply EXCEPT ![c] = Zeroed(r)]
        BY DEF Request
  <1>3. reply' \in [Calls -> [len : 0 .. BufferLen, chip : {"valid", "other", "cut", "zeros"}]]
        BY <1>1, <1>2 DEF IInv, TypeOK
  <1>4. /\ reply'[c].chip = "zeros"
        /\ \A d \in Calls \ {c} : reply'[d] = reply[d]
        BY <1>1, <1>2 DEF IInv, TypeOK
  <1>5. TypeOK'
        BY <1>3 DEF Request, IInv, TypeOK, Steps, Goto, teeVars
  <1>6. HoldInv'
        BY DEF Request, IInv, TypeOK, HoldInv, Steps, Goto, teeVars
  <1>7. AnswerInv'
        BY <1>4 DEF Request, IInv, TypeOK, AnswerInv, Steps, Goto, teeVars
  <1>8. QED
        BY <1>5, <1>6, <1>7 DEF IInv

(* After a crash no call is under way and the TEE has given nothing.       *)
LEMMA CrashKeepsIInv ==
  ASSUME IInv, NEW c \in Calls, ServiceCrashes(c)
  PROVE  IInv'
  <1>1. \A d \in Calls : Zeroed(request[d]) \in [len : 0 .. BufferLen, chip : {"zeros"}]
        BY ZeroedType DEF IInv, TypeOK
  <1>2. /\ reply' = [d \in Calls |-> IF at[d] = "idle" THEN reply[d] ELSE Zeroed(request[d])]
        /\ at' = [d \in Calls |-> "idle"]
        /\ status' = [d \in Calls |-> IF at[d] = "idle" THEN status[d] ELSE DEAD_OBJECT]
        /\ UNCHANGED <<request, result>>
        /\ context' = {} /\ session' = {} /\ inputSm' = {} /\ outputSm' = {}
        BY DEF ServiceCrashes
  <1>3. reply' \in [Calls -> [len : 0 .. BufferLen, chip : {"valid", "other", "cut", "zeros"}]]
        BY <1>1, <1>2 DEF IInv, TypeOK
  <1>4. TypeOK'
        BY <1>2, <1>3 DEF IInv, TypeOK, DEAD_OBJECT
  <1>5. HoldInv'
        BY <1>2 DEF HoldInv
  <1>6. AnswerInv'
        BY <1>1, <1>2 DEF IInv, TypeOK, AnswerInv
  <1>7. QED
        BY <1>4, <1>5, <1>6 DEF IInv

LEMMA IInvNext == IInv /\ [Next]_vars => IInv'
  <1> SUFFICES ASSUME IInv, [Next]_vars PROVE IInv'
      OBVIOUS
  <1>1. ASSUME NEW c \in Calls, NEW uid, ZeroLengthRefused(c) \/ UidRefused(c, uid)
        PROVE  IInv'
        BY <1>1, CodesAreInts
        DEF ZeroLengthRefused, UidRefused, Refused, IInv, TypeOK, HoldInv, AnswerInv, teeVars
  <1>2. CASE UNCHANGED vars
        BY <1>2 DEF vars, callVars, teeVars, IInv, TypeOK, HoldInv, AnswerInv
  <1>3. QED
        BY <1>1, <1>2, StepKeepsIInv, RequestKeepsIInv, CrashKeepsIInv DEF Next

THEOREM Invariance == Spec => []IInv
  BY IInvInit, IInvNext, PTL DEF Spec

-----------------------------------------------------------------------------
(* A call that has returned holds nothing of the TEE.                      *)
THEOREM ReturnedHoldsNothing == Spec => []NothingLeaked
  <1>1. IInv => NothingLeaked
        BY DEF IInv, HoldInv, NothingLeaked, Holds, Steps
  <1>2. QED
        BY <1>1, Invariance, PTL

LEMMA StepFinalizesEmpty ==
  ASSUME IInv, NEW c \in Calls, NEW reachable \in BOOLEAN, Step(c, reachable)
  PROVE  \A d \in context \ context' :
            at[d] = "cleanup2" => d \notin session \cup inputSm \cup outputSm
  <1> USE DEF teeVars
  <1>1. CASE FinalizeContext(c)
    <2>1. at[c] = "cleanup2" /\ context' = context \ {c}
          BY <1>1 DEF FinalizeContext
    <2>2. QED
          BY <2>1 DEF IInv, HoldInv
  <1>2. CASE InitializeContext(c)
        BY <1>2 DEF InitializeContext
  <1>3. CASE UNCHANGED context
        BY <1>3
  <1>4. QED
        BY <1>1, <1>2, <1>3
        DEF Step, OpenSession, AllocateInput, AllocateOutput, InvokeCommand,
            ReleaseOutput, ReleaseInput, CloseSession, Return

(* TEEC_FinalizeContext is called only on a context without sessions and   *)
(* blocks, as tee_client_api.h demands.                                    *)
THEOREM FinalizedIsEmpty == Spec => FinalizeAfterRelease
  <1>1. IInv /\ [Next]_vars =>
          [\A c \in context \ context' :
              at[c] = "cleanup2" => c \notin session \cup inputSm \cup outputSm]_vars
    <2>1. ASSUME IInv, NEW c \in Calls, ServiceCrashes(c)
          PROVE  \A d \in context : at[d] = "cleanup2" =>
                                       d \notin session \cup inputSm \cup outputSm
          BY <2>1 DEF IInv, TypeOK, HoldInv
    <2>2. QED
          BY <2>1, StepFinalizesEmpty
          DEF Next, Request, ZeroLengthRefused, UidRefused, Refused, teeVars, IInv, TypeOK
  <1>2. QED
        BY <1>1, Invariance, PTL DEF Spec, FinalizeAfterRelease

(* No failure of the TEE that comes through as NO_ERROR makes the JNI find *)
(* the chip legal.                                                         *)
THEOREM LegalChipAnswered == Spec => []LegalMeansAnswered
  <1>1. IInv => LegalMeansAnswered
        BY DEF IInv, AnswerInv, LegalMeansAnswered, native_eseValidateChipLegality
  <1>2. QED
        BY <1>1, Invariance, PTL

(* The codes that are reported.  The negated code that ca_getEseCplc       *)
(* returns is negative unless the code, as an int, is negative itself.     *)
SmallErrors == \A e \in TeecErrors \cup TaErrors : e > 0

ReportInv ==
    \A c \in Calls :
        /\ SmallErrors => result[c] >= 0
        /\ at[c] = "idle" /\ status[c] = NO_ERROR => result[c] <= 0

LEMMA ReportInvNext == IInv /\ ReportInv /\ [Next]_vars => ReportInv'
  <1> SUFFICES ASSUME IInv, ReportInv, [Next]_vars PROVE ReportInv'
      OBVIOUS
  <1> USE TeeAssumption DEF IInv, TypeOK, Steps, ReportInv, SmallErrors, Goto, Succeeds,
        FailsWith, TEEC_SUCCESS, NO_ERROR, INIT_CONTEXT_FAILED, OPEN_SESSION_FAILED
  <1>1. ASSUME NEW c \in Calls, NEW r \in Requests, NEW uid, Request(c, r, uid)
        PROVE  ReportInv'
        BY <1>1 DEF Request
  <1>2. ASSUME NEW c \in Calls, NEW uid, ZeroLengthRefused(c) \/ UidRefused(c, uid)
        PROVE  ReportInv'
        BY <1>2 DEF ZeroLengthRefused, UidRefused, Refused, BAD_VALUE, PERMISSION_DENIED
  <1>3. ASSUME NEW c \in Calls, Step(c, TRUE)
        PROVE  ReportInv'
    <2>1. CASE InitializeContext(c)
          BY <2>1 DEF InitializeContext
    <2>2. CASE OpenSession(c)
          BY <2>2 DEF OpenSession
    <2>3. CASE AllocateInput(c)
          BY <2>3 DEF AllocateInput
    <2>4. CASE AllocateOutput(c)
          BY <2>4 DEF AllocateOutput
    <2>5. CASE InvokeCommand(c, TRUE)
          BY <2>5 DEF InvokeCommand
    <2>6. CASE ReleaseOutput(c) \/ ReleaseInput(c) \/ CloseSession(c) \/ FinalizeContext(c)
          BY <2>6 DEF ReleaseOutput, ReleaseInput, CloseSession, FinalizeContext
    <2>7. CASE Return(c)
          BY <2>7 DEF Return, ServiceStatus
    <2>8. QED
          BY <1>3, <2>1, <2>2, <2>3, <2>4, <2>5, <2>6, <2>7 DEF Step
  <1>4. ASSUME NEW c \in Calls, ServiceCrashes(c)
        PROVE  ReportInv'
        BY <1>4 DEF ServiceCrashes, DEAD_OBJECT
  <1>5. CASE UNCHANGED vars
        BY <1>5 DEF vars, callVars
  <1>6. QED
        BY <1>1, <1>2, <1>3, <1>4, <1>5 DEF Next

LEMMA ReportInvariant == Spec => []ReportInv
  <1>1. Init => ReportInv
        BY DEF Init, ReportInv, TEEC_SUCCESS, BAD_VALUE, NO_ERROR
  <1>2. QED
        BY <1>1, ReportInvNext, Invariance, PTL DEF Spec

(* A failure that is reported as NO_ERROR has a code from 0x80000000 up:   *)
(* those the trusted application and the limits of the library use come    *)
(* through.                                                                *)
THEOREM OnlyLargeCodesLost ==
  Spec => [](\A c \in Calls : at[c] = "idle" /\ status[c] = NO_ERROR => result[c] <= 0)
  <1>1. ReportInv =>
          \A c \in Calls : at[c] = "idle" /\ status[c] = NO_ERROR => result[c] <= 0
        BY DEF ReportInv
  <1>2. QED
        BY <1>1, ReportInvariant, PTL

(* Where no code is that large, NO_ERROR means that the element answered.  *)
THEOREM SmallErrorsReported ==
  ASSUME SmallErrors
  PROVE  Spec => []NoErrorMeansAnswered
  <1>1. IInv /\ ReportInv => NoErrorMeansAnswered
        BY DEF IInv, TypeOK, ReportInv, NoErrorMeansAnswered, TEEC_SUCCESS
  <1>2. QED
        BY <1>1, ReportInvariant, Invariance, PTL

-----------------------------------------------------------------------------
(* Every step of a call but its first and its last is none of ApduExchange: *)
(* the reply changes only while the exchange is under way.                 *)
Asked    == {c \in Calls : at[c] # "idle"}
Answered == {c \in Calls : at[c] = "idle" /\ reply[c].chip \notin {"zeros", "cut"}}

LEMMA InsideStutters ==
  ASSUME NEW c \in Calls, IInv, IInv', at[c] # "idle", at'[c] # "idle",
         \A d \in Calls \ {c} : at'[d] = at[d] /\ reply'[d] = reply[d]
  PROVE  Asked' = Asked /\ Answered' = Answered
  BY DEF Asked, Answered

LEMMA StepImplements ==
  ASSUME NEW c \in Calls, NEW reachable \in BOOLEAN, IInv, IInv', Step(c, reachable)
  PROVE  [Exchanges!Next]_(Exchanges!vars)
  <1> USE DEF IInv, TypeOK
  <1>1. CASE Return(c)
    <2>1. /\ at[c] = "cleanup1"
          /\ at' = [at EXCEPT ![c] = "idle"]
          /\ reply' = reply
          BY <1>1 DEF Return, Goto
    <2>2. Asked' = Asked \ {c} /\ c \in Asked
          BY <2>1 DEF Asked, Steps
    <2>3. CASE reply[c].chip \in {"zeros", "cut"}
      <3>1. Answered' = Answered
            BY <2>1, <2>3 DEF Answered
      <3>2. Exchanges!Fail(c)
            BY <2>2, <3>1 DEF Exchanges!Fail, Asked, Answered
      <3>3. QED
            BY <3>2 DEF Exchanges!Next
    <2>4. CASE reply[c].chip \notin {"zeros", "cut"}
      <3>1. Answered' = Answered \cup {c}
            BY <2>1, <2>4 DEF Answered
      <3>2. Exchanges!Answer(c)
            BY <2>2, <3>1 DEF Exchanges!Answer, Asked, Answered
      <3>3. QED
            BY <3>2 DEF Exchanges!Next
    <2>5. QED
          BY <2>3, <2>4
  <1>2. CASE ~Return(c)
    <2>1. /\ at[c] # "idle" /\ at'[c] # "idle"
          /\ \A d \in Calls \ {c} : at'[d] = at[d] /\ reply'[d] = reply[d]
      <3>1. CASE InvokeCommand(c, reachable)
            BY <3>1 DEF InvokeCommand, Goto
      <3>2. QED
            BY <1>2, <3>1 DEF Step, InitializeContext, OpenSession, AllocateInput,
               AllocateOutput, ReleaseOutput, ReleaseInput, CloseSession,
               FinalizeContext, Goto
    <2>2. Asked' = Asked /\ Answered' = Answered
          BY <2>1, InsideStutters
    <2>3. QED
          BY <2>2 DEF Exchanges!vars, Asked, Answered
  <1>3. QED
        BY <1>1, <1>2

LEMMA RequestImplements ==
  ASSUME NEW c \in Calls, NEW r \in Requests, NEW uid, IInv, Request(c, r, uid)
  PROVE  Exchanges!Ask(c)
  <1> USE DEF IInv, TypeOK
  <1>1. /\ at[c] = "idle"
        /\ at' = [at EXCEPT ![c] = "initContext"]
        /\ \A d \in Calls \ {c} : reply'[d] = reply[d]
        BY DEF Request, Goto
  <1>2. Asked' = Asked \cup {c} /\ c \notin Asked
        BY <1>1 DEF Asked
  <1>3. Answered' = Answered \ {c}
        BY <1>1 DEF Answered
  <1>4. QED
        BY <1>2, <1>3 DEF Exchanges!Ask, Asked, Answered

LEMMA CrashImplements ==
  ASSUME NEW c \in Calls, IInv, ServiceCrashes(c)
  PROVE  Exchanges!Lose
  <1>1. /\ at[c] = "invoke"
        /\ at' = [d \in Calls |-> "idle"]
        /\ reply' = [d \in Calls |-> IF at[d] = "idle" THEN reply[d] ELSE Zeroed(request[d])]
        BY DEF ServiceCrashes
  <1>2. \A d \in Calls : Zeroed(request[d]).chip = "zeros"
        BY ZeroedType DEF IInv, TypeOK
  <1>3. c \in Asked /\ Asked' = {}
        BY <1>1 DEF Asked
  <1>4. Answered' = Answered
        BY <1>1, <1>2 DEF Answered
  <1>5. QED
        BY <1>3, <1>4 DEF Exchanges!Lose, Asked, Answered

(* Every behaviour of the calls is one of ApduExchange: a caller has the   *)
(* element's answer or none, and none that was meant for another.          *)
THEOREM ExchangesImplemented == Spec => Exchanges!Spec
  <1>1. Init => Exchanges!Init
    <2>1. Zeroed("getEseCplc").chip = "zeros"
          BY ZeroedType DEF Requests
    <2>2. QED
          BY <2>1 DEF Init, Exchanges!Init
  <1>2. IInv /\ IInv' /\ [Next]_vars => [Exchanges!Next]_(Exchanges!vars)
    <2> SUFFICES ASSUME IInv, IInv', [Next]_vars
                 PROVE  [Exchanges!Next]_(Exchanges!vars)
        OBVIOUS
    <2>1. ASSUME NEW c \in Calls, NEW r \in Requests, NEW uid \in Uids, Request(c, r, uid)
          PROVE  Exchanges!Next
          BY <2>1, RequestImplements DEF Exchanges!Next
    <2>2. ASSUME NEW c \in Calls, NEW uid, ZeroLengthRefused(c) \/ UidRefused(c, uid)
          PROVE  UNCHANGED Exchanges!vars
          BY <2>2 DEF ZeroLengthRefused, UidRefused, Refused, Exchanges!vars
    <2>3. CASE UNCHANGED vars
          BY <2>3 DEF vars, callVars, Exchanges!vars
    <2>4. QED
          BY <2>1, <2>2, <2>3, StepImplements, CrashImplements DEF Next, Exchanges!Next
  <1>3. QED
        BY <1>1, <1>2, Invariance, PTL DEF Spec, Exchanges!Spec
=============================================================================
