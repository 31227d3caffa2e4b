---------------------------- MODULE EseSpiClient ----------------------------
(***************************************************************************)
(* An APDU exchange with the secure element through the TEE.  The daemon   *)
(* eseManagerService serves getEseCplc and sendCommand, each call in its   *)
(* own binder thread and without a lock, with ca_getEseCplc and            *)
(* ca_sendEseCommand of libese_spi_client: initialise a context, open a    *)
(* session, allocate an input and an output block, invoke HAL_TRANSMIT,    *)
(* and undo all of it in the reverse order, from the label the failure     *)
(* jumps to.  The answer travels back through the binder proxy to the JNI. *)
(*                                                                         *)
(* The TEE is modelled from tee_client_api.h: what each function obtains   *)
(* and gives back, that contexts, sessions and blocks are limited, and the *)
(* codes it may fail with.                                                 *)
(***************************************************************************)
EXTENDS Integers, FiniteSets

CONSTANTS
    Calls,        \* the binder threads of eseManagerService, one call each
    Uids,         \* the callers, as sendCommand tells them apart
    CardAnswers,  \* what the element may answer: records [len, chip]
    BufferLen,    \* the length of the caller's buffer
    TeecErrors,   \* failure codes of the TEE: small ones, or 0xFFFF0000 and up
    TaErrors,     \* codes the trusted application defines
    MaxContexts, MaxSessions, MaxBlocks, \* what the TEE has room for
    TeeFaults     \* may a TEE function fail though there is room?

(* A TEEC_Result is a uint32_t.  It is written as the int32_t of the same  *)
(* bits, so that 0xFFFF0000 is -65536; 0 - result is exact on all of them  *)
(* but 0x80000000, which is not taken for a code.                          *)
TEEC_SUCCESS        == 0
INIT_CONTEXT_FAILED == 100
OPEN_SESSION_FAILED == 101
NO_ERROR            == 0
PERMISSION_DENIED   == -1
BAD_VALUE           == -22
DEAD_OBJECT         == -32

(* struct send_cmd_rsp has its rsp_len before the answer.                  *)
HeaderLen == 4

ASSUME CallsAssumption ==
    /\ IsFiniteSet(Calls)
    /\ Uids \subseteq {"system", "root", "radio", "other"}
(* The TEE puts no more into the output block than that holds: it fails    *)
(* with TEEC_ERROR_SHORT_BUFFER instead.                                   *)
ASSUME ElementAssumption ==
    /\ BufferLen \in Nat
    /\ CardAnswers \subseteq [len : 0 .. BufferLen, chip : {"valid", "other"}]
ASSUME TeeAssumption ==
    /\ TeecErrors \subseteq Int \ {TEEC_SUCCESS}
    /\ TaErrors \subseteq Int \ {TEEC_SUCCESS}
    /\ MaxContexts \in Nat
    /\ MaxSessions \in Nat
    /\ MaxBlocks \in Nat
    /\ TeeFaults \in BOOLEAN

VARIABLES
    at,       \* the next step of each call, its label in ca_getEseCplc
    request,  \* what was asked for
    result,   \* the local variable result, and what it was at the end
    reply,    \* the length and contents the client gets to read
    status,   \* what the proxy returned to the client
    context,  \* TEE: the calls that have a context,
    session,  \* an open session,
    inputSm,  \* an input block,
    outputSm  \* and an output block

callVars == <<at, request, result, reply, status>>
teeVars  == <<context, session, inputSm, outputSm>>
vars     == <<callVars, teeVars>>

Requests == {"getEseCplc", "sendCommand"}
Steps == {"initContext", "openSession", "allocInput", "allocOutput", "invoke",
          "cleanup5", "cleanup4", "cleanup3", "cleanup2", "cleanup1"}

(* What the zeroed reply holds until the element has answered: getEseCplc  *)
(* leaves cplc_len at the length asked for, rsp_len starts at zero.        *)
Zeroed(r) == [len |-> IF r = "getEseCplc" THEN BufferLen ELSE 0, chip |-> "zeros"]

TypeOK ==
    /\ at \in [Calls -> {"idle"} \cup Steps]
    /\ request \in [Calls -> Requests]
    /\ result \in [Calls -> Int]
    /\ reply \in [Calls -> [len : 0 .. BufferLen, chip : {"valid", "other", "cut", "zeros"}]]
    /\ status \in [Calls -> Int]
    /\ context \subseteq Calls
    /\ session \subseteq Calls
    /\ inputSm \subseteq Calls
    /\ outputSm \subseteq Calls

Init ==
    /\ at = [c \in Calls |-> "idle"]
    /\ request = [c \in Calls |-> "getEseCplc"]
    /\ result = [c \in Calls |-> TEEC_SUCCESS]
    /\ reply = [c \in Calls |-> Zeroed("getEseCplc")]
    /\ status = [c \in Calls |-> BAD_VALUE]
    /\ context = {}
    /\ session = {}
    /\ inputSm = {}
    /\ outputSm = {}

-----------------------------------------------------------------------------
(* Steps of a call.                                                        *)

Goto(c, label) == at' = [at EXCEPT ![c] = label]

(* A TEE function succeeds, or fails with some code.                       *)
Succeeds(c, room) == room /\ result' = [result EXCEPT ![c] = TEEC_SUCCESS]
FailsWith(c, room, codes) ==
    /\ ~room \/ TeeFaults
    /\ \E e \in codes : result' = [result EXCEPT ![c] = e]

Blocks == Cardinality(inputSm) + Cardinality(outputSm)

(* A request that reaches the library.                                     *)
Request(c, r, uid) ==
    /\ at[c] = "idle"
    /\ r = "sendCommand" => uid \in {"system", "root"}
    /\ request' = [request EXCEPT ![c] = r]
    /\ reply' = [reply EXCEPT ![c] = Zeroed(r)]
    /\ Goto(c, "initContext")
    /\ UNCHANGED <<result, status, teeVars>>

Refused(c, code) ==
    /\ at[c] = "idle"
    /\ status' = [status EXCEPT ![c] = code]
    /\ UNCHANGED <<at, request, result, reply, teeVars>>

(* A zero length is refused by the proxy, and by the service once more.    *)
ZeroLengthRefused(c) == Refused(c, BAD_VALUE)

(* sendCommand is for two uids; getEseCplc asks for none.                  *)
UidRefused(c, uid) == uid \notin {"system", "root"} /\ Refused(c, PERMISSION_DENIED)

InitializeContext(c) ==
    LET room == Cardinality(context) < MaxContexts IN
    /\ at[c] = "initContext"
    /\ \/ /\ Succeeds(c, room)
          /\ context' = context \cup {c}
          /\ Goto(c, "openSession")
       \/ /\ FailsWith(c, room, {INIT_CONTEXT_FAILED})
          /\ Goto(c, "cleanup1")
          /\ UNCHANGED context
    /\ UNCHANGED <<request, reply, status, session, inputSm, outputSm>>

(* Mutant: a failed open jumps past TEEC_FinalizeContext.                  *)
OpenSessionLeaks(c) ==
    LET room == Cardinality(session) < MaxSessions IN
    /\ at[c] = "openSession"
    /\ \/ /\ Succeeds(c, room)
          /\ session' = session \cup {c}
          /\ Goto(c, "allocInput")
       \/ /\ FailsWith(c, room, {OPEN_SESSION_FAILED})
          /\ Goto(c, "cleanup1")
          /\ UNCHANGED session
    /\ UNCHANGED <<request, reply, status, context, inputSm, outputSm>>

OpenSession(c) ==
    LET room == Cardinality(session) < MaxSessions IN
    /\ at[c] = "openSession"
    /\ \/ /\ Succeeds(c, room)
          /\ session' = session \cup {c}
          /\ Goto(c, "allocInput")
       \/ /\ FailsWith(c, room, {OPEN_SESSION_FAILED})
          /\ Goto(c, "cleanup2")
          /\ UNCHANGED session
    /\ UNCHANGED <<request, reply, status, context, inputSm, outputSm>>

AllocateInput(c) ==
    LET room == Blocks < MaxBlocks IN
    /\ at[c] = "allocInput"
    /\ \/ /\ Succeeds(c, room)
          /\ inputSm' = inputSm \cup {c}
          /\ Goto(c, "allocOutput")
       \/ /\ FailsWith(c, room, TeecErrors)
          /\ Goto(c, "cleanup4")
          /\ UNCHANGED inputSm
    /\ UNCHANGED <<request, reply, status, context, session, outputSm>>

(* Mutant: a failed second allocation forgets the first.                   *)
AllocateOutputLeaks(c) ==
    LET room == Blocks < MaxBlocks IN
    /\ at[c] = "allocOutput"
    /\ \/ /\ Succeeds(c, room)
          /\ outputSm' = outputSm \cup {c}
          /\ Goto(c, "invoke")
       \/ /\ FailsWith(c, room, TeecErrors)
          /\ Goto(c, "cleanup3")
          /\ UNCHANGED outputSm
    /\ UNCHANGED <<request, reply, status, context, session, inputSm>>

AllocateOutput(c) ==
    LET room == Blocks < MaxBlocks IN
    /\ at[c] = "allocOutput"
    /\ \/ /\ Succeeds(c, room)
          /\ outputSm' = outputSm \cup {c}
          /\ Goto(c, "invoke")
       \/ /\ FailsWith(c, room, TeecErrors)
          /\ Goto(c, "cleanup5")
          /\ UNCHANGED outputSm
    /\ UNCHANGED <<request, reply, status, context, session, inputSm>>

(* ca_sendEseCommand copies the answer behind rsp_len, into a parcel of no *)
(* more bytes than the output block has.  Bytes behind the parcel's end    *)
(* are not sent.                                                           *)
Overruns(r, answer) == r = "sendCommand" /\ HeaderLen + answer.len > BufferLen
Received(r, answer) == IF Overruns(r, answer) THEN [answer EXCEPT !.chip = "cut"] ELSE answer

(* Mutant: a failed command is repeated.                                   *)
InvokeCommandRepeats(c, reachable) ==
    /\ at[c] = "invoke"
    /\ \/ /\ Succeeds(c, reachable)
          /\ \E answer \in CardAnswers :
                reply' = [reply EXCEPT ![c] = Received(request[c], answer)]
          /\ Goto(c, "cleanup5")
       \/ /\ FailsWith(c, reachable, TeecErrors \cup TaErrors)
          /\ UNCHANGED <<at, reply>>
    /\ UNCHANGED <<request, status, teeVars>>

(* The element answers if it is reachable; a failure may come from the TEE *)
(* or from the trusted application.                                        *)
InvokeCommand(c, reachable) ==
    /\ at[c] = "invoke"
    /\ \/ /\ Succeeds(c, reachable)
          /\ \E answer \in CardAnswers :
                reply' = [reply EXCEPT ![c] = Received(request[c], answer)]
       \/ /\ FailsWith(c, reachable, TeecErrors \cup TaErrors)
          /\ UNCHANGED reply
    /\ Goto(c, "cleanup5")
    /\ UNCHANGED <<request, status, teeVars>>

(* What is behind the parcel may be what the service cannot do without: it *)
(* dies of the overrun.  The kernel closes its sessions, and every call in *)
(* it ends as one whose daemon is gone.                                    *)
ServiceCrashes(c) ==
    /\ at[c] = "invoke"
    /\ \E answer \in CardAnswers : Overruns(request[c], answer)
    /\ at' = [d \in Calls |-> "idle"]
    /\ reply' = [d \in Calls |-> IF at[d] = "idle" THEN reply[d] ELSE Zeroed(request[d])]
    /\ status' = [d \in Calls |-> IF at[d] = "idle" THEN status[d] ELSE DEAD_OBJECT]
    /\ context' = {}
    /\ session' = {}
    /\ inputSm' = {}
    /\ outputSm' = {}
    /\ UNCHANGED <<request, result>>

(* TEEC_ReleaseSharedMemory is called whether or not the block was         *)
(* allocated; a block without a buffer has nothing to free.                *)
ReleaseOutput(c) ==
    /\ at[c] = "cleanup5"
    /\ outputSm' = outputSm \ {c}
    /\ Goto(c, "cleanup4")
    /\ UNCHANGED <<request, result, reply, status, context, session, inputSm>>

ReleaseInput(c) ==
    /\ at[c] = "cleanup4"
    /\ inputSm' = inputSm \ {c}
    /\ Goto(c, "cleanup3")
    /\ UNCHANGED <<request, result, reply, status, context, session, outputSm>>

CloseSession(c) ==
    /\ at[c] = "cleanup3"
    /\ session' = session \ {c}
    /\ Goto(c, "cleanup2")
    /\ UNCHANGED <<request, result, reply, status, context, inputSm, outputSm>>

FinalizeContext(c) ==
    /\ at[c] = "cleanup2"
    /\ context' = context \ {c}
    /\ Goto(c, "cleanup1")
    /\ UNCHANGED <<request, result, reply, status, session, inputSm, outputSm>>

(* The service passes a negative return value on and takes anything else   *)
(* for NO_ERROR.                                                           *)
ServiceStatus(ret) == IF ret < 0 THEN ret ELSE NO_ERROR

Return(c) ==
    /\ at[c] = "cleanup1"
    /\ status' = [status EXCEPT ![c] = ServiceStatus(0 - result[c])]
    /\ Goto(c, "idle")
    /\ UNCHANGED <<request, result, reply, teeVars>>

Step(c, reachable) ==
    \/ InitializeContext(c) \/ OpenSession(c)
    \/ AllocateInput(c) \/ AllocateOutput(c)
    \/ InvokeCommand(c, reachable)
    \/ ReleaseOutput(c) \/ ReleaseInput(c) \/ CloseSession(c) \/ FinalizeContext(c)
    \/ Return(c)

Next ==
    \E c \in Calls :
        \/ \E r \in Requests, uid \in Uids : Request(c, r, uid)
        \/ ZeroLengthRefused(c)
        \/ \E uid \in Uids : UidRefused(c, uid)
        \/ Step(c, TRUE)
        \/ ServiceCrashes(c)

Spec == Init /\ [][Next]_vars

(* The binder threads of the service are scheduled and the TEE returns     *)
(* from every function.  Nobody has to ask, and nothing has to crash.      *)
FairSpec == Spec /\ \A c \in Calls : WF_vars(Step(c, TRUE))

-----------------------------------------------------------------------------
(* What the JNI makes of an answer.                                        *)

(* Mutant: the bytes of the chip vendor are not looked at.                 *)
native_eseValidateLength(c) ==
    /\ request[c] = "getEseCplc"
    /\ status[c] >= 0
    /\ reply[c].len >= 47

(* Long enough, and bytes 3 and 4 are 0x47 0x90.                           *)
native_eseValidateChipLegality(c) ==
    /\ request[c] = "getEseCplc"
    /\ status[c] >= 0
    /\ reply[c].len >= 47
    /\ reply[c].chip = "valid"

-----------------------------------------------------------------------------
(* Properties.                                                             *)

Holds(c) == c \in context \cup session \cup inputSm \cup outputSm

(* tee_client_api.h on TEEC_FinalizeContext: "MUST only call this function *)
(* when all Sessions inside this TEE Context have been closed and all      *)
(* Shared Memory blocks have been released", from whichever failure the    *)
(* cleanup labels are reached.                                             *)
FinalizeAfterRelease ==
    [][ \A c \in context \ context' :
            at[c] = "cleanup2" => c \notin session \cup inputSm \cup outputSm ]_vars

(* A call that has returned holds nothing of the TEE, however far it got:  *)
(* no failure uses up the contexts, sessions and blocks of later calls.    *)
NothingLeaked == \A c \in Calls : at[c] = "idle" => ~Holds(c)

(* A chip is found legal on nothing but an answer of the element, though   *)
(* a failure in the TEE may have come through as NO_ERROR.                 *)
LegalMeansAnswered ==
    \A c \in Calls :
        at[c] = "idle" /\ native_eseValidateChipLegality(c) => result[c] = TEEC_SUCCESS

(* "get Actually cplc length": NO_ERROR means that the element answered.   *)
NoErrorMeansAnswered ==
    \A c \in Calls : at[c] = "idle" /\ status[c] = NO_ERROR => result[c] = TEEC_SUCCESS

(* What the client gets of all this, see ApduExchange: every exchange ends *)
(* though others may hold all there is in the TEE, and after it the caller *)
(* has all the element answered, or no answer: a zeroed buffer, or one too *)
(* short for rsp_len and the answer.                                       *)
Exchanges == INSTANCE ApduExchange WITH
    asked    <- {c \in Calls : at[c] # "idle"},
    answered <- {c \in Calls : at[c] = "idle" /\ reply[c].chip \notin {"zeros", "cut"}}
ExchangeImplemented == Exchanges!FairSpec
=============================================================================
