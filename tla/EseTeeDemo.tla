----------------------------- MODULE EseTeeDemo -----------------------------
(***************************************************************************)
(* The test program 80t-test-ap: it powers the element through its own     *)
(* descriptor, runs teeclientdemo of libese_spi_client, and powers it off. *)
(* teeclientdemo takes options: -c toggles the activation of an applet     *)
(* over a logical channel (invoke_transmit), -t runs a self-test, -i sends *)
(* one APDU (invoke_hal_transmit).  All of them share one TEEC_Operation,  *)
(* whose output size the TEE overwrites at every command.                  *)
(*                                                                         *)
(* No result is looked at by main, by the option loop, or after an         *)
(* allocation; a failed command ends its option and nothing else.  Answers *)
(* are copied to an array on the stack that is shorter than the blocks.    *)
(***************************************************************************)
EXTENDS Naturals

CONSTANTS
    MaxOptions,     \* bound on the options of the command line
    BIG_INT_LENGTH, \* the size of both blocks
    AnswerLens,     \* how long the answers of the trusted application are
    MaxChannels     \* the logical channels of the element

ASSUME DemoAssumption ==
    /\ MaxOptions \in Nat
    /\ BIG_INT_LENGTH \in Nat
    /\ AnswerLens \subseteq 0 .. BIG_INT_LENGTH
    /\ MaxChannels \in Nat

VARIABLES
    pc,       \* the next step of the program
    left,     \* how many options it may still be given
    ret,      \* main: the result of the latest ioctl
    spi,      \* driver: the SPI power
    held,     \* what the process holds: the node and resources of the TEE
    outSize,  \* operation.params[1].memref.size
    overrun,  \* has an answer been written past resp in this option?
    cmd,      \* the latest command invoked,
    result,   \* and its result
    resp6,    \* is resp[6], local to invoke_transmit, other than zero?
    active,   \* element: is the applet activated?
    channels, \* element: how many logical channels are open?
    before,   \* history: active and channels when the latest -c began
    complete  \* history: has the element done all it was asked since?

mainVars    == <<ret, spi>>
teeVars     == <<outSize, overrun, cmd, result>>
elementVars == <<active, channels>>
toggleVars  == <<resp6, before, complete>>
vars == <<pc, left, mainVars, held, teeVars, elementVars, toggleVars>>

Toggling == {"openChannel", "getStatus", "setStatus", "checkStatus", "closeChannel"}
Points == {"open", "powerPrio", "releasePrio", "initContext", "openSession",
           "allocInput", "allocOutput", "getopt", "test", "hal",
           "cleanup4", "cleanup3", "cleanup2", "powerOff", "close",
           "exited", "crashed"} \cup Toggling
Commands == {"OPEN_LOGICAL_CHANNEL", "CHANNEL_TRANSMIT", "CLOSE_CHANNEL",
             "ESESPI_TEST", "HAL_TRANSMIT"}

TypeOK ==
    /\ pc \in Points
    /\ left \in 0 .. MaxOptions
    /\ ret \in {"ok", "failed"}
    /\ spi \in {"off", "prio", "on"}
    /\ held \subseteq {"node", "context", "session", "input", "output"}
    /\ outSize \in 0 .. BIG_INT_LENGTH
    /\ overrun \in BOOLEAN
    /\ cmd \in Commands \cup {"none"}
    /\ result \in {"success", "failed", "shortBuffer"}
    /\ resp6 \in BOOLEAN
    /\ active \in BOOLEAN
    /\ channels \in 0 .. MaxChannels
    /\ before \in [active : BOOLEAN, channels : 0 .. MaxChannels]
    /\ complete \in BOOLEAN

Init ==
    /\ pc = "open"
    /\ left = MaxOptions
    /\ ret = "ok"
    /\ spi = "off"
    /\ held = {}
    /\ outSize = BIG_INT_LENGTH
    /\ overrun = FALSE
    /\ cmd = "none"
    /\ result = "success"
    /\ resp6 = FALSE
    /\ active \in BOOLEAN
    /\ channels = 0
    /\ before = [active |-> active, channels |-> 0]
    /\ complete = FALSE

-----------------------------------------------------------------------------
(* main.                                                                   *)

OpenNode ==
    /\ pc = "open"
    /\ \/ held' = {"node"} /\ pc' = "powerPrio"
       \/ UNCHANGED held /\ pc' = "exited"
    /\ UNCHANGED <<left, mainVars, teeVars, elementVars, toggleVars>>

(* An ioctl on the power; whatever it answers, main goes on.               *)
SetSpiPower(point, power, next) ==
    /\ pc = point
    /\ \/ ret' = "ok" /\ spi' = power
       \/ ret' = "failed" /\ UNCHANGED spi
    /\ pc' = next
    /\ UNCHANGED <<left, held, teeVars, elementVars, toggleVars>>

(* P61_SET_SPI_PWR 3, 4 (which gives only the priority back) and 0.        *)
PowerOnPrio == SetSpiPower("powerPrio", "prio", "releasePrio")
ReleasePrio == SetSpiPower("releasePrio", IF spi = "prio" THEN "on" ELSE spi, "initContext")
PowerOff    == SetSpiPower("powerOff", "off", "close")

CloseNode ==
    /\ pc = "close"
    /\ held' = held \ {"node"}
    /\ pc' = "exited"
    /\ UNCHANGED <<left, mainVars, teeVars, elementVars, toggleVars>>

-----------------------------------------------------------------------------
(* teeclientdemo: what it obtains, and what it gives back.                 *)

Obtain(point, what, next, otherwise) ==
    /\ pc = point
    /\ \/ held' = held \cup {what} /\ pc' = next
       \/ UNCHANGED held /\ pc' = otherwise
    /\ UNCHANGED <<left, mainVars, teeVars, elementVars, toggleVars>>

InitializeContext == Obtain("initContext", "context", "openSession", "powerOff")

(* Mutant: a failed session leaves the context behind.                     *)
OpenSessionLeaks == Obtain("openSession", "session", "allocInput", "powerOff")

OpenSession == Obtain("openSession", "session", "allocInput", "cleanup2")

(* The result is not looked at: memset writes to a null buffer.            *)
AllocateInput  == Obtain("allocInput", "input", "allocOutput", "crashed")
AllocateOutput == Obtain("allocOutput", "output", "getopt", "crashed")

GiveBack(point, what, next) ==
    /\ pc = point
    /\ held' = held \ what
    /\ pc' = next
    /\ UNCHANGED <<left, mainVars, teeVars, elementVars, toggleVars>>

ReleaseSharedMemory == GiveBack("cleanup4", {"input", "output"}, "cleanup3")
CloseSession        == GiveBack("cleanup3", {"session"}, "cleanup2")
FinalizeContext     == GiveBack("cleanup2", {"context"}, "powerOff")

(* One turn of the option loop, or its end.  The size of the output is set *)
(* before the loop, not in it.                                             *)
getopt ==
    /\ pc = "getopt"
    /\ \/ /\ left > 0
          /\ left' = left - 1
          /\ pc' \in {"openChannel", "test", "hal"}
       \/ pc' = "cleanup4" /\ UNCHANGED left
    /\ overrun' = FALSE
    /\ UNCHANGED <<mainVars, held, outSize, cmd, result, elementVars, toggleVars>>

-----------------------------------------------------------------------------
(* TEEC_InvokeCommand.  The trusted application needs a powered element;   *)
(* the size is updated to what was written, or to what would be needed.    *)

Answers(c, len, room) ==
    /\ spi # "off"
    /\ cmd' = c
    /\ result' = IF len <= room THEN "success" ELSE "shortBuffer"
    /\ outSize' = len

Fails(c, room) ==
    /\ cmd' = c
    /\ result' = "failed"
    /\ outSize' \in {0, room}

(* resp[100], of invoke_transmit and of invoke_hal_transmit, takes the     *)
(* whole answer, of up to BIG_INT_LENGTH bytes.                            *)
RespLength == 100
Copied == overrun' = (overrun \/ (result' = "success" /\ outSize' > RespLength))

(* What an overrun writes over is the frame of the function.  It may do no *)
(* harm, or end the program before, or as, the function returns.           *)
StackSmashed ==
    /\ overrun
    /\ pc' = "crashed"
    /\ UNCHANGED <<left, mainVars, held, teeVars, elementVars, toggleVars>>

(* Every return of invoke_transmit leads back to the option loop.          *)
Proceed(next) == pc' = IF result' = "success" THEN next ELSE "getopt"

(* OPEN_LOGICAL_CHANNEL is given whatever size the last command left.      *)
OpenLogicalChannel ==
    /\ pc = "openChannel"
    /\ before' = [active |-> active, channels |-> channels]
    /\ \/ /\ channels < MaxChannels
          /\ channels' = channels + 1
          /\ \E len \in AnswerLens, nonzero \in BOOLEAN :
                /\ Answers("OPEN_LOGICAL_CHANNEL", len, outSize)
                /\ resp6' = (6 < len /\ len <= outSize /\ nonzero)
          /\ complete' = TRUE
       \/ /\ Fails("OPEN_LOGICAL_CHANNEL", outSize)
          /\ resp6' = FALSE
          /\ complete' = FALSE
          /\ UNCHANGED channels
    /\ Copied
    /\ Proceed("getStatus")
    /\ UNCHANGED <<left, mainVars, held, active>>

(* Mutants: the size is not set again; the answer is not copied.           *)
GetStatusKeepsSize ==
    /\ pc = "getStatus"
    /\ \/ \E len \in AnswerLens :
             /\ Answers("CHANNEL_TRANSMIT", len, outSize)
             /\ resp6' = IF len > 6 THEN active ELSE resp6
             /\ complete' = (complete /\ len > 6)
       \/ /\ Fails("CHANNEL_TRANSMIT", outSize)
          /\ complete' = FALSE
          /\ UNCHANGED resp6
    /\ Copied
    /\ Proceed("setStatus")
    /\ UNCHANGED <<left, mainVars, held, elementVars, before>>
GetStatusNotCopied ==
    /\ pc = "getStatus"
    /\ \/ \E len \in AnswerLens :
             /\ Answers("CHANNEL_TRANSMIT", len, BIG_INT_LENGTH)
             /\ complete' = (complete /\ len > 6)
       \/ /\ Fails("CHANNEL_TRANSMIT", BIG_INT_LENGTH)
          /\ complete' = FALSE
    /\ Copied
    /\ Proceed("setStatus")
    /\ UNCHANGED <<left, mainVars, held, elementVars, resp6, before>>

(* GET STATUS.  The state is byte 6 of a full answer.  A refusal has the   *)
(* status word alone: resp[6] stays what OPEN_LOGICAL_CHANNEL left there.  *)
GetStatus ==
    /\ pc = "getStatus"
    /\ \/ \E len \in AnswerLens :
             /\ Answers("CHANNEL_TRANSMIT", len, BIG_INT_LENGTH)
             /\ resp6' = IF len > 6 THEN active ELSE resp6
             /\ complete' = (complete /\ len > 6)
       \/ /\ Fails("CHANNEL_TRANSMIT", BIG_INT_LENGTH)
          /\ complete' = FALSE
          /\ UNCHANGED resp6
    /\ Copied
    /\ Proceed("setStatus")
    /\ UNCHANGED <<left, mainVars, held, elementVars, before>>

(* SET STATUS to the opposite of resp[6]; the element may refuse.          *)
SetStatus ==
    /\ pc = "setStatus"
    /\ \/ \E len \in AnswerLens, done \in BOOLEAN :
             /\ Answers("CHANNEL_TRANSMIT", len, BIG_INT_LENGTH)
             /\ active' = IF done THEN ~resp6 ELSE active
             /\ complete' = (complete /\ done)
       \/ /\ Fails("CHANNEL_TRANSMIT", BIG_INT_LENGTH)
          /\ complete' = FALSE
          /\ UNCHANGED active
    /\ Copied
    /\ Proceed("checkStatus")
    /\ UNCHANGED <<left, mainVars, held, channels, resp6, before>>

(* GET STATUS once more, for its trace; nothing reads resp after it.       *)
CheckStatus ==
    /\ pc = "checkStatus"
    /\ \/ \E len \in AnswerLens : Answers("CHANNEL_TRANSMIT", len, BIG_INT_LENGTH)
       \/ Fails("CHANNEL_TRANSMIT", BIG_INT_LENGTH)
    /\ Copied
    /\ Proceed("closeChannel")
    /\ UNCHANGED <<left, mainVars, held, elementVars, toggleVars>>

CloseChannel ==
    /\ pc = "closeChannel"
    /\ \/ /\ \E len \in AnswerLens : Answers("CLOSE_CHANNEL", len, BIG_INT_LENGTH)
          /\ channels' = channels - 1
       \/ /\ Fails("CLOSE_CHANNEL", BIG_INT_LENGTH)
          /\ UNCHANGED channels
    /\ pc' = "getopt"
    /\ UNCHANGED <<left, mainVars, held, overrun, active, toggleVars>>

(* The other two options: one does not set the size of the output, one     *)
(* does.  Mutant: a failed transmission is repeated.                       *)
SelfTest ==
    /\ pc = "test"
    /\ \/ \E len \in AnswerLens : Answers("ESESPI_TEST", len, outSize)
       \/ Fails("ESESPI_TEST", outSize)
    /\ pc' = "getopt"
    /\ UNCHANGED <<left, mainVars, held, overrun, elementVars, toggleVars>>
HalTransmitRepeats ==
    /\ pc = "hal"
    /\ \/ \E len \in AnswerLens : Answers("HAL_TRANSMIT", len, BIG_INT_LENGTH)
       \/ Fails("HAL_TRANSMIT", BIG_INT_LENGTH)
    /\ Copied
    /\ pc' = IF result' = "success" THEN "getopt" ELSE "hal"
    /\ UNCHANGED <<left, mainVars, held, elementVars, toggleVars>>
HalTransmit ==
    /\ pc = "hal"
    /\ \/ \E len \in AnswerLens : Answers("HAL_TRANSMIT", len, BIG_INT_LENGTH)
       \/ Fails("HAL_TRANSMIT", BIG_INT_LENGTH)
    /\ Copied
    /\ pc' = "getopt"
    /\ UNCHANGED <<left, mainVars, held, elementVars, toggleVars>>

Next ==
    \/ OpenNode \/ PowerOnPrio \/ ReleasePrio \/ PowerOff \/ CloseNode
    \/ InitializeContext \/ OpenSession \/ AllocateInput \/ AllocateOutput
    \/ ReleaseSharedMemory \/ CloseSession \/ FinalizeContext
    \/ getopt \/ SelfTest \/ HalTransmit \/ StackSmashed
    \/ OpenLogicalChannel \/ GetStatus \/ SetStatus \/ CheckStatus \/ CloseChannel

Spec == Init /\ [][Next]_vars

(* The program is sequential and every call it makes returns.              *)
FairSpec == Spec /\ WF_vars(Next)

-----------------------------------------------------------------------------
(* Properties.                                                             *)

(* A program that ends (and does not crash) has given back the node and    *)
(* all it had of the TEE, and the element is off unless the very last      *)
(* ioctl failed, however far it got.                                       *)
GivenBack ==
    pc = "exited" => /\ held = {}
                     /\ spi # "off" => ret = "failed"

(* A -c that ends with TEEC_SUCCESS has toggled the applet once and left   *)
(* no channel open, if the element did what it was asked.  (When GET       *)
(* STATUS was refused, SET STATUS goes by a byte of an older answer.)      *)
Toggled ==
    (pc = "getopt" /\ cmd = "CLOSE_CHANNEL" /\ result = "success" /\ complete)
        => active = ~before.active /\ channels = before.channels

(* An answer lacks room only where the size is not set before the command: *)
(* what one option leaves in the shared operation never fails a command    *)
(* in the middle of another, with a channel open.                          *)
ShortBufferOnlyAtStart ==
    result = "shortBuffer" => cmd \in {"OPEN_LOGICAL_CHANNEL", "ESESPI_TEST"}

(* Whatever fails, the program gets through its options and stops.         *)
Ends == <>(pc \in {"exited", "crashed"})
=============================================================================
