----------------------------- MODULE EseGetCplc -----------------------------
(***************************************************************************)
(* Reading the CPLC as the JNI does (native_eseGetCplc): powerOn at the    *)
(* power manager daemon, the exchange through eseManagerService, powerOff. *)
(* The two daemons know nothing of each other.  It is the client's pairing *)
(* of calls that keeps the element powered while it is being talked to,    *)
(* and an element without power does not answer.                           *)
(*                                                                         *)
(* EsePowerManager composed with EseSpiClient, whose session variable is   *)
(* called teeSession here; every client thread is one call of each.        *)
(***************************************************************************)
EXTENDS EsePowerManager, Integers

CONSTANTS Uids, CardAnswers, BufferLen, TeecErrors, TaErrors,
          MaxContexts, MaxSessions, MaxBlocks, TeeFaults

VARIABLES at, request, result, reply, status,
          context, teeSession, inputSm, outputSm

exchangeVars == <<at, request, result, reply, status,
                  context, teeSession, inputSm, outputSm>>

Tee == INSTANCE EseSpiClient WITH Calls <- Threads, session <- teeSession

ASSUME TeeConstants ==
    Tee!CallsAssumption /\ Tee!ElementAssumption /\ Tee!TeeAssumption

SystemInit == Init /\ Tee!Init

(* A thread is in one binder call at a time: it calls the power manager    *)
(* only when it is not in an exchange.                                     *)
PowerStep ==
    /\ Next
    /\ \A t \in Threads : pc[t] = "idle" /\ pc'[t] # "idle" => at[t] = "idle"
    /\ UNCHANGED exchangeVars

(* Mutant: the exchange comes without, or before, powerOn.                 *)
getEseCplcUnpowered(t) ==
    /\ pc[t] = "idle"
    /\ alive[PidOf[t]]
    /\ Tee!Request(t, "getEseCplc", "other")
    /\ UNCHANGED vars

(* powerOn did not fail, and powerOff is yet to come.                      *)
getEseCplc(t) ==
    /\ pc[t] = "idle"
    /\ session[t] # "none"
    /\ Tee!Request(t, "getEseCplc", "other")
    /\ UNCHANGED vars

Exchange(t) == Tee!Step(t, spi) /\ UNCHANGED vars

SystemNext ==
    \/ PowerStep
    \/ \E t \in Threads : getEseCplc(t) \/ Exchange(t)

SystemSpec == SystemInit /\ [][SystemNext]_<<vars, exchangeVars>>

-----------------------------------------------------------------------------
InExchange(t) == at[t] # "idle"

(* While no process dies, the element is powered from the first to the     *)
(* last step of every exchange, whatever the other clients, the driver and *)
(* the TEE do meanwhile.                                                   *)
ExchangePowered == \A t \in Threads : InExchange(t) => spi

(* A client the power manager answered with 1 gets the element's answer:   *)
(* with room in the TEE and no fault of it, no exchange ends with a code   *)
(* other than TEEC_SUCCESS, in spite of failures of the NFC driver.        *)
GrantedMeansAnswered ==
    \A t \in Threads : at[t] = "cleanup1" => result[t] = Tee!TEEC_SUCCESS
=============================================================================
