-------------------------- MODULE EseApplications --------------------------
(***************************************************************************)
(* The programs that use the power manager, one to a process, composed     *)
(* with EsePowerManager:                                                   *)
(*   getCplcTest   threads that read the CPLC until SIGINT (jni);          *)
(*   MainActivity  the screen of eseManagerTest, over esemanagerAPI;       *)
(*   client        eSEPowerManagerClient, one call or a pair of them.      *)
(* Where the other modules let a client call what it likes and die when it *)
(* likes, here a process ends when its program does.                       *)
(*                                                                         *)
(* The binding of element and phone that powerOn asks the fingerprint CA   *)
(* about is state here, changed by sendCommandEx.  An exchange with the    *)
(* element is the time a thread holds its session; EseGetCplc opens it up. *)
(***************************************************************************)
EXTENDS EsePowerManager

CONSTANTS
    Programs, \* those that each process may be running
    Rounds    \* count of each thread of getCplcTest (a million in the code)

ASSUME ProgramAssumption ==
    /\ Programs \in [Pids -> SUBSET {"getCplcTest", "MainActivity", "client"}]
    /\ \A p \in Pids : Cardinality(ThreadsOf(p)) > 1 => Programs[p] = {"getCplcTest"}
    /\ Rounds \in Nat
(* sendCommandEx makes the binding right, or clears it.                    *)
ASSUME BindingAssumption == {"right", "none"} \subseteq BindingReports

VARIABLES
    program,  \* the program of each process
    stage,    \* where each thread is in its program
    count,    \* jobs (powerOn, exchange, powerOff) left to each thread
    g_quit,   \* the getCplcTest that have been told to quit
    binding   \* what the fingerprint CA answers about the binding

programVars == <<program, stage, count, g_quit>>
appVars == <<programVars, binding>>

Runs(t, name) == program[PidOf[t]] = name
Move(t, from, to) ==
    /\ alive[PidOf[t]]
    /\ stage[t] = from
    /\ stage' = [stage EXCEPT ![t] = to]

AppInit ==
    /\ Init
    /\ program \in {f \in [Pids -> UNION {Programs[p] : p \in Pids}] :
                        \A p \in Pids : f[p] \in Programs[p]}
    /\ stage = [t \in Threads |-> IF Runs(t, "getCplcTest") THEN "unborn" ELSE "out"]
    /\ count = [t \in Threads |-> IF Runs(t, "getCplcTest") THEN Rounds ELSE 0]
    /\ g_quit = {}
    /\ binding \in BindingReports

-----------------------------------------------------------------------------
(* A job: getCplC, native_eseGetCplc and native_eseValidateChipLegality.   *)
(* They differ in what they make of the answer only.                       *)

JobPowerOn(t) ==
    /\ count[t] > 0
    /\ Runs(t, "getCplcTest") => PidOf[t] \notin g_quit
    /\ Move(t, "out", "powerOn")
    /\ Call(t, "waitOn")
    /\ UNCHANGED <<program, count, g_quit, binding>>

JobPowerOnFailed(t) ==
    /\ pc[t] = "idle" /\ ~InUse(t)
    /\ Move(t, "powerOn", "out")
    /\ count' = [count EXCEPT ![t] = @ - 1]
    /\ UNCHANGED <<vars, program, g_quit, binding>>

(* Mutant: a failed exchange returns at once.                              *)
JobPowerOffOnSuccess(t) ==
    /\ pc[t] = "idle" /\ InUse(t)
    /\ \/ Move(t, "powerOn", "powerOff") /\ Call(t, "waitOff") /\ UNCHANGED count
       \/ /\ Move(t, "powerOn", "out") /\ UNCHANGED vars
          /\ count' = [count EXCEPT ![t] = @ - 1]
    /\ UNCHANGED <<program, g_quit, binding>>

(* The exchange has ended.  Its result is looked at after powerOff only.   *)
JobPowerOff(t) ==
    /\ pc[t] = "idle" /\ InUse(t)
    /\ Move(t, "powerOn", "powerOff")
    /\ Call(t, "waitOff")
    /\ UNCHANGED <<program, count, g_quit, binding>>

JobReturns(t) ==
    /\ pc[t] = "idle"
    /\ Move(t, "powerOff", "out")
    /\ count' = [count EXCEPT ![t] = @ - 1]
    /\ UNCHANGED <<vars, program, g_quit, binding>>

Job(t) ==
    JobPowerOn(t) \/ JobPowerOnFailed(t) \/ JobPowerOff(t) \/ JobReturns(t)

-----------------------------------------------------------------------------
(* getCplcTest.                                                            *)

pthread_create(t) ==
    /\ Move(t, "unborn", "out")
    /\ UNCHANGED <<vars, program, count, g_quit, binding>>

(* "Create pthread error": main returns, and takes the threads created so  *)
(* far with it, wherever they are.                                         *)
pthread_createFails(p) ==
    /\ \E t \in ThreadsOf(p) : stage[t] = "unborn"
    /\ ClientDies(p)
    /\ UNCHANGED appVars

ese_powerOff_handler(p) ==
    /\ program[p] = "getCplcTest" /\ alive[p]
    /\ g_quit' = g_quit \cup {p}
    /\ UNCHANGED <<vars, program, stage, count, binding>>

getCplcThreadEnds(t) ==
    /\ Runs(t, "getCplcTest")
    /\ count[t] = 0 \/ PidOf[t] \in g_quit
    /\ Move(t, "out", "done")
    /\ UNCHANGED <<vars, program, count, g_quit, binding>>

-----------------------------------------------------------------------------
(* MainActivity.                                                           *)

OnScreen(t) == Runs(t, "MainActivity") /\ stage[t] = "out" /\ count[t] = 0

(* The binding status is asked for, which changes nothing, and the jobs of *)
(* native_eseGetCplc and native_eseValidateChipLegality follow.            *)
onResume(t) ==
    /\ OnScreen(t)
    /\ count' = [count EXCEPT ![t] = 2]
    /\ UNCHANGED <<vars, program, stage, g_quit, binding>>

(* eseManagerService passes the command of a permitted caller on to the    *)
(* fingerprint CA, which may succeed or fail.                              *)
sendCommandEx(report) ==
    /\ binding' \in {binding, report}
    /\ UNCHANGED <<vars, programVars>>

native_eseSendCommandEx(t, report) ==
    PidOf[t] \in Permitted /\ sendCommandEx(report)

startBinding(t)     == OnScreen(t) /\ native_eseSendCommandEx(t, "right")
clearBindingInfo(t) == OnScreen(t) /\ native_eseSendCommandEx(t, "none")

(* main_eseManagerClient ("fptest"), which has no power session.           *)
fptest == sendCommandEx("right") \/ sendCommandEx("none")

(* Another element in the phone; errors of the CA that come and go.        *)
BindingChanges ==
    /\ binding' \in BindingReports
    /\ UNCHANGED <<vars, programVars>>

-----------------------------------------------------------------------------
(* The command-line client.                                                *)

(* No argument, or one that is not known: powerOn, then powerOff whatever  *)
(* came of it.  "poweron": powerOn, then wait for a key.                   *)
ClientPowerOn(t) ==
    /\ Runs(t, "client")
    /\ Move(t, "out", "pairOn") \/ Move(t, "out", "keyOn")
    /\ Call(t, "waitOn")
    /\ UNCHANGED <<program, count, g_quit, binding>>

ClientPowerOff(t) ==
    /\ Runs(t, "client")
    /\ Move(t, "out", "lastOff") \/ Move(t, "pairOn", "lastOff")
    /\ Call(t, "waitOff")
    /\ UNCHANGED <<program, count, g_quit, binding>>

(* Also "getstate" and, not compiled in, "killall", without an effect.     *)
ClientEnds(t) ==
    /\ Runs(t, "client")
    /\ pc[t] = "idle"
    /\ Move(t, "out", "done") \/ Move(t, "lastOff", "done")
    /\ UNCHANGED <<vars, program, count, g_quit, binding>>

ClientKeyPressed(t) ==
    /\ pc[t] = "idle"
    /\ Move(t, "keyOn", "done")
    /\ UNCHANGED <<vars, program, count, g_quit, binding>>

(* getServ found no service, and its null is called through.               *)
getServFails(p) ==
    /\ \E t \in ThreadsOf(p) : Runs(t, "client") /\ stage[t] = "out"
    /\ ClientDies(p)
    /\ UNCHANGED appVars

(* The end of main, in getCplcTest once its threads have been joined.      *)
ProcessEnds(p) ==
    /\ \A t \in ThreadsOf(p) : stage[t] = "done"
    /\ ClientDies(p)
    /\ UNCHANGED appVars

-----------------------------------------------------------------------------
Goes(t) ==
    \/ Job(t)
    \/ pthread_create(t) \/ getCplcThreadEnds(t)
    \/ ClientPowerOn(t) \/ ClientPowerOff(t) \/ ClientEnds(t)

User ==
    \/ \E p \in Pids : ese_powerOff_handler(p)
    \/ \E t \in Threads : \/ onResume(t) \/ startBinding(t) \/ clearBindingInfo(t)
                          \/ ClientKeyPressed(t)

ServeBound == \E t \in Threads : Serve(t, {binding}) /\ UNCHANGED appVars
Obituary(t) == binderDied(t) /\ UNCHANGED appVars

AppNext ==
    \/ \E t \in Threads : Goes(t) \/ Obituary(t)
    \/ \E p \in Pids : pthread_createFails(p) \/ getServFails(p) \/ ProcessEnds(p)
    \/ User
    \/ fptest \/ BindingChanges
    \/ ServeBound
    \/ GetState /\ UNCHANGED appVars

allVars == <<vars, appVars>>

(* What can go on does, in one thread or another: nothing is said about    *)
(* which waiting call gets the mutex, which thread runs first and when an  *)
(* obituary comes.  The user need not do anything.                         *)
AppFairness ==
    /\ WF_allVars(ServeBound)
    /\ WF_allVars(\E t \in Threads : Obituary(t))
    /\ WF_allVars(\E t \in Threads : Goes(t))
    /\ WF_allVars(\E p \in Pids : ProcessEnds(p))

AppSpec == AppInit /\ [][AppNext]_allVars /\ AppFairness

-----------------------------------------------------------------------------
(* A process that ended while a thread of it was in a job or a call.       *)
EndedAmid(p) ==
    ~alive[p] /\ \E t \in ThreadsOf(p) : stage[t] \notin {"unborn", "out", "done"}

(* A process that came to its end with its threads finished is not in      *)
(* pidsMap, or its obituary is to come: the notifier that the first        *)
(* powerOff of a thread unlinks is not missed by programs that pair their  *)
(* calls and join their threads.                                           *)
GoneMeansForgotten ==
    \A p \in entries :
        alive[p] \/ EndedAmid(p) \/ \E t \in ThreadsOf(p) : DeathPending(t)

(* With no call being served, no obituary being handled and nobody         *)
(* registered, the element is off, unless a process was ended amid its     *)
(* threads' calls: several threads of getCplcTest that switch on and off   *)
(* at once leave no power behind between them.                             *)
IdlePowerOnlyAfterAmid == NoIdlePower \/ \E p \in Pids : EndedAmid(p)

(* "test quit, try to exit !": once getCplcTest was told to quit, nobody   *)
(* resumes the screen and no client waits for its key, the element goes    *)
(* off and stays off, unless a process was ended amid its threads' calls.  *)
Quiet ==
    /\ \A t \in Threads : Runs(t, "getCplcTest") => PidOf[t] \in g_quit
    /\ \A t \in Threads : Runs(t, "MainActivity") => OnScreen(t)
    /\ \A t \in Threads : Runs(t, "client") => stage[t] \in {"out", "done"}
QuitPowersDown ==
    (<>[]Quiet /\ [](\A p \in Pids : ~EndedAmid(p))) => <>[]~spi

(* "eSE binding error, poweron is forbidden": when the binding is and      *)
(* stays in error, the element is switched on no more, in spite of calls   *)
(* that were allowed on an earlier report and of the first one, which no   *)
(* report is asked for.                                                    *)
BadBindingEndsPowerUps ==
    <>[](binding \notin {"right", "none"}) => (<>[]spi \/ <>[]~spi)
=============================================================================
