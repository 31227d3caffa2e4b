# TLA+ specification of the eSE manager

The repository shares one embedded secure element (eSE) between the processes
of a phone. A process powers the element on through one daemon, exchanges APDUs
with it through the TEE by way of another, and powers it off. This directory
models that core in TLA+, checks it with TLC on small instances, and proves the
main results with TLAPS for every number of clients.

## 1. The system

| Component | State it keeps | Operations | What makes it correct |
|---|---|---|---|
| **Power manager daemon** `esepmdaemon/eSEPowerManager.cpp`, `BneSEPowerManager.cpp`, `eSEPowerManagerServer.cpp` | `pidsMap` (per process: session count, callback, death notifier), `nq_node` (descriptor of the NFC node), static `isFirstCalled` | `powerOn`, `powerOff`, `getState`, `killall` (debug builds), `geteSEBindingStatus`; `ClientDiedNotifier::binderDied` | the element is powered while anyone holds a session, and not kept powered for nobody; counts match sessions; nothing switches the power during a firmware download |
| **Client wrappers** `eSEPowerManager_wrapper.cpp`, `eseManager_wrapper.cpp` | one global proxy, one static death observer | connect on first use (5 tries, 10 ms apart), call, clear on death | a proxy to a dead daemon does not stay; no call through a null proxy while the daemon is there |
| **eseManagerService daemon** `eseManagerService.cpp`, `IeseManagerService.cpp` | `myParam` (a test counter) | `getEseCplc`, `sendCommand`, `sendCommandEx`, `setSomething`, `getSomething` | success means an answer of the element |
| **TEE client library** `libese_spi_client.cpp` | locals of a call; contexts, sessions and blocks inside the TEE | `ca_getEseCplc`, `ca_sendEseCommand`, `teeclientdemo` | all that was obtained is given back, in order, from every failure |
| **JNI and Java API** `eseManager_jni.cpp`, `esemanagerAPI.java`; test `getCplcTest.cpp` (many threads) | locals | `native_eseGetCplc`, `native_eseValidateChipLegality`, ... | the element is powered throughout the exchange |
| **NFC driver** (not in the repository; `pn553.h`) | power bits, download bit | ioctls `P61_GET_SPM_STATUS`, `P61_SET_POWER_SCHEME`, `P61_SET_SPM_PWR` | - |
| **Programs**: `getCplcTest`, the eseManagerTest app, two command-line clients | where each thread is, `g_quit` | jobs (powerOn, exchange, powerOff), SIGINT, buttons that change the binding | when they are done, no entry of theirs is left and the element is off |
| **Test program** `80t-test-ap.cpp` with `teeclientdemo` | one `TEEC_Operation` for all options, the driver node | -c (toggle an applet), -t, -i | all is given back; what one option leaves does not fail the next |

**How they interact.** A client thread makes synchronous binder calls.
`BneSEPowerManager::onTransact` serves them one at a time under a static mutex,
from any thread of the binder pool. Obituaries of clients arrive in a further
binder thread, which runs `binderDied` *without* that mutex on the same
`pidsMap` and `nq_node`. eseManagerService serves its calls concurrently and
without a lock, and every call takes its own context, session and two blocks
from the TEE. The two daemons do not know of each other: only the client's
order of calls keeps the element powered during its exchange.

**What is hard.** The death handler between any two steps of a served call, even
between two accesses to the map, where `operator[]` makes a new entry of one that
was just erased;
several threads of a process sharing one entry and one notifier; failures of
open, ioctl and close in the middle of a call; a restart of the daemon that
loses the map while the driver keeps the power; exhaustion of the TEE halfway
through a call; unlocked globals in the wrappers; programs that end amid the
calls of their threads; a shared operation whose sizes one command leaves to the
next. `PROJECT.json` lists each as a hazard at its line.

## 2. Modules

| Module | Models |
|---|---|
| `PowerLease` | abstract: an element is powered before it is leased and while it is leased, and powered down when it is not |
| `EsePowerManager` | the power manager daemon with its clients, driver, deaths and restarts; implements `PowerLease` |
| `ApduExchange` | abstract: an exchange that was asked for ends with an answer or without one |
| `EseSpiClient` | an APDU exchange: service, library and TEE, any number at once; implements `ApduExchange` |
| `EseGetCplc` | the two composed as the JNI does: powerOn, exchange, powerOff |
| `EseApplications` | the programs that use the power manager, composed with it and with the binding of the element |
| `EseServiceProxy` | how the threads of a client connect to a daemon and lose it |
| `EseTeeDemo` | the test program that works with the TEE and the driver directly |
| `MC...` | instances for TLC |
| `EsePowerManagerProofs`, `EsePowerDeathProofs`, `EseSpiClientProofs`, `EseGetCplcProofs`, `EseApplicationsProofs`, `EseServiceProxyProofs`, `EseTeeDemoProofs` | theorems and proofs |

Variants such as `PowerOnLinkNoUndo` or `OpenSessionLeaks`, marked "Mutant",
stand directly before the definition they vary. They are no part of the
specification; each is a plausible mistake that the property it is paired with
in `PROJECT.json` catches.

### EsePowerManager

`entries` has the processes with an entry in the map, and `pidsMap[p]` is
`client_threadCount`, with 0 for a process without an entry. `nq_node` is
*closed* (negative), *open*, or *stale*: a failed close keeps the number though
the kernel has taken the descriptor back, so later ioctls fail. `watch[t]` is the
notifier that thread `t`'s latest `powerOn` linked, and then the point its
`binderDied` has reached. `session[t]` is what the client believes: *granted*
from the answer 1 to the serving of its `powerOff`, *orphaned* when the daemon
that granted it has gone.

A call is cut into steps where another thread can come between: at each driver
call, and at each access to `pidsMap` that could find the entry erased since the
access before. The handler takes no mutex, so this may happen to a process that
dies within its own `powerOn` or `powerOff`. `operator[]` then makes a new entry
with a count of 0 and no notifier (`Access`, `Count`): `powerOff` counts it to -1
and erases it again, while an access for a log line (208, 241) leaves it behind,
with a count of 0, for ever. The model has all of these; `OnlyDeadMiscounted` says
that none of them befalls a running process.

| Code | Actions |
|---|---|
| `onTransact` | `Call` (client), `Enter`/`Continue`/`Reply` (the mutex) |
| `powerOn` | `PowerOnForbidden`, `PowerOnBadUid`, `PowerOnQuery`, `PowerOnSetPower`, `PowerOnLink`, `PowerOnUndo`, `PowerOnInsert` (202-204), `PowerOnUpdate` (207), `PowerOnRecount` (208) |
| `powerOff` | `PowerOffRefused`, `PowerOffEnter` (232), `PowerOffUnlink` (236-237), `PowerOffCount` (239), `PowerOffTest` (240), `PowerOffKeep` (241), `PowerOffErase` (244), `PowerOffCheck`, `PowerOffPower` |
| `getState`, `killall` | `GetState`, `Killall`, `KillallPower` |
| `binderDied` | `binderDiedEnter`, `binderDiedErase` (358), `binderDiedCheck` (360), `binderDiedNode` (364), `binderDiedPower` (370) |
| environment | `ClientDies`, `DaemonDies`, `Download` |

Details that matter and are kept: `powerOff` unlinks the notifier on the *first*
`powerOff` of a process, whatever its count; a second `powerOn` links a notifier
that dies with the local variable (`watch` goes back to *none*), because the
obituary refers to it weakly; a failed status query reads as "download in
progress" in `powerOff`; a refused `powerOn` opens the node for its log line.

Abstractions: `P61_STATE_SPI` and `P61_STATE_SPI_PRIO` are one bit. A successful
`P61_SET_SPM_PWR 0` and the close after it are one step; so are
`P61_SET_POWER_SCHEME` and `P61_SET_SPM_PWR 1`; and so are the accesses of lines
236 and 237, between which an erased entry makes `powerOff` call through a null
pointer. This crash, and the unlocked access of the handler to the `std::map`, a
data race that is taken to have no effect or to end the daemon, are in
`DaemonDies`, hence in `power_restart`. `Serve(t, reports)` takes the reports the
binding check may get: any of `BindingReports` here, the current one in
`EseApplications`. A client pairs its calls; only a single-threaded process sends
a `powerOff` without a session (the command-line client). `linkToDeath` fails
only when the process is dead. A process id is not used again.

### EseSpiClient

One binder thread is one call. `at[c]` is the label in `ca_getEseCplc` it has
reached; each TEE function and each cleanup label is a step. The TEE is known
from `tee_client_api.h`: what a function obtains, and that each may fail, for
want of room (`MaxContexts`, `MaxSessions`, `MaxBlocks`) or, with `TeeFaults`,
anyway. The contents of a reply are reduced to its length and to whether bytes 3
and 4 name the chip. The TEE never writes past the output block, but that is as
long as the caller's buffer, and `ca_sendEseCommand` copies the answer *behind* the
four bytes of `rsp_len`: a full answer runs past the parcel of the reply
(`Overruns`). What then happens is undefined: either the bytes behind the parcel
are harmless and merely not sent, so that the client's answer is *cut*, or the
service dies of it (`ServiceCrashes`), every call in it ends with `DEAD_OBJECT`, and
the kernel closes its sessions in the TEE. A
`TEEC_Result` is written as the `int32_t` of the same bits, which makes
`0 - result` and the sign test after it exact. `ca_sendEseCommand` has the same
labels and the same steps; the two differ in who may ask, in that header and in
the length reported when nothing was read (`Zeroed`). For `ApduExchange` a call is
asked from its first step to its reply, and answered when the reply has the whole
answer; a crash of the service is `Lose`.

### EseGetCplc

`PowerStep` is any step of `EsePowerManager` in which no thread in the middle of
an exchange starts a power call; `getEseCplc` starts an exchange after `powerOn`;
`Exchange` is a step of `EseSpiClient`, with the element reachable exactly when
`spi`. A client whose `powerOn` was refused returns early and never gets there.

### EseApplications

Each process runs one program; `stage[t]` is where a thread is in it. A job is
`native_eseGetCplc`, `native_eseValidateChipLegality` or `getCplC` of the test:
powerOn, an exchange if it was granted, powerOff whatever the exchange
brought. The exchange itself is the time the session is held (`EseGetCplc` has
its steps). `getCplcTest` creates threads one by one, each works through its
count or until `g_quit`, and `main` ends when all have been joined, or at once
when `pthread_create` fails, which takes the running threads with it. The screen
does two jobs in `onResume` and changes the binding by its buttons; the
command-line client does what its argument says. So processes end where their
programs end, and `ClientDies` of `EsePowerManager` is used for nothing else.
`EndedAmid(p)` says that a process ended, by a failed `pthread_create` or a missing
service, while a thread of it was in a job or a call.

`binding` is the fingerprint CA's answer to `isPowerOnAllowed`. It changes by
`sendCommandEx` (the app's buttons, `fptest`), which may fail, and by itself
(`BindingChanges`: another element, errors of the CA). The CA is not in the
repository.

### EseServiceProxy

A daemon is a sequence of incarnations, and a proxy is the number of one. Every
read and every write of the global is a step, and so is the observer's clearing.
`links` is what the *current* static observer was linked to: replacing the
observer frees the old one. `outage` records that the daemon was missed: it died,
or a search ended without it. An obituary needs a binder thread in the client. An
application has a pool of them; `getCplcTest` and the command-line clients start
none, and with `ThreadPool = FALSE` their observer is never called. A thread that
goes through a null proxy takes the process down (`crashed`). Writes of the
`sp<>` global are taken as atomic. Freeing the proxy during another thread's
transaction is not modelled.

### EseTeeDemo

A sequential program, cut at each ioctl, each TEE function and each command.
`held` is what it has of the driver and the TEE. `outSize` is
`params[1].memref.size`, which the TEE overwrites with the length of the answer
and which `OPEN_LOGICAL_CHANNEL` and the self-test do not set again. Of the bytes
of an answer one matters, `resp[6]`, which `SET STATUS` goes by; `resp6` says
whether it is zero, and a short answer leaves it as it was. A failed allocation
is not looked at and ends the program (`crashed`). The element is known by
whether the applet is active and how many channels are open; it may refuse what
it is told. Answers have up to the 256 bytes of the block and are copied to
`resp[100]` on the stack: after a longer one (`overrun`) the program may end by a
signal until the function has returned (`StackSmashed`), or come to no harm. The
`P544_SET_POWER_SCHEME` and `P61_GET_PWR_STATUS` calls of `main` have no effect on
this state and are left out.

## 3. Runs

| Run | Setting | Shows |
|---|---|---|
| `power_deaths` | 3 threads in 2 processes; clients die anywhere, driver failures, downloads, missing callbacks | `CountMatchesSessions`, `NodeOpenWhileRegistered`, `AssumedOff`, `OnlyDeathHandlerCutsPower` |
| `power_abandoned` | 4 single-threaded processes that die between calls, one not permitted, missing callbacks, binding refusals | `NoIdlePower`, `RegisteredMeansInUse`; `LeaseLiveness`, `AbandonedPowersDown` |
| `power_restart` | 3 threads in 2 processes; the daemon restarts anywhere, `killall`, deaths anywhere, failures | `OnlyDeadMiscounted`, `NoPhantomCount`, `NodeOpenWhileRegistered`, `AssumedOff` |
| `spi_cleanup` | 2 calls, one session, three blocks, faults, full answers that overrun the reply of `sendCommand` | `NothingLeaked`, `FinalizeAfterRelease`, `LegalMeansAnswered`, and that every exchange ends as `ApduExchange` says (`ExchangeImplemented`) |
| `system_exchange` | both daemons, 4 threads in 3 processes (one not permitted), every driver call may fail, downloads, missing callbacks, all four binding reports | `InUsePowered`, `CountMatchesSessions`, `ExchangePowered`, `GrantedMeansAnswered`, and that every behaviour is one of the lease (`LeaseSafety`) |
| `applications` | `getCplcTest` with two threads beside the screen or the command-line client, the binding changing | `GoneMeansForgotten`, `IdlePowerOnlyAfterAmid`; `QuitPowersDown`, `BadBindingEndsPowerUps` |
| `proxy_observed` | 2 threads of an application, 3 incarnations, late obituaries | `ProxyObserved`, `NullOnlyAfterOutage`; `Reconnects` |
| `tee_demo` | up to 3 options, every failure, answers of 0, 2, 9 and 120 bytes | `GivenBack`, `Toggled`, `ShortBufferOnlyAtStart`; `Ends` |
| `find_death_cuts_power`, `find_dead_stays_registered`, `find_death_during_download`, `find_tee_error_lost` | see section 4 | a counterexample each |

**Bounds.** Two processes, one of them with two threads, is the least that has a
process keeping its entry after one `powerOff` (`getCplcTest` runs three threads),
another process in use, and a handler racing with either; a third adds one that is
not permitted. Four single-threaded processes let two clients be at work while
another dies and a fourth is refused. The state of these models is finite by
itself: a count is at most the number of threads. Symmetry is not used. In
`spi_cleanup` a second call finds no session or no second block. In
`system_exchange` the TEE has exactly the contexts, sessions and blocks that the
three permitted threads need at once, so `GrantedMeansAnswered` would fail if one
leaked. In `applications`, `Rounds = 2` stands for a million: a second round
starts with whatever the first left; and the process of two threads may also end
with one of them in a call. `MaxIncarnations = 3` lets a proxy survive
the death of the daemon it leads to and of the next. `MaxTries = 5` is the code's.
In `spi_cleanup` the answers are a bare status word, the 47 bytes of the CPLC data
and the 100 bytes of the buffer, which leave no room for `rsp_len`.
In `tee_demo` the answers are empty, a bare status word (too short for `resp[6]`),
a full one and one longer than `resp`, so that each size is left to each option;
`MaxOptions = 3` has an option between two toggles. `MaxChannels = 2` lets an
option find the channels used up by two that broke off.

**Deadlock** is checked except where the modelled system may stop: when all
clients have died or their programs have ended, when the client process of a
wrapper has crashed, and at the end of the test program.

**Fairness.** In the power manager (`FairSpec`): weak fairness of *some* served
call going on or entering the free mutex, and of each pending obituary. The
binder pool's threads are scheduled by the kernel and `std::mutex` makes progress
but promises no order, so no particular waiting call is assumed to be served.
Clients owe nothing: none has to call `powerOff`. `LeaseLiveness` needs none of
it from them, since it asks only that an element which *stays* without leases is
powered down. In `EseApplications` the programs run in addition (some thread that
can go on does; a program whose threads are done ends), but only *some*
pending obituary need be delivered, and the user owes nothing: nobody presses the
key, resumes the screen or sends the signal, so `QuitPowersDown` has these as its
premise. In `EseSpiClient` each call under way
goes on: the calls are threads of their own without a lock, and TEE functions
return. In `EseServiceProxy` each thread within a call goes on, and each obituary
is handled if the process has a pool of binder threads, as the run's application
has; no thread has to start a call, which `Reconnects` states as a premise. The test
program is sequential and goes on (`WF` of its next step).

## 4. Disagreements with the code's own words

1. `find_death_cuts_power`: the handler sees an empty map ("eSE is in use, don't
   power off" does not apply), another `powerOn` finds the element on and is
   granted, the handler switches it off. The client holds a session on a dead
   element.
2. `find_dead_stays_registered`: a process with two sessions returns one and
   dies. Its notifier was unlinked by the first `powerOff`, its entry stays for
   ever and the element is never powered off again while the
   daemon lives. `RegisteredMeansInUse` holds, and is proved, for single-threaded
   clients that die between calls (`SingleThreadedForgotten`), and in the form of
   `GoneMeansForgotten` for the programs of the repository, as long as none ends
   amid its threads' calls.
3. `find_death_during_download`: `powerOn`, `powerOff` and `killall` refuse to
   touch the power during a download; the handler does not look.
4. `find_tee_error_lost`: a failed `TEEC_AllocateSharedMemory` returns a code
   from 0xFFFF0000 up; its negation is positive, and the client gets `NO_ERROR`
   with a buffer of zeros. `LegalMeansAnswered` shows that the legality check is
   not taken in by it, and `SmallErrorsReported` proves that nothing else is needed
   for it than a code from 0x80000000 up.

More facts are in the models without being disagreements, because no line of
the code promises otherwise. Once a daemon has been missed, a call may go through
the null proxy between check and use; `NullOnlyAfterOutage` says that nothing less
leads there. With `DeathDuringCalls = TRUE`, a daemon that dies between
`getService` and `linkToDeath` leaves a proxy nobody clears, since the result of
`linkToDeath` is not looked at; `ProxyObserved` and `Reconnects` are asked for
deaths between calls. With `ThreadPool = FALSE`, as in `getCplcTest`, no obituary is
ever handled: after a restart of the daemon the process calls a dead proxy for as
long as it runs, and `Reconnects` fails. An erased entry that a log line brings
back, with a count of 0, keeps the map from being empty and so the element powered
until the daemon ends; only the death of a process amid its own call leads there.
The overruns of the reply of `sendCommand` and of `resp` in the test program are in
the models with their outcomes; no property is asked of a program that crashed.

## 5. Proofs

All theorems hold for any finite set of threads and any processes.

**Power manager** (`EsePowerManagerProofs`, `EsePowerDeathProofs`).

| Theorem | Under |
|---|---|
| `OnlyDeadCountedWrong`, `NodeStaysOpen`, `AssumptionRight`, `NoPhantoms` | no restriction: deaths, restarts, failures, downloads, `killall` |
| `CountsExact`, `OnlyHandlerCuts` | the daemon does not die and `killall` is not compiled in |
| `SessionsPowered`, `LeaseImplemented` | in addition, no client dies |
| `SingleThreadedForgotten` | single-threaded clients that die between calls; restarts, failures, downloads, `killall` |
| `NobodyPowersNothing` | clients die between calls only, no driver failures, no downloads, no `killall`, the daemon does not die |

None of the properties is inductive. `DaemonInv` adds that the holder of the
mutex is the one thread at a serving point (`MutexInv`); that the node is not
closed between its opening and the registration, and that a call about to switch
off found nobody registered (`NodeInv`); and that a closed node means power off
wherever a handler or an emptying `powerOff` may still come to assume it
(`AssumedOffInv`).
`OnlyDeadCountedWrong` rests on `MapInv`: a handler that is about to erase is one of
a dead process, and a running process that is past the test for its entry still
has it. So only a dead one's entry can go between two accesses, and what
`operator[]` counts to -1 is erased by the same `powerOff`.
`CountInv` adds `SessionInv`, what a thread's point says about its session:
without it a step could count a session twice. `PowerInv` says that at
every point after the power was found on or switched on, it is on, and that the
points that switch it off are reached only when nobody is registered; with
`CountMatchesSessions` a thread with a session makes its process registered, which
is the step from the counts to the power. The restriction on client deaths is
needed: finding 1 is the counterexample. `LeaseImplemented` maps each step to one
of the lease or a stutter.

`NoPhantoms` rests on `PhantomInv`: a thread at a point from which its count is
yet to grow has no session, and only permitted processes have entries, so that a
`powerOff` always takes with its session the count that goes with it.

`SingleThreadedForgotten` rests on `LinkedInv`: a live single-threaded process
that is about to be inserted, or has a session, has its notifier linked, since by
`PhantomInv` it had no entry before and so the notifier it links is the one kept.
`ForgottenInv` carries this over the death: an entry of a dead process has a
notifier whose obituary is to come. Its two restrictions are needed. With two
threads, finding 2 is the counterexample. A death *within* powerOn, between
`linkToDeath` and the insertion, lets the handler erase an entry that is not there
yet, and the insertion comes after it.

`NobodyPowersNothing` rests on `IdleInv`, which says who
will look again: an element that is on without anyone registered has a served
call at a point from which it must come to a power-off or a registration, or a
handler that has erased and not yet looked. The restrictions of `NobodyPowersNothing`
are needed: a refused or failed power-off is not retried, and a call whose client
has just died cannot link its notifier and leaves the power on.

**Programs** (`EseApplicationsProofs`).

| Theorem | Under |
|---|---|
| `ProgramsAreClients`, `BadBindingStopsPowerUps` | no restriction |
| `GoneAreForgotten` | the daemon does not die and `killall` is not compiled in |
| `IdleIsOff` | in addition, no driver failures and no downloads |

`ProgramsAreClients`: `AppSpec` implements `EsePowerManager`'s `Spec`, step by
step, so that every theorem above holds of the programs. `BindingAssumption`, which
says that `sendCommandEx` brings the binding to a status that the module knows,
is what makes the served reports legal ones. `StageInv` tells from where a thread is in
its program what it can have of the daemon: one that is not yet created, between
jobs or done has no session and no call, except a command-line client that ended
on a key. Hence a process whose threads are done gave back every session of
`getCplcTest` and the screen, and by the exact counts it has no entry, whichever
notifiers its threads' calls unlinked; and a client that ended on a key is
single-threaded, so by `LinkedInv` its notifier is linked. After that, only a
handler touches what a dead process left (`OnlyTheLivingMove`, `DeadEntryErased`).
`IdleIsOff` rests on `AmidInv`: as long as no process ended amid its calls every death
came between calls, whatever `ClientDeath` allows, and the step of `IdleInv` is
that of `NobodyPowersNothing`.

`BadBindingStopsPowerUps` is a temporal property, of the form `<>[]bad => ...`, and
needs no fairness: while the binding is in error, no call gets to `setPower`
except the one that was allowed earlier and is being served (`MutexInv`), and
no call has the privilege of the first one after it (`FirstInv`); once it has passed,
the power can only go off.

**TEE exchange** (`EseSpiClientProofs`): `ReturnedHoldsNothing`,
`FinalizedIsEmpty` and `LegalChipAnswered`, without restriction, from an
invariant that says for each label what the call may still hold (`HoldInv`) and
that a reply has contents only after a success (`AnswerInv`).
`ExchangesImplemented`: each step is one of `ApduExchange` or a stutter, for any
number of calls at once, a crash of the service included. `OnlyLargeCodesLost`
and `SmallErrorsReported` delimit finding 4: a failure reported as `NO_ERROR` has
a code that is negative as an `int32_t`, and where there are no such codes
`NO_ERROR` means an answer (`ReportInv`).

**Composition** (`EseGetCplcProofs`): a step of the system is a step of the power
manager or leaves it alone, so its theorems carry over (`SystemRefinesSpec`); a
live thread in an exchange has a session and is in no power call
(`InsideSession`), hence `ExchangesPowered` where nobody dies, and
`OnlyHandlerCutsExchanges` where processes may die: what is left then to take the
power from an exchange of a running client is the death handler of another.
`GrantedAnswered` adds what each label holds and that no result
but success has been seen (`AnsweredInv`). It needs a TEE without faults that has a
context, a session and two blocks for each permitted thread (`RoomForAll`): a
caller that holds none of a resource then leaves some of it, by counting.

The other half of the system keeps its promises through all deaths and failures.
`TeeP` instantiates the proofs of `EseSpiClient` for the system, where the element
answers exactly when it is powered; each step of the system is one of its calls,
for some state of the element, or leaves them alone (`TeeConstants` has what its
proofs assume of the constants). `SystemLeaksNothing`,
`SystemFinalizesEmpty`, `SystemLegalAnswered` and `SystemExchanges` are its
theorems for `SystemSpec`: although the power manager withdraws the power from the
exchange of a client that died, or from one that was cut by the handler, the
service gives back what it has of the TEE, and the client has an answer of the
element or none.

**Wrappers** (`EseServiceProxyProofs`). `ProxyTyping`; `NoNullAtFirst` holds without
assumption, for any number of threads and incarnations: until the daemon is missed
the global is cleared by nobody, so a thread past its search finds it set (`NullInv`).
`NoProxyUnobserved` assumes deaths between calls: all threads that connect at once
then connect to the same daemon, and where the observer that replaced another's
is not yet linked to it, a thread is about to link it (`ObserverInv`).

**Test program** (`EseTeeDemoProofs`), for any number of options, channels and
answer lengths within the block, overruns of `resp` included: `DemoTyping` (a
channel is open wherever one is closed), `AllGivenBack` (what is held is a
function of the point reached, `HeldAt`), `ToggledOnce` (`ToggleInv` carries what
-c found through its five commands) and `ShortBufferSeldom`.

Every invariant and action property that a passing run checks is stated by a
theorem. **Model-checked only** is what needs fairness, which is outside the
prover's reach: `LeaseLiveness`, `AbandonedPowersDown`, `QuitPowersDown`,
`Reconnects`, `Ends` and the liveness part of `ExchangeImplemented`.

## 6. Not modelled, and why

- Parcels of the power manager: marshalling only. An unknown transaction code is
  answered `NO_ERROR`, so that `killall` reports 0 in a build without it; listed
  as a hazard.
- `setSomething` and `getSomething` of eseManagerService: a counter that no
  program of the repository uses. Its unlocked increment is listed as a hazard.
- The NCI and SPI helpers in `80t-test-ap.cpp`, from `send_nci_data` to
  `cplc_test_80t_basiCh0`: `main` calls none of them any more. `teeclientdemo.c`
  and `getCplc.cpp`: earlier versions of modelled code that no `Android.mk` names.
- `80t-test-ap` beside the daemon: it switches the power through its own
  descriptor and nothing protects a session of the daemon from it.
  `EsePowerManager` takes the daemon for the only one that switches the power.
- An exchange whose client dies: its power is withdrawn by the death handler while
  the TEE is at work. No run has it; what remains true then is proved for every
  instance (`OnlyHandlerCutsExchanges` and the theorems after it in section 5).
- Formatting: `print_packet`, `hexchar_to_byte`, the screen of the app, the parsing
  of arguments.
- The driver, the fingerprint CA and the trusted application: not in the
  repository.

## 7. What could come next

1. The wrapper composed with the power manager across restarts of the daemon, in
   place of the client's assumption that it reaches one.
2. The parcels, with a daemon and a client of different builds.
3. What the programs keep of `NobodyPowersNothing` and `GoneAreForgotten` when the
   daemon restarts, or when the driver fails.
