---------------------------------- MODULE BtHal ----------------------------------
(***************************************************************************)
(* The Bluetooth HAL service: the HIDL entry points (bluetooth_hci.cc),    *)
(* the state machine that a looper thread runs (hci_hal_state_machine.cc), *)
(* the vendor interface it opens and closes (vendor_interface.cc), the     *)
(* thread that watches the UART (async_fd_watcher.cc) and the thread of    *)
(* the vendor driver that sends the firmware's init script                 *)
(* (driver/mt66xx/bluedroid).                                              *)
(*                                                                         *)
(* Five threads share the interface without a common lock: a HIDL thread   *)
(* in Send, the looper in Initialize or Shutdown, the watcher in a         *)
(* callback, the worker in the init script, and the Bluetooth process,     *)
(* which may die at any moment.                                            *)
(***************************************************************************)
EXTENDS Integers, Sequences

CONSTANTS
  MaxInit,       \* bound: calls of initialize()
  MaxSends,      \* bound: packets the stack sends
  NCmds,         \* number of commands of the firmware's init script
  NCfg,          \* number of commands in the configuration file sent after it
  OpenMayFail    \* the library or the UART may fail to open

ASSUME BtHalAssumption ==
  /\ MaxInit \in Nat /\ MaxSends \in Nat
  /\ NCmds \in Nat \ {0} /\ NCfg \in Nat
  /\ OpenMayFail \in BOOLEAN

VARIABLES
  alive,      \* FALSE once the process aborted (LOG_ALWAYS_FATAL or a bad pointer)
  client,     \* what the Bluetooth stack knows of its own session
  gen,        \* number of initialize() calls so far; names the sessions
  cb,         \* MtkStateController::cb_: the session that callbacks are sent to
  sends,      \* packets sent so far
  told,       \* history: the session that the last SUCCESS was about
  calm,       \* history: the last initialize() found no session opening or closing
  msgs,       \* messages queued for the looper: an On message is named by its session
  hal,        \* current_state_
  lp,         \* where the looper thread is
  target,     \* the session whose On message is handled, 0 for an Off message
  vi,         \* g_vendor_interface: the session it was opened for, 0 for nullptr
  complete,   \* initialize_complete_cb_ is set
  hci,        \* hci_ is set
  lib,        \* lib_interface_ is set, the library's statics exist
  snd,        \* where thread t is in VendorInterface::Send
  self,       \* the interface on which the HIDL thread called Send
  running,    \* AsyncFdWatcher::running_
  watcher,    \* where the watcher thread is
  pipe,       \* 1 while the notification pipe holds a byte, -1 once it is closed
  tmo,        \* timeout_ms_ is positive
  tcb,        \* timeout_cb_
  selTmo,     \* the select() under way has a timeout
  deasserted, \* lpm_wake_deasserted
  recent,     \* recent_activity_flag
  lpmMs,      \* lpm_timeout_ms is positive (0 until the driver was asked)
  wake,       \* the wake state the driver was last told
  icb,        \* internal_command.cb: the session whose worker set it, 0 for nullptr
  cbacks,     \* the driver's bt_vnd_cbacks is set
  worker,     \* where the firmware init thread is
  wrun,       \* btinit_ctrl.worker_thread_running
  left,       \* commands of the script still to be sent
  status,     \* cmd_status
  mtx,        \* btinit_ctrl.mutex is held across steps by the worker
  uart,       \* the UART is open
  due,        \* packets the chip has not answered yet
  rx          \* events in the UART

clientVars == <<client, gen, cb, sends, told, calm>>
looperVars == <<msgs, hal, lp, target>>
ifaceVars  == <<vi, complete, hci, lib>>
sendVars   == <<snd, self>>
timerVars  == <<pipe, tmo, tcb>>
watchVars  == <<running, watcher, selTmo>>
lpmVars    == <<deasserted, recent, lpmMs, wake>>
workVars   == <<cbacks, worker, wrun, left, status, mtx>>
chipVars   == <<uart, due, rx>>
vars == <<alive, clientVars, looperVars, ifaceVars, sendVars, timerVars,
          watchVars, lpmVars, icb, workVars, chipVars>>

Senders == {"hidl", "worker"}

Off == 0  \* kOffMsg

Init ==
  /\ alive = TRUE
  /\ client = "none" /\ gen = 0 /\ cb = 0 /\ sends = 0
  /\ told = 0 /\ calm = TRUE
  /\ msgs = <<>> /\ hal = "idle" /\ lp = "poll" /\ target = 0
  /\ vi = 0 /\ complete = FALSE /\ hci = FALSE /\ lib = FALSE
  /\ snd = [t \in Senders |-> "idle"] /\ self = 0
  /\ running = FALSE /\ watcher = "none" /\ selTmo = FALSE
  /\ pipe = -1 /\ tmo = FALSE /\ tcb = "null"
  /\ deasserted = FALSE /\ recent = FALSE /\ lpmMs = FALSE /\ wake = FALSE
  /\ icb = 0
  /\ cbacks = FALSE /\ worker = "none" /\ wrun = FALSE /\ left = 0
  /\ status = "success" /\ mtx = FALSE
  /\ uart = FALSE /\ due = <<>> /\ rx = <<>>

(***************************************************************************)
(* HIDL: initialize, close, send, serviceDied                              *)
(***************************************************************************)
Quiet == msgs = <<>> /\ lp = "poll" /\ worker \in {"none", "done"}

\* initialize(): the callbacks of the new stack replace the old ones at once,
\* the On message waits in the looper's queue, whatever the looper and the
\* worker of the last session are doing.
initialize ==
  /\ gen < MaxInit
  /\ snd["hidl"] = "idle"
  /\ gen' = gen + 1
  /\ cb' = gen + 1
  /\ client' = "waiting"
  /\ calm' = Quiet
  /\ msgs' = Append(msgs, gen + 1)
  /\ UNCHANGED <<alive, sends, told, hal, lp, target, ifaceVars, sendVars,
                 timerVars, watchVars, lpmVars, icb, workVars, chipVars>>

\* close(), also from a stack that closes twice or before it was answered.
close ==
  /\ client # "none"
  /\ snd["hidl"] = "idle"
  /\ Len(msgs) < 2
  /\ client' = "closed"
  /\ msgs' = Append(msgs, Off)
  /\ UNCHANGED <<alive, gen, cb, sends, told, calm, hal, lp, target, ifaceVars,
                 sendVars, timerVars, watchVars, lpmVars, icb, workVars, chipVars>>

\* The stack's process dies; close() has unlinked the death recipient.
serviceDied ==
  /\ client # "none"
  /\ client' = "none"
  /\ msgs' = IF client = "closed" THEN msgs ELSE Append(msgs, Off)
  /\ UNCHANGED <<alive, gen, cb, sends, told, calm, hal, lp, target, ifaceVars,
                 sendVars, timerVars, watchVars, lpmVars, icb, workVars, chipVars>>

\* sendDataToController(): VendorInterface::get()->Send(...).
sendDataToController ==
  /\ client = "ready"
  /\ sends < MaxSends
  /\ snd["hidl"] = "idle"
  /\ sends' = sends + 1
  /\ IF vi = 0 THEN alive' = FALSE /\ UNCHANGED sendVars
               ELSE /\ snd' = [snd EXCEPT !["hidl"] = "test"]
                    /\ self' = vi
                    /\ UNCHANGED alive
  /\ UNCHANGED <<client, gen, cb, told, calm, looperVars, ifaceVars, timerVars,
                 watchVars, lpmVars, icb, workVars, chipVars>>

(***************************************************************************)
(* VendorInterface::Send, by a HIDL thread or by the worker                *)
(***************************************************************************)
\* ConfigureTimeout(): the timer, its callback, and a byte that ends select().
ConfigureTimeout(positive, callback) ==
  /\ tmo' = positive
  /\ tcb' = callback
  /\ pipe' = IF pipe < 0 THEN pipe ELSE 1

\* The HIDL thread runs in an interface that Shutdown deleted.
Gone(t) == t = "hidl" /\ self # vi

SendReturns(t) ==
  /\ snd' = [snd EXCEPT ![t] = "idle"]
  /\ self' = IF t = "hidl" THEN 0 ELSE self

SendTest(t) ==
  /\ snd[t] = "test" /\ ~Gone(t)
  /\ recent' = TRUE
  /\ snd' = [snd EXCEPT ![t] = IF deasserted THEN "arm" ELSE "look"]
  /\ UNCHANGED <<alive, clientVars, looperVars, ifaceVars, self, timerVars,
                 watchVars, deasserted, lpmMs, wake, icb, workVars, chipVars>>

SendArm(t) ==
  /\ snd[t] = "arm" /\ ~Gone(t)
  /\ ConfigureTimeout(lpmMs, "OnTimeout")
  /\ snd' = [snd EXCEPT ![t] = "assert"]
  /\ UNCHANGED <<alive, clientVars, looperVars, ifaceVars, self, watchVars,
                 lpmVars, icb, workVars, chipVars>>

SendAssert(t) ==
  /\ snd[t] = "assert" /\ ~Gone(t)
  /\ deasserted' = FALSE
  /\ wake' = TRUE
  /\ snd' = [snd EXCEPT ![t] = "look"]
  /\ UNCHANGED <<alive, clientVars, looperVars, ifaceVars, self, timerVars,
                 watchVars, recent, lpmMs, icb, workVars, chipVars>>

\* return hci_ ? hci_->Send(...) : 0
SendLook(t) ==
  /\ snd[t] = "look" /\ ~Gone(t)
  /\ IF hci THEN snd' = [snd EXCEPT ![t] = "write"] /\ UNCHANGED self
            ELSE SendReturns(t)
  /\ UNCHANGED <<alive, clientVars, looperVars, ifaceVars, timerVars,
                 watchVars, lpmVars, icb, workVars, chipVars>>

SendWrite(t) ==
  /\ snd[t] = "write" /\ ~Gone(t) /\ hci
  /\ due' = Append(due, t)
  /\ SendReturns(t)
  /\ UNCHANGED <<alive, clientVars, looperVars, ifaceVars, timerVars,
                 watchVars, lpmVars, icb, workVars, uart, rx>>

\* hci_, or the interface itself, is deleted under the sender: the call may
\* crash the process or may go nowhere.
SendFreed(t) ==
  /\ \/ snd[t] = "write" /\ ~hci
     \/ snd[t] # "idle" /\ Gone(t)
  /\ alive' \in BOOLEAN
  /\ SendReturns(t)
  /\ UNCHANGED <<clientVars, looperVars, ifaceVars, timerVars, watchVars,
                 lpmVars, icb, workVars, chipVars>>

Send(t) == SendTest(t) \/ SendArm(t) \/ SendAssert(t) \/ SendLook(t)
           \/ SendWrite(t) \/ SendFreed(t)

(***************************************************************************)
(* The looper: handleMessage, Initialize and Shutdown                      *)
(***************************************************************************)
\* An On message in state On is Off then On; an Off message counts only in
\* state On.  Shutdown() aborts when there is no interface.
handleMessage ==
  /\ lp = "poll" /\ msgs # <<>>
  /\ msgs' = Tail(msgs)
  /\ target' = Head(msgs)
  /\ \/ hal # "on" /\ Head(msgs) # Off /\ lp' = "open" /\ UNCHANGED alive
     \/ hal # "on" /\ Head(msgs) = Off /\ UNCHANGED <<lp, alive>>
     \/ hal = "on" /\ lp' = "stop" /\ alive' = (vi # 0)
  /\ UNCHANGED <<clientVars, hal, ifaceVars, sendVars, timerVars, watchVars,
                 lpmVars, icb, workVars, chipVars>>

\* initializationComplete(status), received by the stack that is now registered.
Answer(ok) ==
  client' = IF client # "waiting" THEN client ELSE IF ok THEN "ready" ELSE "refused"

\* Mutant: Initialize() deletes the interface that could not be opened, and
\* the state is On all the same.
OpenFailsDeletes ==
  /\ lp = "open" /\ OpenMayFail
  /\ Answer(FALSE)
  /\ hal' = "on" /\ lp' = "poll"
  /\ UNCHANGED <<alive, gen, cb, sends, told, calm, msgs, target, ifaceVars, sendVars, timerVars,
                 watchVars, lpmVars, icb, workVars, chipVars>>

\* Initialize() refuses when there was no Shutdown, and Open() fails when the
\* library (lib' = FALSE) or the UART cannot be opened: the state is On all
\* the same and the interface stays.
OpenFails ==
  /\ lp = "open"
  /\ \/ vi # 0 /\ UNCHANGED <<vi, complete, lib, cbacks>>
     \/ /\ vi = 0 /\ OpenMayFail
        /\ vi' = target /\ complete' = TRUE
        /\ lib' \in BOOLEAN /\ cbacks' = lib'
  /\ Answer(FALSE)
  /\ hal' = "on" /\ lp' = "poll"
  /\ UNCHANGED <<alive, gen, cb, sends, told, calm, msgs, target, hci, sendVars, timerVars,
                 watchVars, lpmVars, icb, worker, wrun, left, status, mtx, chipVars>>

\* Open() up to the firmware configuration: a new interface, the library,
\* the UART, the protocol and the watcher thread.
Open ==
  /\ lp = "open" /\ vi = 0
  /\ vi' = target /\ complete' = TRUE /\ hci' = TRUE /\ lib' = TRUE
  /\ cbacks' = TRUE
  /\ uart' = TRUE
  /\ running' = TRUE /\ watcher' = "loop"
  /\ pipe' = 0
  /\ deasserted' = TRUE
  /\ wake' = FALSE
  /\ lp' = "fwcfg"
  /\ UNCHANGED <<alive, clientVars, msgs, hal, target, sendVars, tmo, tcb, selTmo,
                 recent, lpmMs, icb, worker, wrun, left, status, mtx, due, rx>>

\* op(BT_VND_OP_FW_CFG) may give up before it creates the worker (chip id
\* not found or not known, no thread); Open() ignores its result.
FwCfgFails ==
  /\ lp = "fwcfg"
  /\ lp' = "poll" /\ hal' = "on"
  /\ UNCHANGED <<alive, clientVars, msgs, target, ifaceVars, sendVars, timerVars,
                 watchVars, lpmVars, icb, workVars, chipVars>>

\* BT_InitDevice() creates the worker first and then notes that it runs.
FwCfg ==
  /\ lp = "fwcfg"
  /\ worker' = "cmd" /\ left' = NCmds + NCfg
  /\ lp' = "fwrun"
  /\ UNCHANGED <<alive, clientVars, msgs, hal, target, ifaceVars, sendVars,
                 timerVars, watchVars, lpmVars, icb, cbacks, wrun, status, mtx,
                 chipVars>>

FwRun ==
  /\ lp = "fwrun"
  /\ wrun' = TRUE
  /\ lp' = "poll" /\ hal' = "on"
  /\ UNCHANGED <<alive, clientVars, msgs, target, ifaceVars, sendVars, timerVars,
                 watchVars, lpmVars, icb, cbacks, worker, left, status, mtx, chipVars>>

\* Mutant: stopThread() does not wake the thread.
StopWatchingSilently ==
  /\ lp = "stop"
  /\ running' = FALSE
  /\ lp' = IF running THEN "join" ELSE "drop"
  /\ UNCHANGED <<alive, clientVars, msgs, hal, target, ifaceVars, sendVars, timerVars,
                 watcher, selTmo, lpmVars, icb, workVars, chipVars>>

\* Close(): ask the watcher to stop, ...
StopWatching ==
  /\ lp = "stop"
  /\ running' = FALSE
  /\ pipe' = IF running THEN 1 ELSE pipe
  /\ lp' = IF running THEN "join" ELSE "drop"
  /\ UNCHANGED <<alive, clientVars, msgs, hal, target, ifaceVars, sendVars, tmo,
                 tcb, watcher, selTmo, lpmVars, icb, workVars, chipVars>>

\* ... join it, ...
JoinWatcher ==
  /\ lp = "join" /\ watcher = "exited"
  /\ watcher' = "none"
  /\ pipe' = -1 /\ tcb' = "null"
  /\ lp' = "drop"
  /\ UNCHANGED <<alive, clientVars, msgs, hal, target, ifaceVars, sendVars, tmo,
                 running, selTmo, lpmVars, icb, workVars, chipVars>>

\* ... delete the protocol, ...
DropHci ==
  /\ lp = "drop"
  /\ hci' = FALSE
  /\ lp' = IF lib THEN "driver" ELSE "free"
  /\ UNCHANGED <<alive, clientVars, msgs, hal, target, vi, complete, lib, sendVars,
                 timerVars, watchVars, lpmVars, icb, workVars, chipVars>>

\* ... close the UART, which drops what it holds, and clear the driver's
\* callbacks (cleanup, clean_callbacks), ...
CloseDriver ==
  /\ lp = "driver"
  /\ uart' = FALSE /\ due' = <<>> /\ rx' = <<>>
  /\ cbacks' = FALSE
  /\ lp' = "term"
  /\ UNCHANGED <<alive, clientVars, msgs, hal, target, ifaceVars, sendVars,
                 timerVars, watchVars, lpmVars, icb, worker, wrun, left, status,
                 mtx>>

\* ... tell the worker to end (BT_Cleanup, notify_thread_exit), ...
NotifyThreadExit ==
  /\ lp = "term"
  /\ wrun => ~mtx
  /\ status' = IF wrun THEN "terminate" ELSE status
  /\ lp' = "reap"
  /\ UNCHANGED <<alive, clientVars, msgs, hal, target, ifaceVars, sendVars,
                 timerVars, watchVars, lpmVars, icb, cbacks, worker, wrun, left,
                 mtx, chipVars>>

\* Mutant: the library is unloaded without joining the worker.
JoinNobody ==
  /\ lp = "reap"
  /\ wrun' = FALSE /\ left' = 0 /\ status' = "success"
  /\ lib' = FALSE
  /\ lp' = "free"
  /\ UNCHANGED <<alive, clientVars, msgs, hal, target, vi, complete, hci, sendVars,
                 timerVars, watchVars, lpmVars, icb, cbacks, worker, mtx, chipVars>>

\* ... join it and unload the library with its statics, ...
JoinWorker ==
  /\ lp = "reap" /\ worker \in {"none", "done"}
  /\ worker' = "none" /\ wrun' = FALSE /\ left' = 0 /\ status' = "success"
  /\ lib' = FALSE
  /\ lp' = "free"
  /\ UNCHANGED <<alive, clientVars, msgs, hal, target, vi, complete, hci, sendVars,
                 timerVars, watchVars, lpmVars, icb, cbacks, mtx, chipVars>>

\* Mutant: the second On of a double On is lost.
DeleteAndForget ==
  /\ lp = "free"
  /\ vi' = 0 /\ complete' = FALSE
  /\ tmo' = FALSE /\ tcb' = "null" /\ selTmo' = FALSE
  /\ lp' = "poll"
  /\ UNCHANGED <<alive, clientVars, msgs, hal, target, hci, lib, sendVars, pipe,
                 running, watcher, lpmVars, icb, workVars, chipVars>>

\* ... and delete the interface; a double On goes on with Initialize().
DeleteInterface ==
  /\ lp = "free"
  /\ vi' = 0 /\ complete' = FALSE
  /\ tmo' = FALSE /\ tcb' = "null" /\ selTmo' = FALSE
  /\ lp' = IF target = Off THEN "poll" ELSE "open"
  /\ hal' = IF target = Off THEN "off" ELSE hal
  /\ UNCHANGED <<alive, clientVars, msgs, target, hci, lib, sendVars, pipe,
                 running, watcher, lpmVars, icb, workVars, chipVars>>

Shutdown == StopWatching \/ JoinWatcher \/ DropHci \/ CloseDriver
            \/ NotifyThreadExit \/ JoinWorker \/ DeleteInterface

Looper == handleMessage \/ OpenFails \/ Open \/ FwCfgFails \/ FwCfg \/ FwRun \/ Shutdown

(***************************************************************************)
(* The worker: GORM_FW_Init_Thread, process_cmd_rsp, OnFirmwareConfigured  *)
(***************************************************************************)
\* process_cmd_rsp(): a terminated worker sends no more, nor does one that
\* finds no bt_vnd_cbacks.
CmdStart ==
  /\ worker = "cmd"
  /\ status' = IF status = "terminate" THEN status ELSE "pending"
  /\ worker' = IF status = "terminate" \/ ~cbacks THEN "exit" ELSE "call"
  /\ UNCHANGED <<alive, clientVars, looperVars, ifaceVars, sendVars, timerVars,
                 watchVars, lpmVars, icb, cbacks, wrun, left, mtx, chipVars>>

\* Mutant: the callback is registered only if none is left behind.
transmit_cbKeepsOld ==
  /\ worker = "call"
  /\ icb' = IF icb = 0 THEN vi ELSE icb
  /\ snd' = [snd EXCEPT !["worker"] = "test"]
  /\ worker' = "wait"
  /\ alive' \in {TRUE, cbacks}
  /\ UNCHANGED <<clientVars, looperVars, ifaceVars, self, timerVars, watchVars,
                 lpmVars, cbacks, wrun, left, status, mtx, chipVars>>

\* transmit_cb(): the reply's callback is set before the command is sent.
\* bt_vnd_cbacks may have been cleared since it was tested.
transmit_cb ==
  /\ worker = "call"
  /\ icb' = vi
  /\ snd' = [snd EXCEPT !["worker"] = "test"]
  /\ worker' = "wait"
  /\ alive' \in {TRUE, cbacks}
  /\ UNCHANGED <<clientVars, looperVars, ifaceVars, self, timerVars, watchVars,
                 lpmVars, cbacks, wrun, left, status, mtx, chipVars>>

\* Mutant: the script goes on after its last command.
CmdDoneOneMore ==
  /\ worker = "wait" /\ snd["worker"] = "idle"
  /\ status # "pending"
  /\ left' = IF status = "success" THEN left - 1 ELSE left
  /\ worker' = IF status = "success" /\ left > -1 THEN "cmd" ELSE "exit"
  /\ UNCHANGED <<alive, clientVars, looperVars, ifaceVars, sendVars, timerVars,
                 watchVars, lpmVars, icb, cbacks, wrun, status, mtx, chipVars>>

\* The wait for the reply ends with the reply or with CMD_TERMINATE, ...
CmdDone ==
  /\ worker = "wait" /\ snd["worker"] = "idle"
  /\ status # "pending"
  /\ left' = IF status = "success" THEN left - 1 ELSE left
  /\ worker' = IF status = "success" /\ left > 1 THEN "cmd" ELSE "exit"
  /\ UNCHANGED <<alive, clientVars, looperVars, ifaceVars, sendVars, timerVars,
                 watchVars, lpmVars, icb, cbacks, wrun, status, mtx, chipVars>>

\* ... or after two seconds: then it returns with the mutex held.
CmdTimeout ==
  /\ worker = "wait" /\ snd["worker"] = "idle"
  /\ status = "pending"
  /\ status' = "fail" /\ mtx' = TRUE
  /\ worker' = "exit"
  /\ UNCHANGED <<alive, clientVars, looperVars, ifaceVars, sendVars, timerVars,
                 watchVars, lpmVars, icb, cbacks, wrun, left, chipVars>>

\* The end of the thread: the (error checking) mutex is locked, the result
\* reported if the callbacks are still there.
WorkerExit ==
  /\ worker = "exit"
  /\ mtx' = cbacks
  /\ worker' = IF cbacks THEN "fw1" ELSE "done"
  /\ wrun' = IF cbacks THEN wrun ELSE FALSE
  /\ UNCHANGED <<alive, clientVars, looperVars, ifaceVars, sendVars, timerVars,
                 watchVars, lpmVars, icb, cbacks, left, status, chipVars>>

\* The init script went through; a failing command of the configuration
\* file does not change the result.
ScriptDone == left <= NCfg

\* Mutant: success is told whatever the script's result.
OnFirmwareNotConfigured ==
  /\ worker = "fw1"
  /\ worker' = "fw2"
  /\ Answer(TRUE) /\ told' = vi
  /\ UNCHANGED <<alive, gen, cb, sends, calm, looperVars, vi, hci, complete, lib, sendVars,
                 timerVars, watchVars, lpmVars, icb, cbacks, wrun, left, status,
                 mtx, chipVars>>

\* Mutant: nobody is told.
OnFirmwareSilent ==
  /\ worker = "fw1"
  /\ worker' = "fw2"
  /\ complete' = FALSE
  /\ UNCHANGED <<alive, clientVars, looperVars, vi, hci, lib, sendVars, timerVars,
                 watchVars, lpmVars, icb, cbacks, wrun, left, status, mtx, chipVars>>

\* OnFirmwareConfigured(): a failure aborts the process, a success is told
\* to the stack ...
OnFirmwareConfigured ==
  /\ worker = "fw1"
  /\ worker' = "fw2"
  /\ alive' \in {ScriptDone \/ ~complete, cbacks /\ (ScriptDone \/ ~complete)}
  /\ IF complete /\ ScriptDone THEN Answer(TRUE) /\ told' = vi
                              ELSE UNCHANGED <<client, told>>
  /\ complete' = FALSE
  /\ UNCHANGED <<gen, cb, sends, calm, looperVars, vi, hci, lib, sendVars, timerVars,
                 watchVars, lpmVars, icb, cbacks, wrun, left, status, mtx, chipVars>>

\* ... and the low power timer starts.
StartLowPower ==
  /\ worker = "fw2"
  /\ lpmMs' = TRUE
  /\ ConfigureTimeout(TRUE, "OnTimeout")
  /\ mtx' = FALSE /\ wrun' = FALSE
  /\ worker' = "done"
  /\ UNCHANGED <<alive, clientVars, looperVars, ifaceVars, sendVars, watchVars,
                 deasserted, recent, wake, icb, cbacks, left, status, chipVars>>

Worker == CmdStart \/ transmit_cb \/ CmdDone \/ CmdTimeout
          \/ WorkerExit \/ OnFirmwareConfigured \/ StartLowPower

(***************************************************************************)
(* The watcher: ThreadRoutine, OnTimeout, HandleIncomingEvent              *)
(***************************************************************************)
WatcherGoes(from, to) == watcher = from /\ watcher' = to

ThreadRoutine ==
  /\ WatcherGoes("loop", IF running THEN "select" ELSE "exited")
  /\ selTmo' = tmo
  /\ UNCHANGED <<alive, clientVars, looperVars, ifaceVars, sendVars, timerVars,
                 running, lpmVars, icb, workVars, chipVars>>

Notified ==
  /\ WatcherGoes("select", "loop")
  /\ pipe > 0
  /\ pipe' = pipe - 1
  /\ UNCHANGED <<alive, clientVars, looperVars, ifaceVars, sendVars, tmo, tcb,
                 running, selTmo, lpmVars, icb, workVars, chipVars>>

\* select() times out; the callback may have been changed meanwhile.
TimedOut ==
  /\ WatcherGoes("select", IF tmo /\ tcb = "OnTimeout" THEN "idle?" ELSE "loop")
  /\ selTmo /\ pipe = 0 /\ rx = <<>>
  /\ UNCHANGED <<alive, clientVars, looperVars, ifaceVars, sendVars, timerVars,
                 running, selTmo, lpmVars, icb, workVars, chipVars>>

\* OnTimeout(): with no activity since the last timeout, ...
TimeoutTest ==
  /\ WatcherGoes("idle?", IF recent THEN "clear" ELSE "flag")
  /\ UNCHANGED <<alive, clientVars, looperVars, ifaceVars, sendVars, timerVars,
                 running, selTmo, lpmVars, icb, workVars, chipVars>>

\* ... the wake flag is dropped, ...
TimeoutFlag ==
  /\ WatcherGoes("flag", "deassert")
  /\ deasserted' = TRUE
  /\ UNCHANGED <<alive, clientVars, looperVars, ifaceVars, sendVars, timerVars,
                 running, selTmo, recent, lpmMs, wake, icb, workVars, chipVars>>

\* ... then the wake line, ...
TimeoutDeassert ==
  /\ WatcherGoes("deassert", "off")
  /\ wake' = FALSE
  /\ UNCHANGED <<alive, clientVars, looperVars, ifaceVars, sendVars, timerVars,
                 running, selTmo, deasserted, recent, lpmMs, icb, workVars, chipVars>>

\* ... and the timer is switched off.
TimeoutOff ==
  /\ WatcherGoes("off", "clear")
  /\ ConfigureTimeout(FALSE, "zero")
  /\ UNCHANGED <<alive, clientVars, looperVars, ifaceVars, sendVars,
                 running, selTmo, lpmVars, icb, workVars, chipVars>>

TimeoutClear ==
  /\ WatcherGoes("clear", "loop")
  /\ recent' = FALSE
  /\ UNCHANGED <<alive, clientVars, looperVars, ifaceVars, sendVars, timerVars,
                 running, selTmo, deasserted, lpmMs, wake, icb, workVars, chipVars>>

OnTimeout == TimeoutTest \/ TimeoutFlag \/ TimeoutDeassert \/ TimeoutOff \/ TimeoutClear

\* HandleIncomingEvent(): the reply to an internal command goes to the worker,
\* and the callback is forgotten before it is called; anything else goes to
\* the stack.
IsReply(e) == e \in {"success", "fail"}

HandleIncomingEvent ==
  /\ rx # <<>> /\ pipe = 0
  /\ \/ /\ icb # 0 /\ IsReply(Head(rx))
        /\ WatcherGoes("select", "reply")
        /\ icb' = 0 /\ UNCHANGED rx
     \/ /\ ~(icb # 0 /\ IsReply(Head(rx)))
        /\ WatcherGoes("select", "loop")
        /\ rx' = Tail(rx) /\ UNCHANGED icb
  /\ UNCHANGED <<alive, clientVars, looperVars, ifaceVars, sendVars, timerVars,
                 running, selTmo, lpmVars, workVars, uart, due>>

\* GORMevt_HCE_Common_Complete(): the status is set under the mutex.
CommonComplete ==
  /\ WatcherGoes("reply", "loop")
  /\ ~mtx
  /\ status' = Head(rx)
  /\ rx' = Tail(rx)
  /\ UNCHANGED <<alive, clientVars, looperVars, ifaceVars, sendVars, timerVars,
                 running, selTmo, lpmVars, icb, cbacks, worker, wrun, left, mtx,
                 uart, due>>

Watcher == ThreadRoutine \/ Notified \/ TimedOut \/ OnTimeout
           \/ HandleIncomingEvent \/ CommonComplete

(***************************************************************************)
(* The chip answers a packet or reports an error.  It need not answer at   *)
(* all: nothing is assumed of it, and the worker's two seconds may pass    *)
(* with the answer still due.                                              *)
(***************************************************************************)
Chip ==
  /\ due # <<>>
  /\ due' = Tail(due)
  /\ \E e \in IF Head(due) = "worker" THEN {"success", "fail"} ELSE {"stack"} :
       rx' = Append(rx, e)
  /\ UNCHANGED <<alive, clientVars, looperVars, ifaceVars, sendVars, timerVars,
                 watchVars, lpmVars, icb, workVars, uart>>

Stack == initialize \/ close \/ serviceDied \/ sendDataToController

Next ==
  /\ alive
  /\ \/ Stack \/ Looper \/ Worker \/ Watcher \/ Chip
     \/ \E t \in Senders : Send(t)

Spec == Init /\ [][Next]_vars

\* Every thread that can take a step takes one; nothing is assumed of the
\* stack and of the chip.  The two seconds of the worker pass.
FairSpec ==
  /\ Spec
  /\ WF_vars(alive /\ Looper)
  /\ WF_vars(alive /\ Worker)
  /\ WF_vars(alive /\ Watcher)
  /\ \A t \in Senders : WF_vars(alive /\ Send(t))

(***************************************************************************)
(* Properties                                                              *)
(***************************************************************************)
\* Every variable keeps its type.
TypeOK ==
  /\ {alive, complete, hci, lib, running, tmo, selTmo, deasserted, recent, lpmMs,
      wake, cbacks, wrun, mtx, uart, calm} \subseteq BOOLEAN
  /\ client \in {"none", "waiting", "ready", "refused", "closed"}
  /\ gen \in 0..MaxInit /\ cb = gen /\ sends \in 0..MaxSends
  /\ msgs \in Seq(0..MaxInit) /\ target \in 0..MaxInit
  /\ hal \in {"idle", "on", "off"}
  /\ lp \in {"poll", "open", "fwcfg", "fwrun", "stop", "join", "drop",
             "driver", "term", "reap", "free"}
  /\ {vi, self, icb, told} \subseteq 0..MaxInit
  /\ snd \in [Senders -> {"idle", "test", "arm", "assert", "look", "write"}]
  /\ watcher \in {"none", "loop", "select", "exited", "idle?", "flag", "deassert",
                  "off", "clear", "reply"}
  /\ pipe \in -1..1
  /\ tcb \in {"null", "OnTimeout", "zero"}
  /\ worker \in {"none", "cmd", "call", "wait", "exit", "fw1", "fw2", "done"}
  /\ left \in 0..NCmds + NCfg
  /\ status \in {"success", "fail", "pending", "terminate"}
  /\ due \in Seq(Senders) /\ rx \in Seq({"success", "fail", "stack"})

\* Between two messages the state is On exactly while there is an interface,
\* also after an Initialize() that failed: so Shutdown() never aborts with
\* "No Vendor interface!" and Initialize() never finds a previous session,
\* in whatever order a stack initialises, closes, dies and comes back.
InterfaceFollowsState == lp = "poll" => (hal = "on" <=> vi # 0)

\* A stack that was told SUCCESS about its own session, and has neither closed
\* nor died, has the interface of that session under it, with the protocol and
\* the UART open: Send() never meets a null pointer.  A SUCCESS about another
\* session, opened for a stack before it, can reach only a stack that
\* initialised while that session was being opened or closed.
ReadyHasInterface ==
  client = "ready" => /\ told = cb => vi = cb /\ hci /\ uart /\ ~complete
                      /\ told # cb => ~calm

\* Once Shutdown() has deleted the interface no thread, no open UART and no
\* loaded library of the session is left: the watcher and the worker were
\* both joined, whatever they were doing when the stack closed or died.
NothingLeftBehind ==
  vi = 0 => /\ watcher = "none" /\ ~running
            /\ worker = "none" /\ ~mtx
            /\ ~uart /\ ~lib /\ ~hci /\ ~cbacks

\* A reply to a command of the init script finds the callback that the worker
\* of this session registered: it is never passed to the stack, and never to
\* a callback left behind by a session whose library was unloaded.
RepliesReachWorker ==
  watcher = "select" /\ rx # <<>> /\ IsReply(Head(rx)) => icb = vi /\ vi # 0

\* The threads together keep the promise of BtSession: sessions open one at a
\* time, the one a stack was told of is closed only once that stack closed, died
\* or initialised again, and a stack that came alone is told of no other.
Session == INSTANCE BtSession
             WITH stack <- client, asked <- gen, served <- vi, alone <- calm

ImplementsSession == Session!SessionSpec

\* bt_vendor_lib.h says that BT_VND_OP_FW_CFG must call fwcfg_cb to notify the
\* stack: every stack that waits is answered, or gives up, or finds the
\* process aborted.  mtk_fw_cfg() gives up without the call when it cannot
\* start the worker, Open() ignores its result, and the stack waits for ever.
Answered == (client = "waiting") ~> (client # "waiting" \/ ~alive)

\* Once the worker of a stack's own session is started the stack is answered,
\* or gives up, or another one takes its place, or the process aborts: whether
\* the chip answers, reports an error or stays mute, and whatever the stacks
\* before it left behind.
WorkerReports ==
  \A n \in 1..MaxInit :
    (client = "waiting" /\ cb = n /\ vi = n /\ worker = "cmd")
      ~> (client # "waiting" \/ cb # n \/ ~alive)

\* The looper always comes back for the next message: joining the watcher and
\* the worker ends, although each may be in a callback of the other parts.
LooperReturns == (lp # "poll") ~> (lp = "poll" \/ ~alive)
===============================================================================
