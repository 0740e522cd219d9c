------------------------------- MODULE MdInit -------------------------------
(***************************************************************************)
(* The modem control daemons of ccci_mdinit (driver version 2).  One        *)
(* process per modem, MD1 and MD3; each is single threaded: it boots its    *)
(* modem once (main_v2) and then serves the requests the kernel queues on   *)
(* the monitor device.  A restart first synchronises with the other daemon  *)
(* through the system properties vendor.mtk.md{1,3}.status                  *)
(* (check_to_restart_md_v2).                                                *)
(*                                                                          *)
(* An action is the code between two accesses to state that somebody else   *)
(* can see or change: the status properties, the modem, the two kernel      *)
(* queues.  Waits whose result the code ignores (wait_for_property,         *)
(* delay_to_reset_md, wait_for_rst_lock_free) are the freedom to take the   *)
(* next step later.  A service is in svc when the last command the daemon   *)
(* sent to init for it was a start; MD1's rild and ril-proxy, which the     *)
(* daemon only ever stops, are not in it.                                   *)
(***************************************************************************)
EXTENDS Naturals, Sequences

CONSTANTS
  Started,              \* the daemons init launches (MD3 may be absent)
  Modes,                \* the boot modes of the phone to consider
  Requests,             \* the kernel requests to consider
  RequestsWaitForBoot,  \* TRUE: no request before all daemons booted once
  Budget                \* bounds on the environment's moves, by kind

ModeNames == {"normal", "factory", "meta", "mdmeta"}
Request   == {"FORCE_STOP", "FORCE_START", "FLIGHT_STOP", "FLIGHT_START", "RESET"}
Kinds     == {"request", "crash", "fault", "loss"}

VARIABLES
  entered, passed,  \* history: restarts entered, and left to boot
  pc,          \* where each daemon is
  req,         \* the request it is serving; "BOOT" is the boot from main_v2
  fsm,         \* md_ctl_fsm_curr_state
  status,      \* property vendor.mtk.mdN.status, "none" when never set
  killed,      \* kernel: an earlier instance of the daemon was lost
  queue,       \* kernel: messages on the monitor device
  events,      \* kernel: events on the status device mdN_sta
  staOpen,     \* mdstatusfd is open
  modem,       \* kernel: state of the modem itself
  svc,         \* up-layer services asked to run
  mdlogger_cnt, need_silent_reboot,
  mode,        \* boot mode of the phone, fixed at power on
  spent        \* environment moves made so far, by kind

Daemon == {"md1", "md3"}

Peer(d) == IF d = "md1" THEN "md3" ELSE "md1"

Barrier == INSTANCE RestartBarrier
             WITH Daemon <- Daemon, Peer <- Peer, entered <- entered, passed <- passed

MdInitAssumption ==
  /\ Started \subseteq Daemon
  /\ Modes \subseteq ModeNames
  /\ Requests \subseteq Request
  /\ RequestsWaitForBoot \in BOOLEAN
  /\ Budget \in [Kinds -> Nat]

ASSUME ConstantsOK == MdInitAssumption

State    == {"init", "ready", "bootup", "reset", "stop", "flightmode", "exception"}
Message  == Request \cup {"EXCEPTION", "COMMON"}
Event    == {"READY", "EXCEPTION", "STOP"}
Service  == {"fsd", "rild", "muxd", "mdlogger"}
Location == {"off", "open", "trigger", "other", "grant", "own", "boot", "start",
             "wait_ready", "check", "publish", "tail", "idle",
             "stop", "wait_stop", "teardown"}

local  == <<fsm, req, staOpen, mdlogger_cnt, need_silent_reboot>>
kernel == <<killed, queue, events, modem>>
vars   == <<entered, passed, pc, status, svc, mode, spent, local, kernel>>

-----------------------------------------------------------------------------
(* Helpers *)

is_meta_mode    == mode = "meta"
is_factory_mode == mode = "factory"

Goto(d, l) == pc' = [pc EXCEPT ![d] = l]

\* One environment move or failure of the given kind.
Spend(k) ==
  /\ spent[k] < Budget[k]
  /\ spent' = [spent EXCEPT ![k] = @ + 1]

set_current_md_statusNoException(d, s) ==
  /\ fsm' = [fsm EXCEPT ![d] = s]
  /\ status' = [status EXCEPT ![d] = IF s = "exception" THEN "undefined" ELSE s]

\* set_current_md_status up to notify_md_status: the FSM and the property.
set_current_md_status(d, s) ==
  /\ fsm' = [fsm EXCEPT ![d] = s]
  /\ status' = [status EXCEPT ![d] = s]

StoppedServicesNoMdlogger(d) ==
  {"fsd"}
    \cup (IF is_factory_mode THEN {} ELSE {"rild"})
    \cup (IF is_factory_mode \/ d = "md3" THEN {} ELSE {"muxd"})

\* The services that stop_all_ccci_up_layer_services commands to stop.
StoppedServices(d) ==
  {"fsd"}
    \cup (IF is_factory_mode THEN {} ELSE {"rild"})
    \cup (IF is_factory_mode \/ d = "md3" THEN {} ELSE {"muxd"})
    \cup (IF mdlogger_cnt[d] THEN {"mdlogger"} ELSE {})

stop_allKeepsCount(d) ==
  /\ svc' = [svc EXCEPT ![d] = @ \ StoppedServices(d)]
  /\ UNCHANGED mdlogger_cnt

stop_all_ccci_up_layer_services(d) ==
  /\ svc' = [svc EXCEPT ![d] = @ \ StoppedServices(d)]
  /\ mdlogger_cnt' = [mdlogger_cnt EXCEPT ![d] = FALSE]

\* The services that start_all_ccci_up_layer_services commands to start.
StartedServices(d) ==
  (IF mdlogger_cnt[d] THEN {} ELSE {"mdlogger"})
    \cup (IF is_factory_mode THEN {} ELSE IF d = "md1" THEN {"muxd"} ELSE {"rild"})

start_all_ccci_up_layer_services(d) ==
  /\ svc' = [svc EXCEPT ![d] = @ \cup StartedServices(d)]
  /\ mdlogger_cnt' = [mdlogger_cnt EXCEPT ![d] = TRUE]

InHandshake(d) == pc[d] \in {"other", "grant", "own"}
PortOpen(d)    == pc[d] \notin {"off", "open"}
FirstBoot(d)   == req[d] = "BOOT"
Booted(d)      == PortOpen(d) /\ ~FirstBoot(d)

\* Where trigger_modem_to_run returns to: main_v2 or the message loop.
Return(d) == Goto(d, IF FirstBoot(d) THEN "tail" ELSE "idle")

-----------------------------------------------------------------------------
Init ==
  /\ entered = [d \in Daemon |-> 0]
  /\ passed = [d \in Daemon |-> 0]
  /\ pc = [d \in Daemon |-> "off"]
  /\ req = [d \in Daemon |-> "BOOT"]
  /\ fsm = [d \in Daemon |-> "init"]
  /\ status = [d \in Daemon |-> "none"]
  /\ killed = [d \in Daemon |-> FALSE]
  /\ queue = [d \in Daemon |-> <<>>]
  /\ events = [d \in Daemon |-> <<>>]
  /\ staOpen = [d \in Daemon |-> FALSE]
  /\ modem = [d \in Daemon |-> "off"]
  /\ svc = [d \in Daemon |-> {}]
  /\ mdlogger_cnt = [d \in Daemon |-> FALSE]
  /\ need_silent_reboot = [d \in Daemon |-> FALSE]
  /\ mode \in Modes
  /\ spent = [k \in Kinds |-> 0]

-----------------------------------------------------------------------------
(* The daemon: main_v2 before its message loop *)

\* init starts the process: main_v2 publishes INIT.
Launch(d) ==
  /\ pc[d] = "off"
  /\ d \in Started
  /\ set_current_md_status(d, "init")
  /\ req' = [req EXCEPT ![d] = "BOOT"]
  /\ Goto(d, "open")
  /\ UNCHANGED <<entered, passed, staOpen, svc, mdlogger_cnt, need_silent_reboot,
                 mode, spent, kernel>>

\* The process ends: its static variables go, and the kernel drops what is
\* queued on the devices it held open.
Exit(d) ==
  /\ Goto(d, "off")
  /\ fsm' = [fsm EXCEPT ![d] = "init"]
  /\ req' = [req EXCEPT ![d] = "BOOT"]
  /\ staOpen' = [staOpen EXCEPT ![d] = FALSE]
  /\ mdlogger_cnt' = [mdlogger_cnt EXCEPT ![d] = FALSE]
  /\ need_silent_reboot' = [need_silent_reboot EXCEPT ![d] = FALSE]
  /\ queue' = [queue EXCEPT ![d] = <<>>]
  /\ events' = [events EXCEPT ![d] = <<>>]
  /\ killed' = [killed EXCEPT ![d] = @ \/ PortOpen(d)]
  /\ UNCHANGED <<entered, passed, status, svc, modem, mode>>

\* The monitor port opens, within MAX_OPEN_PORT_RETRY_NUM tries.
OpenPort(d) ==
  /\ pc[d] = "open"
  /\ Goto(d, "trigger")
  /\ UNCHANGED <<entered, passed, status, svc, mode, spent, local, kernel>>

\* The port never opens: main_v2 returns -1.
OpenPortFails(d) ==
  /\ pc[d] = "open"
  /\ Spend("loss")
  /\ Exit(d)

\* After the first boot attempt, whatever its result: mdx_sta opens.
EnterLoop(d) ==
  /\ pc[d] = "tail"
  /\ req' = [req EXCEPT ![d] = "NONE"]
  /\ Goto(d, "idle")
  /\ UNCHANGED <<entered, passed, fsm, status, staOpen, svc, mdlogger_cnt,
                 need_silent_reboot, mode, spent, kernel>>

\* mdx_sta does not open: main_v2 returns -1 with the modem running.
EnterLoopFails(d) ==
  /\ pc[d] = "tail"
  /\ Spend("loss")
  /\ Exit(d)

-----------------------------------------------------------------------------
(* The daemon: trigger_modem_to_run *)

\* Publish RESET; leaving flight mode, stop the services first.  Only a first
\* boot of a daemon that was never killed skips the handshake.
Trigger(d) ==
  /\ pc[d] = "trigger"
  /\ set_current_md_status(d, "reset")
  /\ IF req[d] = "FLIGHT_START" /\ ~is_meta_mode
       THEN stop_all_ccci_up_layer_services(d)
       ELSE UNCHANGED <<svc, mdlogger_cnt>>
  /\ IF FirstBoot(d) /\ ~killed[d]
       THEN Goto(d, "boot") /\ UNCHANGED entered
       ELSE Goto(d, "other") /\ entered' = [entered EXCEPT ![d] = @ + 1]
  /\ UNCHANGED <<passed, req, staOpen, need_silent_reboot, mode, spent, kernel>>

\* The other daemon is in RESET.
OtherReset(d) == status[Peer(d)] = "reset"

\* First loop of check_to_restart_md_v2: wait for the other daemon's RESET.
SeeOther(d) ==
  /\ pc[d] = "other"
  /\ OtherReset(d)
  /\ Goto(d, "grant")
  /\ UNCHANGED <<entered, passed, status, svc, mode, spent, local, kernel>>

OtherAbsentOrStopped(d) == status[Peer(d)] \in {"none", "stop"}

\* The other daemon never published a status.
OtherAbsent(d) == status[Peer(d)] = "none"

\* First loop: there is no other daemon; boot alone.
BootAlone(d) ==
  /\ pc[d] = "other"
  /\ OtherAbsent(d)
  /\ passed' = [passed EXCEPT ![d] = @ + 1]
  /\ Goto(d, "boot")
  /\ UNCHANGED <<entered, status, svc, mode, spent, local, kernel>>

GrantNothing(d) ==
  /\ pc[d] = "grant"
  /\ Goto(d, "own")
  /\ UNCHANGED <<entered, passed, status, svc, mode, spent, local, kernel>>

GrantSelf(d) ==
  /\ pc[d] = "grant"
  /\ status' = [status EXCEPT ![d] = "reset_start"]
  /\ Goto(d, "own")
  /\ UNCHANGED <<entered, passed, svc, mode, spent, local, kernel>>

\* Tell the other daemon to go on.  MD3 resets the MD1-MD3 PCCIF before.
Grant(d) ==
  /\ pc[d] = "grant"
  /\ status' = [status EXCEPT ![Peer(d)] = "reset_start"]
  /\ Goto(d, "own")
  /\ UNCHANGED <<entered, passed, svc, mode, spent, local, kernel>>

ToldToGoOnOrReset(d) == status[d] \in {"reset", "reset_start"}

ToldToGoOn(d) == status[d] = "reset_start"

\* Second loop: the other daemon told this one to go on.
SeeOwn(d) ==
  /\ pc[d] = "own"
  /\ ToldToGoOn(d)
  /\ passed' = [passed EXCEPT ![d] = @ + 1]
  /\ Goto(d, "boot")
  /\ UNCHANGED <<entered, status, svc, mode, spent, local, kernel>>

\* Start fsd, hand the boot data to the kernel, publish BOOT_UP.
BootUp(d) ==
  /\ pc[d] = "boot"
  /\ svc' = [svc EXCEPT ![d] = @ \cup {"fsd"}]
  /\ set_current_md_status(d, "bootup")
  /\ Goto(d, "start")
  /\ UNCHANGED <<entered, passed, req, staOpen, mdlogger_cnt, need_silent_reboot,
                 mode, spent, kernel>>

\* CCCI_IOC_DO_START_MD succeeds, and mdN_sta is or gets opened.
StartMd(d) ==
  /\ pc[d] = "start"
  /\ modem[d] = "off"
  /\ modem' = [modem EXCEPT ![d] = "booting"]
  /\ staOpen' = [staOpen EXCEPT ![d] = TRUE]
  /\ Goto(d, "wait_ready")
  /\ UNCHANGED <<entered, passed, fsm, req, status, svc, mdlogger_cnt,
                 need_silent_reboot, mode, spent, killed, queue, events>>

\* The modem starts but mdN_sta cannot be opened: the boot counts as failed.
StartMdUnobserved(d) ==
  /\ pc[d] = "start"
  /\ modem[d] = "off"
  /\ ~staOpen[d]
  /\ Spend("fault")
  /\ modem' = [modem EXCEPT ![d] = "booting"]
  /\ Return(d)
  /\ UNCHANGED <<entered, passed, status, svc, mode, local, killed, queue, events>>

\* CCCI_IOC_DO_START_MD fails: the FSM stays in BOOT_UP.
StartMdFails(d) ==
  /\ pc[d] = "start"
  /\ IF modem[d] = "off" THEN Spend("fault") ELSE UNCHANGED spent
  /\ Return(d)
  /\ UNCHANGED <<entered, passed, status, svc, mode, local, kernel>>

\* is_md_command_finish(0): read one event; READY and EXCEPTION end the wait.
AwaitReady(d) ==
  /\ pc[d] = "wait_ready"
  /\ events[d] # <<>>
  /\ events' = [events EXCEPT ![d] = Tail(@)]
  /\ CASE Head(events[d]) = "READY"     -> Goto(d, "check")
       [] Head(events[d]) = "EXCEPTION" -> Return(d)
       [] OTHER                         -> UNCHANGED pc
  /\ UNCHANGED <<entered, passed, status, svc, mode, spent, local, killed, queue, modem>>

\* CCCI_IOC_GET_MD_STATE: the event may be older than the modem's state.
CheckState(d) ==
  /\ pc[d] = "check"
  /\ IF modem[d] = "ready" THEN Goto(d, "publish") ELSE Return(d)
  /\ UNCHANGED <<entered, passed, status, svc, mode, spent, local, kernel>>

\* CCCI_IOC_GET_MD_STATE itself fails.
CheckStateFails(d) ==
  /\ pc[d] = "check"
  /\ Spend("fault")
  /\ Return(d)
  /\ UNCHANGED <<entered, passed, status, svc, mode, local, kernel>>

\* Publish BOOT_READY; start the services unless a META mode forbids it.
PublishReady(d) ==
  /\ pc[d] = "publish"
  /\ set_current_md_status(d, "ready")
  /\ IF mode \in {"meta", "mdmeta"}
       THEN UNCHANGED <<svc, mdlogger_cnt>>
       ELSE start_all_ccci_up_layer_services(d)
  /\ need_silent_reboot' = [need_silent_reboot EXCEPT ![d] = FALSE]
  /\ Return(d)
  /\ UNCHANGED <<entered, passed, req, staOpen, mode, spent, kernel>>

-----------------------------------------------------------------------------
(* The daemon: the message loop *)

\* The oldest message of the monitor device is m: the loop takes it.
Take(d, m) ==
  /\ pc[d] = "idle"
  /\ queue[d] # <<>>
  /\ Head(queue[d]) = m
  /\ queue' = [queue EXCEPT ![d] = Tail(@)]

ExceptionVoidWhenReady(d) == fsm[d] \in {"exception", "ready"}

\* check_curret_md_status: the message asks for the state the FSM is in.
ExceptionVoid(d) == fsm[d] = "exception"
StopVoid(d) == fsm[d] \in {"stop", "flightmode"}
StartVoid(d) == fsm[d] = "ready"

\* A message that needs nothing done: battery, configuration, random pattern
\* and modem type (handled outside this FSM), or a request that the current
\* state makes void.
Ignore(d) ==
  /\ \/ Take(d, "COMMON")
     \/ Take(d, "EXCEPTION") /\ ExceptionVoid(d)
     \/ Take(d, "FORCE_STOP") /\ StopVoid(d)
     \/ Take(d, "FLIGHT_STOP") /\ StopVoid(d)
     \/ Take(d, "FORCE_START") /\ StartVoid(d)
     \/ Take(d, "FLIGHT_START") /\ StartVoid(d)
  /\ UNCHANGED <<entered, passed, pc, status, svc, mode, spent, local,
                 killed, events, modem>>

\* CCCI_MD_MSG_EXCEPTION: publish EXCEPTION, make sure mdlogger runs.
HandleException(d) ==
  /\ Take(d, "EXCEPTION")
  /\ ~ExceptionVoid(d)
  /\ set_current_md_status(d, "exception")
  /\ svc' = [svc EXCEPT ![d] = IF mdlogger_cnt[d] THEN @ ELSE @ \cup {"mdlogger"}]
  /\ mdlogger_cnt' = [mdlogger_cnt EXCEPT ![d] = TRUE]
  /\ need_silent_reboot' = [need_silent_reboot EXCEPT ![d] = TRUE]
  /\ UNCHANGED <<entered, passed, pc, req, staOpen, mode, spent,
                 killed, events, modem>>

\* FORCE_START and FLIGHT_START: straight to trigger_modem_to_run.
HandleStart(d) ==
  \E m \in {"FORCE_START", "FLIGHT_START"} :
    /\ Take(d, m)
    /\ ~StartVoid(d)
    /\ req' = [req EXCEPT ![d] = m]
    /\ Goto(d, "trigger")
    /\ UNCHANGED <<entered, passed, fsm, status, staOpen, svc, mdlogger_cnt,
                   need_silent_reboot, mode, spent, killed, events, modem>>

HandleStopSkipsDead(d) ==
  \E m \in {"FORCE_STOP", "FLIGHT_STOP", "RESET"} :
    /\ Take(d, m)
    /\ m # "RESET" => ~StopVoid(d)
    /\ req' = [req EXCEPT ![d] = m]
    /\ Goto(d, IF fsm[d] = "exception" THEN "teardown" ELSE "stop")
    /\ UNCHANGED <<entered, passed, fsm, status, staOpen, svc, mdlogger_cnt,
                   need_silent_reboot, mode, spent, killed, events, modem>>

\* FORCE_STOP and FLIGHT_STOP outside STOP and FLIGHT_MODE; RESET always.
HandleStop(d) ==
  \E m \in {"FORCE_STOP", "FLIGHT_STOP", "RESET"} :
    /\ Take(d, m)
    /\ m # "RESET" => ~StopVoid(d)
    /\ req' = [req EXCEPT ![d] = m]
    /\ Goto(d, "stop")
    /\ UNCHANGED <<entered, passed, fsm, status, staOpen, svc, mdlogger_cnt,
                   need_silent_reboot, mode, spent, killed, events, modem>>

\* stop_modem: CCCI_IOC_DO_STOP_MD succeeds, and mdN_sta is or gets opened.
StopMd(d) ==
  /\ pc[d] = "stop"
  /\ modem[d] # "off"
  /\ modem' = [modem EXCEPT ![d] = "stopping"]
  /\ staOpen' = [staOpen EXCEPT ![d] = TRUE]
  /\ Goto(d, "wait_stop")
  /\ UNCHANGED <<entered, passed, fsm, req, status, svc, mdlogger_cnt,
                 need_silent_reboot, mode, spent, killed, queue, events>>

\* stop_modem fails, with the modem left as it is; the callers do not look.
StopMdFails(d) ==
  /\ pc[d] = "stop"
  /\ IF modem[d] = "off" THEN UNCHANGED spent ELSE Spend("fault")
  /\ Goto(d, "teardown")
  /\ UNCHANGED <<entered, passed, status, svc, mode, local, kernel>>

\* The modem stops but mdN_sta cannot be opened: nobody waits for the stop.
StopMdUnobserved(d) ==
  /\ pc[d] = "stop"
  /\ modem[d] # "off"
  /\ ~staOpen[d]
  /\ Spend("fault")
  /\ modem' = [modem EXCEPT ![d] = "stopping"]
  /\ Goto(d, "teardown")
  /\ UNCHANGED <<entered, passed, status, svc, mode, local, killed, queue, events>>

\* is_md_command_finish(1): read one event; STOP and EXCEPTION end the wait.
AwaitStop(d) ==
  /\ pc[d] = "wait_stop"
  /\ events[d] # <<>>
  /\ events' = [events EXCEPT ![d] = Tail(@)]
  /\ IF Head(events[d]) \in {"STOP", "EXCEPTION"}
       THEN Goto(d, "teardown")
       ELSE UNCHANGED pc
  /\ UNCHANGED <<entered, passed, status, svc, mode, spent, local, killed, queue, modem>>

\* FLIGHT_STOP: publish FLIGHT_MODE; the services keep running.
EnterFlightMode(d) ==
  /\ pc[d] = "teardown"
  /\ req[d] = "FLIGHT_STOP"
  /\ set_current_md_status(d, "flightmode")
  /\ Goto(d, "idle")
  /\ UNCHANGED <<entered, passed, req, staOpen, svc, mdlogger_cnt,
                 need_silent_reboot, mode, spent, kernel>>

\* FORCE_STOP and RESET: stop the services, publish STOP; RESET goes on to boot.
TearDown(d) ==
  /\ pc[d] = "teardown"
  /\ req[d] # "FLIGHT_STOP"
  /\ IF is_meta_mode
       THEN UNCHANGED <<svc, mdlogger_cnt>>
       ELSE stop_all_ccci_up_layer_services(d)
  /\ set_current_md_status(d, "stop")
  /\ Goto(d, IF req[d] = "RESET" THEN "trigger" ELSE "idle")
  /\ UNCHANGED <<entered, passed, req, staOpen, need_silent_reboot, mode, spent, kernel>>

-----------------------------------------------------------------------------
(* The environment: kernel, modem, framework *)

\* The kernel asks for a stop, start or reset, of one modem or of all.
PostRequest ==
  /\ Spend("request")
  /\ RequestsWaitForBoot => \A d \in Started : Booted(d)
  /\ \E m \in Requests, T \in SUBSET Started :
       /\ T # {}
       /\ \A d \in T : PortOpen(d)
       /\ queue' = [d \in Daemon |-> IF d \in T THEN Append(queue[d], m) ELSE queue[d]]
  /\ UNCHANGED <<entered, passed, pc, status, svc, mode, local, killed, events, modem>>

\* Battery, configuration and other housekeeping messages.
PostCommon(d) ==
  /\ PortOpen(d)
  /\ Spend("request")
  /\ queue' = [queue EXCEPT ![d] = Append(@, "COMMON")]
  /\ UNCHANGED <<entered, passed, pc, status, svc, mode, local, killed, events, modem>>

\* What the kernel adds to the status device; nobody listens when no daemon runs.
Emit(d, e) ==
  events' = [events EXCEPT ![d] = IF PortOpen(d) THEN Append(@, e) ELSE @]

ModemBoots(d) ==
  /\ modem[d] = "booting"
  /\ modem' = [modem EXCEPT ![d] = "ready"]
  /\ Emit(d, "READY")
  /\ UNCHANGED <<entered, passed, pc, status, svc, mode, spent, local, killed, queue>>

\* A modem exception: an event on mdN_sta and a message on the monitor device.
ModemCrashes(d) ==
  /\ modem[d] \in {"booting", "ready"}
  /\ Spend("crash")
  /\ modem' = [modem EXCEPT ![d] = "crashed"]
  /\ Emit(d, "EXCEPTION")
  /\ queue' = [queue EXCEPT ![d] = IF PortOpen(d) THEN Append(@, "EXCEPTION") ELSE @]
  /\ UNCHANGED <<entered, passed, pc, status, svc, mode, local, killed>>

ModemStops(d) ==
  /\ modem[d] = "stopping"
  /\ modem' = [modem EXCEPT ![d] = "off"]
  /\ Emit(d, "STOP")
  /\ UNCHANGED <<entered, passed, pc, status, svc, mode, spent, local, killed, queue>>

\* The daemon is killed at any point of its code.
Kill(d) ==
  /\ pc[d] # "off"
  /\ Spend("loss")
  /\ Exit(d)

-----------------------------------------------------------------------------
Boot(d) ==
  \/ OpenPort(d) \/ OpenPortFails(d) \/ EnterLoop(d) \/ EnterLoopFails(d)

Restart(d) ==
  \/ Trigger(d) \/ SeeOther(d) \/ BootAlone(d) \/ Grant(d) \/ SeeOwn(d)
  \/ BootUp(d) \/ StartMd(d) \/ StartMdUnobserved(d) \/ StartMdFails(d)
  \/ AwaitReady(d) \/ CheckState(d) \/ CheckStateFails(d) \/ PublishReady(d)

Serve(d) ==
  \/ Ignore(d) \/ HandleException(d) \/ HandleStart(d) \/ HandleStop(d)
  \/ StopMd(d) \/ StopMdFails(d) \/ StopMdUnobserved(d) \/ AwaitStop(d)
  \/ EnterFlightMode(d) \/ TearDown(d)

\* A step of the daemon's own code.
DaemonStep(d) == Boot(d) \/ Restart(d) \/ Serve(d)

\* What the modem does by itself sooner or later.
ModemStep(d) == ModemBoots(d) \/ ModemStops(d)

Next ==
  \/ \E d \in Daemon : Launch(d) \/ DaemonStep(d) \/ ModemStep(d) \/ ModemCrashes(d)
                         \/ PostCommon(d) \/ Kill(d)
  \/ PostRequest

Spec == Init /\ [][Next]_vars

\* A runnable process is scheduled, and the modem ends what it was told to do.
FairSpec ==
  /\ Spec
  /\ \A d \in Daemon : WF_vars(Launch(d)) /\ WF_vars(DaemonStep(d)) /\ WF_vars(ModemStep(d))

-----------------------------------------------------------------------------
(* The invariant of the handshake: when no daemon is lost and requests wait *)
(* for the first boots, it is inductive.                                    *)

AllBooted == \A d \in Daemon : Booted(d)

\* How often a daemon has told its peer to go on.
Granted(d) == IF pc[d] \in {"other", "grant"} THEN entered[d] - 1 ELSE entered[d]

Answered(d) == InHandshake(d) /\ status[d] = "reset_start"

\* Before the first boots are over no daemon serves, or holds, a request.
BootFirst ==
  /\ \A d \in Daemon : ~killed[d]
  /\ \A d \in Daemon : pc[d] = "off" => status[d] = "none" /\ FirstBoot(d)
  /\ \A d \in Daemon : pc[d] # "off" => status[d] # "none"
  /\ \A d \in Daemon : pc[d] = "open" => FirstBoot(d)
  /\ \A d \in Daemon : FirstBoot(d) => ~InHandshake(d)
  /\ \/ AllBooted
     \/ \A d \in Daemon : /\ req[d] \in {"BOOT", "NONE"}
                          /\ queue[d] \in Seq({"EXCEPTION", "COMMON"})
  /\ \A d \in Daemon : req[d] = "NONE" => pc[d] = "idle"

\* Where each daemon may find which status.
StatusPlaces ==
  \A d \in Daemon :
    /\ fsm[d] = "reset" <=> pc[d] = "boot" \/ InHandshake(d)
    /\ pc[d] # "off" =>
         \/ status[d] = fsm[d]
         \/ fsm[d] = "reset" /\ status[d] = "reset_start"
    /\ pc[d] = "grant" => InHandshake(Peer(d)) /\ status[Peer(d)] = "reset"
    /\ pc[d] = "boot" /\ status[d] = "reset" => FirstBoot(d)

\* Every grant is used by exactly one restart of the peer.
GrantsMatch ==
  \A d \in Daemon :
    /\ entered[d] = IF InHandshake(d) THEN passed[d] + 1 ELSE passed[d]
    /\ Granted(Peer(d)) = IF Answered(d) THEN passed[d] + 1 ELSE passed[d]

\* The two status properties carry the restart handshake without losing or
\* doubling a grant (check_to_restart_md_v2).
HandshakeInv == BootFirst /\ StatusPlaces /\ GrantsMatch

-----------------------------------------------------------------------------
(* Properties *)

\* Every variable keeps its type.
TypeOK ==
  /\ entered \in [Daemon -> Nat]
  /\ passed \in [Daemon -> Nat]
  /\ pc \in [Daemon -> Location]
  /\ req \in [Daemon -> Request \cup {"BOOT", "NONE"}]
  /\ fsm \in [Daemon -> State]
  /\ status \in [Daemon -> State \cup {"none", "reset_start"}]
  /\ killed \in [Daemon -> BOOLEAN]
  /\ queue \in [Daemon -> Seq(Message)]
  /\ events \in [Daemon -> Seq(Event)]
  /\ staOpen \in [Daemon -> BOOLEAN]
  /\ modem \in [Daemon -> {"off", "booting", "ready", "crashed", "stopping"}]
  /\ svc \in [Daemon -> SUBSET Service]
  /\ mdlogger_cnt \in [Daemon -> BOOLEAN]
  /\ need_silent_reboot \in [Daemon -> BOOLEAN]
  /\ mode \in ModeNames
  /\ spent \in [Kinds -> Nat]

\* The handshake is a barrier: no modem is booted for its n-th restart before
\* the other daemon has entered its n-th restart (check_to_restart_md_v2).
ImplementsBarrier == Barrier!BarrierSpec

\* When MD3 resets the MD1-MD3 PCCIF in the handshake, the modem of an MD1 that
\* is being reset too is not running on it.
PccifResetQuiet ==
  [][pc["md3"] = "grant" /\ pc'["md3"] = "own" /\ req["md1"] = "RESET" =>
       modem["md1"] \notin {"booting", "ready"}]_vars

\* In the loop, BOOT_READY is the truth about the modem, or its exception is
\* still queued for the loop to read.
ReadyIsReal ==
  \A d \in Daemon : pc[d] = "idle" /\ fsm[d] = "ready" =>
    \/ modem[d] = "ready"
    \/ modem[d] = "crashed" /\ \E i \in DOMAIN queue[d] : queue[d][i] = "EXCEPTION"

\* In the loop, STOP and FLIGHT_MODE mean that the modem was told to stop, even
\* though the handlers ignore what stop_modem returns.
StoppedIsStopped ==
  \A d \in Daemon : pc[d] = "idle" /\ fsm[d] \in {"stop", "flightmode"} =>
    modem[d] \in {"off", "stopping"}

UpLayer(d) == {"mdlogger", IF d = "md1" THEN "muxd" ELSE "rild"}

\* A modem restarted by RESET or by leaving flight mode boots with the up-layer
\* services stopped (TearDown, Trigger).
QuietRestart ==
  \A d \in Daemon :
    /\ mode = "normal"
    /\ pc[d] \in {"start", "wait_ready", "check", "publish"}
    /\ req[d] \in {"RESET", "FLIGHT_START"}
    => svc[d] \cap UpLayer(d) = {}

\* Whatever path led to BOOT_READY, the up-layer services run then.
ServedWhenReady ==
  \A d \in Daemon :
    mode = "normal" /\ pc[d] = "idle" /\ fsm[d] = "ready" => {"fsd"} \cup UpLayer(d) \subseteq svc[d]

Blocked(d) ==
  \/ pc[d] = "other" /\ status[Peer(d)] \notin {"reset", "none"}
  \/ pc[d] = "own" /\ status[d] # "reset_start"

\* Neither loop of check_to_restart_md_v2 has a limit: the two daemons never
\* both wait for a status that only the other could still write.
NoMutualWait == \E d \in Daemon : ~Blocked(d)

\* In a restart that the other daemon, if there is one, has not entered yet.
AheadOfPeer(d) ==
  Peer(d) \in Started /\ InHandshake(d) /\ entered[d] > entered[Peer(d)]

\* No daemon hangs, whatever crashes and whatever was left on mdN_sta: each comes
\* back to its message loop, or waits for a restart of its peer that was never
\* asked for.  So a restart both daemons have entered ends for both.
ComesBack == \A d \in Started : []<>(pc[d] = "idle" \/ AheadOfPeer(d))
=============================================================================
