------------------------------ MODULE BtHalProofs -------------------------------
(***************************************************************************)
(* Theorems about BtHal, for any number of sessions, packets and commands  *)
(* of the init script.                                                     *)
(***************************************************************************)
EXTENDS BtHal, TLAPS

-----------------------------------------------------------------------------
(* What the looper finds at each place *)

Stopping == {"stop", "join", "drop", "driver", "term", "reap", "free"}

\* The state, the interface and what belongs to it.
LooperInv ==
  /\ lp = "poll" => (hal = "on" <=> vi # 0)
  /\ lp = "open" => vi = 0 /\ target # 0
  /\ lp \in {"fwcfg", "fwrun"} => vi # 0 /\ lib
  /\ lp = "fwcfg" => worker = "none"
  /\ lp \in Stopping => hal = "on" /\ vi # 0
  /\ lp \in {"drop", "driver", "term", "reap", "free"} => watcher = "none" /\ ~running
  /\ lp \in {"driver", "term", "reap", "free"} => ~hci
  /\ lp \in {"term", "reap", "free"} => ~uart /\ ~cbacks
  /\ lp = "free" => ~lib

\* What exists without what.
PartsInv ==
  /\ vi = 0 => ~lib
  /\ ~lib => worker = "none" /\ ~uart /\ ~cbacks /\ ~hci /\ ~running /\ watcher = "none"
  /\ running => watcher \notin {"none", "exited"}
  /\ ~running /\ lp # "join" => watcher = "none"
  /\ mtx => worker \in {"exit", "fw1", "fw2"}
  /\ hci \/ watcher # "none" => uart
  /\ ~uart => due = <<>> /\ rx = <<>>

ShutdownInv == LooperInv /\ PartsInv

\* The stack queues messages and packets.
LEMMA StackKeepsParts ==
  ASSUME ShutdownInv, Stack
  PROVE  ShutdownInv'
BY DEF ShutdownInv, LooperInv, PartsInv, Stopping, Stack, initialize, close, serviceDied,
       sendDataToController, clientVars, looperVars, ifaceVars, sendVars, timerVars, watchVars,
       lpmVars, workVars, chipVars

\* The looper opens and closes.
LEMMA LooperKeepsParts ==
  ASSUME ShutdownInv, Looper
  PROVE  ShutdownInv'
<1> USE DEF ShutdownInv, LooperInv, PartsInv, Stopping, clientVars, looperVars, ifaceVars, sendVars,
            timerVars, watchVars, lpmVars, workVars, chipVars
<1>1. CASE handleMessage
  BY <1>1 DEF handleMessage, Off
<1>2. CASE OpenFails
  BY <1>2 DEF OpenFails
<1>3. CASE Open
  BY <1>3 DEF Open
<1>4. CASE FwCfgFails \/ FwCfg \/ FwRun
  BY <1>4 DEF FwCfgFails, FwCfg, FwRun
<1>5. CASE StopWatching
  BY <1>5 DEF StopWatching
<1>6. CASE JoinWatcher
  BY <1>6 DEF JoinWatcher
<1>7. CASE DropHci
  BY <1>7 DEF DropHci
<1>8. CASE CloseDriver
  BY <1>8 DEF CloseDriver
<1>9. CASE NotifyThreadExit
  BY <1>9 DEF NotifyThreadExit
<1>10. CASE JoinWorker
  BY <1>10 DEF JoinWorker
<1>11. CASE DeleteInterface
  BY <1>11 DEF DeleteInterface, Off
<1> QED
  BY <1>1, <1>2, <1>3, <1>4, <1>5, <1>6, <1>7, <1>8, <1>9, <1>10, <1>11 DEF Looper, Shutdown

\* The worker runs its script.
LEMMA WorkerKeepsParts ==
  ASSUME ShutdownInv, Worker
  PROVE  ShutdownInv'
<1> USE DEF ShutdownInv, LooperInv, PartsInv, Stopping, clientVars, looperVars, ifaceVars, sendVars,
            timerVars, watchVars, lpmVars, workVars, chipVars
<1>6. CASE CmdStart
  BY <1>6 DEF CmdStart
<1>1. CASE transmit_cb
  BY <1>1 DEF transmit_cb
<1>2. CASE CmdDone \/ CmdTimeout
  BY <1>2 DEF CmdDone, CmdTimeout
<1>3. CASE WorkerExit
  BY <1>3 DEF WorkerExit
<1>4. CASE OnFirmwareConfigured
  BY <1>4 DEF OnFirmwareConfigured
<1>5. CASE StartLowPower
  BY <1>5 DEF StartLowPower
<1> QED
  BY <1>1, <1>2, <1>3, <1>4, <1>5, <1>6 DEF Worker

\* The watcher handles notifications, timeouts and events.
LEMMA WatcherKeepsParts ==
  ASSUME ShutdownInv, Watcher
  PROVE  ShutdownInv'
<1> USE DEF ShutdownInv, LooperInv, PartsInv, Stopping, clientVars, looperVars, ifaceVars, sendVars,
            timerVars, watchVars, lpmVars, workVars, chipVars, WatcherGoes
<1>1. CASE ThreadRoutine \/ Notified \/ TimedOut
  BY <1>1 DEF ThreadRoutine, Notified, TimedOut
<1>2. CASE OnTimeout
  <2>1. CASE TimeoutTest
    BY <2>1 DEF TimeoutTest
  <2>2. CASE TimeoutFlag \/ TimeoutDeassert
    BY <2>2 DEF TimeoutFlag, TimeoutDeassert
  <2>3. CASE TimeoutOff
    BY <2>3 DEF TimeoutOff
  <2>4. CASE TimeoutClear
    BY <2>4 DEF TimeoutClear
  <2> QED
    BY <1>2, <2>1, <2>2, <2>3, <2>4 DEF OnTimeout
<1>3. CASE HandleIncomingEvent
  BY <1>3 DEF HandleIncomingEvent
<1>4. CASE CommonComplete
  <2>1. uart
    BY <1>4 DEF CommonComplete
  <2> QED
    BY <1>4, <2>1 DEF CommonComplete
<1> QED
  BY <1>1, <1>2, <1>3, <1>4 DEF Watcher

\* A packet on its way.
LEMMA SendKeepsParts ==
  ASSUME ShutdownInv, Chip \/ \E t \in Senders : Send(t)
  PROVE  ShutdownInv'
<1> USE DEF ShutdownInv, LooperInv, PartsInv, Stopping, clientVars, looperVars, ifaceVars, sendVars,
            timerVars, watchVars, lpmVars, workVars, chipVars
<1>1. CASE Chip
  BY <1>1 DEF Chip
<1>2. ASSUME NEW t \in Senders, Send(t) PROVE ShutdownInv'
  <2>1. CASE SendTest(t) \/ SendArm(t) \/ SendAssert(t)
    BY <2>1 DEF SendTest, SendArm, SendAssert
  <2>2. CASE SendLook(t) \/ SendFreed(t)
    BY <2>2 DEF SendLook, SendFreed
  <2>3. CASE SendWrite(t)
    BY <2>3 DEF SendWrite
  <2> QED
    BY <1>2, <2>1, <2>2, <2>3 DEF Send
<1> QED
  BY <1>1, <1>2

\* ShutdownInv is an invariant.
LEMMA ShutdownAlways == Spec => []ShutdownInv
<1>1. Init => ShutdownInv
  BY DEF Init, ShutdownInv, LooperInv, PartsInv, Stopping
<1>2. ShutdownInv /\ [Next]_vars => ShutdownInv'
  <2>1. ShutdownInv /\ UNCHANGED vars => ShutdownInv'
    BY DEF ShutdownInv, LooperInv, PartsInv, vars, clientVars, looperVars, ifaceVars, sendVars,
           timerVars, watchVars, lpmVars, workVars, chipVars
  <2> QED
    BY <2>1, StackKeepsParts, LooperKeepsParts, WorkerKeepsParts, WatcherKeepsParts, SendKeepsParts
       DEF Next
<1> QED
  BY <1>1, <1>2, PTL DEF Spec

\* Between two messages the state is On exactly while there is an interface, in
\* whatever order stacks initialise, close, die and come back, overlapping or
\* not: Shutdown() never aborts with "No Vendor interface!" and Initialize()
\* never finds a previous session.
THEOREM StateFollowsInterface == Spec => []InterfaceFollowsState
<1>1. ShutdownInv => InterfaceFollowsState
  BY DEF ShutdownInv, LooperInv, InterfaceFollowsState
<1> QED
  BY <1>1, ShutdownAlways, PTL

\* Once the interface is deleted, nothing of the session is left: both threads
\* were joined, the UART is closed, the library unloaded.
THEOREM ShutdownIsComplete == Spec => []NothingLeftBehind
<1>1. ShutdownInv => NothingLeftBehind
  BY DEF ShutdownInv, PartsInv, NothingLeftBehind
<1> QED
  BY <1>1, ShutdownAlways, PTL

-----------------------------------------------------------------------------
(* Types *)

ClientOK ==
  /\ client \in {"none", "waiting", "ready", "refused", "closed"}
  /\ gen \in 0..MaxInit /\ cb = gen /\ sends \in 0..MaxSends
  /\ told \in 0..MaxInit /\ calm \in BOOLEAN
LooperOK ==
  /\ msgs \in Seq(0..MaxInit) /\ target \in 0..MaxInit
  /\ hal \in {"idle", "on", "off"}
  /\ lp \in {"poll", "open", "fwcfg", "fwrun", "stop", "join", "drop",
             "driver", "term", "reap", "free"}
IfaceOK ==
  vi \in 0..MaxInit /\ complete \in BOOLEAN /\ hci \in BOOLEAN /\ lib \in BOOLEAN
SendOK ==
  /\ snd \in [Senders -> {"idle", "test", "arm", "assert", "look", "write"}]
  /\ self \in 0..MaxInit
TimerOK ==
  pipe \in -1..1 /\ tmo \in BOOLEAN /\ tcb \in {"null", "OnTimeout", "zero"}
WatchOK ==
  /\ running \in BOOLEAN /\ selTmo \in BOOLEAN
  /\ watcher \in {"none", "loop", "select", "exited", "idle?", "flag", "deassert",
                  "off", "clear", "reply"}
LpmOK ==
  deasserted \in BOOLEAN /\ recent \in BOOLEAN /\ lpmMs \in BOOLEAN /\ wake \in BOOLEAN
WorkOK ==
  /\ cbacks \in BOOLEAN /\ wrun \in BOOLEAN /\ mtx \in BOOLEAN
  /\ worker \in {"none", "cmd", "call", "wait", "exit", "fw1", "fw2", "done"}
  /\ left \in 0..NCmds + NCfg
  /\ status \in {"success", "fail", "pending", "terminate"}
  /\ worker \in {"cmd", "call", "wait"} => left >= 1
ChipOK ==
  uart \in BOOLEAN /\ due \in Seq(Senders) /\ rx \in Seq({"success", "fail", "stack"})
\* The event that the watcher hands to the worker is a reply.
ReplyOK == watcher = "reply" => rx # <<>> /\ IsReply(Head(rx))

\* TypeOK by the parts of the service, and what it needs to be inductive: a worker with
\* a command to send has one left.
TypeInv ==
  /\ alive \in BOOLEAN /\ icb \in 0..MaxInit
  /\ ClientOK /\ LooperOK /\ IfaceOK /\ SendOK /\ TimerOK /\ WatchOK /\ LpmOK /\ WorkOK
  /\ ChipOK /\ ReplyOK

\* A part whose variables do not change keeps its types.
LEMMA Frames ==
  /\ ClientOK /\ UNCHANGED clientVars => ClientOK'
  /\ LooperOK /\ UNCHANGED looperVars => LooperOK'
  /\ IfaceOK /\ UNCHANGED ifaceVars => IfaceOK'
  /\ SendOK /\ UNCHANGED sendVars => SendOK'
  /\ TimerOK /\ UNCHANGED timerVars => TimerOK'
  /\ WatchOK /\ UNCHANGED watchVars => WatchOK'
  /\ LpmOK /\ UNCHANGED lpmVars => LpmOK'
  /\ WorkOK /\ UNCHANGED workVars => WorkOK'
  /\ ChipOK /\ UNCHANGED chipVars => ChipOK'
  /\ ReplyOK /\ UNCHANGED watchVars /\ UNCHANGED chipVars => ReplyOK'
<1>1. ClientOK /\ UNCHANGED clientVars => ClientOK'
  BY DEF ClientOK, clientVars
<1>2. LooperOK /\ UNCHANGED looperVars => LooperOK'
  BY DEF LooperOK, looperVars
<1>3. IfaceOK /\ UNCHANGED ifaceVars => IfaceOK'
  BY DEF IfaceOK, ifaceVars
<1>4. SendOK /\ UNCHANGED sendVars => SendOK'
  BY DEF SendOK, sendVars
<1>5. TimerOK /\ UNCHANGED timerVars => TimerOK'
  BY DEF TimerOK, timerVars
<1>6. WatchOK /\ UNCHANGED watchVars => WatchOK'
  BY DEF WatchOK, watchVars
<1>7. LpmOK /\ UNCHANGED lpmVars => LpmOK'
  BY DEF LpmOK, lpmVars
<1>8. WorkOK /\ UNCHANGED workVars => WorkOK'
  BY DEF WorkOK, workVars
<1>9. ChipOK /\ UNCHANGED chipVars => ChipOK'
  BY DEF ChipOK, chipVars
<1>10. ReplyOK /\ UNCHANGED watchVars /\ UNCHANGED chipVars => ReplyOK'
  BY DEF ReplyOK, watchVars, chipVars, IsReply
<1> QED
  BY <1>1, <1>2, <1>3, <1>4, <1>5, <1>6, <1>7, <1>8, <1>9, <1>10

\* The stack's calls.
LEMMA StackTypes ==
  ASSUME TypeInv, Stack
  PROVE  TypeInv'
<1> USE Frames, BtHalAssumption DEF TypeInv, Off
<1>1. CASE initialize
  <2>1. Quiet \in BOOLEAN
    BY DEF Quiet
  <2> QED
    BY <1>1, <2>1 DEF initialize, ClientOK, LooperOK
<1>2. CASE close
  BY <1>2 DEF close, ClientOK, LooperOK
<1>3. CASE serviceDied
  <2>1. msgs' \in Seq(0..MaxInit)
    <3>1. msgs' = msgs \/ msgs' = Append(msgs, 0)
      BY <1>3 DEF serviceDied
    <3>2. 0 \in 0..MaxInit /\ msgs \in Seq(0..MaxInit)
      BY DEF LooperOK
    <3> QED
      BY <3>1, <3>2
  <2> QED
    BY <1>3, <2>1 DEF serviceDied, ClientOK, LooperOK
<1>4. CASE sendDataToController
  <2>1. ClientOK'
    BY <1>4 DEF sendDataToController, ClientOK
  <2>2. SendOK' /\ alive' \in BOOLEAN
    BY <1>4 DEF sendDataToController, SendOK, IfaceOK, Senders, sendVars
  <2> QED
    BY <1>4, <2>1, <2>2 DEF sendDataToController
<1> QED
  BY <1>1, <1>2, <1>3, <1>4 DEF Stack

\* The looper's steps.
LEMMA LooperTypes ==
  ASSUME TypeInv, ShutdownInv, Looper
  PROVE  TypeInv'
<1> USE Frames, BtHalAssumption DEF TypeInv, Off
<1>1. CASE handleMessage
  <2>1. LooperOK'
    BY <1>1 DEF handleMessage, LooperOK
  <2>2. alive' \in BOOLEAN
    BY <1>1 DEF handleMessage
  <2> QED
    BY <1>1, <2>1, <2>2 DEF handleMessage
<1>2. CASE OpenFails
  <2>1. client' \in {client, "refused"} /\ UNCHANGED <<gen, cb, sends, told, calm>>
    BY <1>2 DEF OpenFails, Answer
  <2>2. ClientOK'
    BY <2>1 DEF ClientOK
  <2>3. IfaceOK' /\ cbacks' \in BOOLEAN
    BY <1>2 DEF OpenFails, IfaceOK, WorkOK, LooperOK
  <2>4. WorkOK'
    BY <1>2, <2>3 DEF OpenFails, WorkOK
  <2>5. LooperOK'
    BY <1>2 DEF OpenFails, LooperOK
  <2> QED
    BY <1>2, <2>2, <2>3, <2>4, <2>5 DEF OpenFails
<1>3. CASE Open
  <2>1. LooperOK' /\ IfaceOK'
    BY <1>3 DEF Open, LooperOK, IfaceOK
  <2>2. WorkOK' /\ WatchOK'
    BY <1>3 DEF Open, WorkOK, WatchOK
  <2>3. ChipOK' /\ LpmOK'
    BY <1>3 DEF Open, ChipOK, LpmOK
  <2>4. TimerOK' /\ ReplyOK'
    BY <1>3 DEF Open, TimerOK, ReplyOK
  <2> QED
    BY <1>3, <2>1, <2>2, <2>3, <2>4 DEF Open
<1>4. CASE FwCfgFails
  BY <1>4 DEF FwCfgFails, LooperOK
<1>5. CASE FwCfg
  <2>1. LooperOK'
    BY <1>5 DEF FwCfg, LooperOK
  <2>2. WorkOK'
    BY <1>5 DEF FwCfg, WorkOK
  <2> QED
    BY <1>5, <2>1, <2>2 DEF FwCfg
<1>6. CASE FwRun
  <2>1. LooperOK' /\ WorkOK'
    BY <1>6 DEF FwRun, LooperOK, WorkOK
  <2> QED
    BY <1>6, <2>1 DEF FwRun
<1>7. CASE StopWatching
  <2>1. LooperOK' /\ TimerOK'
    BY <1>7 DEF StopWatching, LooperOK, TimerOK
  <2>2. WatchOK' /\ ReplyOK'
    BY <1>7 DEF StopWatching, WatchOK, ReplyOK, chipVars
  <2> QED
    BY <1>7, <2>1, <2>2 DEF StopWatching
<1>8. CASE JoinWatcher
  <2>1. LooperOK' /\ TimerOK'
    BY <1>8 DEF JoinWatcher, LooperOK, TimerOK
  <2>2. WatchOK' /\ ReplyOK'
    BY <1>8 DEF JoinWatcher, WatchOK, ReplyOK
  <2> QED
    BY <1>8, <2>1, <2>2 DEF JoinWatcher
<1>9. CASE DropHci
  <2>1. LooperOK' /\ IfaceOK'
    BY <1>9 DEF DropHci, LooperOK, IfaceOK
  <2> QED
    BY <1>9, <2>1 DEF DropHci
<1>10. CASE CloseDriver
  <2>1. LooperOK'
    BY <1>10 DEF CloseDriver, LooperOK
  <2>2. WorkOK'
    BY <1>10 DEF CloseDriver, WorkOK
  <2>3. ChipOK'
    <3>1. uart' \in BOOLEAN
      BY <1>10 DEF CloseDriver
    <3>2. due' = <<>> /\ rx' = <<>>
      BY <1>10 DEF CloseDriver
    <3>3. due' \in Seq(Senders) /\ rx' \in Seq({"success", "fail", "stack"})
      BY ONLY <3>2
    <3> QED
      BY ONLY <3>1, <3>3 DEF ChipOK
  <2>4. ReplyOK'
    BY <1>10 DEF CloseDriver, ShutdownInv, LooperInv, ReplyOK, watchVars
  <2> QED
    BY <1>10, <2>1, <2>2, <2>3, <2>4 DEF CloseDriver
<1>11. CASE NotifyThreadExit
  <2>1. LooperOK' /\ WorkOK'
    BY <1>11 DEF NotifyThreadExit, LooperOK, WorkOK
  <2> QED
    BY <1>11, <2>1 DEF NotifyThreadExit
<1>12. CASE JoinWorker
  <2>1. LooperOK'
    BY <1>12 DEF JoinWorker, LooperOK
  <2>2. WorkOK'
    <3>1. wrun' \in BOOLEAN
      BY <1>12 DEF JoinWorker
    <3>2. cbacks' \in BOOLEAN /\ mtx' \in BOOLEAN
      BY <1>12 DEF JoinWorker, WorkOK
    <3>3. worker' = "none" /\ left' = 0 /\ status' = "success"
      BY <1>12 DEF JoinWorker
    <3>4. left' \in 0..NCmds + NCfg
      BY ONLY <3>3, BtHalAssumption
    <3> QED
      BY ONLY <3>1, <3>2, <3>3, <3>4 DEF WorkOK
  <2>3. IfaceOK'
    BY <1>12 DEF JoinWorker, IfaceOK
  <2> QED
    BY <1>12, <2>1, <2>2, <2>3 DEF JoinWorker
<1>13. CASE DeleteInterface
  <2>1. LooperOK'
    BY <1>13 DEF DeleteInterface, LooperOK
  <2>2. IfaceOK'
    <3>1. complete' \in BOOLEAN /\ hci' \in BOOLEAN /\ lib' \in BOOLEAN
      BY <1>13 DEF DeleteInterface, IfaceOK
    <3>2. vi' = 0
      BY <1>13 DEF DeleteInterface
    <3>3. vi' \in 0..MaxInit
      BY ONLY <3>2, BtHalAssumption
    <3> QED
      BY ONLY <3>1, <3>3 DEF IfaceOK
  <2>3. TimerOK'
    BY <1>13 DEF DeleteInterface, TimerOK
  <2>4. WatchOK' /\ ReplyOK'
    BY <1>13 DEF DeleteInterface, WatchOK, ReplyOK, chipVars
  <2> QED
    BY <1>13, <2>1, <2>2, <2>3, <2>4 DEF DeleteInterface
<1> QED
  BY <1>1, <1>2, <1>3, <1>4, <1>5, <1>6, <1>7, <1>8, <1>9, <1>10, <1>11, <1>12, <1>13
     DEF Looper, Shutdown

\* A worker that is running has its types kept by what it changes of them.
LEMMA WorkerTypes ==
  ASSUME TypeInv, Worker
  PROVE  TypeInv'
<1> USE Frames, BtHalAssumption DEF TypeInv
<1>1. CASE CmdStart
  <2>1. WorkOK'
    BY <1>1 DEF CmdStart, WorkOK
  <2> QED
    BY <1>1, <2>1 DEF CmdStart
<1>2. CASE transmit_cb
  <2>1. WorkOK'
    BY <1>2 DEF transmit_cb, WorkOK
  <2>2. SendOK'
    BY <1>2 DEF transmit_cb, SendOK, Senders
  <2>3. alive' \in BOOLEAN /\ icb' \in 0..MaxInit
    BY <1>2 DEF transmit_cb, WorkOK, IfaceOK
  <2> QED
    BY <1>2, <2>1, <2>2, <2>3 DEF transmit_cb
<1>3. CASE CmdDone
  <2>1. left' \in 0..NCmds + NCfg
    BY <1>3 DEF CmdDone, WorkOK
  <2>2. worker' = "exit" \/ (worker' = "cmd" /\ left > 1 /\ left' = left - 1)
    BY <1>3 DEF CmdDone
  <2>3. worker' = "cmd" => left' >= 1
    BY <2>2 DEF WorkOK
  <2>4. WorkOK'
    BY <1>3, <2>1, <2>2, <2>3 DEF CmdDone, WorkOK
  <2> QED
    BY <1>3, <2>4 DEF CmdDone
<1>4. CASE CmdTimeout
  <2>1. WorkOK'
    BY <1>4 DEF CmdTimeout, WorkOK
  <2> QED
    BY <1>4, <2>1 DEF CmdTimeout
<1>5. CASE WorkerExit
  <2>1. WorkOK'
    BY <1>5 DEF WorkerExit, WorkOK
  <2> QED
    BY <1>5, <2>1 DEF WorkerExit
<1>6. CASE OnFirmwareConfigured
  <2>1. client' \in {client, "ready"} /\ told' \in {told, vi} /\ UNCHANGED <<gen, cb, sends, calm>>
    BY <1>6 DEF OnFirmwareConfigured, Answer
  <2>2. ClientOK'
    BY <2>1 DEF ClientOK, IfaceOK
  <2>3. IfaceOK'
    BY <1>6 DEF OnFirmwareConfigured, IfaceOK
  <2>4. WorkOK'
    BY <1>6 DEF OnFirmwareConfigured, WorkOK
  <2>5. alive' \in BOOLEAN
    BY <1>6 DEF OnFirmwareConfigured, WorkOK, IfaceOK, ScriptDone
  <2> QED
    BY <1>6, <2>2, <2>3, <2>4, <2>5 DEF OnFirmwareConfigured
<1>7. CASE StartLowPower
  <2>1. WorkOK'
    BY <1>7 DEF StartLowPower, WorkOK
  <2>2. LpmOK'
    BY <1>7 DEF StartLowPower, LpmOK
  <2>3. TimerOK'
    BY <1>7 DEF StartLowPower, ConfigureTimeout, TimerOK
  <2> QED
    BY <1>7, <2>1, <2>2, <2>3 DEF StartLowPower
<1> QED
  BY <1>1, <1>2, <1>3, <1>4, <1>5, <1>6, <1>7 DEF Worker

\* The watcher's steps; the status it sets is the reply that it took.
LEMMA WatcherTypes ==
  ASSUME TypeInv, Watcher
  PROVE  TypeInv'
<1> USE Frames, BtHalAssumption DEF TypeInv, WatcherGoes
<1>1. CASE ThreadRoutine
  <2>1. WatchOK' /\ ReplyOK'
    BY <1>1 DEF ThreadRoutine, WatchOK, TimerOK, ReplyOK
  <2> QED
    BY <1>1, <2>1 DEF ThreadRoutine
<1>2. CASE Notified
  <2>1. WatchOK' /\ ReplyOK'
    BY <1>2 DEF Notified, WatchOK, ReplyOK
  <2>2. TimerOK'
    BY <1>2 DEF Notified, TimerOK
  <2> QED
    BY <1>2, <2>1, <2>2 DEF Notified
<1>3. CASE TimedOut
  <2>1. WatchOK' /\ ReplyOK'
    BY <1>3 DEF TimedOut, WatchOK, ReplyOK
  <2> QED
    BY <1>3, <2>1 DEF TimedOut
<1>4. CASE TimeoutTest
  <2>1. WatchOK' /\ ReplyOK'
    BY <1>4 DEF TimeoutTest, WatchOK, ReplyOK
  <2> QED
    BY <1>4, <2>1 DEF TimeoutTest
<1>5. CASE TimeoutFlag
  <2>1. WatchOK' /\ ReplyOK' /\ LpmOK'
    BY <1>5 DEF TimeoutFlag, WatchOK, ReplyOK, LpmOK
  <2> QED
    BY <1>5, <2>1 DEF TimeoutFlag
<1>6. CASE TimeoutDeassert
  <2>1. WatchOK' /\ ReplyOK' /\ LpmOK'
    BY <1>6 DEF TimeoutDeassert, WatchOK, ReplyOK, LpmOK
  <2> QED
    BY <1>6, <2>1 DEF TimeoutDeassert
<1>7. CASE TimeoutOff
  <2>1. WatchOK' /\ ReplyOK'
    BY <1>7 DEF TimeoutOff, WatchOK, ReplyOK
  <2>2. TimerOK'
    <3>1. tmo' \in BOOLEAN
      BY <1>7 DEF TimeoutOff, ConfigureTimeout
    <3>2. tcb' = "zero" /\ (pipe' = pipe \/ pipe' = 1)
      BY <1>7 DEF TimeoutOff, ConfigureTimeout
    <3>3. pipe' \in -1..1
      BY <3>2 DEF TimerOK
    <3> QED
      BY ONLY <3>1, <3>2, <3>3 DEF TimerOK
  <2> QED
    BY <1>7, <2>1, <2>2 DEF TimeoutOff
<1>8. CASE TimeoutClear
  <2>1. WatchOK' /\ ReplyOK' /\ LpmOK'
    BY <1>8 DEF TimeoutClear, WatchOK, ReplyOK, LpmOK
  <2> QED
    BY <1>8, <2>1 DEF TimeoutClear
<1>9. CASE HandleIncomingEvent
  <2>1. WatchOK'
    BY <1>9 DEF HandleIncomingEvent, WatchOK
  <2>2. ReplyOK'
    BY <1>9 DEF HandleIncomingEvent, ReplyOK, IsReply
  <2>3. icb' \in 0..MaxInit
    BY <1>9 DEF HandleIncomingEvent
  <2>4. ChipOK'
    <3>1. rx # <<>> /\ rx' \in {rx, Tail(rx)} /\ UNCHANGED <<uart, due>>
      BY <1>9 DEF HandleIncomingEvent
    <3>2. uart \in BOOLEAN /\ due \in Seq(Senders) /\ rx \in Seq({"success", "fail", "stack"})
      BY DEF ChipOK
    <3>3. rx' \in Seq({"success", "fail", "stack"})
      BY ONLY <3>1, <3>2
    <3> QED
      BY ONLY <3>1, <3>2, <3>3 DEF ChipOK
  <2> QED
    BY <1>9, <2>1, <2>2, <2>3, <2>4 DEF HandleIncomingEvent
<1>10. CASE CommonComplete
  <2>1. WatchOK' /\ ReplyOK'
    BY <1>10 DEF CommonComplete, WatchOK, ReplyOK
  <2>2. ChipOK'
    BY <1>10 DEF CommonComplete, ReplyOK, ChipOK
  <2>3. status' \in {"success", "fail"}
    BY <1>10 DEF CommonComplete, ReplyOK, IsReply
  <2>4. WorkOK'
    BY <1>10, <2>3 DEF CommonComplete, WorkOK
  <2> QED
    BY <1>10, <2>1, <2>2, <2>4 DEF CommonComplete
<1> QED
  BY <1>1, <1>2, <1>3, <1>4, <1>5, <1>6, <1>7, <1>8, <1>9, <1>10 DEF Watcher, OnTimeout

\* The chip's answers.
LEMMA ChipTypes ==
  ASSUME TypeInv, Chip
  PROVE  TypeInv'
<1> USE Frames, BtHalAssumption DEF TypeInv
<1>1. PICK e \in {"success", "fail", "stack"} : rx' = Append(rx, e)
  BY DEF Chip
<1>2. ChipOK'
  BY <1>1 DEF Chip, ChipOK
<1>3. ReplyOK'
  BY <1>1 DEF Chip, ChipOK, ReplyOK, IsReply, watchVars
<1> QED
  BY <1>2, <1>3 DEF Chip

\* The steps of Send().
LEMMA SendTypes ==
  ASSUME TypeInv, NEW t \in Senders, Send(t)
  PROVE  TypeInv'
<1> USE Frames, BtHalAssumption DEF TypeInv
<1>1. ASSUME SendReturns(t) PROVE SendOK'
  <2>1. self' \in 0..MaxInit
    <3>1. self' = 0 \/ self' = self
      BY <1>1 DEF SendReturns
    <3>2. 0 \in 0..MaxInit
      OBVIOUS
    <3> QED
      BY <3>1, <3>2 DEF SendOK
  <2> QED
    BY <1>1, <2>1 DEF SendReturns, SendOK
<1>2. CASE SendTest(t)
  <2>1. SendOK' /\ LpmOK'
    BY <1>2 DEF SendTest, SendOK, LpmOK
  <2> QED
    BY <1>2, <2>1 DEF SendTest
<1>3. CASE SendArm(t)
  <2>1. SendOK'
    BY <1>3 DEF SendArm, SendOK
  <2>2. TimerOK'
    BY <1>3 DEF SendArm, ConfigureTimeout, TimerOK, LpmOK
  <2> QED
    BY <1>3, <2>1, <2>2 DEF SendArm
<1>4. CASE SendAssert(t)
  <2>1. SendOK' /\ LpmOK'
    BY <1>4 DEF SendAssert, SendOK, LpmOK
  <2> QED
    BY <1>4, <2>1 DEF SendAssert
<1>5. CASE SendLook(t)
  <2>1. SendOK'
    BY <1>1, <1>5 DEF SendLook, SendOK
  <2> QED
    BY <1>5, <2>1 DEF SendLook
<1>6. CASE SendWrite(t)
  <2>1. SendOK'
    BY <1>1, <1>6 DEF SendWrite
  <2>2. ChipOK' /\ ReplyOK'
    BY <1>6 DEF SendWrite, ChipOK, ReplyOK, IsReply, watchVars
  <2> QED
    BY <1>6, <2>1, <2>2 DEF SendWrite
<1>7. CASE SendFreed(t)
  <2>1. SendOK'
    BY <1>1, <1>7 DEF SendFreed
  <2> QED
    BY <1>7, <2>1 DEF SendFreed
<1> QED
  BY <1>2, <1>3, <1>4, <1>5, <1>6, <1>7 DEF Send

\* TypeInv is an invariant.
LEMMA TypeAlways == Spec => []TypeInv
<1>1. Init => TypeInv
  <2> SUFFICES ASSUME Init PROVE TypeInv
    OBVIOUS
  <2>1. /\ {complete, hci, lib, running, selTmo, tmo, deasserted, recent, lpmMs, wake} \subseteq BOOLEAN
        /\ {alive, cbacks, wrun, mtx, uart, calm} \subseteq BOOLEAN
    BY DEF Init
  <2>2. /\ client = "none" /\ gen = 0 /\ cb = 0 /\ sends = 0 /\ told = 0
        /\ msgs = <<>> /\ hal = "idle" /\ lp = "poll" /\ target = 0
        /\ vi = 0 /\ snd = [t \in Senders |-> "idle"] /\ self = 0
        /\ watcher = "none" /\ pipe = -1 /\ tcb = "null" /\ icb = 0
        /\ worker = "none" /\ left = 0 /\ status = "success"
        /\ due = <<>> /\ rx = <<>>
    BY DEF Init
  <2>3. 0 \in 0..MaxInit /\ 0 \in 0..MaxSends /\ 0 \in 0..NCmds + NCfg /\ -1 \in -1..1
    BY BtHalAssumption
  <2>4. ClientOK /\ SendOK
    BY ONLY <2>1, <2>2, <2>3 DEF ClientOK, SendOK
  <2>5. LooperOK
    BY ONLY <2>2, <2>3 DEF LooperOK
  <2>6. IfaceOK /\ LpmOK
    BY ONLY <2>1, <2>2, <2>3 DEF IfaceOK, LpmOK
  <2>7. TimerOK /\ WatchOK
    BY ONLY <2>1, <2>2, <2>3 DEF TimerOK, WatchOK
  <2>8. WorkOK
    BY ONLY <2>1, <2>2, <2>3 DEF WorkOK
  <2>9. ChipOK /\ ReplyOK
    BY ONLY <2>1, <2>2 DEF ChipOK, ReplyOK
  <2> QED
    BY ONLY <2>1, <2>2, <2>3, <2>4, <2>5, <2>6, <2>7, <2>8, <2>9 DEF TypeInv
<1>2. TypeInv /\ ShutdownInv /\ [Next]_vars => TypeInv'
  <2>1. TypeInv /\ UNCHANGED vars => TypeInv'
    BY Frames DEF TypeInv, vars
  <2> QED
    BY <2>1, StackTypes, LooperTypes, WorkerTypes, WatcherTypes, ChipTypes, SendTypes DEF Next
<1> QED
  BY <1>1, <1>2, ShutdownAlways, PTL DEF Spec

\* Every variable of the service keeps its type, whatever the bounds.
THEOREM TypeCorrect == Spec => []TypeOK
<1>1. TypeInv => TypeOK
  <2> SUFFICES ASSUME TypeInv PROVE TypeOK
    OBVIOUS
  <2>1. {alive, complete, hci, lib, running, tmo, selTmo, deasserted, recent, lpmMs,
         wake, cbacks, wrun, mtx, uart, calm} \subseteq BOOLEAN
    BY DEF TypeInv, ClientOK, IfaceOK, TimerOK, WatchOK, LpmOK, WorkOK, ChipOK
  <2>2. {vi, self, icb, told} \subseteq 0..MaxInit
    BY DEF TypeInv, ClientOK, IfaceOK, SendOK
  <2> QED
    BY <2>1, <2>2 DEF TypeOK, TypeInv, ClientOK, LooperOK, SendOK, TimerOK, WatchOK, WorkOK, ChipOK
<1> QED
  BY <1>1, TypeAlways, PTL

-----------------------------------------------------------------------------
(* Replies to the init script *)

\* A command of the script waits for the chip's answer; its answer is in the UART.
Due == \E i \in 1..Len(due) : due[i] = "worker"
Rx  == \E i \in 1..Len(rx) : IsReply(rx[i])

\* There is one such command at a time.
OneDue == \A i, j \in 1..Len(due) : due[i] = "worker" /\ due[j] = "worker" => i = j
OneRx  == \A i, j \in 1..Len(rx) : IsReply(rx[i]) /\ IsReply(rx[j]) => i = j

\* The worker's command is being sent, is due, or is answered, and one of these only;
\* the callback set for it is there until the watcher takes the answer.  The worker
\* sends no other command before it has seen that answer, also after its two seconds
\* passed or it was told to end.
ReplyInv ==
  /\ OneDue /\ OneRx /\ ~(Due /\ Rx)
  /\ Due => icb = vi /\ vi # 0
  /\ Rx => (icb = vi /\ vi # 0) \/ watcher = "reply"
  /\ Due \/ Rx => worker \notin {"none", "cmd", "call"} /\ snd["worker"] = "idle"
  /\ (Due \/ Rx) /\ worker = "wait" => status \in {"pending", "terminate"}
  /\ snd["worker"] # "idle" => /\ worker = "wait" /\ status \in {"pending", "terminate"}
                               /\ icb = vi /\ vi # 0
  /\ worker = "call" => status \in {"pending", "terminate"}

\* What a step does to the packets the chip has to answer ...
LEMMA DueSteps ==
  ASSUME ChipOK
  PROVE  /\ UNCHANGED due => (Due' <=> Due) /\ (OneDue' <=> OneDue)
         /\ due = <<>> => ~Due
         /\ due' = <<>> => ~Due' /\ OneDue'
         /\ due # <<>> /\ due' = Tail(due) /\ OneDue =>
              /\ OneDue'
              /\ Due' => Due /\ Head(due) # "worker"
              /\ Head(due) = "worker" => Due
         /\ \A t \in Senders : due' = Append(due, t) =>
              /\ Due' => Due \/ t = "worker"
              /\ OneDue /\ (t = "worker" => ~Due) => OneDue'
<1> USE DEF ChipOK, Due, OneDue
<1>1. UNCHANGED due => (Due' <=> Due) /\ (OneDue' <=> OneDue)
  OBVIOUS
<1>2. (due = <<>> => ~Due) /\ (due' = <<>> => ~Due' /\ OneDue')
  OBVIOUS
<1>3. ASSUME due # <<>>, due' = Tail(due), OneDue
      PROVE  OneDue' /\ (Due' => Due /\ Head(due) # "worker") /\ (Head(due) = "worker" => Due)
  <2>1. Len(due) \in Nat /\ Len(due) > 0 /\ Len(due') = Len(due) - 1 /\ Head(due) = due[1]
    BY <1>3
  <2>2. \A i \in 1..Len(due') : i + 1 \in 1..Len(due) /\ due'[i] = due[i + 1]
    BY <1>3, <2>1
  <2>3. OneDue'
    <3>1. SUFFICES ASSUME NEW i \in 1..Len(due'), NEW j \in 1..Len(due'),
                          due'[i] = "worker", due'[j] = "worker"
                   PROVE  i = j
      OBVIOUS
    <3>2. i + 1 = j + 1
      BY <1>3, <2>2, <3>1
    <3> QED
      BY <3>2
  <2>4. ASSUME Due' PROVE Due /\ Head(due) # "worker"
    <3>1. PICK i \in 1..Len(due') : due'[i] = "worker"
      BY <2>4
    <3>2. i + 1 \in 1..Len(due) /\ due[i + 1] = "worker"
      BY <2>2, <3>1
    <3>3. 1 \in 1..Len(due) /\ i + 1 # 1
      BY <2>1
    <3> QED
      BY <1>3, <2>1, <3>2, <3>3
  <2>5. Head(due) = "worker" => Due
    BY <2>1
  <2> QED
    BY <2>3, <2>4, <2>5
<1>4. ASSUME NEW t \in Senders, due' = Append(due, t)
      PROVE  /\ Due' => Due \/ t = "worker"
             /\ OneDue /\ (t = "worker" => ~Due) => OneDue'
  <2>1. /\ Len(due) \in Nat /\ Len(due') = Len(due) + 1 /\ due'[Len(due) + 1] = t
        /\ \A i \in 1..Len(due) : due'[i] = due[i]
    BY <1>4
  <2>2. \A i \in 1..Len(due') : i \in 1..Len(due) \/ i = Len(due) + 1
    BY <2>1
  <2> QED
    BY <2>1, <2>2
<1> QED
  BY <1>1, <1>2, <1>3, <1>4

\* ... and to the events in the UART.
LEMMA RxSteps ==
  ASSUME ChipOK
  PROVE  /\ UNCHANGED rx => (Rx' <=> Rx) /\ (OneRx' <=> OneRx)
         /\ rx = <<>> => ~Rx
         /\ rx' = <<>> => ~Rx' /\ OneRx'
         /\ rx # <<>> /\ rx' = Tail(rx) /\ OneRx =>
              /\ OneRx'
              /\ Rx' => Rx /\ ~IsReply(Head(rx))
         /\ rx # <<>> /\ IsReply(Head(rx)) => Rx
         /\ \A e \in {"success", "fail", "stack"} : rx' = Append(rx, e) =>
              /\ Rx' => Rx \/ IsReply(e)
              /\ OneRx /\ (IsReply(e) => ~Rx) => OneRx'
<1> USE DEF ChipOK, Rx, OneRx
<1>1. UNCHANGED rx => (Rx' <=> Rx) /\ (OneRx' <=> OneRx)
  BY DEF IsReply
<1>2. (rx = <<>> => ~Rx) /\ (rx' = <<>> => ~Rx' /\ OneRx')
  BY DEF IsReply
<1>3. ASSUME rx # <<>>, rx' = Tail(rx), OneRx
      PROVE  OneRx' /\ (Rx' => Rx /\ ~IsReply(Head(rx)))
  <2>1. Len(rx) \in Nat /\ Len(rx) > 0 /\ Len(rx') = Len(rx) - 1 /\ Head(rx) = rx[1]
    BY <1>3
  <2>2. \A i \in 1..Len(rx') : i + 1 \in 1..Len(rx) /\ rx'[i] = rx[i + 1]
    BY <1>3, <2>1
  <2>3. OneRx'
    <3>1. SUFFICES ASSUME NEW i \in 1..Len(rx'), NEW j \in 1..Len(rx'),
                          IsReply(rx'[i]), IsReply(rx'[j])
                   PROVE  i = j
      BY DEF IsReply
    <3>2. i + 1 = j + 1
      BY <1>3, <2>2, <3>1
    <3> QED
      BY <3>2
  <2>4. ASSUME Rx' PROVE Rx /\ ~IsReply(Head(rx))
    <3>1. PICK i \in 1..Len(rx') : IsReply(rx'[i])
      BY <2>4 DEF IsReply
    <3>2. i + 1 \in 1..Len(rx) /\ IsReply(rx[i + 1])
      BY <2>2, <3>1
    <3>3. 1 \in 1..Len(rx) /\ i + 1 # 1
      BY <2>1
    <3> QED
      BY <1>3, <2>1, <3>2, <3>3
  <2> QED
    BY <2>3, <2>4
<1>4. ASSUME rx # <<>>, IsReply(Head(rx)) PROVE Rx
  <2>1. 1 \in 1..Len(rx) /\ Head(rx) = rx[1]
    BY <1>4
  <2> QED
    BY <1>4, <2>1
<1>5. ASSUME NEW e \in {"success", "fail", "stack"}, rx' = Append(rx, e)
      PROVE  /\ Rx' => Rx \/ IsReply(e)
             /\ OneRx /\ (IsReply(e) => ~Rx) => OneRx'
  <2>1. /\ Len(rx) \in Nat /\ Len(rx') = Len(rx) + 1 /\ rx'[Len(rx) + 1] = e
        /\ \A i \in 1..Len(rx) : rx'[i] = rx[i]
    BY <1>5
  <2>2. \A i \in 1..Len(rx') : i \in 1..Len(rx) \/ i = Len(rx) + 1
    BY <2>1
  <2> QED
    BY <2>1, <2>2 DEF IsReply
<1> QED
  BY <1>1, <1>2, <1>3, <1>4, <1>5

\* The looper and the stack's calls: a queue is dropped only once both threads are joined.
LEMMA LooperKeepsReplies ==
  ASSUME ReplyInv, TypeInv, ShutdownInv, Looper \/ Stack
  PROVE  ReplyInv'
<1> USE DueSteps, RxSteps DEF TypeInv
<1>1. ASSUME vi = 0 PROVE worker = "none" /\ ~Due /\ ~Rx /\ snd["worker"] = "idle"
  BY <1>1 DEF ShutdownInv, PartsInv, ReplyInv
<1>2. CASE \/ /\ UNCHANGED <<vi, icb, watcher, worker, status, due, rx>>
              /\ snd'["worker"] = snd["worker"]
           \/ /\ vi = 0
              /\ UNCHANGED <<worker, due, rx, snd>>
  BY <1>1, <1>2 DEF ReplyInv
<1>3. CASE Stack
  <2>1. UNCHANGED <<vi, icb, watcher, worker, status, due, rx>> /\ snd'["worker"] = snd["worker"]
    BY <1>3 DEF Stack, initialize, close, serviceDied, sendDataToController, ifaceVars, watchVars,
                workVars, chipVars, sendVars, SendOK, Senders
  <2> QED
    BY <1>2, <2>1
<1>4. CASE handleMessage \/ FwCfgFails \/ FwRun \/ StopWatching \/ DropHci
  <2>1. UNCHANGED <<vi, icb, watcher, worker, status, due, rx, snd>>
    BY <1>4 DEF handleMessage, FwCfgFails, FwRun, StopWatching, DropHci,
                ifaceVars, watchVars, workVars, chipVars, sendVars
  <2> QED
    BY <1>2, <2>1
<1>5. CASE OpenFails \/ Open
  <2>1. vi = 0 /\ UNCHANGED <<worker, due, rx, snd>>
    BY <1>5 DEF OpenFails, Open, ShutdownInv, LooperInv, chipVars, sendVars
  <2> QED
    BY <1>2, <2>1
<1>6. CASE FwCfg
  <2>1. worker = "none" /\ worker' = "cmd" /\ UNCHANGED <<vi, icb, watcher, status, due, rx, snd>>
    BY <1>6 DEF FwCfg, ShutdownInv, LooperInv, ifaceVars, watchVars, chipVars, sendVars
  <2> QED
    BY <2>1 DEF ReplyInv
<1>7. CASE JoinWatcher
  <2>1. watcher = "exited" /\ watcher' = "none" /\ UNCHANGED <<vi, icb, worker, status, due, rx, snd>>
    BY <1>7 DEF JoinWatcher, ifaceVars, workVars, chipVars, sendVars
  <2> QED
    BY <2>1 DEF ReplyInv
<1>8. CASE CloseDriver
  <2>1. due' = <<>> /\ rx' = <<>> /\ UNCHANGED <<vi, icb, watcher, worker, status, snd>>
    BY <1>8 DEF CloseDriver, ifaceVars, watchVars, sendVars
  <2> QED
    BY <2>1 DEF ReplyInv
<1>9. CASE NotifyThreadExit
  <2>1. status' \in {status, "terminate"} /\ UNCHANGED <<vi, icb, watcher, worker, due, rx, snd>>
    BY <1>9 DEF NotifyThreadExit, ifaceVars, watchVars, chipVars, sendVars
  <2> QED
    BY <2>1 DEF ReplyInv
<1>10. CASE JoinWorker
  <2>1. due = <<>> /\ rx = <<>> /\ snd["worker"] = "idle"
    BY <1>10 DEF JoinWorker, ShutdownInv, LooperInv, PartsInv, ReplyInv
  <2>2. worker' = "none" /\ UNCHANGED <<due, rx, snd>>
    BY <1>10 DEF JoinWorker, chipVars, sendVars
  <2> QED
    BY <2>1, <2>2 DEF ReplyInv
<1>11. CASE DeleteInterface
  <2>1. worker = "none" /\ due = <<>> /\ rx = <<>> /\ snd["worker"] = "idle"
    BY <1>11 DEF DeleteInterface, ShutdownInv, LooperInv, PartsInv, ReplyInv
  <2>2. UNCHANGED <<worker, due, rx, snd>>
    BY <1>11 DEF DeleteInterface, workVars, chipVars, sendVars
  <2> QED
    BY <2>1, <2>2 DEF ReplyInv
<1> QED
  BY <1>3, <1>4, <1>5, <1>6, <1>7, <1>8, <1>9, <1>10, <1>11 DEF Looper, Shutdown

\* The worker sets the callback before it sends, and waits for the answer.
LEMMA WorkerKeepsReplies ==
  ASSUME ReplyInv, TypeInv, ShutdownInv, Worker
  PROVE  ReplyInv'
<1> USE DueSteps, RxSteps DEF TypeInv
<1>1. CASE CmdStart
  <2>1. /\ worker = "cmd" /\ worker' \in {"exit", "call"} /\ status' \in {"pending", "terminate"}
        /\ UNCHANGED <<vi, icb, watcher, due, rx, snd>>
    BY <1>1 DEF CmdStart, ifaceVars, watchVars, chipVars, sendVars
  <2> QED
    BY <2>1 DEF ReplyInv
<1>2. CASE transmit_cb
  <2>1. vi # 0
    BY <1>2 DEF transmit_cb, ShutdownInv, PartsInv
  <2>2. /\ worker = "call" /\ worker' = "wait" /\ icb' = vi
        /\ UNCHANGED <<vi, watcher, status, due, rx>>
    BY <1>2 DEF transmit_cb, ifaceVars, watchVars, chipVars
  <2> QED
    BY <2>1, <2>2 DEF ReplyInv
<1>3. CASE CmdDone
  <2>1. /\ worker = "wait" /\ snd["worker"] = "idle" /\ status # "pending"
        /\ worker' = "exit" \/ (worker' = "cmd" /\ status = "success")
        /\ UNCHANGED <<vi, icb, watcher, status, due, rx, snd>>
    BY <1>3 DEF CmdDone, ifaceVars, watchVars, chipVars, sendVars
  <2> QED
    BY <2>1 DEF ReplyInv
<1>4. CASE CmdTimeout \/ WorkerExit \/ OnFirmwareConfigured \/ StartLowPower
  <2>1. /\ worker \in {"wait", "exit", "fw1", "fw2"} /\ worker' \in {"exit", "fw1", "fw2", "done"}
        /\ snd["worker"] = "idle"
        /\ UNCHANGED <<vi, icb, watcher, due, rx, snd>>
    BY <1>4 DEF CmdTimeout, WorkerExit, OnFirmwareConfigured, StartLowPower, ReplyInv,
                ifaceVars, watchVars, chipVars, sendVars
  <2> QED
    BY <2>1 DEF ReplyInv
<1> QED
  BY <1>1, <1>2, <1>3, <1>4 DEF Worker

\* The watcher takes the answer and the callback in one step and the worker
\* has sent nothing since.
LEMMA WatcherKeepsReplies ==
  ASSUME ReplyInv, TypeInv, Watcher
  PROVE  ReplyInv'
<1> USE DueSteps, RxSteps DEF TypeInv, WatcherGoes
<1>1. CASE ThreadRoutine \/ Notified \/ TimedOut \/ OnTimeout
  <2>1. watcher # "reply" /\ UNCHANGED <<vi, icb, worker, status, due, rx, snd>>
    BY <1>1 DEF ThreadRoutine, Notified, TimedOut, OnTimeout, TimeoutTest, TimeoutFlag,
                TimeoutDeassert, TimeoutOff, TimeoutClear, ifaceVars, workVars, chipVars, sendVars
  <2> QED
    BY <2>1 DEF ReplyInv
<1>2. CASE HandleIncomingEvent
  <2>1. watcher = "select" /\ rx # <<>> /\ UNCHANGED <<vi, worker, status, due, snd>>
    BY <1>2 DEF HandleIncomingEvent, ifaceVars, workVars, sendVars
  <2>2. CASE IsReply(Head(rx)) /\ watcher' = "reply" /\ UNCHANGED rx
    BY <2>1, <2>2 DEF ReplyInv
  <2>3. CASE rx' = Tail(rx) /\ UNCHANGED icb
    BY <2>1, <2>3 DEF ReplyInv
  <2> QED
    BY <1>2, <2>2, <2>3 DEF HandleIncomingEvent
<1>3. CASE CommonComplete
  <2>1. /\ watcher = "reply" /\ watcher' = "loop" /\ rx' = Tail(rx)
        /\ UNCHANGED <<vi, icb, worker, due, snd>>
    BY <1>3 DEF CommonComplete, ifaceVars, sendVars
  <2>2. rx # <<>> /\ IsReply(Head(rx))
    BY <2>1 DEF ReplyOK
  <2>3. Rx /\ ~Rx' /\ OneRx'
    BY <2>1, <2>2 DEF ReplyInv
  <2>4. ~Due' /\ OneDue'
    BY <2>1, <2>3 DEF ReplyInv
  <2>5. snd'["worker"] = "idle" /\ worker' # "call"
    BY <2>1, <2>3 DEF ReplyInv
  <2> QED
    BY <2>3, <2>4, <2>5 DEF ReplyInv
<1> QED
  BY <1>1, <1>2, <1>3 DEF Watcher

\* A packet is sent or answered.
LEMMA SendKeepsReplies ==
  ASSUME ReplyInv, TypeInv, Chip \/ \E t \in Senders : Send(t)
  PROVE  ReplyInv'
<1> USE DueSteps, RxSteps DEF TypeInv
<1>1. CASE Chip
  <2>1. due # <<>> /\ due' = Tail(due) /\ UNCHANGED <<vi, icb, watcher, worker, status, snd>>
    BY <1>1 DEF Chip, ifaceVars, watchVars, workVars, sendVars
  <2>2. PICK e \in {"success", "fail", "stack"} :
          rx' = Append(rx, e) /\ (IsReply(e) => Head(due) = "worker")
    BY <1>1 DEF Chip, IsReply
  <2>3. OneDue' /\ (Due' => Due /\ Head(due) # "worker") /\ (Head(due) = "worker" => Due)
    BY <2>1 DEF ReplyInv
  <2>4. OneRx' /\ (Rx' => Rx \/ Head(due) = "worker")
    BY <2>2, <2>3 DEF ReplyInv
  <2> QED
    BY <2>1, <2>3, <2>4 DEF ReplyInv
<1>2. ASSUME NEW t \in Senders, Send(t) PROVE ReplyInv'
  <2>1. snd[t] # "idle" /\ UNCHANGED <<vi, icb, watcher, worker, status, rx>>
    BY <1>2 DEF Send, SendTest, SendArm, SendAssert, SendLook, SendWrite, SendFreed,
                ifaceVars, watchVars, workVars, chipVars
  <2>2. t # "worker" => snd'["worker"] = snd["worker"]
    BY <1>2 DEF Send, SendTest, SendArm, SendAssert, SendLook, SendWrite, SendFreed, SendReturns,
                SendOK, Senders
  <2>3. CASE UNCHANGED due
    BY <2>1, <2>2, <2>3 DEF ReplyInv
  <2>4. CASE due' = Append(due, t) /\ snd' = [snd EXCEPT ![t] = "idle"]
    <3>1. CASE t = "worker"
      <4>1. ~Due /\ ~Rx /\ snd'["worker"] = "idle"
        BY <2>1, <2>4, <3>1 DEF ReplyInv, SendOK, Senders
      <4>2. worker = "wait" /\ status \in {"pending", "terminate"} /\ icb = vi /\ vi # 0
        BY <2>1, <3>1 DEF ReplyInv
      <4>3. OneDue' /\ OneRx' /\ ~Rx'
        BY <2>1, <2>4, <4>1 DEF ReplyInv
      <4> QED
        BY <2>1, <4>1, <4>2, <4>3 DEF ReplyInv
    <3>2. CASE t # "worker"
      <4>1. OneDue' /\ (Due' => Due)
        BY <2>4, <3>2 DEF ReplyInv
      <4> QED
        BY <2>1, <2>2, <3>2, <4>1 DEF ReplyInv
    <3> QED
      BY <3>1, <3>2
  <2> QED
    BY <1>2, <2>3, <2>4 DEF Send, SendTest, SendArm, SendAssert, SendLook, SendWrite, SendFreed,
                            SendReturns, chipVars
<1> QED
  BY <1>1, <1>2

\* ReplyInv is an invariant.
LEMMA ReplyAlways == Spec => []ReplyInv
<1>1. Init => ReplyInv
  BY DEF Init, ReplyInv, Due, OneDue, Rx, OneRx, Senders
<1>2. ReplyInv /\ TypeInv /\ ShutdownInv /\ [Next]_vars => ReplyInv'
  <2>1. ReplyInv /\ TypeInv /\ UNCHANGED vars => ReplyInv'
    BY DueSteps, RxSteps DEF TypeInv, ReplyInv, vars, ifaceVars, watchVars, workVars, chipVars, sendVars
  <2> QED
    BY <2>1, LooperKeepsReplies, WorkerKeepsReplies, WatcherKeepsReplies, SendKeepsReplies DEF Next
<1> QED
  BY <1>1, <1>2, TypeAlways, ShutdownAlways, PTL DEF Spec

\* A reply to a command of the init script finds the callback that the worker of this
\* session registered, for any script, any traffic of the stack and any overlap of
\* sessions.
THEOREM ReplyFindsWorker == Spec => []RepliesReachWorker
<1>1. ReplyInv /\ TypeInv => RepliesReachWorker
  BY RxSteps DEF ReplyInv, TypeInv, RepliesReachWorker
<1> QED
  BY <1>1, ReplyAlways, TypeAlways, PTL

-----------------------------------------------------------------------------
(* Sessions: stacks may initialise, close and die while a session opens or closes *)

Active == client \in {"waiting", "ready", "refused"}

\* The last message is the only one of the last session.
LastOnly ==
  /\ msgs # <<>> /\ msgs[Len(msgs)] = gen
  /\ \A i \in 1..Len(msgs) - 1 : msgs[i] # gen
  /\ lp # "poll" => target # gen

\* The On message of an active stack is queued, or the looper handles it and has not
\* opened the interface yet: whatever the stack was told is about another session.
Asked ==
  /\ vi # gen /\ told # gen
  /\ LastOnly \/ (msgs = <<>> /\ lp \in Stopping \cup {"open"} /\ target = gen)

\* The interface was opened for the active stack, which is told so by a worker that runs
\* only with the protocol and the UART open.
Opened ==
  /\ msgs = <<>> /\ vi = gen
  /\ \/ lp \in {"fwcfg", "fwrun"} /\ hci /\ uart
     \/ lp = "poll" /\ hal = "on"
  /\ worker \notin {"none", "done"} \/ (client = "ready" /\ told = gen) => hci /\ uart
  /\ client = "ready" /\ told = gen => ~complete

\* Nothing of an earlier session is left to be done.
Settled ==
  /\ msgs \in Seq({0, gen})
  /\ lp # "poll" => target \in {0, gen}
  /\ lp \in {"fwcfg", "fwrun"} => vi = gen
  /\ vi # gen => worker \in {"none", "done"}
  /\ client = "ready" => told = gen

\* No session is ahead of the last request, an active stack is in one of the two phases,
\* and one that came when all was calm shares the service with no other session.
SessionInv ==
  /\ msgs \in Seq(0..gen)
  /\ target \in 0..gen /\ vi \in 0..gen /\ told \in 0..gen
  /\ calm => Settled
  /\ Active => gen # 0 /\ (Asked \/ Opened)

\* The stack's calls.
LEMMA StackKeepsSession ==
  ASSUME SessionInv, TypeInv, Stack
  PROVE  SessionInv'
<1>0. gen \in Nat
  BY BtHalAssumption DEF TypeInv, ClientOK
<1>1. CASE initialize
  <2>1. /\ calm' = Quiet
        /\ gen' = gen + 1 /\ client' = "waiting" /\ msgs' = Append(msgs, gen + 1)
        /\ UNCHANGED <<lp, target, vi, worker, told>>
    BY <1>1 DEF initialize, ifaceVars, workVars
  <2>2. /\ msgs \in Seq(0..gen) /\ target \in 0..gen /\ vi \in 0..gen /\ told \in 0..gen
    BY DEF SessionInv
  <2>3. /\ gen' # 0 /\ vi' # gen' /\ told' # gen' /\ target' # gen'
        /\ vi' \in 0..gen' /\ told' \in 0..gen' /\ target' \in 0..gen'
        /\ 0..gen \subseteq 0..gen' /\ gen' \in 0..gen'
    BY ONLY <1>0, <2>1, <2>2
  <2>4. msgs' \in Seq(0..gen')
    BY ONLY <2>1, <2>2, <2>3, <1>0
  <2>5. LastOnly'
    <3>1. msgs' # <<>> /\ Len(msgs') = Len(msgs) + 1 /\ msgs'[Len(msgs')] = gen'
      BY ONLY <2>1, <2>2
    <3>2. ASSUME NEW i \in 1..Len(msgs') - 1 PROVE msgs'[i] # gen'
      <4>0. Len(msgs) \in Nat
        BY ONLY <2>2
      <4>1. i \in 1..Len(msgs)
        BY ONLY <3>1, <3>2, <4>0
      <4>2. msgs[i] \in 0..gen
        <5> DEFINE S == 0..gen
        <5>1. msgs \in Seq(S)
          BY <2>2
        <5> HIDE DEF S
        <5>2. msgs[i] \in S
          BY ONLY <5>1, <4>1
        <5> QED
          BY <5>2 DEF S
      <4>3. msgs'[i] = msgs[i]
        BY ONLY <2>1, <2>2, <4>1
      <4> QED
        BY ONLY <4>2, <4>3, <2>1, <1>0
    <3> QED
      BY ONLY <3>1, <3>2, <2>3 DEF LastOnly
  <2>6. calm' => Settled'
    <3> SUFFICES ASSUME Quiet PROVE Settled'
      BY <2>1
    <3>1. msgs = <<>> /\ lp = "poll" /\ worker \in {"none", "done"}
      BY DEF Quiet
    <3>2. gen' \in {0, gen'}
      OBVIOUS
    <3>3. msgs' \in Seq({0, gen'})
      BY ONLY <2>1, <3>1, <3>2
    <3> QED
      BY ONLY <2>1, <3>1, <3>3 DEF Settled
  <2>7. Asked'
    BY ONLY <2>3, <2>5 DEF Asked
  <2> QED
    BY ONLY <2>3, <2>4, <2>6, <2>7 DEF SessionInv
<1>2. CASE close \/ serviceDied
  <2>1. /\ client' \in {"closed", "none"} /\ msgs' \in {msgs, Append(msgs, 0)}
        /\ UNCHANGED <<gen, lp, target, vi, worker, told, calm>>
    BY <1>2 DEF close, serviceDied, Off, ifaceVars, workVars
  <2>2. 0 \in 0..gen /\ 0 \in {0, gen}
    BY <1>0
  <2>3. msgs' \in Seq(0..gen')
    <3>1. msgs \in Seq(0..gen) /\ Append(msgs, 0) \in Seq(0..gen)
      BY ONLY <2>2, SessionInv DEF SessionInv
    <3> QED
      BY ONLY <2>1, <3>1
  <2>4. calm' => Settled'
    BY ONLY <2>1, <2>2, SessionInv DEF SessionInv, Settled
  <2> QED
    BY ONLY <2>1, <2>3, <2>4, SessionInv DEF SessionInv, Active
<1>3. CASE sendDataToController
  <2>1. UNCHANGED <<client, gen, msgs, hal, lp, target, vi, complete, hci, uart, worker,
                    told, calm>>
    BY <1>3 DEF sendDataToController, looperVars, ifaceVars, workVars, chipVars
  <2> QED
    BY ONLY <2>1, SessionInv DEF SessionInv, Active, Asked, Opened, LastOnly, Settled
<1> QED
  BY <1>1, <1>2, <1>3 DEF Stack

\* The looper takes the messages in turn: the last one is still the last, or is handled.
LEMMA MessageTaken ==
  ASSUME gen \in Nat \ {0}, msgs \in Seq(0..gen), LastOnly,
         lp = "poll", msgs' = Tail(msgs), target' = Head(msgs), gen' = gen
  PROVE  LastOnly' \/ (msgs' = <<>> /\ target' = gen)
<1>1. Len(msgs) \in Nat \ {0}
  BY DEF LastOnly
<1>2. CASE Len(msgs) = 1
  BY <1>2 DEF LastOnly
<1>3. CASE Len(msgs) # 1
  <2>0. msgs # <<>> /\ Len(msgs') = Len(msgs) - 1
    BY ONLY <1>1, msgs \in Seq(0..gen), msgs' = Tail(msgs)
  <2>1. Len(msgs) > 1 /\ Len(msgs') = Len(msgs) - 1 /\ msgs' # <<>>
    BY ONLY <1>1, <1>3, <2>0
  <2>2. \A i \in 1..Len(msgs') : msgs'[i] = msgs[i + 1]
    BY <2>1
  <2>3. msgs'[Len(msgs')] = gen
    BY <2>1, <2>2, <1>1 DEF LastOnly
  <2>4. target' # gen
    BY <2>1, <1>1 DEF LastOnly
  <2>5. ASSUME NEW i \in 1..Len(msgs') - 1 PROVE msgs'[i] # gen
    <3>1. i \in 1..Len(msgs') /\ i + 1 \in 1..Len(msgs) - 1
      BY <2>1, <1>1
    <3> QED
      BY <3>1, <2>2 DEF LastOnly
  <2> QED
    BY <2>1, <2>3, <2>4, <2>5 DEF LastOnly
<1> QED
  BY <1>2, <1>3

\* The looper serves the request it handles.
LEMMA LooperKeepsSession ==
  ASSUME SessionInv, TypeInv, ShutdownInv, Looper
  PROVE  SessionInv'
<1>1. gen \in Nat
  BY BtHalAssumption DEF TypeInv, ClientOK
<1>2. CASE handleMessage
  <2>1. /\ lp = "poll" /\ msgs # <<>> /\ msgs' = Tail(msgs) /\ target' = Head(msgs)
        /\ UNCHANGED <<client, gen, hal, vi, complete, hci, uart, worker, told, calm>>
        /\ lp' \in {"poll", "open", "stop"} /\ (target' # 0 => lp' \in {"open", "stop"})
    BY <1>2 DEF handleMessage, Off, clientVars, ifaceVars, chipVars, workVars
  <2>2. msgs' \in Seq(0..gen) /\ target' \in 0..gen
    <3>1. msgs \in Seq(0..gen)
      BY DEF SessionInv
    <3> DEFINE S == 0..gen
    <3> HIDE DEF S
    <3>2. msgs \in Seq(S)
      BY <3>1 DEF S
    <3>3. Tail(msgs) \in Seq(S) /\ Head(msgs) \in S
      BY ONLY <2>1, <3>2
    <3> QED
      BY ONLY <2>1, <3>3 DEF S
  <2>3. ASSUME Active PROVE gen # 0 /\ Asked'
    <3>1. gen # 0 /\ Asked /\ LastOnly
      BY <2>1, <2>3 DEF SessionInv, Asked, Opened, Stopping
    <3>2. LastOnly' \/ (msgs' = <<>> /\ target' = gen)
      BY ONLY <1>1, <2>1, <3>1, SessionInv, MessageTaken DEF SessionInv
    <3>3. target' = gen => lp' \in Stopping \cup {"open"}
      BY ONLY <2>1, <3>1 DEF Stopping
    <3> QED
      BY ONLY <2>1, <3>1, <3>2, <3>3 DEF Asked
  <2>4. calm' => Settled'
    <3> SUFFICES ASSUME calm PROVE Settled'
      BY <2>1
    <3>1. Settled
      BY DEF SessionInv
    <3>2. msgs' \in Seq({0, gen}) /\ target' \in {0, gen}
      BY ONLY <2>1, <3>1 DEF Settled
    <3> QED
      BY ONLY <2>1, <3>1, <3>2 DEF Settled
  <2> QED
    BY ONLY <2>1, <2>2, <2>3, <2>4, SessionInv DEF SessionInv, Active
<1>3. CASE OpenFails
  <2>1. lp = "open" /\ vi = 0 /\ target # 0 /\ worker = "none"
    BY <1>3 DEF OpenFails, ShutdownInv, LooperInv, PartsInv
  <2>2. /\ client' = IF client = "waiting" THEN "refused" ELSE client
        /\ vi' = target /\ hal' = "on" /\ lp' = "poll"
        /\ UNCHANGED <<gen, msgs, target, hci, uart, worker, told, calm>>
    BY <1>3, <2>1 DEF OpenFails, Answer, chipVars
  <2>3. vi' \in 0..gen'
    BY ONLY <2>2, SessionInv DEF SessionInv
  <2>4. calm' => Settled'
    BY ONLY <2>1, <2>2, SessionInv DEF SessionInv, Settled
  <2>5. ASSUME Active PROVE gen' # 0 /\ (Asked' \/ Opened')
    <3>1. gen # 0 /\ Asked
      BY <2>1, <2>5 DEF SessionInv, Opened
    <3>2. CASE LastOnly
      BY ONLY <2>1, <2>2, <3>1, <3>2 DEF Asked, LastOnly
    <3>3. CASE msgs = <<>> /\ target = gen
      BY ONLY <2>1, <2>2, <3>1, <3>3 DEF Asked, Opened
    <3> QED
      BY ONLY <3>1, <3>2, <3>3 DEF Asked
  <2>6. Active' => Active
    BY ONLY <2>2 DEF Active
  <2> QED
    BY ONLY <2>2, <2>3, <2>4, <2>5, <2>6, SessionInv DEF SessionInv
<1>4. CASE Open
  <2>1. lp = "open" /\ vi = 0 /\ target # 0 /\ worker = "none"
    BY <1>4 DEF Open, ShutdownInv, LooperInv, PartsInv
  <2>2. /\ vi' = target /\ hci' /\ uart' /\ lp' = "fwcfg"
        /\ UNCHANGED <<client, gen, msgs, target, worker, told, calm>>
    BY <1>4, <2>1 DEF Open, clientVars
  <2>3. vi' \in 0..gen'
    BY ONLY <2>2, SessionInv DEF SessionInv
  <2>4. calm' => Settled'
    BY ONLY <2>1, <2>2, SessionInv DEF SessionInv, Settled
  <2>5. ASSUME Active PROVE gen' # 0 /\ (Asked' \/ Opened')
    <3>1. gen # 0 /\ Asked
      BY <2>1, <2>5 DEF SessionInv, Opened
    <3>2. CASE LastOnly
      BY ONLY <2>1, <2>2, <3>1, <3>2 DEF Asked, LastOnly
    <3>3. CASE msgs = <<>> /\ target = gen
      BY ONLY <2>1, <2>2, <3>1, <3>3 DEF Asked, Opened
    <3> QED
      BY ONLY <3>1, <3>2, <3>3 DEF Asked
  <2>6. Active' = Active
    BY ONLY <2>2 DEF Active
  <2> QED
    BY ONLY <2>2, <2>3, <2>4, <2>5, <2>6, SessionInv DEF SessionInv
<1>5. CASE FwCfgFails \/ FwCfg \/ FwRun
  <2>1. /\ lp \in {"fwcfg", "fwrun"} /\ (lp' = "fwrun" \/ (lp' = "poll" /\ hal' = "on"))
        /\ UNCHANGED <<client, gen, msgs, target, vi, complete, hci, uart, told, calm>>
    BY <1>5 DEF FwCfgFails, FwCfg, FwRun, clientVars, ifaceVars, chipVars
  <2>2. Active => gen' # 0 /\ (Asked' \/ Opened')
    BY ONLY <2>1, SessionInv DEF SessionInv, Active, Asked, LastOnly, Opened, Stopping
  <2>3. calm' => Settled'
    BY ONLY <2>1, SessionInv DEF SessionInv, Settled
  <2>4. Active' = Active
    BY ONLY <2>1 DEF Active
  <2> QED
    BY ONLY <2>1, <2>2, <2>3, <2>4, SessionInv DEF SessionInv
<1>6. CASE Shutdown
  <2>1. /\ lp \in Stopping /\ lp' \in Stopping \cup {"open", "poll"}
        /\ lp' = "poll" => target = 0
        /\ vi' = vi \/ (vi' = 0 /\ worker' = "none")
        /\ worker' \in {worker, "none"}
        /\ UNCHANGED <<client, gen, msgs, target, told, calm>>
    BY <1>6 DEF Shutdown, StopWatching, JoinWatcher, DropHci, CloseDriver, NotifyThreadExit,
                JoinWorker, DeleteInterface, Stopping, Off, clientVars, ifaceVars, workVars,
                ShutdownInv, LooperInv, PartsInv
  <2>2. ASSUME Active PROVE gen' # 0 /\ Asked'
    <3>1. gen # 0 /\ Asked
      BY ONLY <2>1, <2>2, SessionInv DEF SessionInv, Opened, Stopping
    <3>2. vi' # gen' /\ told' # gen'
      BY ONLY <2>1, <3>1 DEF Asked
    <3>3. CASE LastOnly
      <4>1. LastOnly'
        BY ONLY <2>1, <3>3 DEF LastOnly, Stopping
      <4> QED
        BY ONLY <2>1, <3>1, <3>2, <4>1 DEF Asked
    <3>4. CASE msgs = <<>> /\ target = gen
      BY ONLY <2>1, <3>1, <3>2, <3>4 DEF Asked
    <3> QED
      BY ONLY <3>1, <3>3, <3>4 DEF Asked
  <2>3. calm' => Settled'
    BY ONLY <2>1, SessionInv DEF SessionInv, Settled, Stopping
  <2>4. vi' \in 0..gen'
    BY ONLY <1>1, <2>1, SessionInv DEF SessionInv
  <2>5. Active' = Active
    BY ONLY <2>1 DEF Active
  <2> QED
    BY ONLY <2>1, <2>2, <2>3, <2>4, <2>5, SessionInv DEF SessionInv
<1> QED
  BY <1>2, <1>3, <1>4, <1>5, <1>6 DEF Looper

\* The worker answers about the interface it configures.
LEMMA WorkerKeepsSession ==
  ASSUME SessionInv, TypeInv, ShutdownInv, Worker
  PROVE  SessionInv'
<1>1. /\ worker \notin {"none", "done"}
      /\ UNCHANGED <<gen, msgs, hal, lp, target, vi, hci, uart, calm>>
  BY DEF Worker, CmdStart, transmit_cb, CmdDone, CmdTimeout, WorkerExit, OnFirmwareConfigured,
         StartLowPower, clientVars, looperVars, ifaceVars, chipVars
<1>2. \/ UNCHANGED <<client, told>> /\ complete' \in {complete, FALSE}
      \/ /\ client' \in {client, "ready"} /\ ~complete' /\ told' = vi
         /\ client' # client => client = "waiting"
  BY DEF Worker, CmdStart, transmit_cb, CmdDone, CmdTimeout, WorkerExit, OnFirmwareConfigured,
         StartLowPower, clientVars, ifaceVars, Answer
<1>3. calm' => Settled'
  BY ONLY <1>1, <1>2, SessionInv DEF SessionInv, Settled
<1>4. told' \in 0..gen'
  BY ONLY <1>1, <1>2, SessionInv DEF SessionInv
<1>5. Active' => Active
  BY ONLY <1>2 DEF Active
<1>6. ASSUME Active PROVE gen' # 0 /\ (Asked' \/ Opened')
  <2>1. CASE Asked
    BY ONLY <1>1, <1>2, <1>6, <2>1, SessionInv DEF SessionInv, Asked, LastOnly
  <2>2. CASE Opened
    <3>1. gen # 0 /\ vi = gen /\ hci /\ uart
      BY ONLY <1>1, <1>6, <2>2, SessionInv DEF SessionInv, Opened
    <3>2. client' = "ready" /\ told' = gen' => ~complete'
      BY ONLY <1>1, <1>2, <2>2 DEF Opened
    <3> QED
      BY ONLY <1>1, <2>2, <3>1, <3>2 DEF Opened
  <2> QED
    BY ONLY <1>6, <2>1, <2>2, SessionInv DEF SessionInv
<1> QED
  BY ONLY <1>1, <1>3, <1>4, <1>5, <1>6, SessionInv DEF SessionInv

\* The other threads leave the session alone.
LEMMA OthersKeepSession ==
  ASSUME SessionInv, Watcher \/ Chip \/ \E t \in Senders : Send(t)
  PROVE  SessionInv'
<1>1. UNCHANGED <<client, gen, msgs, hal, lp, target, vi, complete, hci, uart, worker, told, calm>>
  <2> USE DEF clientVars, looperVars, ifaceVars, workVars, chipVars
  <2>1. CASE Watcher
    BY <2>1 DEF Watcher, ThreadRoutine, Notified, TimedOut, OnTimeout, TimeoutTest, TimeoutFlag,
                TimeoutDeassert, TimeoutOff, TimeoutClear, HandleIncomingEvent, CommonComplete
  <2>2. CASE Chip
    BY <2>2 DEF Chip
  <2>3. ASSUME NEW t \in Senders, Send(t)
        PROVE  UNCHANGED <<client, gen, msgs, hal, lp, target, vi, complete, hci, uart, worker,
                           told, calm>>
    BY <2>3 DEF Send, SendTest, SendArm, SendAssert, SendLook, SendWrite, SendFreed
  <2> QED
    BY <2>1, <2>2, <2>3
<1> QED
  BY ONLY <1>1, SessionInv DEF SessionInv, Active, Asked, Opened, LastOnly, Settled

\* SessionInv is an invariant.
LEMMA SessionAlways == Spec => []SessionInv
<1>1. Init => SessionInv
  BY DEF Init, SessionInv, Active, Settled
<1>2. SessionInv /\ TypeInv /\ ShutdownInv /\ [Next]_vars => SessionInv'
  <2>1. SessionInv /\ UNCHANGED vars => SessionInv'
    BY DEF SessionInv, Active, Asked, Opened, LastOnly, Settled, vars, clientVars, looperVars,
           ifaceVars, workVars, chipVars
  <2> QED
    BY <2>1, StackKeepsSession, LooperKeepsSession, WorkerKeepsSession, OthersKeepSession DEF Next
<1> QED
  BY <1>1, <1>2, TypeAlways, ShutdownAlways, PTL DEF Spec

\* A stack that was told SUCCESS about its own session has its interface under it until it
\* closes or dies, with the protocol and the UART open, so that Send() never meets a null
\* pointer; and a stack that initialised while no session was opening or closing is told
\* SUCCESS about no session but its own.
THEOREM ReadyIsOpen == Spec => []ReadyHasInterface
<1>1. SessionInv /\ TypeInv => ReadyHasInterface
  BY DEF SessionInv, Active, Asked, Opened, Settled, TypeInv, ClientOK, ReadyHasInterface
<1> QED
  BY <1>1, SessionAlways, TypeAlways, PTL

\* What a step means to the stack: nothing, or a step of BtSession.
LEMMA SessionSteps ==
  ASSUME SessionInv, TypeInv, TypeInv', ShutdownInv, Next
  PROVE  Session!SessionNext \/ UNCHANGED Session!sessionVars
<1> USE DEF Session!sessionVars, Session!SessionNext
<1>0. gen \in Nat /\ target \in 0..gen
  BY BtHalAssumption DEF TypeInv, ClientOK, SessionInv
<1>1. CASE initialize
  <2>1. /\ gen < MaxInit /\ gen' = gen + 1 /\ client' = "waiting" /\ UNCHANGED <<vi, told>>
        /\ calm' \in BOOLEAN
    BY <1>1 DEF initialize, ifaceVars, TypeInv, ClientOK
  <2> QED
    BY ONLY <2>1 DEF Session!SessionNext, Session!Ask
<1>2. CASE close \/ serviceDied
  <2>1. client # "none" /\ client' \in {"closed", "none"} /\ UNCHANGED <<gen, vi, told, calm>>
    BY <1>2 DEF close, serviceDied, ifaceVars
  <2> QED
    BY ONLY <2>1 DEF Session!SessionNext, Session!Leave
<1>3. CASE OpenFails \/ Open
  <2>1. lp = "open" /\ vi = 0 /\ target # 0
    BY <1>3 DEF OpenFails, Open, ShutdownInv, LooperInv
  <2>2. /\ vi' = target /\ UNCHANGED <<gen, told, calm>>
        /\ client' = client \/ (client = "waiting" /\ client' = "refused")
    BY <1>3, <2>1 DEF OpenFails, Open, Answer, clientVars
  <2>3. target \in 1..gen /\ (calm => target = gen)
    BY <1>0, <2>1 DEF SessionInv, Settled
  <2> QED
    BY ONLY <2>1, <2>2, <2>3 DEF Session!SessionNext, Session!Serve, Session!Openable
<1>5. CASE DeleteInterface
  <2>1. lp = "free" /\ vi' = 0 /\ UNCHANGED <<client, gen, told, calm>>
    BY <1>5 DEF DeleteInterface, clientVars
  <2>2. vi # 0
    BY <2>1 DEF ShutdownInv, LooperInv, Stopping
  <2>3. client \in {"none", "closed"} \/ vi # gen
    BY <2>1 DEF SessionInv, Active, Asked, Opened, TypeInv, ClientOK
  <2> QED
    BY ONLY <2>1, <2>2, <2>3 DEF Session!SessionNext, Session!Withdraw
<1>6. CASE OnFirmwareConfigured
  <2>1. worker = "fw1" /\ UNCHANGED <<gen, vi, calm>> /\ vi # 0
    BY <1>6 DEF OnFirmwareConfigured, ShutdownInv, PartsInv
  <2>2. \/ UNCHANGED <<client, told>>
        \/ told' = vi /\ client' = IF client = "waiting" THEN "ready" ELSE client
    BY <1>6 DEF OnFirmwareConfigured, Answer
  <2>3. calm => vi = gen
    BY <2>1 DEF SessionInv, Settled
  <2> QED
    BY ONLY <2>1, <2>2, <2>3 DEF Session!SessionNext, Session!sessionVars, Session!Tell
<1>7. CASE sendDataToController \/ handleMessage \/ FwCfgFails \/ FwCfg \/ FwRun
  BY <1>7 DEF sendDataToController, handleMessage, FwCfgFails, FwCfg, FwRun, clientVars, ifaceVars
<1>8. CASE StopWatching \/ JoinWatcher \/ DropHci \/ CloseDriver \/ NotifyThreadExit \/ JoinWorker
  BY <1>8 DEF StopWatching, JoinWatcher, DropHci, CloseDriver, NotifyThreadExit, JoinWorker,
              clientVars, ifaceVars
<1>9. CASE CmdStart \/ transmit_cb \/ CmdDone \/ CmdTimeout \/ WorkerExit \/ StartLowPower
  BY <1>9 DEF CmdStart, transmit_cb, CmdDone, CmdTimeout, WorkerExit, StartLowPower,
              clientVars, ifaceVars
<1>10. CASE Watcher \/ Chip
  BY <1>10 DEF Watcher, ThreadRoutine, Notified, TimedOut, OnTimeout, TimeoutTest, TimeoutFlag,
               TimeoutDeassert, TimeoutOff, TimeoutClear, HandleIncomingEvent, CommonComplete,
               Chip, clientVars, ifaceVars
<1>11. ASSUME NEW t \in Senders, Send(t) PROVE UNCHANGED Session!sessionVars
  BY <1>11 DEF Send, SendTest, SendArm, SendAssert, SendLook, SendWrite, SendFreed,
               clientVars, ifaceVars
<1> QED
  BY <1>1, <1>2, <1>3, <1>5, <1>6, <1>7, <1>8, <1>9, <1>10, <1>11
     DEF Next, Stack, Looper, Shutdown, Worker

\* The five threads implement BtSession, whenever stacks come and go: sessions open one at a
\* time, the session a stack was told of is closed only once that stack closed, died or
\* initialised again, and a stack that came when all was calm is told of no other.
THEOREM SessionIsKept == Spec => ImplementsSession
<1>1. Init => Session!SessionInit
  BY DEF Init, Session!SessionInit
<1>2. SessionInv /\ TypeInv /\ TypeInv' /\ ShutdownInv /\ [Next]_vars
        => [Session!SessionNext]_Session!sessionVars
  <2>1. UNCHANGED vars => UNCHANGED Session!sessionVars
    BY DEF vars, clientVars, ifaceVars, Session!sessionVars
  <2> QED
    BY <2>1, SessionSteps
<1> QED
  BY <1>1, <1>2, SessionAlways, TypeAlways, ShutdownAlways, PTL
     DEF Spec, ImplementsSession, Session!SessionSpec

-----------------------------------------------------------------------------
(* What the looper waits for comes: the safety half of LooperReturns and WorkerReports *)

\* How far a packet is from being sent, and the worker from its end.
SendRank(s) ==
  IF s = "test" THEN 5 ELSE IF s = "arm" THEN 4 ELSE IF s = "assert" THEN 3
  ELSE IF s = "look" THEN 2 ELSE IF s = "write" THEN 1 ELSE 0

WorkRank ==
  IF worker = "cmd" THEN 10 * left + 9
  ELSE IF worker = "call" THEN 10 * left + 8
  ELSE IF worker = "wait" THEN 10 * left + 2 + SendRank(snd["worker"])
  ELSE IF worker = "exit" THEN 3 ELSE IF worker = "fw1" THEN 2 ELSE IF worker = "fw2" THEN 1 ELSE 0

\* How far the watcher is from its end once running_ is cleared.
WatchRank ==
  IF watcher = "idle?" THEN 6 ELSE IF watcher = "flag" THEN 5 ELSE IF watcher = "deassert" THEN 4
  ELSE IF watcher = "off" THEN 3 ELSE IF watcher \in {"clear", "select", "reply"} THEN 2
  ELSE IF watcher = "loop" THEN 1 ELSE 0

\* Every step of the worker, and of the packet it sends, brings it nearer to its end, and
\* nothing but the start of another worker takes it away.
WorkerAdvances ==
  /\ Worker \/ Send("worker") => WorkRank' < WorkRank
  /\ ~(Worker \/ Send("worker") \/ FwCfg) => WorkRank' = WorkRank

\* While the looper joins the watcher, so does every step of the watcher.
WatcherAdvances ==
  lp = "join" /\ lp' = "join" =>
    /\ Watcher => WatchRank' < WatchRank
    /\ ~Watcher => WatchRank' = WatchRank

\* While the looper joins the watcher, the byte that ends its select() is there.
JoinInv ==
  lp = "join" => ~running /\ watcher # "none" /\ (watcher = "select" => pipe > 0)

\* The looper never waits for a thread that waits for ever: a watcher that it joins is told
\* to end and is woken; one that waits for the mutex with a reply, like the looper in
\* notify_thread_exit(), waits for a worker that is about to release it.
JoinIsHeard ==
  /\ JoinInv
  /\ mtx => worker \in {"exit", "fw1", "fw2"}
  /\ snd["worker"] # "idle" => worker = "wait"

\* The packet of the worker.
LEMMA SendAdvances ==
  ASSUME TypeInv, ReplyInv, Send("worker")
  PROVE  WorkRank' < WorkRank
<1>1. left \in Int /\ snd \in [Senders -> {"idle", "test", "arm", "assert", "look", "write"}] /\ "worker" \in Senders
  BY BtHalAssumption DEF TypeInv, WorkOK, SendOK, Senders
<1>2. UNCHANGED <<worker, left>> /\ snd["worker"] # "idle"
  BY DEF Send, SendTest, SendArm, SendAssert, SendLook, SendWrite, SendFreed, workVars
<1>3. worker = "wait"
  BY <1>2 DEF ReplyInv
<1>4. SendRank(snd'["worker"]) < SendRank(snd["worker"])
  <2> USE <1>1 DEF SendRank
  <2>1. CASE SendTest("worker")
    BY <2>1 DEF SendTest
  <2>2. CASE SendArm("worker")
    BY <2>2 DEF SendArm
  <2>3. CASE SendAssert("worker")
    BY <2>3 DEF SendAssert
  <2>4. CASE SendLook("worker")
    BY <2>4 DEF SendLook, SendReturns
  <2>5. CASE SendWrite("worker")
    BY <2>5 DEF SendWrite, SendReturns
  <2>6. CASE SendFreed("worker")
    BY <1>2, <2>6 DEF SendFreed, SendReturns
  <2> QED
    BY <2>1, <2>2, <2>3, <2>4, <2>5, <2>6 DEF Send
<1>5. SendRank(snd["worker"]) \in Int /\ SendRank(snd'["worker"]) \in Int
  BY DEF SendRank
<1> QED
  BY <1>1, <1>2, <1>3, <1>4, <1>5 DEF WorkRank

\* The worker's own steps: the last command, an error, a timeout or the end of the session
\* ends the script.
LEMMA WorkerSteps ==
  ASSUME TypeInv, Worker
  PROVE  WorkRank' < WorkRank
<1>1. left \in Int /\ snd \in [Senders -> {"idle", "test", "arm", "assert", "look", "write"}] /\ "worker" \in Senders
  BY BtHalAssumption DEF TypeInv, WorkOK, SendOK, Senders
<1>2. worker \in {"cmd", "call", "wait"} => left >= 1
  BY DEF TypeInv, WorkOK
<1>3. \A s : SendRank(s) \in 0..5
  BY DEF SendRank
<1>4. CASE CmdStart
  BY <1>1, <1>2, <1>4 DEF CmdStart, WorkRank
<1>5. CASE transmit_cb
  <2>1. worker = "call" /\ worker' = "wait" /\ left' = left /\ snd'["worker"] = "test"
    BY <1>1, <1>5 DEF transmit_cb
  <2>2. SendRank(snd'["worker"]) = 5
    BY <2>1 DEF SendRank
  <2> QED
    BY <1>1, <2>1, <2>2 DEF WorkRank
<1>6. CASE CmdDone
  <2>1. worker = "wait" /\ left' \in {left, left - 1} /\ worker' \in {"cmd", "exit"}
        /\ (worker' = "cmd" => left' = left - 1)
    BY <1>6 DEF CmdDone
  <2>2. WorkRank >= 10 * left + 2
    BY <1>1, <1>3, <2>1 DEF WorkRank
  <2>3. WorkRank' = IF worker' = "cmd" THEN 10 * left' + 9 ELSE 3
    BY <2>1 DEF WorkRank
  <2>4. WorkRank \in Int
    BY <1>1, <1>3, <2>1 DEF WorkRank
  <2>5. left >= 1
    BY <1>2, <2>1
  <2>6. CASE worker' = "cmd"
    <3>1. WorkRank' = 10 * left' + 9 /\ left' = left - 1
      BY <2>1, <2>3, <2>6
    <3> QED
      BY ONLY <1>1, <2>2, <2>4, <3>1
  <2>7. CASE worker' = "exit"
    <3>1. WorkRank' = 3
      BY <2>3, <2>7
    <3> QED
      BY ONLY <1>1, <2>2, <2>4, <2>5, <3>1
  <2> QED
    BY <2>1, <2>6, <2>7
<1>7. CASE CmdTimeout
  <2>1. worker = "wait" /\ worker' = "exit"
    BY <1>7 DEF CmdTimeout
  <2>2. WorkRank >= 10 * left + 2 /\ WorkRank \in Int
    BY <1>1, <1>3, <2>1 DEF WorkRank
  <2>3. WorkRank' = 3
    BY <2>1 DEF WorkRank
  <2> QED
    BY <1>1, <1>2, <2>1, <2>2, <2>3
<1>8. CASE WorkerExit \/ OnFirmwareConfigured \/ StartLowPower
  <2>1. \/ worker = "exit" /\ worker' \in {"fw1", "done"}
        \/ worker = "fw1" /\ worker' = "fw2"
        \/ worker = "fw2" /\ worker' = "done"
    BY <1>8 DEF WorkerExit, OnFirmwareConfigured, StartLowPower
  <2> QED
    BY ONLY <2>1 DEF WorkRank
<1> QED
  BY <1>4, <1>5, <1>6, <1>7, <1>8 DEF Worker

\* The other threads leave the worker where it is; the looper joins one that ended.
LEMMA WorkerIsLeft ==
  ASSUME TypeInv, [Next]_vars, ~Worker, ~Send("worker"), ~FwCfg
  PROVE  WorkRank' = WorkRank
<1>1. "worker" \in Senders /\ "hidl" \in Senders /\ snd \in [Senders -> {"idle", "test", "arm", "assert", "look", "write"}]
  BY DEF Senders, TypeInv, SendOK
<1>2. ASSUME UNCHANGED <<worker, left>>, snd'["worker"] = snd["worker"] PROVE WorkRank' = WorkRank
  BY <1>2 DEF WorkRank
<1>3. CASE Stack
  <2>1. UNCHANGED <<worker, left>>
    BY <1>3 DEF Stack, initialize, close, serviceDied, sendDataToController, workVars
  <2>2. snd' = snd \/ snd' = [snd EXCEPT !["hidl"] = "test"]
    BY <1>3 DEF Stack, initialize, close, serviceDied, sendDataToController, sendVars
  <2>3. snd'["worker"] = snd["worker"]
    BY <1>1, <2>2
  <2> QED
    BY <1>2, <2>1, <2>3
<1>4. CASE Looper
  <2>1. CASE JoinWorker
    BY <2>1 DEF JoinWorker, WorkRank
  <2>2. CASE ~JoinWorker
    <3>1. UNCHANGED <<worker, left, snd>>
      BY <1>4, <2>2 DEF Looper, handleMessage, OpenFails, Open, FwCfgFails, FwRun, Shutdown, StopWatching,
                        JoinWatcher, DropHci, CloseDriver, NotifyThreadExit, DeleteInterface, workVars, sendVars
    <3> QED
      BY <1>2, <3>1
  <2> QED
    BY <2>1, <2>2
<1>5. CASE Watcher \/ Chip \/ UNCHANGED vars
  <2>1. UNCHANGED <<worker, left, snd>>
    BY <1>5 DEF Watcher, ThreadRoutine, Notified, TimedOut, OnTimeout, TimeoutTest, TimeoutFlag,
                TimeoutDeassert, TimeoutOff, TimeoutClear, HandleIncomingEvent, CommonComplete,
                Chip, vars, workVars, sendVars
  <2> QED
    BY <1>2, <2>1
<1>6. CASE Send("hidl")
  <2>1. UNCHANGED <<worker, left>>
    BY <1>6 DEF Send, SendTest, SendArm, SendAssert, SendLook, SendWrite, SendFreed, workVars
  <2>2. \E s : snd' = [snd EXCEPT !["hidl"] = s]
    BY <1>6 DEF Send, SendTest, SendArm, SendAssert, SendLook, SendWrite, SendFreed, SendReturns
  <2>3. snd'["worker"] = snd["worker"]
    BY <1>1, <2>2
  <2> QED
    BY <1>2, <2>1, <2>3
<1> QED
  BY <1>3, <1>4, <1>5, <1>6 DEF Next, Senders

\* The watcher that is joined.
LEMMA WatcherSteps ==
  ASSUME JoinInv, lp = "join", Watcher
  PROVE  WatchRank' < WatchRank
<1> USE DEF WatcherGoes, WatchRank
<1>1. ~running /\ (watcher = "select" => pipe > 0)
  BY DEF JoinInv
<1>2. CASE ThreadRoutine \/ Notified
  BY <1>1, <1>2 DEF ThreadRoutine, Notified
<1>3. CASE TimedOut \/ HandleIncomingEvent
  BY <1>1, <1>3 DEF TimedOut, HandleIncomingEvent
<1>4. CASE OnTimeout
  <2>1. \/ watcher = "idle?" /\ watcher' \in {"clear", "flag"}
        \/ watcher = "flag" /\ watcher' = "deassert"
        \/ watcher = "deassert" /\ watcher' = "off"
        \/ watcher = "off" /\ watcher' = "clear"
        \/ watcher = "clear" /\ watcher' = "loop"
    BY <1>4 DEF OnTimeout, TimeoutTest, TimeoutFlag, TimeoutDeassert, TimeoutOff, TimeoutClear
  <2> QED
    BY ONLY <2>1 DEF WatchRank
<1>5. CASE CommonComplete
  BY <1>5 DEF CommonComplete
<1> QED
  BY <1>2, <1>3, <1>4, <1>5 DEF Watcher

\* Nobody else moves it.
LEMMA WatcherIsLeft ==
  ASSUME [Next]_vars, ~Watcher, lp = "join", lp' = "join"
  PROVE  UNCHANGED <<watcher, running>> /\ (pipe' = pipe \/ pipe < 0 \/ pipe' = 1)
<1> USE DEF watchVars, timerVars, vars, ConfigureTimeout
<1>1. CASE Stack
  BY <1>1 DEF Stack, initialize, close, serviceDied, sendDataToController
<1>2. CASE Looper
  BY <1>2 DEF Looper, handleMessage, OpenFails, Open, FwCfgFails, FwCfg, FwRun, Shutdown, StopWatching,
              JoinWatcher, DropHci, CloseDriver, NotifyThreadExit, JoinWorker, DeleteInterface
<1>3. CASE Worker
  BY <1>3 DEF Worker, CmdStart, transmit_cb, CmdDone, CmdTimeout, WorkerExit, OnFirmwareConfigured,
              StartLowPower
<1>4. CASE Chip \/ UNCHANGED vars
  BY <1>4 DEF Chip
<1>5. ASSUME NEW t \in Senders, Send(t)
      PROVE  UNCHANGED <<watcher, running>> /\ (pipe' = pipe \/ pipe < 0 \/ pipe' = 1)
  BY <1>5 DEF Send, SendTest, SendArm, SendAssert, SendLook, SendWrite, SendFreed
<1> QED
  BY <1>1, <1>2, <1>3, <1>4, <1>5 DEF Next

\* The watcher moves to its end only, once it is joined.
LEMMA NextJoins ==
  ASSUME TypeInv, ShutdownInv, JoinInv, [Next]_vars
  PROVE  JoinInv'
<1>1. CASE lp' # "join"
  BY <1>1 DEF JoinInv
<1>2. CASE lp' = "join" /\ lp = "join" /\ Watcher
  <2>1. ~running /\ watcher # "none" /\ (watcher = "select" => pipe > 0)
    BY <1>2 DEF JoinInv
  <2>2. running' = running /\ watcher' \notin {"none", "select"}
    BY <1>2, <2>1 DEF Watcher, ThreadRoutine, Notified, TimedOut, OnTimeout, TimeoutTest, TimeoutFlag,
                TimeoutDeassert, TimeoutOff, TimeoutClear, HandleIncomingEvent, CommonComplete, WatcherGoes
  <2> QED
    BY <1>2, <2>1, <2>2 DEF JoinInv
<1>3. CASE lp' = "join" /\ lp = "join" /\ ~Watcher
  <2>1. UNCHANGED <<watcher, running>> /\ (pipe' = pipe \/ pipe < 0 \/ pipe' = 1)
    BY <1>3, WatcherIsLeft
  <2>2. pipe \in Int
    BY DEF TypeInv, TimerOK
  <2> QED
    BY <1>3, <2>1, <2>2 DEF JoinInv
<1>4. CASE lp' = "join" /\ lp # "join"
  <2>1. StopWatching
    <3>1. Looper
      BY <1>4 DEF Next, Stack, initialize, close, serviceDied, sendDataToController, Worker, CmdStart,
                  transmit_cb, CmdDone, CmdTimeout, WorkerExit, OnFirmwareConfigured, StartLowPower,
                  Watcher, ThreadRoutine, Notified, TimedOut, OnTimeout, TimeoutTest, TimeoutFlag,
                  TimeoutDeassert, TimeoutOff, TimeoutClear, HandleIncomingEvent, CommonComplete,
                  Chip, Send, SendTest, SendArm, SendAssert, SendLook, SendWrite, SendFreed, vars, looperVars
    <3> QED
      BY <1>4, <3>1 DEF Looper, handleMessage, OpenFails, Open, FwCfgFails, FwCfg, FwRun, Shutdown,
                  JoinWatcher, DropHci, CloseDriver, NotifyThreadExit, JoinWorker, DeleteInterface
  <2>2. running /\ ~running' /\ pipe' = 1 /\ watcher' = watcher
    BY <1>4, <2>1 DEF StopWatching
  <2>3. watcher # "none"
    BY <2>2 DEF ShutdownInv, PartsInv
  <2> QED
    BY <2>2, <2>3 DEF JoinInv
<1> QED
  BY <1>1, <1>2, <1>3, <1>4

\* JoinInv is an invariant.
LEMMA JoinAlways == Spec => []JoinInv
<1>1. Init => JoinInv
  BY DEF Init, JoinInv
<1>2. TypeInv /\ ShutdownInv /\ JoinInv /\ [Next]_vars => JoinInv'
  BY NextJoins
<1> QED
  BY <1>1, <1>2, TypeAlways, ShutdownAlways, PTL DEF Spec

\* Whatever the watcher and the worker are doing when the looper waits for them, they were
\* told to end and can: no two of the threads wait for each other (stopThread, select,
\* notify_thread_exit and the mutex that a timed-out worker keeps).
THEOREM JoinNeverDeadlocks == Spec => []JoinIsHeard
<1>1. JoinInv /\ ShutdownInv /\ ReplyInv => JoinIsHeard
  BY DEF JoinIsHeard, ShutdownInv, PartsInv, ReplyInv
<1> QED
  BY <1>1, JoinAlways, ShutdownAlways, ReplyAlways, PTL

\* For any init script, each step of the worker and of the packet it sends lowers a natural
\* number that no other thread raises: the worker ends however the chip and the stack
\* behave, so that joining it ends and initialize() is answered.
THEOREM WorkerEnds == Spec => [](WorkRank \in Nat) /\ [][WorkerAdvances]_vars
<1>1. TypeInv => WorkRank \in Nat
  <2> SUFFICES ASSUME TypeInv PROVE WorkRank \in Nat
    OBVIOUS
  <2>1. left \in Nat /\ SendRank(snd["worker"]) \in Nat
    BY BtHalAssumption DEF TypeInv, WorkOK, SendRank
  <2> QED
    BY <2>1 DEF WorkRank
<1>2. TypeInv /\ ReplyInv /\ [Next]_vars => [WorkerAdvances]_vars
  <2> SUFFICES ASSUME TypeInv, ReplyInv, [Next]_vars PROVE WorkerAdvances
    OBVIOUS
  <2> QED
    BY SendAdvances, WorkerSteps, WorkerIsLeft DEF WorkerAdvances
<1> QED
  BY <1>1, <1>2, TypeAlways, ReplyAlways, PTL DEF Spec

\* While the looper joins the watcher, each step of the watcher lowers a natural number that
\* nobody else changes: it handles at most the event or the timeout it is at.
THEOREM WatcherEnds == Spec => [](WatchRank \in Nat) /\ [][WatcherAdvances]_vars
<1>1. WatchRank \in Nat
  BY DEF WatchRank
<1>2. JoinInv /\ [Next]_vars => [WatcherAdvances]_vars
  <2> SUFFICES ASSUME JoinInv, [Next]_vars PROVE WatcherAdvances
    OBVIOUS
  <2>1. ASSUME lp = "join", lp' = "join", ~Watcher PROVE WatchRank' = WatchRank
    <3>1. watcher' = watcher
      BY <2>1, WatcherIsLeft
    <3> QED
      BY <3>1 DEF WatchRank
  <2> QED
    BY <2>1, WatcherSteps DEF WatcherAdvances
<1> QED
  BY <1>1, <1>2, JoinAlways, PTL DEF Spec
=============================================================================
