------------------------ MODULE MdInitServiceProofs -------------------------
(***************************************************************************)
(* What the state of a daemon says about its modem and its services: the    *)
(* invariants of MdInit that concern each daemon by itself.                 *)
(***************************************************************************)
EXTENDS MdInitHandshakeProofs

\* A move the environment may not make at all is not made.
LEMMA NoneAllowed ==
  ASSUME TypeOK, NEW k \in Kinds, Budget[k] = 0, Spend(k)
  PROVE  FALSE
BY DEF TypeOK, Spend

\* What is in a queue stays in it when a message is added behind it.
LEMMA AppendKeeps ==
  ASSUME NEW S, NEW q \in Seq(S), NEW x \in S, NEW i \in DOMAIN q
  PROVE  i \in DOMAIN Append(q, x) /\ Append(q, x)[i] = q[i]
OBVIOUS

\* A message that is not the oldest one moves up when the oldest is taken.
LEMMA TailKeeps ==
  ASSUME NEW S, NEW q \in Seq(S), q # <<>>, NEW i \in DOMAIN q, q[i] # Head(q)
  PROVE  i - 1 \in DOMAIN Tail(q) /\ Tail(q)[i - 1] = q[i]
<1>1. Len(q) \in Nat /\ DOMAIN q = 1..Len(q) /\ i # 1
  OBVIOUS
<1>2. Tail(q) \in Seq(S) /\ Len(Tail(q)) = Len(q) - 1
  BY <1>1
<1>3. i - 1 \in 1..Len(Tail(q))
  BY <1>1, <1>2
<1> QED
  BY <1>1, <1>2, <1>3

\* What a daemon, its modem and its services are to one another.
View(d) == <<pc[d], fsm[d], req[d], queue[d], modem[d], svc[d], mdlogger_cnt[d]>>

\* A step of one daemon or modem.
Step(d) ==
  \/ Launch(d) \/ DaemonStep(d) \/ ModemStep(d) \/ ModemCrashes(d) \/ PostCommon(d) \/ Kill(d)

\* Such a step does not change the view of the other.
LEMMA StepFrame ==
  ASSUME TypeOK, NEW d \in Daemon, Step(d), NEW e \in Daemon, e # d
  PROVE  View(e)' = View(e)
<1> USE DEF View, TypeOK, Goto, Take, Spend, set_current_md_status, local, kernel
<1>1. CASE Launch(d)
  BY <1>1 DEF Launch
<1>2. CASE Boot(d)
  BY <1>2 DEF Boot, OpenPort, OpenPortFails, EnterLoop, EnterLoopFails, Exit
<1>3. CASE Trigger(d)
  <2>1. UNCHANGED <<svc, mdlogger_cnt>> \/ stop_all_ccci_up_layer_services(d)
    BY <1>3 DEF Trigger
  <2>2. Goto(d, "boot") \/ Goto(d, "other")
    BY <1>3 DEF Trigger
  <2> QED
    BY <1>3, <2>1, <2>2 DEF Trigger, stop_all_ccci_up_layer_services
<1>4. CASE SeeOther(d) \/ BootAlone(d) \/ Grant(d) \/ SeeOwn(d) \/ BootUp(d) \/ StartMd(d)
  BY <1>4 DEF SeeOther, BootAlone, Grant, SeeOwn, BootUp, StartMd
<1>5. CASE StartMdUnobserved(d) \/ StartMdFails(d) \/ CheckStateFails(d)
  BY <1>5 DEF StartMdUnobserved, StartMdFails, CheckStateFails, Return
<1>6. CASE AwaitReady(d)
  <2>1. Goto(d, "check") \/ Return(d) \/ UNCHANGED pc
    BY <1>6 DEF AwaitReady
  <2> QED
    BY <1>6, <2>1 DEF AwaitReady, Return
<1>7. CASE CheckState(d)
  <2>1. Goto(d, "publish") \/ Return(d)
    BY <1>7 DEF CheckState
  <2> QED
    BY <1>7, <2>1 DEF CheckState, Return
<1>8. CASE PublishReady(d)
  <2>1. UNCHANGED <<svc, mdlogger_cnt>> \/ start_all_ccci_up_layer_services(d)
    BY <1>8 DEF PublishReady
  <2> QED
    BY <1>8, <2>1 DEF PublishReady, Return, start_all_ccci_up_layer_services
<1>9. CASE Serve(d)
  <2>1. CASE Ignore(d)
    BY <2>1 DEF Ignore
  <2>2. CASE HandleException(d)
    BY <2>2 DEF HandleException
  <2>3. CASE HandleStart(d) \/ HandleStop(d)
    BY <2>3 DEF HandleStart, HandleStop
  <2>4. CASE StopMd(d) \/ StopMdFails(d) \/ StopMdUnobserved(d)
    BY <2>4 DEF StopMd, StopMdFails, StopMdUnobserved
  <2>5. CASE AwaitStop(d)
    <3>1. Goto(d, "teardown") \/ UNCHANGED pc
      BY <2>5 DEF AwaitStop
    <3> QED
      BY <2>5, <3>1 DEF AwaitStop
  <2>6. CASE EnterFlightMode(d)
    BY <2>6 DEF EnterFlightMode
  <2>7. CASE TearDown(d)
    <3>1. UNCHANGED <<svc, mdlogger_cnt>> \/ stop_all_ccci_up_layer_services(d)
      BY <2>7 DEF TearDown
    <3> QED
      BY <2>7, <3>1 DEF TearDown, stop_all_ccci_up_layer_services
  <2> QED
    BY <1>9, <2>1, <2>2, <2>3, <2>4, <2>5, <2>6, <2>7 DEF Serve
<1>10. CASE ModemStep(d) \/ ModemCrashes(d) \/ PostCommon(d)
  BY <1>10 DEF ModemStep, ModemBoots, ModemStops, ModemCrashes, PostCommon
<1>11. CASE Kill(d)
  BY <1>11 DEF Kill, Exit
<1> QED
  BY <1>1, <1>2, <1>3, <1>4, <1>5, <1>6, <1>7, <1>8, <1>9, <1>10, <1>11
     DEF Step, DaemonStep, Restart

\* Every step is one of a daemon or its modem, a request of the kernel, or nothing.
LEMMA StepCases ==
  ASSUME [Next]_vars
  PROVE  \/ \E d \in Daemon : Step(d)
         \/ PostRequest
         \/ UNCHANGED vars
BY DEF Next, Step

\* A request of the kernel lengthens queues and does nothing else to a daemon.
LEMMA RequestFrame ==
  ASSUME TypeOK, PostRequest, NEW d \in Daemon
  PROVE  /\ UNCHANGED <<pc, fsm, req, modem, svc, mdlogger_cnt, mode>>
         /\ \A i \in DOMAIN queue[d] : i \in DOMAIN queue'[d] /\ queue'[d][i] = queue[d][i]
<1>1. PICK m \in Requests, T \in SUBSET Started :
        queue' = [e \in Daemon |-> IF e \in T THEN Append(queue[e], m) ELSE queue[e]]
  BY DEF PostRequest
<1>2. queue[d] \in Seq(Message) /\ (queue'[d] = queue[d] \/ queue'[d] = Append(queue[d], m))
  BY <1>1 DEF TypeOK
<1>3. m \in Message
  BY ConstantsOK DEF MdInitAssumption, Message
<1>4. \A i \in DOMAIN queue[d] : i \in DOMAIN queue'[d] /\ queue'[d][i] = queue[d][i]
  BY <1>2, <1>3
<1> QED
  BY <1>4 DEF PostRequest, local

\* The boot mode never changes.
LEMMA ModeFixed ==
  ASSUME [Next]_vars
  PROVE  UNCHANGED mode
<1> USE DEF local, kernel
<1>1. ASSUME NEW d \in Daemon, Boot(d) \/ Launch(d) \/ Kill(d) PROVE UNCHANGED mode
  BY <1>1 DEF Boot, Launch, Kill, OpenPort, OpenPortFails, EnterLoop, EnterLoopFails, Exit
<1>2. ASSUME NEW d \in Daemon, Restart(d) PROVE UNCHANGED mode
  BY <1>2 DEF Restart, Trigger, SeeOther, BootAlone, Grant, SeeOwn, BootUp, StartMd,
              StartMdUnobserved, StartMdFails, AwaitReady, CheckState, CheckStateFails, PublishReady
<1>3. ASSUME NEW d \in Daemon, Serve(d) PROVE UNCHANGED mode
  BY <1>3 DEF Serve, Ignore, HandleException, HandleStart, HandleStop, StopMd, StopMdFails,
              StopMdUnobserved, AwaitStop, EnterFlightMode, TearDown
<1>4. ASSUME NEW d \in Daemon, ModemStep(d) \/ ModemCrashes(d) \/ PostCommon(d)
      PROVE  UNCHANGED mode
  BY <1>4 DEF ModemStep, ModemBoots, ModemStops, ModemCrashes, PostCommon
<1> QED
  BY <1>1, <1>2, <1>3, <1>4 DEF Next, DaemonStep, PostRequest, vars

-----------------------------------------------------------------------------
(* BOOT_READY is the truth, and the services run then *)

Booting == {"start", "wait_ready", "check", "publish"}

\* An exception of the modem of d waits on the monitor device.
ExceptionQueued(d) == \E i \in DOMAIN queue[d] : queue[d][i] = "EXCEPTION"

ModemKnown(d) == modem[d] = "ready" \/ (modem[d] = "crashed" /\ ExceptionQueued(d))

ReadyInv(d) ==
  /\ pc[d] \in Booting => fsm[d] = "bootup"
  /\ fsm[d] = "ready" => pc[d] \in {"tail", "idle", "stop", "wait_stop", "teardown"}
  /\ pc[d] = "publish" => ModemKnown(d)
  /\ pc[d] \in {"tail", "idle"} /\ fsm[d] = "ready" => ModemKnown(d)

\* The FSM and the modem as the daemon's own steps change them.
LEMMA ReadyStep ==
  ASSUME TypeOK, NEW d \in Daemon, ReadyInv(d), Step(d)
  PROVE  ReadyInv(d)'
<1> USE DEF ReadyInv, Booting, ModemKnown, ExceptionQueued, TypeOK, Goto,
            set_current_md_status, local, kernel
<1>1. CASE Launch(d)
  BY <1>1 DEF Launch
<1>2. CASE Boot(d)
  BY <1>2 DEF Boot, OpenPort, OpenPortFails, EnterLoop, EnterLoopFails, Exit
<1>3. CASE Trigger(d)
  <2>1. Goto(d, "boot") \/ Goto(d, "other")
    BY <1>3 DEF Trigger
  <2> QED
    BY <1>3, <2>1 DEF Trigger
<1>4. CASE SeeOther(d) \/ BootAlone(d) \/ Grant(d) \/ SeeOwn(d) \/ BootUp(d) \/ StartMd(d)
  BY <1>4 DEF SeeOther, BootAlone, Grant, SeeOwn, BootUp, StartMd
<1>5. CASE StartMdUnobserved(d) \/ StartMdFails(d) \/ CheckStateFails(d)
  BY <1>5 DEF StartMdUnobserved, StartMdFails, CheckStateFails, Return
<1>6. CASE AwaitReady(d)
  <2>1. Goto(d, "check") \/ Return(d) \/ UNCHANGED pc
    BY <1>6 DEF AwaitReady
  <2> QED
    BY <1>6, <2>1 DEF AwaitReady, Return
<1>7. CASE CheckState(d)
  <2>1. \/ modem[d] = "ready" /\ Goto(d, "publish")
        \/ Return(d)
    BY <1>7 DEF CheckState
  <2> QED
    BY <1>7, <2>1 DEF CheckState, Return
<1>8. CASE PublishReady(d)
  BY <1>8 DEF PublishReady, Return
<1>9. CASE Serve(d)
  <2>1. CASE Ignore(d)
    <3>1. PICK m : Take(d, m) /\ (m = "EXCEPTION" => fsm[d] = "exception")
      BY <2>1 DEF Ignore, ExceptionVoid
    <3>2. /\ queue[d] \in Seq(Message) /\ queue[d] # <<>> /\ Head(queue[d]) = m
          /\ queue'[d] = Tail(queue[d]) /\ pc[d] = "idle"
      BY <3>1 DEF Take
    <3>3. ASSUME fsm[d] = "ready", NEW i \in DOMAIN queue[d], queue[d][i] = "EXCEPTION"
          PROVE  i - 1 \in DOMAIN queue'[d] /\ queue'[d][i - 1] = "EXCEPTION"
      BY ONLY <3>1, <3>2, <3>3, TailKeeps
    <3>4. UNCHANGED <<pc, fsm, modem>>
      BY <2>1 DEF Ignore
    <3>5. fsm[d] = "ready" => (ExceptionQueued(d) => ExceptionQueued(d)')
      BY ONLY <3>3 DEF ExceptionQueued
    <3> HIDE DEF ExceptionQueued, TypeOK
    <3> QED
      BY <3>2, <3>4, <3>5
  <2>2. CASE HandleException(d)
    BY <2>2 DEF HandleException, Take
  <2>3. CASE HandleStart(d) \/ HandleStop(d)
    BY <2>3 DEF HandleStart, HandleStop, StartVoid, Take
  <2>4. CASE StopMd(d) \/ StopMdFails(d) \/ StopMdUnobserved(d)
    BY <2>4 DEF StopMd, StopMdFails, StopMdUnobserved
  <2>5. CASE AwaitStop(d)
    <3>1. Goto(d, "teardown") \/ UNCHANGED pc
      BY <2>5 DEF AwaitStop
    <3> QED
      BY <2>5, <3>1 DEF AwaitStop
  <2>6. CASE EnterFlightMode(d) \/ TearDown(d)
    BY <2>6 DEF EnterFlightMode, TearDown
  <2> QED
    BY <1>9, <2>1, <2>2, <2>3, <2>4, <2>5, <2>6 DEF Serve
<1>10. CASE ModemStep(d)
  BY <1>10 DEF ModemStep, ModemBoots, ModemStops
<1>11. CASE ModemCrashes(d)
  <2>1. ASSUME PortOpen(d) PROVE ExceptionQueued(d)'
    <3>1. queue'[d] = Append(queue[d], "EXCEPTION") /\ queue[d] \in Seq(Message)
      BY <1>11, <2>1 DEF ModemCrashes
    <3>2. Len(queue[d]) + 1 \in DOMAIN queue'[d] /\ queue'[d][Len(queue[d]) + 1] = "EXCEPTION"
      BY <3>1 DEF Message
    <3> QED
      BY <3>2
  <2>2. UNCHANGED <<pc, fsm>> /\ modem'[d] = "crashed"
    BY <1>11 DEF ModemCrashes
  <2> QED
    BY <2>1, <2>2 DEF PortOpen
<1>12. CASE PostCommon(d)
  <2>1. queue'[d] = Append(queue[d], "COMMON") /\ queue[d] \in Seq(Message)
    BY <1>12 DEF PostCommon
  <2>. "COMMON" \in Message
    BY DEF Message
  <2>2. ExceptionQueued(d) => ExceptionQueued(d)'
    BY ONLY <2>1, AppendKeeps DEF ExceptionQueued
  <2> QED
    BY <1>12, <2>2 DEF PostCommon
<1>13. CASE Kill(d)
  BY <1>13 DEF Kill, Exit
<1> QED
  BY <1>1, <1>2, <1>3, <1>4, <1>5, <1>6, <1>7, <1>8, <1>9, <1>10, <1>11, <1>12, <1>13
     DEF Step, DaemonStep, Restart

\* ReadyInv holds of every daemon in every state.
LEMMA ReadyAlways == Spec => [](\A d \in Daemon : ReadyInv(d))
<1> DEFINE Inv == \A d \in Daemon : ReadyInv(d)
<1>1. Init => Inv
  BY DEF Init, ReadyInv, Booting
<1>2. TypeOK /\ Inv /\ [Next]_vars => Inv'
  <2> SUFFICES ASSUME TypeOK, Inv, [Next]_vars, NEW e \in Daemon
               PROVE  ReadyInv(e)'
    OBVIOUS
  <2>1. ASSUME View(e)' = View(e) PROVE ReadyInv(e)'
    BY <2>1 DEF View, ReadyInv, ModemKnown, ExceptionQueued
  <2>2. ASSUME NEW d \in Daemon, Step(d) PROVE ReadyInv(e)'
    BY <2>1, <2>2, ReadyStep, StepFrame
  <2>3. ASSUME PostRequest PROVE ReadyInv(e)'
    BY <2>3, RequestFrame DEF ReadyInv, ModemKnown, ExceptionQueued
  <2>4. ASSUME UNCHANGED vars PROVE ReadyInv(e)'
    BY <2>1, <2>4 DEF vars, local, kernel, View
  <2> QED
    BY <2>2, <2>3, <2>4, StepCases
<1> QED
  BY <1>1, <1>2, TypeCorrect, PTL DEF Spec

\* In the loop, BOOT_READY is the truth about the modem, or its exception is
\* still queued: for every environment, lost daemons and failing calls included.
THEOREM ReadyIsTrue == Spec => []ReadyIsReal
<1>1. (\A d \in Daemon : ReadyInv(d)) => ReadyIsReal
  BY DEF ReadyIsReal, ReadyInv, ModemKnown, ExceptionQueued
<1> QED
  BY <1>1, ReadyAlways, PTL

-----------------------------------------------------------------------------
(* The services that run *)

\* mdlogger_cnt is no lie, fsd is up from BOOT_UP on, and a daemon that said
\* BOOT_READY and has not begun to stop serves its modem.
ServedInv(d) ==
  /\ mdlogger_cnt[d] => "mdlogger" \in svc[d]
  /\ pc[d] \in Booting => "fsd" \in svc[d]
  /\ mode = "normal" /\ pc[d] \in {"tail", "idle"} /\ fsm[d] = "ready" =>
       {"fsd"} \cup UpLayer(d) \subseteq svc[d]

\* The services as the daemon's own steps start and stop them.
LEMMA ServedStep ==
  ASSUME TypeOK, NEW d \in Daemon, ReadyInv(d), ServedInv(d), Step(d), UNCHANGED mode
  PROVE  ServedInv(d)'
<1> USE DEF ServedInv, ReadyInv, UpLayer, Booting, TypeOK, Goto,
            set_current_md_status, local, kernel
<1>1. CASE Launch(d)
  BY <1>1 DEF Launch
<1>2. CASE Boot(d)
  <2>1. CASE OpenPort(d)
    BY <2>1 DEF OpenPort
  <2>2. CASE EnterLoop(d)
    BY <2>2 DEF EnterLoop
  <2>3. CASE OpenPortFails(d) \/ EnterLoopFails(d)
    BY <2>3 DEF OpenPortFails, EnterLoopFails, Exit
  <2> QED
    BY <1>2, <2>1, <2>2, <2>3 DEF Boot
<1>3. CASE Trigger(d)
  <2>1. UNCHANGED <<svc, mdlogger_cnt>> \/ stop_all_ccci_up_layer_services(d)
    BY <1>3 DEF Trigger
  <2>2. Goto(d, "boot") \/ Goto(d, "other")
    BY <1>3 DEF Trigger
  <2> QED
    BY <1>3, <2>1, <2>2 DEF Trigger, stop_all_ccci_up_layer_services
<1>4. CASE SeeOther(d) \/ BootAlone(d) \/ Grant(d) \/ SeeOwn(d) \/ BootUp(d) \/ StartMd(d)
  BY <1>4 DEF SeeOther, BootAlone, Grant, SeeOwn, BootUp, StartMd
<1>5. CASE StartMdUnobserved(d) \/ StartMdFails(d) \/ CheckStateFails(d)
  BY <1>5 DEF StartMdUnobserved, StartMdFails, CheckStateFails, Return
<1>6. CASE AwaitReady(d)
  <2>1. Goto(d, "check") \/ Return(d) \/ UNCHANGED pc
    BY <1>6 DEF AwaitReady
  <2> QED
    BY <1>6, <2>1 DEF AwaitReady, Return
<1>7. CASE CheckState(d)
  <2>1. Goto(d, "publish") \/ Return(d)
    BY <1>7 DEF CheckState
  <2> QED
    BY <1>7, <2>1 DEF CheckState, Return
<1>8. CASE PublishReady(d)
  <2>1. \/ mode # "normal" /\ UNCHANGED <<svc, mdlogger_cnt>>
        \/ start_all_ccci_up_layer_services(d)
    BY <1>8 DEF PublishReady
  <2>2. pc'[d] \in {"tail", "idle"} /\ "fsd" \in svc[d]
    BY <1>8 DEF PublishReady, Return
  <2>3. CASE mode # "normal" /\ UNCHANGED <<svc, mdlogger_cnt>>
    BY <2>2, <2>3
  <2>4. CASE start_all_ccci_up_layer_services(d)
    BY <2>2, <2>4 DEF start_all_ccci_up_layer_services, StartedServices, is_factory_mode, Daemon
  <2> QED
    BY <2>1, <2>3, <2>4
<1>9. CASE Serve(d)
  <2>1. CASE Ignore(d)
    BY <2>1 DEF Ignore
  <2>2. CASE HandleException(d)
    BY <2>2 DEF HandleException, Take
  <2>3. CASE HandleStart(d) \/ HandleStop(d)
    BY <2>3 DEF HandleStart, HandleStop
  <2>4. CASE StopMd(d) \/ StopMdFails(d) \/ StopMdUnobserved(d)
    BY <2>4 DEF StopMd, StopMdFails, StopMdUnobserved
  <2>5. CASE AwaitStop(d)
    <3>1. Goto(d, "teardown") \/ UNCHANGED pc
      BY <2>5 DEF AwaitStop
    <3> QED
      BY <2>5, <3>1 DEF AwaitStop
  <2>6. CASE EnterFlightMode(d)
    BY <2>6 DEF EnterFlightMode
  <2>7. CASE TearDown(d)
    <3>1. UNCHANGED <<svc, mdlogger_cnt>> \/ stop_all_ccci_up_layer_services(d)
      BY <2>7 DEF TearDown
    <3> QED
      BY <2>7, <3>1 DEF TearDown, stop_all_ccci_up_layer_services
  <2> QED
    BY <1>9, <2>1, <2>2, <2>3, <2>4, <2>5, <2>6, <2>7 DEF Serve
<1>10. CASE ModemStep(d) \/ ModemCrashes(d) \/ PostCommon(d)
  BY <1>10 DEF ModemStep, ModemBoots, ModemStops, ModemCrashes, PostCommon
<1>11. CASE Kill(d)
  BY <1>11 DEF Kill, Exit
<1> QED
  BY <1>1, <1>2, <1>3, <1>4, <1>5, <1>6, <1>7, <1>8, <1>9, <1>10, <1>11
     DEF Step, DaemonStep, Restart

\* Whatever path led to BOOT_READY, the up-layer services run then: the
\* daemon's own count of mdlogger (mdlogger_cnt) never makes
\* start_all_ccci_up_layer_services skip a service that does not run.
THEOREM ReadyIsServed == Spec => []ServedWhenReady
<1> DEFINE Ready == \A d \in Daemon : ReadyInv(d)
           Inv   == \A d \in Daemon : ServedInv(d)
<1>1. Init => Inv
  BY DEF Init, ServedInv, Booting
<1>2. TypeOK /\ Ready /\ Inv /\ [Next]_vars => Inv'
  <2> SUFFICES ASSUME TypeOK, Ready, Inv, [Next]_vars, NEW e \in Daemon
               PROVE  ServedInv(e)'
    OBVIOUS
  <2>1. UNCHANGED mode
    BY ModeFixed
  <2>2. ASSUME View(e)' = View(e) PROVE ServedInv(e)'
    BY <2>1, <2>2 DEF View, ServedInv, UpLayer
  <2>3. ASSUME NEW d \in Daemon, Step(d) PROVE ServedInv(e)'
    BY <2>1, <2>2, <2>3, ServedStep, StepFrame
  <2>4. ASSUME PostRequest PROVE ServedInv(e)'
    BY <2>4, RequestFrame DEF ServedInv, UpLayer
  <2>5. ASSUME UNCHANGED vars PROVE ServedInv(e)'
    BY <2>2, <2>5 DEF vars, local, kernel, View
  <2> QED
    BY <2>3, <2>4, <2>5, StepCases
<1>3. Inv => ServedWhenReady
  BY DEF ServedWhenReady, ServedInv
<1> QED
  BY <1>1, <1>2, <1>3, TypeCorrect, ReadyAlways, PTL DEF Spec

-----------------------------------------------------------------------------
(* A restart with the services stopped *)

\* Where a daemon that must have stopped its services is.
AfterTrigger == {"other", "grant", "own", "boot"} \cup Booting

Quiet(d) == svc[d] \cap UpLayer(d) = {}

\* mdlogger runs only if it is counted, so that stopping the services stops it.
QuietInv(d) ==
  /\ "mdlogger" \in svc[d] => mdlogger_cnt[d]
  /\ mode = "normal" /\ req[d] = "RESET" /\ pc[d] \in {"trigger"} \cup AfterTrigger => Quiet(d)
  /\ mode = "normal" /\ req[d] = "FLIGHT_START" /\ pc[d] \in AfterTrigger => Quiet(d)
  /\ pc[d] = "open" => req[d] = "BOOT"

\* Without META or factory mode, stopping all services leaves no up-layer service.
LEMMA StopIsQuiet ==
  ASSUME TypeOK, NEW d \in Daemon, "mdlogger" \in svc[d] => mdlogger_cnt[d],
         stop_all_ccci_up_layer_services(d), UNCHANGED mode
  PROVE  /\ "mdlogger" \in svc'[d] => mdlogger_cnt'[d]
         /\ mode = "normal" => Quiet(d)'
<1>1. "mdlogger" \notin svc'[d]
  BY DEF TypeOK, stop_all_ccci_up_layer_services, StoppedServices
<1>2. mode = "normal" => "rild" \notin svc'[d] /\ (d = "md1" => "muxd" \notin svc'[d])
  BY DEF TypeOK, stop_all_ccci_up_layer_services, StoppedServices, is_factory_mode, Daemon
<1> QED
  BY <1>1, <1>2 DEF Quiet, UpLayer, Daemon

\* The services in a restart, as long as the daemon is not lost.
LEMMA QuietStep ==
  ASSUME TypeOK, NEW d \in Daemon, QuietInv(d), Step(d), UNCHANGED mode, Budget["loss"] = 0
  PROVE  QuietInv(d)'
<1> USE DEF QuietInv, AfterTrigger, Booting, TypeOK, Goto, set_current_md_status, local, kernel
<1>1. CASE Launch(d)
  BY <1>1 DEF Launch, Quiet, UpLayer
<1>2. CASE Boot(d)
  <2>1. CASE OpenPort(d)
    BY <2>1 DEF OpenPort, Quiet, UpLayer
  <2>2. CASE EnterLoop(d)
    BY <2>2 DEF EnterLoop, Quiet, UpLayer
  <2>3. CASE OpenPortFails(d) \/ EnterLoopFails(d)
    BY <2>3, NoneAllowed DEF OpenPortFails, EnterLoopFails, Kinds
  <2> QED
    BY <1>2, <2>1, <2>2, <2>3 DEF Boot
<1>3. CASE Trigger(d)
  <2>1. \/ /\ UNCHANGED <<svc, mdlogger_cnt>>
           /\ mode = "normal" => req[d] # "FLIGHT_START"
        \/ stop_all_ccci_up_layer_services(d)
    BY <1>3 DEF Trigger, is_meta_mode
  <2>2. (pc'[d] = "boot" \/ pc'[d] = "other") /\ pc[d] = "trigger" /\ UNCHANGED req
    BY <1>3 DEF Trigger
  <2>3. CASE UNCHANGED <<svc, mdlogger_cnt>> /\ (mode = "normal" => req[d] # "FLIGHT_START")
    BY <2>2, <2>3 DEF Quiet, UpLayer
  <2>4. CASE stop_all_ccci_up_layer_services(d)
    BY <2>2, <2>4, StopIsQuiet
  <2> QED
    BY <2>1, <2>3, <2>4
<1>4. CASE SeeOther(d) \/ BootAlone(d) \/ Grant(d) \/ SeeOwn(d) \/ StartMd(d)
  BY <1>4 DEF SeeOther, BootAlone, Grant, SeeOwn, StartMd, Quiet, UpLayer
<1>5. CASE BootUp(d)
  <2>1. svc'[d] = svc[d] \cup {"fsd"} /\ pc[d] = "boot" /\ pc'[d] = "start"
    BY <1>5 DEF BootUp
  <2>2. UNCHANGED <<req, mdlogger_cnt>>
    BY <1>5 DEF BootUp
  <2> QED
    BY <2>1, <2>2 DEF Quiet, UpLayer
<1>6. CASE StartMdUnobserved(d) \/ StartMdFails(d) \/ CheckStateFails(d)
  BY <1>6 DEF StartMdUnobserved, StartMdFails, CheckStateFails, Return
<1>7. CASE AwaitReady(d)
  <2>1. Goto(d, "check") \/ Return(d) \/ UNCHANGED pc
    BY <1>7 DEF AwaitReady
  <2> QED
    BY <1>7, <2>1 DEF AwaitReady, Return, Quiet, UpLayer
<1>8. CASE CheckState(d)
  <2>1. Goto(d, "publish") \/ Return(d)
    BY <1>8 DEF CheckState
  <2> QED
    BY <1>8, <2>1 DEF CheckState, Return, Quiet, UpLayer
<1>9. CASE PublishReady(d)
  <2>1. UNCHANGED <<svc, mdlogger_cnt>> \/ start_all_ccci_up_layer_services(d)
    BY <1>9 DEF PublishReady
  <2>2. "mdlogger" \in svc'[d] => mdlogger_cnt'[d]
    BY <2>1 DEF start_all_ccci_up_layer_services
  <2>3. pc'[d] \in {"tail", "idle"}
    BY <1>9 DEF PublishReady, Return
  <2> QED
    BY <2>2, <2>3
<1>10. CASE Serve(d)
  <2>1. CASE Ignore(d)
    BY <2>1 DEF Ignore, Quiet, UpLayer
  <2>2. CASE HandleException(d)
    <3>1. pc'[d] = "idle" /\ mdlogger_cnt'[d]
      BY <2>2 DEF HandleException, Take
    <3> QED
      BY <3>1
  <2>3. CASE HandleStart(d)
    <3>1. /\ pc'[d] = "trigger" /\ req'[d] \in {"FORCE_START", "FLIGHT_START"}
          /\ UNCHANGED <<svc, mdlogger_cnt>>
      BY <2>3 DEF HandleStart
    <3> QED
      BY <3>1
  <2>4. CASE HandleStop(d)
    <3>1. pc'[d] = "stop" /\ UNCHANGED <<svc, mdlogger_cnt>>
      BY <2>4 DEF HandleStop
    <3> QED
      BY <3>1
  <2>5. CASE StopMd(d) \/ StopMdFails(d) \/ StopMdUnobserved(d)
    BY <2>5 DEF StopMd, StopMdFails, StopMdUnobserved
  <2>6. CASE AwaitStop(d)
    <3>1. Goto(d, "teardown") \/ UNCHANGED pc
      BY <2>6 DEF AwaitStop
    <3> QED
      BY <2>6, <3>1 DEF AwaitStop
  <2>7. CASE EnterFlightMode(d)
    BY <2>7 DEF EnterFlightMode
  <2>8. CASE TearDown(d)
    <3>1. \/ UNCHANGED <<svc, mdlogger_cnt>> /\ mode # "normal"
          \/ stop_all_ccci_up_layer_services(d)
      BY <2>8 DEF TearDown, is_meta_mode
    <3>2. pc'[d] \in {"trigger", "idle"}
      BY <2>8 DEF TearDown
    <3>3. CASE UNCHANGED <<svc, mdlogger_cnt>> /\ mode # "normal"
      BY <3>2, <3>3
    <3>4. CASE stop_all_ccci_up_layer_services(d)
      BY <3>2, <3>4, StopIsQuiet
    <3> QED
      BY <3>1, <3>3, <3>4
  <2> QED
    BY <1>10, <2>1, <2>2, <2>3, <2>4, <2>5, <2>6, <2>7, <2>8 DEF Serve
<1>11. CASE ModemStep(d) \/ ModemCrashes(d) \/ PostCommon(d)
  BY <1>11 DEF ModemStep, ModemBoots, ModemStops, ModemCrashes, PostCommon, Quiet, UpLayer
<1>12. CASE Kill(d)
  BY <1>12, NoneAllowed DEF Kill, Kinds
<1> QED
  BY <1>1, <1>2, <1>3, <1>4, <1>5, <1>6, <1>7, <1>8, <1>9, <1>10, <1>11, <1>12
     DEF Step, DaemonStep, Restart

\* A modem restarted by RESET or by leaving flight mode boots with the up-layer
\* services stopped, as long as no daemon is lost: a new instance of a daemon
\* has forgotten that mdlogger runs (mdlogger_cnt) and would not stop it.
THEOREM RestartIsQuiet ==
  ASSUME Budget["loss"] = 0
  PROVE  Spec => []QuietRestart
<1> DEFINE Inv == \A d \in Daemon : QuietInv(d)
<1>1. Init => Inv
  BY DEF Init, QuietInv, AfterTrigger, Booting
<1>2. TypeOK /\ Inv /\ [Next]_vars => Inv'
  <2> SUFFICES ASSUME TypeOK, Inv, [Next]_vars, NEW e \in Daemon
               PROVE  QuietInv(e)'
    OBVIOUS
  <2>1. UNCHANGED mode
    BY ModeFixed
  <2>2. ASSUME View(e)' = View(e) PROVE QuietInv(e)'
    BY <2>1, <2>2 DEF View, QuietInv, Quiet, UpLayer
  <2>3. ASSUME NEW d \in Daemon, Step(d) PROVE QuietInv(e)'
    BY <2>1, <2>2, <2>3, QuietStep, StepFrame
  <2>4. ASSUME PostRequest PROVE QuietInv(e)'
    BY <2>4, RequestFrame DEF QuietInv, Quiet, UpLayer
  <2>5. ASSUME UNCHANGED vars PROVE QuietInv(e)'
    BY <2>2, <2>5 DEF vars, local, kernel, View
  <2> QED
    BY <2>3, <2>4, <2>5, StepCases
<1>3. Inv => QuietRestart
  BY DEF QuietRestart, QuietInv, AfterTrigger, Booting, Quiet
<1> QED
  BY <1>1, <1>2, <1>3, TypeCorrect, PTL DEF Spec

-----------------------------------------------------------------------------
(* A modem that was told to stop *)

Down(d) == modem[d] \in {"off", "stopping"}

\* Behind a stop the modem is down until it is started again.
StoppedInv(d) ==
  /\ pc[d] = "open" => req[d] = "BOOT"
  /\ fsm[d] \in {"stop", "flightmode"} =>
       pc[d] \in {"idle", "trigger", "stop", "wait_stop", "teardown"}
  /\ pc[d] \in {"wait_stop", "teardown"} => Down(d)
  /\ pc[d] = "idle" /\ fsm[d] \in {"stop", "flightmode"} => Down(d)
  /\ pc[d] \in {"trigger", "other", "grant", "own"} /\ req[d] = "RESET" => Down(d)

\* The modem behind a stop, as long as no call to the kernel fails.
LEMMA StoppedStep ==
  ASSUME TypeOK, NEW d \in Daemon, ReadyInv(d), StoppedInv(d), Step(d), Budget["fault"] = 0
  PROVE  StoppedInv(d)'
<1> USE DEF StoppedInv, ReadyInv, Down, Booting, TypeOK, Goto, set_current_md_status,
            local, kernel
<1>1. CASE Launch(d)
  BY <1>1 DEF Launch
<1>2. CASE Boot(d)
  <2>1. CASE OpenPort(d)
    BY <2>1 DEF OpenPort
  <2>2. CASE EnterLoop(d)
    BY <2>2 DEF EnterLoop
  <2>3. CASE OpenPortFails(d) \/ EnterLoopFails(d)
    BY <2>3 DEF OpenPortFails, EnterLoopFails, Exit
  <2> QED
    BY <1>2, <2>1, <2>2, <2>3 DEF Boot
<1>3. CASE Trigger(d)
  <2>1. Goto(d, "boot") \/ Goto(d, "other")
    BY <1>3 DEF Trigger
  <2> QED
    BY <1>3, <2>1 DEF Trigger
<1>4. CASE SeeOther(d) \/ BootAlone(d) \/ Grant(d) \/ SeeOwn(d) \/ BootUp(d) \/ StartMd(d)
  BY <1>4 DEF SeeOther, BootAlone, Grant, SeeOwn, BootUp, StartMd
<1>5. CASE StartMdUnobserved(d) \/ StartMdFails(d) \/ CheckStateFails(d)
  BY <1>5 DEF StartMdUnobserved, StartMdFails, CheckStateFails, Return
<1>6. CASE AwaitReady(d)
  <2>1. Goto(d, "check") \/ Return(d) \/ UNCHANGED pc
    BY <1>6 DEF AwaitReady
  <2> QED
    BY <1>6, <2>1 DEF AwaitReady, Return
<1>7. CASE CheckState(d)
  <2>1. Goto(d, "publish") \/ Return(d)
    BY <1>7 DEF CheckState
  <2> QED
    BY <1>7, <2>1 DEF CheckState, Return
<1>8. CASE PublishReady(d)
  BY <1>8 DEF PublishReady, Return
<1>9. CASE Serve(d)
  <2>1. CASE Ignore(d)
    BY <2>1 DEF Ignore
  <2>2. CASE HandleException(d)
    BY <2>2 DEF HandleException, Take
  <2>3. CASE HandleStart(d)
    BY <2>3 DEF HandleStart, Take
  <2>4. CASE HandleStop(d)
    BY <2>4 DEF HandleStop, Take
  <2>5. CASE StopMd(d)
    BY <2>5 DEF StopMd
  <2>6. CASE StopMdFails(d)
    <3>1. modem[d] = "off"
      BY <2>6, NoneAllowed DEF StopMdFails, Kinds
    <3> QED
      BY <2>6, <3>1 DEF StopMdFails
  <2>7. CASE StopMdUnobserved(d)
    BY <2>7, NoneAllowed DEF StopMdUnobserved, Kinds
  <2>8. CASE AwaitStop(d)
    <3>1. Goto(d, "teardown") \/ UNCHANGED pc
      BY <2>8 DEF AwaitStop
    <3> QED
      BY <2>8, <3>1 DEF AwaitStop
  <2>9. CASE EnterFlightMode(d) \/ TearDown(d)
    BY <2>9 DEF EnterFlightMode, TearDown
  <2> QED
    BY <1>9, <2>1, <2>2, <2>3, <2>4, <2>5, <2>6, <2>7, <2>8, <2>9 DEF Serve
<1>10. CASE ModemStep(d) \/ ModemCrashes(d) \/ PostCommon(d)
  BY <1>10 DEF ModemStep, ModemBoots, ModemStops, ModemCrashes, PostCommon
<1>11. CASE Kill(d)
  BY <1>11 DEF Kill, Exit
<1> QED
  BY <1>1, <1>2, <1>3, <1>4, <1>5, <1>6, <1>7, <1>8, <1>9, <1>10, <1>11
     DEF Step, DaemonStep, Restart

\* StoppedInv holds of every daemon in every state, if no call fails.
LEMMA StoppedAlways ==
  ASSUME Budget["fault"] = 0
  PROVE  Spec => [](\A d \in Daemon : StoppedInv(d))
<1> DEFINE Ready == \A d \in Daemon : ReadyInv(d)
           Inv   == \A d \in Daemon : StoppedInv(d)
<1>1. Init => Inv
  BY DEF Init, StoppedInv
<1>2. TypeOK /\ Ready /\ Inv /\ [Next]_vars => Inv'
  <2> SUFFICES ASSUME TypeOK, Ready, Inv, [Next]_vars, NEW e \in Daemon
               PROVE  StoppedInv(e)'
    OBVIOUS
  <2>1. ASSUME View(e)' = View(e) PROVE StoppedInv(e)'
    BY <2>1 DEF View, StoppedInv, Down
  <2>2. ASSUME NEW d \in Daemon, Step(d) PROVE StoppedInv(e)'
    BY <2>1, <2>2, StoppedStep, StepFrame
  <2>3. ASSUME PostRequest PROVE StoppedInv(e)'
    BY <2>3, RequestFrame DEF StoppedInv, Down
  <2>4. ASSUME UNCHANGED vars PROVE StoppedInv(e)'
    BY <2>1, <2>4 DEF vars, local, kernel, View
  <2> QED
    BY <2>2, <2>3, <2>4, StepCases
<1> QED
  BY <1>1, <1>2, TypeCorrect, ReadyAlways, PTL DEF Spec

\* In the loop, STOP and FLIGHT_MODE mean that the modem was told to stop, for
\* every environment in which the stop itself does not fail (the handlers do
\* not look at what stop_modem returns), lost daemons included.
THEOREM StopIsTrue ==
  ASSUME Budget["fault"] = 0
  PROVE  Spec => []StoppedIsStopped
<1>1. (\A d \in Daemon : StoppedInv(d)) => StoppedIsStopped
  BY DEF StoppedIsStopped, StoppedInv, Down
<1> QED
  BY <1>1, StoppedAlways, PTL

\* When MD3 resets the PCCIF in the handshake, the modem of an MD1 that is being
\* reset too is not running on it: the handshake keeps MD1 between its stop and
\* its boot until MD3 has granted.
THEOREM PccifIsQuiet ==
  ASSUME Lockstep, Budget["fault"] = 0
  PROVE  Spec => PccifResetQuiet
<1> DEFINE Stopped == \A d \in Daemon : StoppedInv(d)
<1>1. HandshakeInv /\ Stopped /\ [Next]_vars =>
        [pc["md3"] = "grant" /\ pc'["md3"] = "own" /\ req["md1"] = "RESET" =>
           modem["md1"] \notin {"booting", "ready"}]_vars
  <2> SUFFICES ASSUME HandshakeInv, Stopped, pc["md3"] = "grant", req["md1"] = "RESET"
               PROVE  modem["md1"] \notin {"booting", "ready"}
    OBVIOUS
  <2>1. InHandshake("md1")
    BY DEF HandshakeInv, StatusPlaces, Peer, Daemon
  <2>2. StoppedInv("md1")
    BY DEF Daemon
  <2> QED
    BY <2>1, <2>2 DEF InHandshake, StoppedInv, Down
<1> QED
  BY <1>1, HandshakeCorrect, StoppedAlways, PTL DEF Spec, PccifResetQuiet
=============================================================================
