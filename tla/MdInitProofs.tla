---------------------------- MODULE MdInitProofs ----------------------------
(***************************************************************************)
(* Theorems about MdInit, for every value of its constants: the types, and  *)
(* the absence of a mutual wait in the restart handshake, whatever is lost  *)
(* and whenever requests come.                                              *)
(***************************************************************************)
EXTENDS MdInit, TLAPS

-----------------------------------------------------------------------------
(* Types *)

\* What the helpers do to the types of the variables they set.
LEMMA GotoType ==
  ASSUME TypeOK, NEW d \in Daemon, NEW l \in Location, Goto(d, l)
  PROVE  pc' \in [Daemon -> Location]
BY DEF TypeOK, Goto

\* trigger_modem_to_run returns to a place of the program.
LEMMA ReturnType ==
  ASSUME TypeOK, NEW d \in Daemon, Return(d)
  PROVE  pc' \in [Daemon -> Location]
<1>1. PICK l \in Location : Goto(d, l)
  BY DEF Return, Location
<1> QED
  BY <1>1, GotoType

\* The bookkeeping of environment moves stays a count.
LEMMA SpendType ==
  ASSUME TypeOK, NEW k \in Kinds, Spend(k)
  PROVE  spent' \in [Kinds -> Nat]
BY DEF TypeOK, Spend

\* Taking a message leaves a queue of messages.
LEMMA TakeType ==
  ASSUME TypeOK, NEW d \in Daemon, NEW m, Take(d, m)
  PROVE  queue' \in [Daemon -> Seq(Message)]
<1>1. Tail(queue[d]) \in Seq(Message)
  BY DEF TypeOK, Take
<1> QED
  BY <1>1 DEF TypeOK, Take

\* Publishing a status keeps the FSM and the property in their types.
LEMMA StatusType ==
  ASSUME TypeOK, NEW d \in Daemon, NEW s \in State, set_current_md_status(d, s)
  PROVE  /\ fsm' \in [Daemon -> State]
         /\ status' \in [Daemon -> State \cup {"none", "reset_start"}]
BY DEF TypeOK, set_current_md_status

\* Stopping services leaves a set of services.
LEMMA StopAllType ==
  ASSUME TypeOK, NEW d \in Daemon,
         \/ stop_all_ccci_up_layer_services(d)
         \/ UNCHANGED <<svc, mdlogger_cnt>>
  PROVE  /\ svc' \in [Daemon -> SUBSET Service]
         /\ mdlogger_cnt' \in [Daemon -> BOOLEAN]
<1>1. svc[d] \ StoppedServices(d) \in SUBSET Service
  BY DEF TypeOK
<1>2. svc' \in [Daemon -> SUBSET Service]
  BY <1>1 DEF TypeOK, stop_all_ccci_up_layer_services
<1>3. mdlogger_cnt' \in [Daemon -> BOOLEAN]
  BY DEF TypeOK, stop_all_ccci_up_layer_services
<1> QED
  BY <1>2, <1>3

\* The end of a process keeps the types.
LEMMA ExitType ==
  ASSUME TypeOK, NEW d \in Daemon, Exit(d), Spend("loss")
  PROVE  TypeOK'
<1>1. spent' \in [Kinds -> Nat]
  BY SpendType DEF Kinds
<1>2. pc' \in [Daemon -> Location]
  BY GotoType DEF Exit, Location
<1>3. queue' \in [Daemon -> Seq(Message)] /\ events' \in [Daemon -> Seq(Event)]
  BY DEF Exit, TypeOK
<1>4. killed' \in [Daemon -> BOOLEAN]
  BY DEF Exit, TypeOK
<1> QED
  BY <1>1, <1>2, <1>3, <1>4 DEF Exit, TypeOK, State

\* A step of main_v2 or of trigger_modem_to_run keeps the types.
LEMMA RestartType ==
  ASSUME TypeOK, NEW d \in Daemon, Restart(d)
  PROVE  TypeOK'
<1> USE DEF local, kernel
<1>1. CASE Trigger(d)
  <2>1. svc' \in [Daemon -> SUBSET Service] /\ mdlogger_cnt' \in [Daemon -> BOOLEAN]
    BY <1>1, StopAllType DEF Trigger
  <2>2. Goto(d, "boot") \/ Goto(d, "other")
    BY <1>1 DEF Trigger
  <2>3. pc' \in [Daemon -> Location]
    BY <2>2, GotoType DEF Location
  <2>4. entered' = entered \/ entered' = [entered EXCEPT ![d] = @ + 1]
    BY <1>1 DEF Trigger
  <2>5. ASSUME entered' = [entered EXCEPT ![d] = @ + 1]
        PROVE  entered' \in [Daemon -> Nat]
    BY <2>5 DEF TypeOK
  <2>6. entered' \in [Daemon -> Nat]
    BY <2>4, <2>5 DEF TypeOK
  <2>7. /\ fsm' \in [Daemon -> State]
        /\ status' \in [Daemon -> State \cup {"none", "reset_start"}]
    BY <1>1, StatusType DEF Trigger, State
  <2> QED
    BY <1>1, <2>1, <2>3, <2>6, <2>7 DEF Trigger, TypeOK
<1>2. CASE SeeOther(d)
  BY <1>2, GotoType DEF SeeOther, TypeOK, Location
<1>3. CASE BootAlone(d)
  BY <1>3 DEF BootAlone, TypeOK, Goto, Location
<1>4. CASE Grant(d)
  BY <1>4 DEF Grant, TypeOK, Goto, Location
<1>5. CASE SeeOwn(d)
  BY <1>5 DEF SeeOwn, TypeOK, Goto, Location
<1>6. CASE BootUp(d)
  BY <1>6 DEF BootUp, TypeOK, Goto, Location, set_current_md_status, State, Service
<1>7. CASE StartMd(d)
  BY <1>7 DEF StartMd, TypeOK, Goto, Location
<1>8. CASE StartMdUnobserved(d)
  <2>1. pc' \in [Daemon -> Location] /\ spent' \in [Kinds -> Nat]
    BY <1>8, ReturnType, SpendType DEF StartMdUnobserved, Kinds
  <2> QED
    BY <1>8, <2>1 DEF StartMdUnobserved, TypeOK
<1>9. CASE StartMdFails(d)
  <2>1. pc' \in [Daemon -> Location]
    BY <1>9, ReturnType DEF StartMdFails
  <2>2. spent' \in [Kinds -> Nat]
    BY <1>9, SpendType DEF StartMdFails, Kinds, TypeOK
  <2> QED
    BY <1>9, <2>1, <2>2 DEF StartMdFails, TypeOK
<1>10. CASE AwaitReady(d)
  <2>1. Goto(d, "check") \/ Return(d) \/ UNCHANGED pc
    BY <1>10 DEF AwaitReady
  <2>2. pc' \in [Daemon -> Location]
    BY <2>1, GotoType, ReturnType DEF Location, TypeOK
  <2>3. events' \in [Daemon -> Seq(Event)]
    BY <1>10 DEF AwaitReady, TypeOK
  <2> QED
    BY <1>10, <2>2, <2>3 DEF AwaitReady, TypeOK
<1>11. CASE CheckState(d)
  <2>1. Goto(d, "publish") \/ Return(d)
    BY <1>11 DEF CheckState
  <2>2. pc' \in [Daemon -> Location]
    BY <2>1, GotoType, ReturnType DEF Location
  <2> QED
    BY <1>11, <2>2 DEF CheckState, TypeOK
<1>12. CASE CheckStateFails(d)
  <2>1. pc' \in [Daemon -> Location] /\ spent' \in [Kinds -> Nat]
    BY <1>12, ReturnType, SpendType DEF CheckStateFails, Kinds
  <2> QED
    BY <1>12, <2>1 DEF CheckStateFails, TypeOK
<1>13. CASE PublishReady(d)
  <2>1. pc' \in [Daemon -> Location]
    BY <1>13, ReturnType DEF PublishReady
  <2>2. svc[d] \cup StartedServices(d) \in SUBSET Service
    BY DEF TypeOK, StartedServices, Service
  <2>3. svc' \in [Daemon -> SUBSET Service]
    BY <1>13, <2>2 DEF PublishReady, start_all_ccci_up_layer_services, TypeOK
  <2>4. mdlogger_cnt' \in [Daemon -> BOOLEAN]
    BY <1>13 DEF PublishReady, start_all_ccci_up_layer_services, TypeOK
  <2>5. /\ fsm' \in [Daemon -> State]
        /\ status' \in [Daemon -> State \cup {"none", "reset_start"}]
    BY <1>13, StatusType DEF PublishReady, State
  <2> QED
    BY <1>13, <2>1, <2>3, <2>4, <2>5 DEF PublishReady, TypeOK
<1> QED
  BY <1>1, <1>2, <1>3, <1>4, <1>5, <1>6, <1>7, <1>8, <1>9, <1>10, <1>11, <1>12, <1>13
     DEF Restart

\* A step of the message loop keeps the types.
LEMMA ServeType ==
  ASSUME TypeOK, NEW d \in Daemon, Serve(d)
  PROVE  TypeOK'
<1> USE DEF local, kernel
<1>1. CASE Ignore(d)
  <2>1. PICK m : Take(d, m)
    BY <1>1 DEF Ignore
  <2> QED
    BY <1>1, <2>1, TakeType DEF Ignore, TypeOK
<1>2. CASE HandleException(d)
  <2>1. queue' \in [Daemon -> Seq(Message)]
    BY <1>2, TakeType DEF HandleException
  <2>2. svc' \in [Daemon -> SUBSET Service]
    BY <1>2 DEF HandleException, TypeOK, Service
  <2>3. /\ fsm' \in [Daemon -> State]
        /\ status' \in [Daemon -> State \cup {"none", "reset_start"}]
    BY <1>2, StatusType DEF HandleException, State
  <2> QED
    BY <1>2, <2>1, <2>2, <2>3 DEF HandleException, TypeOK
<1>3. CASE HandleStart(d)
  <2>1. PICK m \in {"FORCE_START", "FLIGHT_START"} :
          /\ Take(d, m)
          /\ req' = [req EXCEPT ![d] = m]
          /\ Goto(d, "trigger")
          /\ UNCHANGED <<entered, passed, fsm, status, staOpen, svc, mdlogger_cnt,
                         need_silent_reboot, mode, spent, killed, events, modem>>
    BY <1>3 DEF HandleStart
  <2> QED
    BY <2>1, TakeType, GotoType DEF TypeOK, Location, Request
<1>4. CASE HandleStop(d)
  <2>1. PICK m \in {"FORCE_STOP", "FLIGHT_STOP", "RESET"} :
          /\ Take(d, m)
          /\ req' = [req EXCEPT ![d] = m]
          /\ Goto(d, "stop")
          /\ UNCHANGED <<entered, passed, fsm, status, staOpen, svc, mdlogger_cnt,
                         need_silent_reboot, mode, spent, killed, events, modem>>
    BY <1>4 DEF HandleStop
  <2> QED
    BY <2>1, TakeType, GotoType DEF TypeOK, Location, Request
<1>5. CASE StopMd(d)
  BY <1>5 DEF StopMd, TypeOK, Goto, Location
<1>6. CASE StopMdFails(d)
  <2>1. spent' \in [Kinds -> Nat]
    BY <1>6, SpendType DEF StopMdFails, Kinds, TypeOK
  <2> QED
    BY <1>6, <2>1, GotoType DEF StopMdFails, TypeOK, Location
<1>7. CASE StopMdUnobserved(d)
  <2>1. pc' \in [Daemon -> Location] /\ spent' \in [Kinds -> Nat]
    BY <1>7, GotoType, SpendType DEF StopMdUnobserved, Kinds, Location
  <2> QED
    BY <1>7, <2>1 DEF StopMdUnobserved, TypeOK
<1>8. CASE AwaitStop(d)
  <2>1. Goto(d, "teardown") \/ UNCHANGED pc
    BY <1>8 DEF AwaitStop
  <2>2. pc' \in [Daemon -> Location]
    BY <2>1, GotoType DEF Location, TypeOK
  <2>3. events' \in [Daemon -> Seq(Event)]
    BY <1>8 DEF AwaitStop, TypeOK
  <2> QED
    BY <1>8, <2>2, <2>3 DEF AwaitStop, TypeOK
<1>9. CASE EnterFlightMode(d)
  BY <1>9, StatusType, GotoType DEF EnterFlightMode, TypeOK, Location, State
<1>10. CASE TearDown(d)
  <2>1. svc' \in [Daemon -> SUBSET Service] /\ mdlogger_cnt' \in [Daemon -> BOOLEAN]
    BY <1>10, StopAllType DEF TearDown
  <2>2. /\ fsm' \in [Daemon -> State]
        /\ status' \in [Daemon -> State \cup {"none", "reset_start"}]
    BY <1>10, StatusType DEF TearDown, State
  <2>3. Goto(d, "trigger") \/ Goto(d, "idle")
    BY <1>10 DEF TearDown
  <2>4. pc' \in [Daemon -> Location]
    BY <2>3, GotoType DEF Location
  <2> QED
    BY <1>10, <2>1, <2>2, <2>4 DEF TearDown, TypeOK
<1> QED
  BY <1>1, <1>2, <1>3, <1>4, <1>5, <1>6, <1>7, <1>8, <1>9, <1>10 DEF Serve

\* A move of the kernel or of a modem keeps the types.
LEMMA EnvironmentType ==
  ASSUME TypeOK,
         \/ PostRequest
         \/ \E d \in Daemon : PostCommon(d) \/ ModemStep(d) \/ ModemCrashes(d)
  PROVE  TypeOK'
<1> USE DEF local
<1>1. CASE PostRequest
  <2>1. spent' \in [Kinds -> Nat]
    BY <1>1, SpendType DEF PostRequest, Kinds
  <2>2. PICK m \in Requests, T \in SUBSET Started :
          queue' = [d \in Daemon |-> IF d \in T THEN Append(queue[d], m) ELSE queue[d]]
    BY <1>1 DEF PostRequest
  <2>3. m \in Message
    BY ConstantsOK DEF MdInitAssumption, Message
  <2>4. queue' \in [Daemon -> Seq(Message)]
    BY <2>2, <2>3 DEF TypeOK
  <2> QED
    BY <1>1, <2>1, <2>4 DEF PostRequest, TypeOK
<1>2. ASSUME NEW d \in Daemon, PostCommon(d) PROVE TypeOK'
  <2>1. spent' \in [Kinds -> Nat]
    BY <1>2, SpendType DEF PostCommon, Kinds
  <2>2. queue' \in [Daemon -> Seq(Message)]
    BY <1>2 DEF PostCommon, TypeOK, Message
  <2> QED
    BY <1>2, <2>1, <2>2 DEF PostCommon, TypeOK
<1>3. ASSUME NEW d \in Daemon, ModemStep(d) \/ ModemCrashes(d) PROVE TypeOK'
  <2>1. ASSUME NEW e \in Event, Emit(d, e) PROVE events' \in [Daemon -> Seq(Event)]
    BY <2>1 DEF Emit, TypeOK
  <2>2. CASE ModemBoots(d)
    BY <2>1, <2>2 DEF ModemBoots, TypeOK, Event
  <2>3. CASE ModemStops(d)
    BY <2>1, <2>3 DEF ModemStops, TypeOK, Event
  <2>4. CASE ModemCrashes(d)
    <3>1. spent' \in [Kinds -> Nat]
      BY <2>4, SpendType DEF ModemCrashes, Kinds
    <3>2. queue' \in [Daemon -> Seq(Message)]
      BY <2>4 DEF ModemCrashes, TypeOK, Message
    <3>3. events' \in [Daemon -> Seq(Event)]
      BY <2>1, <2>4 DEF ModemCrashes, Event
    <3> QED
      BY <2>4, <3>1, <3>2, <3>3 DEF ModemCrashes, TypeOK
  <2> QED
    BY <1>3, <2>2, <2>3, <2>4 DEF ModemStep
<1> QED
  BY <1>1, <1>2, <1>3

\* Every variable keeps its type, whatever the environment does.
THEOREM TypeCorrect == Spec => []TypeOK
<1>1. Init => TypeOK
  BY ConstantsOK DEF MdInitAssumption, Init, TypeOK, Location, State, Kinds
<1>2. TypeOK /\ [Next]_vars => TypeOK'
  <2> SUFFICES ASSUME TypeOK, [Next]_vars
               PROVE  TypeOK'
    OBVIOUS
  <2>1. ASSUME NEW d \in Daemon, Launch(d) PROVE TypeOK'
    BY <2>1, StatusType, GotoType DEF Launch, TypeOK, Location, State, kernel
  <2>2. ASSUME NEW d \in Daemon, Boot(d) PROVE TypeOK'
    <3>1. CASE OpenPort(d)
      BY <3>1, GotoType DEF OpenPort, TypeOK, Location, local, kernel
    <3>2. CASE EnterLoop(d)
      BY <3>2, GotoType DEF EnterLoop, TypeOK, Location, kernel
    <3> QED
      BY <2>2, <3>1, <3>2, ExitType DEF Boot, OpenPortFails, EnterLoopFails
  <2>3. CASE UNCHANGED vars
    BY <2>3 DEF vars, local, kernel, TypeOK
  <2> QED
    BY <2>1, <2>2, <2>3, RestartType, ServeType, EnvironmentType, ExitType
       DEF Next, DaemonStep, Kill
<1> QED
  BY <1>1, <1>2, PTL DEF Spec

-----------------------------------------------------------------------------
(* The restart handshake cannot deadlock, whatever the environment does *)

\* Only pc and status matter: a daemon in the handshake shows one of the two
\* statuses of it, two daemons in the first loop cannot both have been told to
\* go on, and of two in the second loop one has been told.
WaitInv ==
  /\ \A d \in Daemon : InHandshake(d) => status[d] \in {"reset", "reset_start"}
  /\ (\A d \in Daemon : pc[d] = "other") => \E d \in Daemon : status[d] = "reset"
  /\ (\A d \in Daemon : pc[d] = "own") => \E d \in Daemon : status[d] = "reset_start"

\* A step of d that leaves d outside the handshake and its peer alone.
StaysOut(d) ==
  /\ pc'[d] \notin {"other", "grant", "own"}
  /\ pc'[Peer(d)] = pc[Peer(d)]
  /\ status'[Peer(d)] = status[Peer(d)]

\* Moving the control point of d, or publishing its status, spares the peer.
LEMMA GotoFrame ==
  ASSUME TypeOK, NEW d \in Daemon, NEW l, Goto(d, l)
  PROVE  pc'[d] = l /\ pc'[Peer(d)] = pc[Peer(d)]
BY DEF TypeOK, Goto, Daemon, Peer

\* trigger_modem_to_run returns outside the handshake.
LEMMA ReturnFrame ==
  ASSUME TypeOK, NEW d \in Daemon, Return(d)
  PROVE  pc'[d] \in {"tail", "idle"} /\ pc'[Peer(d)] = pc[Peer(d)]
<1>1. PICK l \in {"tail", "idle"} : Goto(d, l)
  BY DEF Return
<1> QED
  BY <1>1, GotoFrame

\* Publishing the status of d does not touch the peer's.
LEMMA StatusFrame ==
  ASSUME TypeOK, NEW d \in Daemon, NEW s, set_current_md_status(d, s)
  PROVE  /\ status'[d] = s /\ fsm'[d] = s
         /\ status'[Peer(d)] = status[Peer(d)] /\ fsm'[Peer(d)] = fsm[Peer(d)]
BY DEF TypeOK, set_current_md_status, Daemon, Peer

\* The daemon code outside check_to_restart_md_v2 stays outside of it.
LEMMA OutsideSteps ==
  ASSUME TypeOK, NEW d \in Daemon,
         \/ Launch(d) \/ Boot(d) \/ Serve(d) \/ Kill(d)
         \/ BootAlone(d) \/ SeeOwn(d) \/ BootUp(d) \/ StartMd(d)
         \/ StartMdUnobserved(d) \/ StartMdFails(d) \/ AwaitReady(d)
         \/ CheckState(d) \/ CheckStateFails(d) \/ PublishReady(d)
  PROVE  StaysOut(d)
<1> USE GotoFrame, ReturnFrame, StatusFrame DEF StaysOut
<1>1. CASE Launch(d)
  BY <1>1 DEF Launch
<1>2. CASE Boot(d)
  BY <1>2 DEF Boot, OpenPort, OpenPortFails, EnterLoop, EnterLoopFails, Exit
<1>3. CASE Kill(d)
  BY <1>3 DEF Kill, Exit
<1>4. CASE BootAlone(d) \/ SeeOwn(d) \/ BootUp(d) \/ StartMd(d)
  BY <1>4 DEF BootAlone, SeeOwn, BootUp, StartMd
<1>5. CASE StartMdUnobserved(d) \/ StartMdFails(d) \/ CheckStateFails(d)
  BY <1>5 DEF StartMdUnobserved, StartMdFails, CheckStateFails
<1>6. CASE AwaitReady(d)
  <2>1. \/ Goto(d, "check") \/ Return(d)
        \/ pc[d] = "wait_ready" /\ UNCHANGED pc
    BY <1>6 DEF AwaitReady
  <2>2. UNCHANGED status
    BY <1>6 DEF AwaitReady
  <2> QED
    BY <2>1, <2>2
<1>7. CASE CheckState(d)
  <2>1. Goto(d, "publish") \/ Return(d)
    BY <1>7 DEF CheckState
  <2> QED
    BY <1>7, <2>1 DEF CheckState
<1>8. CASE PublishReady(d)
  BY <1>8 DEF PublishReady
<1>9. CASE Serve(d)
  <2>1. CASE Ignore(d) \/ HandleException(d)
    BY <1>9, <2>1 DEF Ignore, HandleException, Take
  <2>2. CASE HandleStart(d) \/ HandleStop(d)
    BY <2>2 DEF HandleStart, HandleStop
  <2>3. CASE StopMd(d) \/ StopMdFails(d) \/ StopMdUnobserved(d)
    BY <2>3 DEF StopMd, StopMdFails, StopMdUnobserved
  <2>4. CASE AwaitStop(d)
    <3>1. Goto(d, "teardown") \/ (pc[d] = "wait_stop" /\ UNCHANGED pc)
      BY <2>4 DEF AwaitStop
    <3> QED
      BY <2>4, <3>1 DEF AwaitStop
  <2>5. CASE EnterFlightMode(d)
    BY <2>5 DEF EnterFlightMode
  <2>6. CASE TearDown(d)
    <3>1. Goto(d, "trigger") \/ Goto(d, "idle")
      BY <2>6 DEF TearDown
    <3> QED
      BY <2>6, <3>1 DEF TearDown
  <2> QED
    BY <1>9, <2>1, <2>2, <2>3, <2>4, <2>5, <2>6 DEF Serve
<1> QED
  BY <1>1, <1>2, <1>3, <1>4, <1>5, <1>6, <1>7, <1>8, <1>9

\* The environment and housekeeping do not touch the handshake.
LEMMA EnvironmentFrame ==
  ASSUME \/ PostRequest
         \/ \E d \in Daemon : PostCommon(d) \/ ModemStep(d) \/ ModemCrashes(d)
  PROVE  UNCHANGED <<entered, passed, pc, status, local, killed>>
BY DEF PostRequest, PostCommon, ModemStep, ModemBoots, ModemStops, ModemCrashes

\* The two unbounded loops of check_to_restart_md_v2 never wait for each other,
\* with daemons killed and relaunched and requests sent at any time.
THEOREM NeverMutualWait == Spec => []NoMutualWait
<1>1. Init => WaitInv
  BY DEF Init, WaitInv, InHandshake, Daemon
<1>2. TypeOK /\ WaitInv /\ [Next]_vars => WaitInv'
  <2> SUFFICES ASSUME TypeOK, WaitInv, [Next]_vars
               PROVE  WaitInv'
    OBVIOUS
  <2>1. ASSUME NEW d \in Daemon, StaysOut(d) PROVE WaitInv'
    BY <2>1 DEF WaitInv, StaysOut, InHandshake, Daemon, Peer
  <2>2. ASSUME UNCHANGED <<pc, status>> PROVE WaitInv'
    BY <2>2 DEF WaitInv, InHandshake
  <2>3. ASSUME NEW d \in Daemon, Trigger(d) PROVE WaitInv'
    <3>1. /\ pc'[d] \in {"boot", "other"} /\ pc'[Peer(d)] = pc[Peer(d)]
          /\ status'[d] = "reset" /\ status'[Peer(d)] = status[Peer(d)]
      <4>1. Goto(d, "boot") \/ Goto(d, "other")
        BY <2>3 DEF Trigger
      <4> QED
        BY <2>3, <4>1, GotoFrame, StatusFrame DEF Trigger
    <3> QED
      BY <3>1 DEF WaitInv, InHandshake, Daemon, Peer
  <2>4. ASSUME NEW d \in Daemon, SeeOther(d) PROVE WaitInv'
    BY <2>4, GotoFrame DEF SeeOther, WaitInv, InHandshake, Daemon, Peer
  <2>5. ASSUME NEW d \in Daemon, Grant(d) PROVE WaitInv'
    <3>1. /\ pc[d] = "grant" /\ pc'[d] = "own" /\ pc'[Peer(d)] = pc[Peer(d)]
          /\ status'[d] = status[d] /\ status'[Peer(d)] = "reset_start"
      BY <2>5, GotoFrame DEF Grant, TypeOK, Daemon, Peer
    <3> QED
      BY <3>1 DEF WaitInv, InHandshake, Daemon, Peer
  <2>6. CASE UNCHANGED vars
    BY <2>2, <2>6 DEF vars
  <2> QED
    BY <2>1, <2>2, <2>3, <2>4, <2>5, <2>6, OutsideSteps, EnvironmentFrame
       DEF Next, DaemonStep, Restart
<1>3. WaitInv => NoMutualWait
  BY DEF WaitInv, NoMutualWait, Blocked, InHandshake, Daemon, Peer
<1> QED
  BY <1>1, <1>2, <1>3, TypeCorrect, PTL DEF Spec
=============================================================================
