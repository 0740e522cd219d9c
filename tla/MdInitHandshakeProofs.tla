----------------------- MODULE MdInitHandshakeProofs ------------------------
(***************************************************************************)
(* The restart handshake of MdInit is a barrier.  With both daemons there,  *)
(* none of them lost, and requests that wait for the first boots, the       *)
(* handshake invariant is inductive; the published status is then the truth  *)
(* and MdInit implements RestartBarrier.                                    *)
(***************************************************************************)
EXTENDS MdInitProofs

\* The setting in which the handshake is a barrier: MD1 and MD3 are both
\* launched, no daemon is lost, and the framework sends requests only to
\* modems that were booted once.
Lockstep ==
  /\ Started = Daemon
  /\ RequestsWaitForBoot
  /\ Budget["loss"] = 0

\* There are two daemons, each the peer of the other.
LEMMA PeerFacts ==
  ASSUME NEW d \in Daemon
  PROVE  /\ Peer(d) \in Daemon /\ Peer(d) # d /\ Peer(Peer(d)) = d
         /\ \A e \in Daemon : e = d \/ e = Peer(d)
BY DEF Daemon, Peer

\* No step loses a daemon.
LEMMA NoLoss ==
  ASSUME Lockstep, TypeOK, Spend("loss")
  PROVE  FALSE
BY DEF Lockstep, TypeOK, Spend, Kinds

-----------------------------------------------------------------------------
(* Steps outside the handshake *)

Elsewhere == Location \ {"off", "open", "boot", "other", "grant", "own"}

Housekeeping == Seq({"EXCEPTION", "COMMON"})

\* What a step of d leaves alone.
Alone(d) ==
  LET p == Peer(d)
  IN  /\ pc'[p] = pc[p] /\ fsm'[p] = fsm[p] /\ req'[p] = req[p]
      /\ queue'[p] = queue[p] /\ status'[p] = status[p]
      /\ UNCHANGED <<entered, passed, killed>>

\* A step of d between two places that have nothing to do with the handshake.
Plain(d) ==
  /\ Alone(d)
  /\ pc[d] \in Elsewhere /\ pc'[d] \in Elsewhere
  /\ \/ fsm'[d] = fsm[d] /\ status'[d] = status[d]
     \/ fsm'[d] = status'[d] /\ fsm'[d] \notin {"reset", "none"}
  /\ \/ req'[d] = req[d] /\ (pc[d] # "idle" \/ pc'[d] = "idle")
     \/ req'[d] \in Request /\ queue[d] \notin Housekeeping /\ pc[d] = "idle"
     \/ req'[d] = "NONE" /\ pc'[d] = "idle"
  /\ queue[d] \in Housekeeping => queue'[d] \in Housekeeping

\* Steps that move only the control point.
LEMMA GotoAlone ==
  ASSUME TypeOK, NEW d \in Daemon, NEW l, Goto(d, l),
         UNCHANGED <<entered, passed, fsm, req, status, queue, killed>>
  PROVE  Alone(d) /\ pc'[d] = l /\ fsm'[d] = fsm[d] /\ status'[d] = status[d]
         /\ req'[d] = req[d] /\ queue'[d] = queue[d]
BY GotoFrame DEF Alone

\* Taking a message leaves the peer's messages, and housekeeping stays housekeeping.
LEMMA TakeFrame ==
  ASSUME TypeOK, NEW d \in Daemon, NEW m, Take(d, m)
  PROVE  /\ pc[d] = "idle" /\ queue'[Peer(d)] = queue[Peer(d)]
         /\ queue[d] \in Housekeeping => queue'[d] \in Housekeeping /\ m \in {"EXCEPTION", "COMMON"}
<1>1. /\ queue'[d] = Tail(queue[d]) /\ queue[d] # <<>> /\ m = Head(queue[d])
      /\ queue'[Peer(d)] = queue[Peer(d)] /\ pc[d] = "idle"
  BY PeerFacts DEF Take, TypeOK
<1> QED
  BY <1>1 DEF Housekeeping

\* Setting one entry of req leaves the other.
LEMMA ReqFrame ==
  ASSUME TypeOK, NEW d \in Daemon, NEW r, req' = [req EXCEPT ![d] = r]
  PROVE  req'[d] = r /\ req'[Peer(d)] = req[Peer(d)]
BY PeerFacts DEF TypeOK

\* trigger_modem_to_run after BOOT_UP, and the end of main_v2, are plain steps.
LEMMA BootPlain ==
  ASSUME TypeOK, NEW d \in Daemon,
         \/ EnterLoop(d) \/ StartMd(d) \/ StartMdUnobserved(d) \/ StartMdFails(d)
         \/ AwaitReady(d) \/ CheckState(d) \/ CheckStateFails(d) \/ PublishReady(d)
  PROVE  Plain(d)
<1> USE DEF local, kernel, Elsewhere, Location
<1>1. ASSUME NEW l \in {"wait_ready", "check", "publish", "tail", "idle"}, Goto(d, l),
             pc[d] \in {"start", "wait_ready", "check"},
             UNCHANGED <<entered, passed, fsm, req, status, queue, killed>>
      PROVE  Plain(d)
  BY <1>1, GotoAlone DEF Plain
<1>2. ASSUME Return(d), pc[d] \in {"start", "wait_ready", "check"},
             UNCHANGED <<entered, passed, fsm, req, status, queue, killed>>
      PROVE  Plain(d)
  BY <1>1, <1>2 DEF Return
<1>3. CASE EnterLoop(d)
  BY <1>3, GotoFrame, ReqFrame DEF EnterLoop, Plain, Alone
<1>4. CASE StartMd(d)
  BY <1>1, <1>4 DEF StartMd
<1>5. CASE StartMdUnobserved(d) \/ StartMdFails(d) \/ CheckStateFails(d)
  BY <1>2, <1>5 DEF StartMdUnobserved, StartMdFails, CheckStateFails
<1>6. CASE AwaitReady(d)
  <2>1. Goto(d, "check") \/ Return(d) \/ UNCHANGED pc
    BY <1>6 DEF AwaitReady
  <2>2. CASE UNCHANGED pc
    BY <1>6, <2>2 DEF AwaitReady, Plain, Alone
  <2> QED
    BY <1>1, <1>2, <1>6, <2>1, <2>2 DEF AwaitReady
<1>7. CASE CheckState(d)
  <2>1. Goto(d, "publish") \/ Return(d)
    BY <1>7 DEF CheckState
  <2> QED
    BY <1>1, <1>2, <1>7, <2>1 DEF CheckState
<1>8. CASE PublishReady(d)
  <2>1. /\ status'[d] = "ready" /\ fsm'[d] = "ready"
        /\ status'[Peer(d)] = status[Peer(d)] /\ fsm'[Peer(d)] = fsm[Peer(d)]
    BY <1>8, StatusFrame DEF PublishReady
  <2>2. pc'[d] \in {"tail", "idle"} /\ pc'[Peer(d)] = pc[Peer(d)] /\ pc[d] = "publish"
    BY <1>8, ReturnFrame DEF PublishReady
  <2>3. UNCHANGED <<entered, passed, req, killed, queue>>
    BY <1>8 DEF PublishReady
  <2> QED
    BY <2>1, <2>2, <2>3 DEF Plain, Alone
<1> QED
  BY <1>3, <1>4, <1>5, <1>6, <1>7, <1>8

\* The message loop takes plain steps only.
LEMMA ServePlain ==
  ASSUME TypeOK, NEW d \in Daemon, Serve(d)
  PROVE  Plain(d)
<1> USE DEF local, kernel, Elsewhere, Location
<1>1. ASSUME NEW l \in {"wait_stop", "teardown"}, Goto(d, l), pc[d] \in {"stop", "wait_stop"},
             UNCHANGED <<entered, passed, fsm, req, status, queue, killed>>
      PROVE  Plain(d)
  BY <1>1, GotoAlone DEF Plain
<1>2. CASE Ignore(d)
  <2>1. PICK m : Take(d, m)
    BY <1>2 DEF Ignore
  <2>2. UNCHANGED <<entered, passed, pc, fsm, req, status, killed>>
    BY <1>2 DEF Ignore
  <2> QED
    BY <2>1, <2>2, TakeFrame DEF Plain, Alone
<1>3. CASE HandleException(d)
  <2>1. /\ Take(d, "EXCEPTION") /\ set_current_md_status(d, "exception")
        /\ UNCHANGED <<entered, passed, pc, req, killed>>
    BY <1>3 DEF HandleException
  <2> QED
    BY <2>1, TakeFrame, StatusFrame DEF Plain, Alone
<1>4. CASE HandleStart(d) \/ HandleStop(d)
  <2>1. PICK m \in Request, l \in {"trigger", "stop"} :
          /\ Take(d, m) /\ req' = [req EXCEPT ![d] = m] /\ Goto(d, l)
          /\ UNCHANGED <<entered, passed, fsm, status, killed>>
    BY <1>4 DEF HandleStart, HandleStop, Request
  <2>2. /\ pc'[d] = l /\ pc'[Peer(d)] = pc[Peer(d)] /\ pc[d] = "idle"
        /\ req'[d] = m /\ req'[Peer(d)] = req[Peer(d)]
        /\ queue'[Peer(d)] = queue[Peer(d)] /\ queue[d] \notin Housekeeping
    BY <2>1, TakeFrame, GotoFrame, ReqFrame DEF Request
  <2> QED
    BY <2>1, <2>2 DEF Plain, Alone
<1>5. CASE StopMd(d) \/ StopMdFails(d) \/ StopMdUnobserved(d)
  BY <1>1, <1>5 DEF StopMd, StopMdFails, StopMdUnobserved
<1>6. CASE AwaitStop(d)
  <2>1. Goto(d, "teardown") \/ UNCHANGED pc
    BY <1>6 DEF AwaitStop
  <2>2. CASE UNCHANGED pc
    BY <1>6, <2>2 DEF AwaitStop, Plain, Alone
  <2> QED
    BY <1>1, <1>6, <2>1, <2>2 DEF AwaitStop
<1>7. CASE EnterFlightMode(d) \/ TearDown(d)
  <2>1. PICK s \in {"flightmode", "stop"}, l \in {"idle", "trigger"} :
          set_current_md_status(d, s) /\ Goto(d, l)
    BY <1>7 DEF EnterFlightMode, TearDown
  <2>2. pc[d] = "teardown" /\ UNCHANGED <<entered, passed, req, queue, killed>>
    BY <1>7 DEF EnterFlightMode, TearDown
  <2>3. /\ status'[d] = s /\ fsm'[d] = s
        /\ status'[Peer(d)] = status[Peer(d)] /\ fsm'[Peer(d)] = fsm[Peer(d)]
        /\ pc'[d] = l /\ pc'[Peer(d)] = pc[Peer(d)]
    BY <2>1, StatusFrame, GotoFrame
  <2> QED
    BY <2>2, <2>3 DEF Plain, Alone
<1> QED
  BY <1>2, <1>3, <1>4, <1>5, <1>6, <1>7 DEF Serve

-----------------------------------------------------------------------------
(* The handshake invariant *)

\* A plain step keeps the invariant.
LEMMA PlainKeeps ==
  ASSUME TypeOK, HandshakeInv, NEW d \in Daemon, Plain(d)
  PROVE  HandshakeInv'
<1> DEFINE p == Peer(d)
<1> USE PeerFacts
<1>1. BootFirst'
  <2>1. (\A e \in Daemon : ~killed[e])'
    BY DEF Plain, Alone, HandshakeInv, BootFirst
  <2>2. ~InHandshake(d) /\ ~InHandshake(d)' /\ (InHandshake(p)' <=> InHandshake(p))
    BY DEF Plain, Alone, InHandshake, Elsewhere
  <2>3. \A e \in Daemon : /\ (pc[e] = "off" => status[e] = "none" /\ FirstBoot(e))'
                          /\ (pc[e] # "off" => status[e] # "none")'
                          /\ (pc[e] = "open" => FirstBoot(e))'
                          /\ (FirstBoot(e) => ~InHandshake(e))'
                          /\ (req[e] = "NONE" => pc[e] = "idle")'
    BY <2>2 DEF Plain, Alone, Elsewhere, HandshakeInv, BootFirst, FirstBoot, Request
  <2>4. CASE \A e \in Daemon : req[e] \in {"BOOT", "NONE"} /\ queue[e] \in Housekeeping
    <3>1. \A e \in Daemon : req'[e] \in {"BOOT", "NONE"} /\ queue'[e] \in Housekeeping
      BY <2>4 DEF Plain, Alone
    <3> QED
      BY <2>1, <2>3, <3>1 DEF BootFirst, Housekeeping
  <2>5. AllBooted => AllBooted'
    BY DEF AllBooted, Booted, PortOpen, FirstBoot, Plain, Alone, Elsewhere, Request
  <2>6. AllBooted \/ \A e \in Daemon : req[e] \in {"BOOT", "NONE"} /\ queue[e] \in Housekeeping
    BY DEF HandshakeInv, BootFirst, Housekeeping
  <2> QED
    BY <2>1, <2>3, <2>4, <2>5, <2>6 DEF BootFirst
<1>2. StatusPlaces'
  BY DEF Plain, Alone, Elsewhere, HandshakeInv, StatusPlaces, InHandshake, FirstBoot
<1>3. GrantsMatch'
  BY DEF Plain, Alone, Elsewhere, HandshakeInv, GrantsMatch, InHandshake, Granted, Answered
<1> QED
  BY <1>1, <1>2, <1>3 DEF HandshakeInv

\* The places between the launch of a daemon and its first boot.
LEMMA LaunchKeeps ==
  ASSUME TypeOK, HandshakeInv, NEW d \in Daemon, Launch(d) \/ OpenPort(d)
  PROVE  HandshakeInv'
<1> DEFINE p == Peer(d)
<1> USE PeerFacts
<1>1. /\ pc[d] \in {"off", "open"} /\ pc'[d] \in {"open", "trigger"} /\ req'[d] = "BOOT"
      /\ fsm'[d] = status'[d] /\ fsm'[d] \notin {"reset", "none"}
      /\ pc'[p] = pc[p] /\ fsm'[p] = fsm[p] /\ req'[p] = req[p] /\ status'[p] = status[p]
      /\ UNCHANGED <<entered, passed, killed, queue>>
  <2>1. CASE Launch(d)
    <3>1. /\ pc[d] = "off" /\ Goto(d, "open") /\ req' = [req EXCEPT ![d] = "BOOT"]
          /\ set_current_md_status(d, "init")
          /\ UNCHANGED <<entered, passed, killed, queue>>
      BY <2>1 DEF Launch, kernel
    <3>2. pc'[d] = "open" /\ pc'[p] = pc[p] /\ req'[d] = "BOOT" /\ req'[p] = req[p]
      BY <3>1, GotoFrame, ReqFrame
    <3>3. /\ fsm'[d] = "init" /\ status'[d] = "init"
          /\ fsm'[p] = fsm[p] /\ status'[p] = status[p]
      BY <3>1, StatusFrame
    <3> QED
      BY <3>1, <3>2, <3>3
  <2>2. CASE OpenPort(d)
    BY <2>2, GotoFrame DEF OpenPort, local, kernel, HandshakeInv, BootFirst, FirstBoot,
                           StatusPlaces, InHandshake
  <2> QED
    BY <2>1, <2>2
<1>2. ~AllBooted
  BY <1>1 DEF AllBooted, Booted, PortOpen
<1>3. \A e \in Daemon : req[e] \in {"BOOT", "NONE"} /\ queue[e] \in Housekeeping
  BY <1>2 DEF HandshakeInv, BootFirst, Housekeeping
<1>4. BootFirst'
  <2>1. \A e \in Daemon : req'[e] \in {"BOOT", "NONE"} /\ queue'[e] \in Housekeeping
    BY <1>1, <1>3
  <2> QED
    BY <1>1, <2>1 DEF BootFirst, HandshakeInv, FirstBoot, InHandshake, Housekeeping
<1>5. StatusPlaces'
  BY <1>1 DEF HandshakeInv, StatusPlaces, InHandshake, FirstBoot
<1>6. GrantsMatch'
  BY <1>1 DEF HandshakeInv, GrantsMatch, InHandshake, Granted, Answered
<1> QED
  BY <1>4, <1>5, <1>6 DEF HandshakeInv

\* Facts about a daemon that restarts: both daemons were booted before.
LEMMA RestartingBooted ==
  ASSUME TypeOK, HandshakeInv, NEW d \in Daemon, InHandshake(d)
  PROVE  AllBooted /\ ~FirstBoot(d) /\ ~FirstBoot(Peer(d)) /\ status[Peer(d)] # "none"
         /\ status[d] \in {"reset", "reset_start"}
<1>1. ~FirstBoot(d) /\ req[d] # "NONE" /\ pc[d] # "idle" /\ pc[d] # "off"
  BY DEF HandshakeInv, BootFirst, InHandshake
<1>2. AllBooted
  BY <1>1 DEF HandshakeInv, BootFirst, FirstBoot
<1>3. pc[Peer(d)] # "off" /\ ~FirstBoot(Peer(d))
  BY <1>2, PeerFacts DEF AllBooted, Booted, PortOpen
<1>4. status[d] \in {"reset", "reset_start"}
  BY <1>1 DEF HandshakeInv, StatusPlaces
<1> QED
  BY <1>1, <1>2, <1>3, <1>4, PeerFacts DEF HandshakeInv, BootFirst

\* What a step within trigger_modem_to_run up to BOOT_UP leaves alone.
RestartFrame(d) ==
  /\ UNCHANGED <<req, killed, queue>>
  /\ pc'[Peer(d)] = pc[Peer(d)] /\ fsm'[Peer(d)] = fsm[Peer(d)]

\* BootFirst speaks of pc and status only to say who is there.
LEMMA RestartBootFirst ==
  ASSUME TypeOK, HandshakeInv, NEW d \in Daemon, RestartFrame(d),
         pc[d] \in {"trigger", "other", "grant", "own", "boot"},
         pc'[d] \in {"other", "grant", "own", "boot", "start"},
         pc'[d] \in {"other", "grant", "own"} => ~FirstBoot(d),
         \A e \in Daemon : status'[e] = status[e] \/ (status'[e] # "none" /\ pc[e] # "off")
  PROVE  BootFirst'
<1> USE PeerFacts
<1>1. \A e \in Daemon :
        /\ (pc[e] = "off" => status[e] = "none" /\ FirstBoot(e))'
        /\ (pc[e] # "off" => status[e] # "none")'
        /\ (pc[e] = "open" => FirstBoot(e))'
        /\ (FirstBoot(e) => ~InHandshake(e))'
        /\ (req[e] = "NONE" => pc[e] = "idle")'
  BY DEF RestartFrame, HandshakeInv, BootFirst, FirstBoot, InHandshake
<1>2. AllBooted => AllBooted'
  BY DEF AllBooted, Booted, PortOpen, FirstBoot, RestartFrame
<1> QED
  BY <1>1, <1>2 DEF BootFirst, HandshakeInv, RestartFrame

\* Publishing RESET: the daemon enters a restart unless this is its first boot.
LEMMA TriggerKeeps ==
  ASSUME TypeOK, HandshakeInv, NEW d \in Daemon, Trigger(d)
  PROVE  /\ HandshakeInv'
         /\ Barrier!Enter(d) \/ UNCHANGED <<entered, passed>>
<1> DEFINE p == Peer(d)
<1> USE PeerFacts
<1>1. /\ pc[d] = "trigger" /\ UNCHANGED <<passed, req, killed, queue>>
      /\ status'[d] = "reset" /\ fsm'[d] = "reset"
      /\ status'[p] = status[p] /\ fsm'[p] = fsm[p]
  BY StatusFrame DEF Trigger, kernel
<1>2. ~killed[d]
  BY DEF HandshakeInv, BootFirst
<1>3. \/ FirstBoot(d) /\ Goto(d, "boot") /\ UNCHANGED entered
      \/ ~FirstBoot(d) /\ Goto(d, "other") /\ entered' = [entered EXCEPT ![d] = @ + 1]
  BY <1>2 DEF Trigger
<1>4. /\ pc'[p] = pc[p]
      /\ \/ FirstBoot(d) /\ pc'[d] = "boot" /\ UNCHANGED entered
         \/ /\ ~FirstBoot(d) /\ pc'[d] = "other" /\ entered'[d] = entered[d] + 1
            /\ entered'[p] = entered[p]
  BY <1>3, GotoFrame DEF TypeOK
<1>5. BootFirst'
  BY <1>1, <1>4, RestartBootFirst DEF RestartFrame
<1>6. StatusPlaces'
  BY <1>1, <1>4 DEF HandshakeInv, StatusPlaces, InHandshake, FirstBoot
<1>7. entered \in [Daemon -> Nat] /\ passed \in [Daemon -> Nat]
  BY DEF TypeOK
<1>8. GrantsMatch'
  BY <1>1, <1>4, <1>7 DEF HandshakeInv, GrantsMatch, InHandshake, Granted, Answered
<1>9. entered[d] = passed[d]
  BY <1>1 DEF HandshakeInv, GrantsMatch, InHandshake
<1>10. Barrier!Enter(d) \/ UNCHANGED <<entered, passed>>
  BY <1>1, <1>3, <1>9 DEF Barrier!Enter
<1> QED
  BY <1>5, <1>6, <1>8, <1>10 DEF HandshakeInv

\* The first loop ends: the other daemon is in its handshake and not yet answered.
LEMMA SeeOtherKeeps ==
  ASSUME TypeOK, HandshakeInv, NEW d \in Daemon, SeeOther(d)
  PROVE  HandshakeInv'
<1> DEFINE p == Peer(d)
<1> USE PeerFacts
<1>1. /\ pc[d] = "other" /\ pc'[d] = "grant" /\ pc'[p] = pc[p] /\ status[p] = "reset"
      /\ UNCHANGED <<entered, passed, status, fsm, req, killed, queue>>
  BY GotoFrame DEF SeeOther, OtherReset, local, kernel
<1>2. ~FirstBoot(d) /\ ~FirstBoot(p)
  BY <1>1, RestartingBooted DEF InHandshake
<1>3. InHandshake(p)
  BY <1>1, <1>2 DEF HandshakeInv, StatusPlaces, BootFirst
<1>4. BootFirst'
  BY <1>1, <1>2, RestartBootFirst DEF RestartFrame
<1>5. StatusPlaces'
  BY <1>1, <1>3 DEF HandshakeInv, StatusPlaces, InHandshake, FirstBoot
<1>6. GrantsMatch'
  BY <1>1 DEF HandshakeInv, GrantsMatch, InHandshake, Granted, Answered
<1> QED
  BY <1>4, <1>5, <1>6 DEF HandshakeInv

\* The answer reaches a daemon in its handshake that had none: one grant, one use.
LEMMA GrantKeeps ==
  ASSUME TypeOK, HandshakeInv, NEW d \in Daemon, Grant(d)
  PROVE  HandshakeInv'
<1> DEFINE p == Peer(d)
<1> USE PeerFacts
<1>1. /\ pc[d] = "grant" /\ pc'[d] = "own" /\ pc'[p] = pc[p]
      /\ status'[p] = "reset_start" /\ status'[d] = status[d]
      /\ UNCHANGED <<entered, passed, fsm, req, killed, queue>>
  BY GotoFrame DEF Grant, local, kernel, TypeOK
<1>2. InHandshake(p) /\ status[p] = "reset" /\ ~FirstBoot(d)
  BY <1>1, RestartingBooted DEF HandshakeInv, StatusPlaces, InHandshake
<1>3. BootFirst'
  BY <1>1, <1>2, RestartBootFirst DEF RestartFrame, InHandshake
<1>4. pc[p] # "grant" \/ status[d] = "reset"
  BY DEF HandshakeInv, StatusPlaces
<1>5. StatusPlaces'
  BY <1>1, <1>2, <1>4 DEF HandshakeInv, StatusPlaces, InHandshake, FirstBoot
<1>6. entered \in [Daemon -> Nat] /\ passed \in [Daemon -> Nat]
  BY DEF TypeOK
<1>7. GrantsMatch'
  BY <1>1, <1>2, <1>6 DEF HandshakeInv, GrantsMatch, InHandshake, Granted, Answered
<1> QED
  BY <1>3, <1>5, <1>7 DEF HandshakeInv

\* The second loop ends with the grant used up; the peer has entered as many
\* restarts as this daemon.
LEMMA SeeOwnKeeps ==
  ASSUME TypeOK, HandshakeInv, NEW d \in Daemon, SeeOwn(d)
  PROVE  HandshakeInv' /\ Barrier!Leave(d)
<1> DEFINE p == Peer(d)
<1> USE PeerFacts
<1>1. entered \in [Daemon -> Nat] /\ passed \in [Daemon -> Nat]
  BY DEF TypeOK
<1>2. /\ pc[d] = "own" /\ pc'[d] = "boot" /\ pc'[p] = pc[p] /\ status[d] = "reset_start"
      /\ passed' = [passed EXCEPT ![d] = @ + 1]
      /\ UNCHANGED <<entered, status, fsm, req, killed, queue>>
  BY GotoFrame DEF SeeOwn, ToldToGoOn, local, kernel
<1>3. passed'[d] = passed[d] + 1 /\ passed'[p] = passed[p]
  BY <1>1, <1>2
<1>4. pc[p] # "grant"
  BY <1>2 DEF HandshakeInv, StatusPlaces
<1>5. BootFirst'
  BY <1>2, RestartBootFirst DEF RestartFrame
<1>6. StatusPlaces'
  BY <1>2, <1>4 DEF HandshakeInv, StatusPlaces, InHandshake, FirstBoot
<1>7. GrantsMatch'
  BY <1>1, <1>2, <1>3 DEF HandshakeInv, GrantsMatch, InHandshake, Granted, Answered
<1>8. /\ entered[d] = passed[d] + 1
      /\ Granted(p) = passed[d] + 1
  BY <1>2 DEF HandshakeInv, GrantsMatch, InHandshake, Answered
<1>9. entered[p] >= entered[d]
  BY <1>1, <1>8 DEF Granted
<1>10. Barrier!Leave(d)
  BY <1>1, <1>2, <1>8, <1>9 DEF Barrier!Leave
<1> QED
  BY <1>5, <1>6, <1>7, <1>10 DEF HandshakeInv

\* With both daemons there nobody boots alone.
LEMMA NobodyAlone ==
  ASSUME TypeOK, HandshakeInv, NEW d \in Daemon, BootAlone(d)
  PROVE  FALSE
BY RestartingBooted DEF BootAlone, OtherAbsent, InHandshake

\* Publishing BOOT_UP leaves the restart behind.
LEMMA BootUpKeeps ==
  ASSUME TypeOK, HandshakeInv, NEW d \in Daemon, BootUp(d)
  PROVE  HandshakeInv'
<1> DEFINE p == Peer(d)
<1> USE PeerFacts
<1>1. /\ pc[d] = "boot" /\ pc'[d] = "start" /\ pc'[p] = pc[p]
      /\ fsm'[d] = "bootup" /\ status'[d] = "bootup"
      /\ fsm'[p] = fsm[p] /\ status'[p] = status[p]
      /\ UNCHANGED <<entered, passed, req, killed, queue>>
  BY GotoFrame, StatusFrame DEF BootUp, kernel
<1>2. BootFirst'
  BY <1>1, RestartBootFirst DEF RestartFrame
<1>3. StatusPlaces'
  BY <1>1 DEF HandshakeInv, StatusPlaces, InHandshake, FirstBoot
<1>4. GrantsMatch'
  BY <1>1 DEF HandshakeInv, GrantsMatch, InHandshake, Granted, Answered
<1> QED
  BY <1>2, <1>3, <1>4 DEF HandshakeInv

\* The kernel and the modems touch no more of it than the queues, and give no
\* request to a daemon before both booted once.
LEMMA EnvironmentKeeps ==
  ASSUME Lockstep, TypeOK, HandshakeInv,
         \/ PostRequest
         \/ \E d \in Daemon : PostCommon(d) \/ ModemStep(d) \/ ModemCrashes(d)
  PROVE  HandshakeInv'
<1>1. UNCHANGED <<entered, passed, pc, status, fsm, req, killed>>
  BY EnvironmentFrame DEF local
<1>2. AllBooted' <=> AllBooted
  BY <1>1 DEF AllBooted, Booted, PortOpen, FirstBoot
<1>3. CASE PostRequest
  <2>1. AllBooted
    BY <1>3 DEF PostRequest, Lockstep, AllBooted
  <2> QED
    BY <1>1, <1>2, <2>1 DEF HandshakeInv, BootFirst, StatusPlaces, GrantsMatch, InHandshake,
                            FirstBoot, Granted, Answered
<1>4. ASSUME NEW d \in Daemon, PostCommon(d) \/ ModemStep(d) \/ ModemCrashes(d)
      PROVE  HandshakeInv'
  <2>1. \A e \in Daemon : queue[e] \in Housekeeping => queue'[e] \in Housekeeping
    <3>1. \/ UNCHANGED queue
          \/ queue' = [queue EXCEPT ![d] = Append(@, "COMMON")]
          \/ queue' = [queue EXCEPT ![d] = IF PortOpen(d) THEN Append(@, "EXCEPTION") ELSE @]
      BY <1>4 DEF PostCommon, ModemStep, ModemBoots, ModemStops, ModemCrashes
    <3>2. PICK m \in {"COMMON", "EXCEPTION"} :
            \A e \in Daemon : queue'[e] = queue[e] \/ queue'[e] = Append(queue[e], m)
      BY <3>1 DEF TypeOK
    <3>3. ASSUME NEW q \in Housekeeping PROVE Append(q, m) \in Housekeeping
      BY <3>2 DEF Housekeeping
    <3> QED
      BY <3>2, <3>3
  <2>2. BootFirst'
    BY <1>1, <1>2, <2>1 DEF HandshakeInv, BootFirst, InHandshake, FirstBoot, Housekeeping
  <2> QED
    BY <1>1, <2>2 DEF HandshakeInv, StatusPlaces, GrantsMatch, InHandshake,
                      FirstBoot, Granted, Answered
<1> QED
  BY <1>3, <1>4

\* One step keeps the invariant and is a step of the barrier, or none to it.
LEMMA StepKeeps ==
  ASSUME Lockstep, TypeOK, HandshakeInv, [Next]_vars
  PROVE  HandshakeInv' /\ [Barrier!BarrierNext]_(Barrier!barrierVars)
<1> USE DEF Barrier!BarrierNext, Barrier!barrierVars
<1>1. ASSUME NEW d \in Daemon, Launch(d) \/ OpenPort(d)
      PROVE  HandshakeInv' /\ UNCHANGED <<entered, passed>>
  BY <1>1, LaunchKeeps DEF Launch, OpenPort
<1>2. ASSUME NEW d \in Daemon, OpenPortFails(d) \/ EnterLoopFails(d) \/ Kill(d)
      PROVE  FALSE
  BY <1>2, NoLoss DEF OpenPortFails, EnterLoopFails, Kill
<1>3. ASSUME NEW d \in Daemon, Plain(d)
      PROVE  HandshakeInv' /\ UNCHANGED <<entered, passed>>
  BY <1>3, PlainKeeps DEF Plain, Alone
<1>4. ASSUME NEW d \in Daemon, SeeOther(d) \/ Grant(d) \/ BootUp(d)
      PROVE  HandshakeInv' /\ UNCHANGED <<entered, passed>>
  BY <1>4, SeeOtherKeeps, GrantKeeps, BootUpKeeps DEF SeeOther, Grant, BootUp
<1>5. ASSUME NEW d \in Daemon, Boot(d) \/ Restart(d) \/ Serve(d) \/ Launch(d) \/ Kill(d)
      PROVE  HandshakeInv' /\ [Barrier!BarrierNext]_(Barrier!barrierVars)
  <2>1. \/ Launch(d) \/ OpenPort(d)
        \/ OpenPortFails(d) \/ EnterLoopFails(d) \/ Kill(d)
        \/ Trigger(d) \/ SeeOther(d) \/ BootAlone(d) \/ Grant(d) \/ SeeOwn(d) \/ BootUp(d)
        \/ Plain(d)
    BY <1>5, BootPlain, ServePlain DEF Boot, Restart
  <2>2. CASE Trigger(d)
    BY <2>2, TriggerKeeps
  <2>3. CASE SeeOwn(d)
    BY <2>3, SeeOwnKeeps
  <2> QED
    BY <1>1, <1>2, <1>3, <1>4, <2>1, <2>2, <2>3, NobodyAlone
<1>6. ASSUME \/ PostRequest
             \/ \E d \in Daemon : PostCommon(d) \/ ModemStep(d) \/ ModemCrashes(d)
      PROVE  HandshakeInv' /\ UNCHANGED <<entered, passed>>
  BY <1>6, EnvironmentKeeps, EnvironmentFrame
<1>7. CASE UNCHANGED vars
  BY <1>7 DEF vars, local, kernel, HandshakeInv, BootFirst, StatusPlaces, GrantsMatch, AllBooted,
              Booted, PortOpen, InHandshake, FirstBoot, Granted, Answered
<1> QED
  BY <1>5, <1>6, <1>7 DEF Next, DaemonStep

\* Init has no daemon in the handshake, and no request.
LEMMA HandshakeInit == Init => HandshakeInv
<1> SUFFICES ASSUME Init PROVE HandshakeInv
  OBVIOUS
<1>1. BootFirst
  BY DEF Init, BootFirst, InHandshake, FirstBoot
<1>2. StatusPlaces
  BY DEF Init, StatusPlaces, InHandshake
<1>3. GrantsMatch
  BY PeerFacts DEF Init, GrantsMatch, InHandshake, Granted, Answered
<1> QED
  BY <1>1, <1>2, <1>3 DEF HandshakeInv

\* check_to_restart_md_v2 neither loses nor doubles a grant: every reset_start
\* that one daemon writes is used by exactly one restart of the other.
THEOREM HandshakeCorrect ==
  ASSUME Lockstep
  PROVE  Spec => []HandshakeInv
<1>1. TypeOK /\ HandshakeInv /\ [Next]_vars => HandshakeInv'
  BY StepKeeps
<1> QED
  BY <1>1, HandshakeInit, TypeCorrect, PTL DEF Spec

\* MdInit implements RestartBarrier: no modem is booted for its n-th restart
\* before the other daemon has entered its n-th restart.
THEOREM RestartIsBarrier ==
  ASSUME Lockstep
  PROVE  Spec => ImplementsBarrier
<1>1. Init => Barrier!BarrierInit
  BY DEF Init, Barrier!BarrierInit
<1>2. TypeOK /\ HandshakeInv /\ [Next]_vars
        => [Barrier!BarrierNext]_(Barrier!barrierVars)
  BY StepKeeps
<1> QED
  BY <1>1, <1>2, TypeCorrect, HandshakeCorrect, PTL DEF Spec, ImplementsBarrier, Barrier!BarrierSpec
=============================================================================
