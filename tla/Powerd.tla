------------------------------- MODULE Powerd -------------------------------
(***************************************************************************)
(* The power HAL daemon (powerd_core.cpp) over the scenario table of        *)
(* libpowerhal (perfservice.cpp): who holds a boost, for how long, and what *)
(* ends it.  One thread serves the requests of clients (powerd_req) and the *)
(* timers (powerd_core_timer_handle) one at a time, so each is one action.  *)
(*                                                                          *)
(* What a boost does to the CPU and GPU is the subject of PerfService; here *)
(* a scenario is only on, off or waiting for the screen.  A running timer   *)
(* may fire at any time: deadlines are not modelled.  Requests of a client  *)
(* may be served after the client died.                                     *)
(***************************************************************************)
EXTENDS Integers, FiniteSetsExt

CONSTANTS
  Hint,                         \* power hints, some of them special:
  GAMING, APP_TOUCH, WHITELIST_LAUNCH,
  Hold,                         \* hints that stay on for a time once disabled
  Ext,                          \* the hint that follows each one, 0 if none
  HintScreenOff,                \* screen_off_action of each hint
  CusHint,                      \* customer hints
  REG_SCN_MAX, MAX_TIMER_COUNT, HANDLE_RAND_MAX,
  Pid,                          \* client processes
  MaxRequests                   \* bound on the requests served

SCREEN_OFF == {"DISABLE", "ENABLE", "WAIT_RESTORE"}
Duration   == {"always", "short", "long"}   \* long: over USER_DURATION_MAX
State      == {"ON", "OFF", "WAIT_RESTORE"}
Slot       == 1 .. REG_SCN_MAX
TimerId    == 1 .. MAX_TIMER_COUNT
gMyPid     == "powerd"

ASSUME PowerdAssumption ==
  /\ Hint \subseteq Nat \ {0}
  /\ GAMING # APP_TOUCH /\ WHITELIST_LAUNCH \notin {GAMING, APP_TOUCH}
  /\ Hold \subseteq Hint /\ Ext \in [Hint -> Hint \cup {0}]
  /\ HintScreenOff \in [Hint -> SCREEN_OFF]
  /\ REG_SCN_MAX \in Nat \ {0} /\ MAX_TIMER_COUNT \in Nat \ {0}
  /\ HANDLE_RAND_MAX \in Nat \ {0, 1}
  /\ MaxRequests \in Nat
  /\ gMyPid \notin Pid

VARIABLES
  hint,              \* state of the scenario of each hint, and how long it was asked for
  slot,              \* the user scenarios: ptScnList from nUserScnBase on
  nDisplayType,      \* "GAME" or "OTHERS"
  user_handle_now,
  powerdTimer,
  gtCusHintTbl,      \* handle of each customer hint's lock
  powerdOnOff,
  alive,             \* client processes that exist
  known,             \* handles each client was given
  issued, served     \* handles allocated, requests served so far

vars == <<hint, slot, nDisplayType, user_handle_now, powerdTimer, gtCusHintTbl,
          powerdOnOff, alive, known, issued, served>>

lib == <<slot, user_handle_now, issued>>

-----------------------------------------------------------------------------
(* Timers *)

FreeTimer == [msg |-> "none", handle |-> -1]

HasTimer(T, msg, h) == \E i \in TimerId : T[i] = [msg |-> msg, handle |-> h]

remove_nothing(T, msg, h) == T

remove_scn_timer(T, msg, h) ==
  LET I == {i \in TimerId : T[i] = [msg |-> msg, handle |-> h]}
  IN IF I = {} THEN T ELSE [T EXCEPT ![Min(I)] = FreeTimer]

\* A full table is not reported to anybody.
start_scn_timer(T, msg, h) ==
  LET I == {i \in TimerId : T[i] = FreeTimer}
  IN IF I = {} THEN T ELSE [T EXCEPT ![Min(I)] = [msg |-> msg, handle |-> h]]

restart_scn_timer(T, msg, h) == start_scn_timer(remove_scn_timer(T, msg, h), msg, h)

-----------------------------------------------------------------------------
(* Hints: perfBoostEnable, perfBoostDisable *)

TurnOff(H, S) == [h \in Hint |-> IF h \in S THEN [H[h] EXCEPT !.state = "OFF"] ELSE H[h]]
TurnOn(H, h)  == [H EXCEPT ![h].state = "ON"]
Asked(H, h, for) == [H EXCEPT ![h].for = for]

\* APP_TOUCH is ignored during a game; GAMING ends it.
perfBoostEnable(H, h, display) ==
  CASE h = APP_TOUCH /\ display = "GAME" -> H
    [] h = GAMING -> TurnOff(TurnOn(H, h), {APP_TOUCH})
    [] OTHER      -> TurnOn(H, h)

perfBoostDisable(H, h) == Asked(TurnOff(H, {h}), h, "none")

DisplayAfterEnable(h)  == IF h = GAMING THEN "GAME" ELSE nDisplayType
DisplayAfterDisable(h) == IF h = GAMING THEN "OTHERS" ELSE nDisplayType

-----------------------------------------------------------------------------
(* User scenarios and perf locks *)

FreeSlot ==
  [type |-> "free", handle |-> -1, pid |-> "none", state |-> "OFF",
   screen |-> "DISABLE", timed |-> FALSE]

SlotAsHandle == Min({REG_SCN_MAX} \cup {i \in Slot : slot[i].type = "free"})

HandleMayBeZero == (user_handle_now + 1) % HANDLE_RAND_MAX

allocNewHandleNum ==
  LET n == (user_handle_now + 1) % HANDLE_RAND_MAX IN IF n = 0 THEN 1 ELSE n

UsedBy(h)  == {i \in Slot : slot[i].type # "free" /\ slot[i].handle = h}
FreeSlots  == {i \in Slot : slot[i].type = "free"}

\* findHandleToIndex, 0 when there is none.
findHandleToIndex(h) == IF UsedBy(h) = {} THEN 0 ELSE Min(UsedBy(h))

\* Fill the first free slot under a new handle.
Register(type, p, state, screen, timed) ==
  /\ slot' = [slot EXCEPT ![Min(FreeSlots)] =
                [type |-> type, handle |-> allocNewHandleNum, pid |-> p,
                 state |-> state, screen |-> screen, timed |-> timed]]
  /\ user_handle_now' = allocNewHandleNum
  /\ issued' = issued + 1

\* perfLockAcq; ret is what it returns.  A process that is gone gets no lock
\* over 30 s.  A lock acquired again keeps its state, on or off.
perfLockAcq(h, p, d, screen, ret) ==
  LET i == findHandleToIndex(h) IN
  \/ /\ p \notin alive \cup {gMyPid} /\ d # "short"
     /\ ret = -1
     /\ UNCHANGED lib
  \/ /\ p \in alive \cup {gMyPid} \/ d = "short"
     /\ \/ /\ h > 0 /\ i # 0
           /\ ret = h
           /\ slot' = [slot EXCEPT ![i].screen = screen, ![i].timed = d # "always"]
           /\ UNCHANGED <<user_handle_now, issued>>
        \/ /\ h <= 0 \/ i = 0
           /\ FreeSlots # {}
           /\ ret = allocNewHandleNum
           /\ Register("lock", p, "ON", screen, d # "always")
        \/ /\ h <= 0 \/ i = 0
           /\ FreeSlots = {}
           /\ ret = -1
           /\ UNCHANGED lib

\* What perfLockAcq can return, whatever its arguments.
LockResults == {-1, allocNewHandleNum} \cup {slot[i].handle : i \in Slot}

\* perfLockRel: disable, then reset the slot.
perfLockRel(h) ==
  slot' = IF UsedBy(h) = {} THEN slot ELSE [slot EXCEPT ![findHandleToIndex(h)] = FreeSlot]

OrphanUser(s) == s.type = "user" /\ s.pid \notin alive \cup {gMyPid}

\* perfUserScnCheckAll: user scenarios and locks of processes that are gone.
Orphan(s) == s.type # "free" /\ s.pid \notin alive \cup {gMyPid}

perfUserScnCheckAll == slot' = [i \in Slot |-> IF Orphan(slot[i]) THEN FreeSlot ELSE slot[i]]

ScreenOff(state, action) ==
  IF state # "ON" \/ action = "ENABLE" THEN state
  ELSE IF action = "WAIT_RESTORE" THEN "WAIT_RESTORE" ELSE "OFF"

ScreenOn(state) == IF state = "WAIT_RESTORE" THEN "ON" ELSE state

-----------------------------------------------------------------------------
Init ==
  /\ hint = [h \in Hint |-> [state |-> "OFF", for |-> "none"]]
  /\ slot = [i \in Slot |-> FreeSlot]
  /\ nDisplayType = "OTHERS"
  /\ user_handle_now = 0
  /\ powerdTimer = [i \in TimerId |->
       IF i = 1 THEN [msg |-> "CHECK", handle |-> 0] ELSE FreeTimer]
  /\ gtCusHintTbl = [c \in CusHint |-> 0]
  /\ powerdOnOff = TRUE
  /\ alive = Pid
  /\ known = [p \in Pid |-> {}]
  /\ issued = 0
  /\ served = 0

\* One more request, of those a client makes only while the HAL is on.
Serve == served < MaxRequests /\ served' = served + 1

ServeIfOn == powerdOnOff /\ Serve

Length(d) == IF d = "always" THEN "always" ELSE "timed"

AospHintStartsFirst(h, d) ==
  /\ ServeIfOn
  /\ LET T == IF d = "always" THEN powerdTimer ELSE start_scn_timer(powerdTimer, "HINT", h)
     IN powerdTimer' = remove_scn_timer(T, "HINT", h)
  /\ hint' = Asked(perfBoostEnable(hint, h, nDisplayType), h, Length(d))
  /\ nDisplayType' = DisplayAfterEnable(h)
  /\ UNCHANGED <<lib, gtCusHintTbl, powerdOnOff, alive, known>>

\* POWER_MSG_AOSP_HINT with data
AospHint(h, d) ==
  /\ ServeIfOn
  /\ LET T == remove_scn_timer(powerdTimer, "HINT", h) IN
     powerdTimer' = IF d = "always" THEN T ELSE start_scn_timer(T, "HINT", h)
  /\ hint' = Asked(perfBoostEnable(hint, h, nDisplayType), h, Length(d))
  /\ nDisplayType' = DisplayAfterEnable(h)
  /\ UNCHANGED <<lib, gtCusHintTbl, powerdOnOff, alive, known>>

\* The timer of the hint, if any, is left to run.
AospHintOff(h) ==
  /\ ServeIfOn
  /\ hint' = perfBoostDisable(hint, h)
  /\ nDisplayType' = DisplayAfterDisable(h)
  /\ UNCHANGED <<lib, powerdTimer, gtCusHintTbl, powerdOnOff, alive, known>>

\* POWER_MSG_MTK_HINT with data: as for AOSP hints.
MtkHint(h, d) == AospHint(h, d)

\* POWER_MSG_MTK_HINT without data: disable now, or after the hold time; then
\* enable the hint that follows.
MtkHintOff(h) ==
  LET held == h \in Hold
      T1 == remove_scn_timer(powerdTimer, "HINT", h)
      T2 == IF held THEN start_scn_timer(T1, "HINT", h) ELSE T1
      H1 == IF held THEN Asked(hint, h, "timed") ELSE perfBoostDisable(hint, h)
      d1 == IF held THEN nDisplayType ELSE DisplayAfterDisable(h)
      e  == Ext[h]
  IN
  /\ ServeIfOn
  /\ IF e = 0
       THEN powerdTimer' = T2 /\ hint' = H1 /\ nDisplayType' = d1
       ELSE /\ powerdTimer' = restart_scn_timer(T2, "HINT", e)
            /\ hint' = Asked(perfBoostEnable(H1, e, d1), e, "timed")
            /\ nDisplayType' = IF e = GAMING THEN "GAME" ELSE d1
  /\ UNCHANGED <<lib, gtCusHintTbl, powerdOnOff, alive, known>>

\* POWER_MSG_MTK_CUS_HINT with data: a lock of the daemon itself.
CustomerHint(c, d) ==
  /\ ServeIfOn
  /\ \E ret \in LockResults :
       /\ perfLockAcq(gtCusHintTbl[c], gMyPid, d, "DISABLE", ret)
       /\ gtCusHintTbl' = [gtCusHintTbl EXCEPT ![c] = ret]
       /\ LET T == remove_scn_timer(powerdTimer, "LOCK", gtCusHintTbl[c]) IN
          powerdTimer' = IF d = "always" THEN T ELSE start_scn_timer(T, "LOCK", ret)
  /\ UNCHANGED <<hint, nDisplayType, powerdOnOff, alive, known>>

CustomerHintOff(c) ==
  /\ ServeIfOn
  /\ powerdTimer' = remove_scn_timer(powerdTimer, "LOCK", gtCusHintTbl[c])
  /\ perfLockRel(gtCusHintTbl[c])
  /\ gtCusHintTbl' = [gtCusHintTbl EXCEPT ![c] = 0]
  /\ UNCHANGED <<hint, nDisplayType, user_handle_now, powerdOnOff, alive, known, issued>>

\* The screen goes off: perfUserScnDisableAll.
DisableAll ==
  /\ ServeIfOn
  /\ hint' = [h \in Hint |-> [hint[h] EXCEPT !.state = ScreenOff(@, HintScreenOff[h])]]
  /\ slot' = [i \in Slot |->
       IF Orphan(slot[i]) THEN FreeSlot
       ELSE [slot[i] EXCEPT !.state = ScreenOff(@, slot[i].screen)]]
  /\ UNCHANGED <<nDisplayType, user_handle_now, powerdTimer, gtCusHintTbl, powerdOnOff,
                 alive, known, issued>>

\* The screen goes on: perfUserScnRestoreAll.
RestoreAll ==
  /\ ServeIfOn
  /\ hint' = [h \in Hint |-> [hint[h] EXCEPT !.state = ScreenOn(@)]]
  /\ slot' = [i \in Slot |-> [slot[i] EXCEPT !.state = ScreenOn(@)]]
  /\ UNCHANGED <<nDisplayType, user_handle_now, powerdTimer, gtCusHintTbl, powerdOnOff,
                 alive, known, issued>>

\* POWER_MSG_NOTIFY_STATE, STATE_DEAD: the scenarios of the process go.
NotifyDead(p) ==
  /\ ServeIfOn
  /\ p \notin alive
  /\ slot' = [i \in Slot |-> IF slot[i].pid = p THEN FreeSlot ELSE slot[i]]
  /\ UNCHANGED <<hint, nDisplayType, user_handle_now, powerdTimer, gtCusHintTbl, powerdOnOff,
                 alive, known, issued>>

\* STATE_RESUMED of another package: its launch boost replaces the last one;
\* launch tells whether the white list has a launch time for it.
NotifyResumed(launch) ==
  LET T == remove_scn_timer(powerdTimer, "HINT", WHITELIST_LAUNCH)
      H == perfBoostDisable(hint, WHITELIST_LAUNCH)
  IN
  /\ ServeIfOn
  /\ WHITELIST_LAUNCH \in Hint
  /\ powerdTimer' = IF launch THEN start_scn_timer(T, "HINT", WHITELIST_LAUNCH) ELSE T
  /\ hint' = IF launch THEN Asked(TurnOn(H, WHITELIST_LAUNCH), WHITELIST_LAUNCH, "timed") ELSE H
  /\ UNCHANGED <<lib, nDisplayType, gtCusHintTbl, powerdOnOff, alive, known>>

\* MTKPOWER_CMD_GET_POWERHAL_ONOFF: hints and locks are ignored while off.
SetOnOff(b) ==
  /\ Serve
  /\ powerdOnOff' = b
  /\ UNCHANGED <<hint, lib, nDisplayType, powerdTimer, gtCusHintTbl, alive, known>>

\* A client passes 0 for a new lock, or a handle it was given before.
Handles(p) == {0} \cup known[p]

PerfLockAcqOldHandle(p, h, d, screen) ==
  /\ ServeIfOn
  /\ \E ret \in LockResults :
       /\ perfLockAcq(h, p, d, screen, ret)
       /\ known' = [known EXCEPT ![p] = IF ret > 0 THEN @ \cup {ret} ELSE @]
       /\ LET T == remove_scn_timer(powerdTimer, "LOCK", h) IN
          powerdTimer' = IF d # "always" /\ ret > 0 THEN start_scn_timer(T, "LOCK", h) ELSE T
  /\ UNCHANGED <<hint, nDisplayType, gtCusHintTbl, powerdOnOff, alive>>

\* POWER_MSG_PERF_LOCK_ACQ
PerfLockAcq(p, h, d, screen) ==
  /\ ServeIfOn
  /\ \E ret \in LockResults :
       /\ perfLockAcq(h, p, d, screen, ret)
       /\ known' = [known EXCEPT ![p] = IF ret > 0 THEN @ \cup {ret} ELSE @]
       /\ LET T == remove_scn_timer(powerdTimer, "LOCK", h) IN
          powerdTimer' = IF d # "always" /\ ret > 0 THEN start_scn_timer(T, "LOCK", ret) ELSE T
  /\ UNCHANGED <<hint, nDisplayType, gtCusHintTbl, powerdOnOff, alive>>

PerfLockRel(p, h) ==
  /\ ServeIfOn
  /\ powerdTimer' = remove_scn_timer(powerdTimer, "LOCK", h)
  /\ IF h # 0 THEN perfLockRel(h) ELSE UNCHANGED slot
  /\ UNCHANGED <<hint, nDisplayType, user_handle_now, gtCusHintTbl, powerdOnOff,
                 alive, known, issued>>

ScnReg(p) ==
  /\ Serve
  /\ IF FreeSlots = {}
       THEN UNCHANGED <<lib, known>>
       ELSE /\ Register("user", p, "OFF", "DISABLE", FALSE)
            /\ known' = [known EXCEPT ![p] = @ \cup {allocNewHandleNum}]
  /\ UNCHANGED <<hint, nDisplayType, powerdTimer, gtCusHintTbl, powerdOnOff, alive>>

\* CMD_SET_SCREEN_OFF_STATE; the other commands change only resources.
ScnConfig(p, h, screen) ==
  /\ Serve
  /\ UsedBy(h) # {}
  /\ slot' = [slot EXCEPT ![findHandleToIndex(h)].screen = screen]
  /\ UNCHANGED <<hint, nDisplayType, user_handle_now, powerdTimer, gtCusHintTbl, powerdOnOff,
                 alive, known, issued>>

ScnUnreg(p, h) ==
  /\ Serve
  /\ UsedBy(h) # {} /\ slot[findHandleToIndex(h)].state # "ON"
  /\ slot' = [slot EXCEPT ![findHandleToIndex(h)] = FreeSlot]
  /\ UNCHANGED <<hint, nDisplayType, user_handle_now, powerdTimer, gtCusHintTbl, powerdOnOff,
                 alive, known, issued>>

SetState(h, state) ==
  slot' = IF UsedBy(h) = {} THEN slot ELSE [slot EXCEPT ![findHandleToIndex(h)].state = state]

ScnEnable(p, h, timeout) ==
  /\ Serve
  /\ LET T == remove_scn_timer(powerdTimer, "USER", h) IN
     powerdTimer' = IF timeout THEN start_scn_timer(T, "USER", h) ELSE T
  /\ SetState(h, "ON")
  /\ UNCHANGED <<hint, nDisplayType, user_handle_now, gtCusHintTbl, powerdOnOff,
                 alive, known, issued>>

ScnDisable(p, h) ==
  /\ Serve
  /\ powerdTimer' = remove_scn_timer(powerdTimer, "USER", h)
  /\ SetState(h, "OFF")
  /\ UNCHANGED <<hint, nDisplayType, user_handle_now, gtCusHintTbl, powerdOnOff,
                 alive, known, issued>>

\* powerd_core_timer_handle
HintTimeout(i) ==
  /\ powerdTimer[i].msg = "HINT"
  /\ hint' = perfBoostDisable(hint, powerdTimer[i].handle)
  /\ nDisplayType' = DisplayAfterDisable(powerdTimer[i].handle)
  /\ powerdTimer' = [powerdTimer EXCEPT ![i] = FreeTimer]
  /\ UNCHANGED <<lib, gtCusHintTbl, powerdOnOff, alive, known, served>>

LockTimeoutIfOn(i) ==
  /\ powerdTimer[i].msg = "LOCK"
  /\ IF powerdOnOff THEN perfLockRel(powerdTimer[i].handle) ELSE UNCHANGED slot
  /\ powerdTimer' = [powerdTimer EXCEPT ![i] = FreeTimer]
  /\ UNCHANGED <<hint, nDisplayType, user_handle_now, gtCusHintTbl, powerdOnOff,
                 alive, known, issued, served>>

LockTimeout(i) ==
  /\ powerdTimer[i].msg = "LOCK"
  /\ perfLockRel(powerdTimer[i].handle)
  /\ powerdTimer' = [powerdTimer EXCEPT ![i] = FreeTimer]
  /\ UNCHANGED <<hint, nDisplayType, user_handle_now, gtCusHintTbl, powerdOnOff,
                 alive, known, issued, served>>

UserTimeout(i) ==
  /\ powerdTimer[i].msg = "USER"
  /\ SetState(powerdTimer[i].handle, "OFF")
  /\ powerdTimer' = [powerdTimer EXCEPT ![i] = FreeTimer]
  /\ UNCHANGED <<hint, nDisplayType, user_handle_now, gtCusHintTbl, powerdOnOff,
                 alive, known, issued, served>>

\* The periodic check, every CHECK_USER_SCN_DURATION; its timer starts again.
CheckTimeout(i) ==
  /\ powerdTimer[i].msg = "CHECK"
  /\ perfUserScnCheckAll
  /\ UNCHANGED <<hint, nDisplayType, user_handle_now, powerdTimer, gtCusHintTbl, powerdOnOff,
                 alive, known, issued, served>>

ProcessDies(p) ==
  /\ p \in alive
  /\ alive' = alive \ {p}
  /\ UNCHANGED <<hint, lib, nDisplayType, powerdTimer, gtCusHintTbl, powerdOnOff, known, served>>

TimerFires(i) == HintTimeout(i) \/ LockTimeout(i) \/ UserTimeout(i) \/ CheckTimeout(i)

HintRequest ==
  \/ \E h \in Hint, d \in {"always", "short"} : AospHint(h, d) \/ MtkHint(h, d)
  \/ \E h \in Hint : AospHintOff(h) \/ MtkHintOff(h)
  \/ \E c \in CusHint : CustomerHintOff(c) \/ \E d \in Duration : CustomerHint(c, d)

ClientRequest ==
  \E p \in Pid :
    \/ NotifyDead(p) \/ ScnReg(p)
    \/ \E h \in Handles(p) :
         \/ \E d \in Duration, screen \in SCREEN_OFF : PerfLockAcq(p, h, d, screen)
         \/ PerfLockRel(p, h) \/ ScnUnreg(p, h) \/ ScnDisable(p, h)
         \/ \E screen \in SCREEN_OFF : ScnConfig(p, h, screen)
         \/ \E timeout \in BOOLEAN : ScnEnable(p, h, timeout)

SystemRequest ==
  \/ DisableAll \/ RestoreAll
  \/ \E b \in BOOLEAN : NotifyResumed(b) \/ SetOnOff(b)

Next ==
  \/ HintRequest \/ ClientRequest \/ SystemRequest
  \/ \E i \in TimerId : TimerFires(i)
  \/ \E p \in Pid : ProcessDies(p)

Spec == Init /\ [][Next]_vars

\* The select loop sleeps no longer than the next timer: each one fires.
FairSpec == Spec /\ \A i \in TimerId : WF_vars(TimerFires(i))

-----------------------------------------------------------------------------
(* Properties *)

\* Handles in use are positive: 0 and -1 mean "no lock" to every handler.
TypeOK ==
  /\ hint \in [Hint -> [state : State, for : {"none", "timed", "always"}]]
  /\ slot \in [Slot -> [type : {"free", "user", "lock"}, handle : -1 .. HANDLE_RAND_MAX - 1,
                        pid : Pid \cup {gMyPid, "none"}, state : State,
                        screen : SCREEN_OFF, timed : BOOLEAN]]
  /\ \A i \in Slot : slot[i].type # "free" => slot[i].handle > 0
  /\ nDisplayType \in {"GAME", "OTHERS"}
  /\ user_handle_now \in 0 .. HANDLE_RAND_MAX - 1
  /\ powerdTimer \in [TimerId -> [msg : {"none", "HINT", "LOCK", "USER", "CHECK"}, handle : Int]]
  /\ gtCusHintTbl \in [CusHint -> Int]
  /\ powerdOnOff \in BOOLEAN /\ alive \subseteq Pid
  /\ known \in [Pid -> SUBSET (1 .. HANDLE_RAND_MAX - 1)]
  /\ issued \in Nat /\ served \in 0 .. MaxRequests

\* A hint asked for a time has a timer that will end it, after any sequence of
\* hints, holds, follow-up hints, screen and package changes (powerd_req).
TimedHintEnds == \A h \in Hint : hint[h].for = "timed" => HasTimer(powerdTimer, "HINT", h)

\* No timer left over from an earlier request ends a hint asked for always.
AlwaysHintStays == \A h \in Hint : hint[h].for = "always" => ~HasTimer(powerdTimer, "HINT", h)

\* A lock asked for a time has a timer under its handle, unless its owner is
\* gone (the periodic check then ends it); one asked for always has none, of
\* its own or left from a lock that is gone.
TimersMatchLocks ==
  issued < HANDLE_RAND_MAX =>
    \A i \in Slot : slot[i].type # "free" =>
      LET timer == HasTimer(powerdTimer, "LOCK", slot[i].handle)
      IN IF slot[i].timed THEN timer \/ slot[i].pid \notin alive \cup {gMyPid} ELSE ~timer

\* The handle of a lock that ended, kept by a client or by the customer hint
\* table, never refers to a lock of somebody else (until handles wrap).
StaleHandlesHarmless ==
  issued < HANDLE_RAND_MAX =>
    \A i, j \in Slot : slot[i].type # "free" =>
      /\ \A p \in Pid : slot[i].handle \in known[p] => slot[i].pid = p
      /\ \A c \in CusHint : slot[i].handle = gtCusHintTbl[c] =>
           /\ slot[i].pid = gMyPid
           /\ \A c2 \in CusHint : gtCusHintTbl[c2] = gtCusHintTbl[c] => c2 = c
      /\ i # j => slot[j].handle # slot[i].handle

\* No boost outlives its owner for ever: what a dead process registered is
\* freed (perfUserScnCheckAll), also when nobody reports the death.
DeadLocksReleased == \A p \in Pid : p \notin alive ~> \A i \in Slot : slot[i].pid # p

\* A lock asked for a time ends, also while the HAL is switched off and its
\* owner's release is ignored.
TimedLocksEnd == \A i \in Slot : slot[i].timed ~> ~slot[i].timed
=============================================================================
