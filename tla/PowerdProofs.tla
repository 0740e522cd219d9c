---------------------------- MODULE PowerdProofs ----------------------------
(***************************************************************************)
(* Theorems about Powerd, for any hints, clients, table sizes and number of *)
(* requests.                                                                *)
(***************************************************************************)
EXTENDS Powerd, TLAPS, WellFoundedInduction

\* The first slot, or the first timer, of a set exists.
LEMMA Least ==
  ASSUME NEW S, S \subseteq Nat, S # {}
  PROVE  Min(S) \in S /\ \A j \in S : Min(S) <= j
<1>1. PICK x \in S : \A y \in S : ~(<<y, x>> \in OpToRel(<, Nat))
  BY WFMin, NatLessThanWellFounded
<1>2. \A y \in S : ~(y < x)
  BY <1>1 DEF OpToRel
<1>3. \A y \in S : x <= y
  BY <1>2
<1> QED
  BY <1>3 DEF Min

-----------------------------------------------------------------------------
(* The timer table *)

Msg    == {"HINT", "LOCK", "USER", "CHECK"}
Timers == [TimerId -> [msg : {"none", "HINT", "LOCK", "USER", "CHECK"}, handle : Int]]

\* There is at most one timer of this kind for h.
OneTimer(T, msg, h) ==
  \A i, j \in TimerId : T[i] = [msg |-> msg, handle |-> h] /\ T[j] = [msg |-> msg, handle |-> h] => i = j

\* One, or two timers can be started.
Room(T)    == \E i \in TimerId : T[i] = FreeTimer
TwoFree(T) == \E i, j \in TimerId : i # j /\ T[i] = FreeTimer /\ T[j] = FreeTimer

\* A timer stopped: it is freed if there is one, and nothing else changes.
LEMMA Stopped ==
  ASSUME NEW T \in Timers, NEW m \in Msg, NEW h \in Int
  PROVE  \/ /\ remove_scn_timer(T, m, h) = T
            /\ \A i \in TimerId : T[i] # [msg |-> m, handle |-> h]
         \/ \E i \in TimerId : /\ T[i] = [msg |-> m, handle |-> h]
                               /\ remove_scn_timer(T, m, h) = [T EXCEPT ![i] = FreeTimer]
<1> DEFINE I == {i \in TimerId : T[i] = [msg |-> m, handle |-> h]}
<1>1. CASE I = {}
  BY <1>1 DEF remove_scn_timer
<1>2. CASE I # {}
  <2>1. I \subseteq Nat
    BY DEF TimerId
  <2>2. Min(I) \in I
    BY <1>2, <2>1, Least
  <2>3. remove_scn_timer(T, m, h) = [T EXCEPT ![Min(I)] = FreeTimer]
    BY <1>2 DEF remove_scn_timer
  <2> QED
    BY <2>2, <2>3
<1> QED
  BY <1>1, <1>2

\* A timer started: it takes a free place, if there is one.
LEMMA Started ==
  ASSUME NEW T \in Timers, NEW m \in Msg, NEW h \in Int
  PROVE  \/ start_scn_timer(T, m, h) = T /\ ~Room(T)
         \/ \E i \in TimerId :
              /\ T[i] = FreeTimer
              /\ \A j \in TimerId : T[j] = FreeTimer => i <= j
              /\ start_scn_timer(T, m, h) = [T EXCEPT ![i] = [msg |-> m, handle |-> h]]
<1> DEFINE I == {i \in TimerId : T[i] = FreeTimer}
<1>1. CASE I = {}
  BY <1>1 DEF start_scn_timer, Room
<1>2. CASE I # {}
  <2>1. I \subseteq Nat
    BY DEF TimerId
  <2>2. Min(I) \in I /\ \A j \in I : Min(I) <= j
    BY <1>2, <2>1, Least
  <2>3. start_scn_timer(T, m, h) = [T EXCEPT ![Min(I)] = [msg |-> m, handle |-> h]]
    BY <1>2 DEF start_scn_timer
  <2> QED
    BY <2>2, <2>3
<1> QED
  BY <1>1, <1>2

\* What stopping a timer does to the others.
LEMMA RemoveTimer ==
  ASSUME NEW T \in Timers, NEW m \in Msg, NEW h \in Int
  PROVE  /\ remove_scn_timer(T, m, h) \in Timers
         /\ OneTimer(T, m, h) => ~HasTimer(remove_scn_timer(T, m, h), m, h)
         /\ Room(T) => Room(remove_scn_timer(T, m, h))
         /\ TwoFree(T) => TwoFree(remove_scn_timer(T, m, h))
         /\ \A m2 \in Msg, h2 \in Int :
              /\ HasTimer(remove_scn_timer(T, m, h), m2, h2) => HasTimer(T, m2, h2)
              /\ (m2 # m \/ h2 # h) /\ HasTimer(T, m2, h2) => HasTimer(remove_scn_timer(T, m, h), m2, h2)
              /\ OneTimer(T, m2, h2) => OneTimer(remove_scn_timer(T, m, h), m2, h2)
<1> DEFINE R == remove_scn_timer(T, m, h)
<1> USE DEF Timers, FreeTimer, Msg
<1>1. CASE R = T /\ \A i \in TimerId : T[i] # [msg |-> m, handle |-> h]
  BY <1>1 DEF HasTimer
<1>2. ASSUME NEW i \in TimerId, T[i] = [msg |-> m, handle |-> h], R = [T EXCEPT ![i] = FreeTimer]
      PROVE  /\ R \in Timers
             /\ OneTimer(T, m, h) => ~HasTimer(R, m, h)
             /\ Room(T) => Room(R)
             /\ TwoFree(T) => TwoFree(R)
             /\ \A m2 \in Msg, h2 \in Int :
                  /\ HasTimer(R, m2, h2) => HasTimer(T, m2, h2)
                  /\ (m2 # m \/ h2 # h) /\ HasTimer(T, m2, h2) => HasTimer(R, m2, h2)
                  /\ OneTimer(T, m2, h2) => OneTimer(R, m2, h2)
  <2>1. R[i] = FreeTimer /\ \A j \in TimerId : j # i => R[j] = T[j]
    BY <1>2
  <2>2. R \in Timers
    BY <1>2
  <2>3. \A m2 \in Msg, h2 \in Int : FreeTimer # [msg |-> m2, handle |-> h2]
    OBVIOUS
  <2>4. \A m2 \in Msg, h2 \in Int :
          [msg |-> m, handle |-> h] = [msg |-> m2, handle |-> h2] => m2 = m /\ h2 = h
    OBVIOUS
  <2> HIDE DEF R, FreeTimer, Timers, Msg
  <2>5. OneTimer(T, m, h) => ~HasTimer(R, m, h)
    BY <1>2, <2>1, <2>3 DEF OneTimer, HasTimer
  <2>6. (Room(T) => Room(R)) /\ (TwoFree(T) => TwoFree(R))
    BY <2>1 DEF Room, TwoFree
  <2>7. ASSUME NEW m2 \in Msg, NEW h2 \in Int
        PROVE  /\ HasTimer(R, m2, h2) => HasTimer(T, m2, h2)
               /\ (m2 # m \/ h2 # h) /\ HasTimer(T, m2, h2) => HasTimer(R, m2, h2)
               /\ OneTimer(T, m2, h2) => OneTimer(R, m2, h2)
    BY <1>2, <2>1, <2>3, <2>4 DEF OneTimer, HasTimer
  <2> QED
    BY <2>2, <2>5, <2>6, <2>7
<1>3. \/ R = T /\ \A i \in TimerId : T[i] # [msg |-> m, handle |-> h]
      \/ \E i \in TimerId : T[i] = [msg |-> m, handle |-> h] /\ R = [T EXCEPT ![i] = FreeTimer]
  BY Stopped
<1> HIDE DEF Timers, FreeTimer, Msg
<1> QED
  BY ONLY <1>1, <1>2, <1>3

\* What starting a timer does to the others.
LEMMA StartTimer ==
  ASSUME NEW T \in Timers, NEW m \in Msg, NEW h \in Int
  PROVE  /\ start_scn_timer(T, m, h) \in Timers
         /\ Room(T) => HasTimer(start_scn_timer(T, m, h), m, h)
         /\ TwoFree(T) => Room(start_scn_timer(T, m, h))
         /\ \A m2 \in Msg, h2 \in Int :
              /\ HasTimer(T, m2, h2) => HasTimer(start_scn_timer(T, m, h), m2, h2)
              /\ (m2 # m \/ h2 # h) /\ HasTimer(start_scn_timer(T, m, h), m2, h2) => HasTimer(T, m2, h2)
              /\ OneTimer(T, m2, h2) /\ (m2 # m \/ h2 # h \/ ~HasTimer(T, m, h))
                   => OneTimer(start_scn_timer(T, m, h), m2, h2)
<1> DEFINE R == start_scn_timer(T, m, h)
<1> USE DEF Timers, FreeTimer, Msg
<1>1. CASE R = T /\ ~Room(T)
  BY <1>1 DEF TwoFree, Room
<1>2. ASSUME NEW i \in TimerId, T[i] = FreeTimer, R = [T EXCEPT ![i] = [msg |-> m, handle |-> h]]
      PROVE  /\ R \in Timers
             /\ Room(T) => HasTimer(R, m, h)
             /\ TwoFree(T) => Room(R)
             /\ \A m2 \in Msg, h2 \in Int :
                  /\ HasTimer(T, m2, h2) => HasTimer(R, m2, h2)
                  /\ (m2 # m \/ h2 # h) /\ HasTimer(R, m2, h2) => HasTimer(T, m2, h2)
                  /\ OneTimer(T, m2, h2) /\ (m2 # m \/ h2 # h \/ ~HasTimer(T, m, h)) => OneTimer(R, m2, h2)
  <2>1. R[i] = [msg |-> m, handle |-> h] /\ \A j \in TimerId : j # i => R[j] = T[j]
    BY <1>2
  <2>2. R \in Timers
    BY <1>2
  <2>3. \A m2 \in Msg, h2 \in Int : FreeTimer # [msg |-> m2, handle |-> h2]
    OBVIOUS
  <2>4. \A m2 \in Msg, h2 \in Int :
          [msg |-> m, handle |-> h] = [msg |-> m2, handle |-> h2] => m2 = m /\ h2 = h
    OBVIOUS
  <2> HIDE DEF R, FreeTimer, Timers, Msg
  <2>5. HasTimer(R, m, h) /\ (TwoFree(T) => Room(R))
    BY <2>1 DEF HasTimer, TwoFree, Room
  <2>6. ASSUME NEW m2 \in Msg, NEW h2 \in Int
        PROVE  /\ HasTimer(T, m2, h2) => HasTimer(R, m2, h2)
               /\ (m2 # m \/ h2 # h) /\ HasTimer(R, m2, h2) => HasTimer(T, m2, h2)
               /\ OneTimer(T, m2, h2) /\ (m2 # m \/ h2 # h \/ ~HasTimer(T, m, h)) => OneTimer(R, m2, h2)
    BY <1>2, <2>1, <2>3, <2>4 DEF OneTimer, HasTimer
  <2> QED
    BY <2>2, <2>5, <2>6
<1> QED
  BY <1>1, <1>2, Started

-----------------------------------------------------------------------------
(* Hints *)

Hints == [Hint -> [state : State, for : {"none", "timed", "always"}]]

\* Switching a hint on or off does not change for how long hints are asked.
LEMMA TurnOnHint ==
  ASSUME NEW H \in Hints, NEW h \in Hint
  PROVE  TurnOn(H, h) \in Hints /\ \A k \in Hint : TurnOn(H, h)[k].for = H[k].for
BY DEF Hints, State, TurnOn

\* The same for switching off.
LEMMA TurnOffHint ==
  ASSUME NEW H \in Hints, NEW S
  PROVE  TurnOff(H, S) \in Hints /\ \A k \in Hint : TurnOff(H, S)[k].for = H[k].for
BY DEF Hints, State, TurnOff

\* Noting for how long a hint is asked.
LEMMA AskedHint ==
  ASSUME NEW H \in Hints, NEW h \in Hint, NEW f \in {"none", "timed", "always"}
  PROVE  /\ Asked(H, h, f) \in Hints
         /\ \A k \in Hint : Asked(H, h, f)[k].for = IF k = h THEN f ELSE H[k].for
BY DEF Hints, State, Asked

\* perfBoostEnable() does not change for how long hints are asked ...
LEMMA BoostOn ==
  ASSUME NEW H \in Hints, NEW h \in Hint, NEW display
  PROVE  /\ perfBoostEnable(H, h, display) \in Hints
         /\ \A k \in Hint : perfBoostEnable(H, h, display)[k].for = H[k].for
<1>1. \/ perfBoostEnable(H, h, display) = H
      \/ perfBoostEnable(H, h, display) = TurnOn(H, h)
      \/ perfBoostEnable(H, h, display) = TurnOff(TurnOn(H, h), {APP_TOUCH})
  BY DEF perfBoostEnable
<1> DEFINE G == TurnOn(H, h)
<1>2. G \in Hints /\ \A k \in Hint : G[k].for = H[k].for
  BY TurnOnHint
<1>3. TurnOff(G, {APP_TOUCH}) \in Hints /\ \A k \in Hint : TurnOff(G, {APP_TOUCH})[k].for = G[k].for
  <2> HIDE DEF G
  <2> QED
    BY <1>2, TurnOffHint
<1> QED
  BY <1>1, <1>2, <1>3, Zenon

\* ... and perfBoostDisable() ends the one.
LEMMA BoostOff ==
  ASSUME NEW H \in Hints, NEW h \in Hint
  PROVE  /\ perfBoostDisable(H, h) \in Hints
         /\ \A k \in Hint : perfBoostDisable(H, h)[k].for = IF k = h THEN "none" ELSE H[k].for
<1> DEFINE G == TurnOff(H, {h})
<1>1. G \in Hints /\ \A k \in Hint : G[k].for = H[k].for
  BY TurnOffHint
<1>2. Asked(G, h, "none") \in Hints
      /\ \A k \in Hint : Asked(G, h, "none")[k].for = IF k = h THEN "none" ELSE G[k].for
  <2> HIDE DEF G
  <2> QED
    BY <1>1, AskedHint
<1>3. perfBoostDisable(H, h) = Asked(G, h, "none")
  BY DEF perfBoostDisable
<1> HIDE DEF G
<1> QED
  BY <1>1, <1>2, <1>3


-----------------------------------------------------------------------------
(* Slots and handles *)

SlotRecord ==
  [type : {"free", "user", "lock"}, handle : -1 .. HANDLE_RAND_MAX - 1,
   pid : Pid \cup {gMyPid, "none"}, state : State, screen : SCREEN_OFF, timed : BOOLEAN]

\* Slots in use have positive handles.
SlotOK   == slot \in [Slot -> SlotRecord] /\ \A i \in Slot : slot[i].type # "free" => slot[i].handle > 0
HandleOK == user_handle_now \in 0 .. HANDLE_RAND_MAX - 1 /\ issued \in Nat

\* Handles are positive, and count upwards until they wrap.
LEMMA NewHandle ==
  ASSUME HandleOK
  PROVE  /\ allocNewHandleNum \in 1 .. HANDLE_RAND_MAX - 1
         /\ user_handle_now + 1 < HANDLE_RAND_MAX => allocNewHandleNum = user_handle_now + 1
<1> DEFINE n == (user_handle_now + 1) % HANDLE_RAND_MAX
<1>1. HANDLE_RAND_MAX \in Nat /\ HANDLE_RAND_MAX > 1 /\ user_handle_now \in Nat
      /\ user_handle_now < HANDLE_RAND_MAX
  BY PowerdAssumption DEF HandleOK
<1>2. n \in 0 .. HANDLE_RAND_MAX - 1
  BY <1>1
<1>3. user_handle_now + 1 < HANDLE_RAND_MAX => n = user_handle_now + 1
  BY <1>1
<1>4. allocNewHandleNum = IF n = 0 THEN 1 ELSE n
  BY DEF allocNewHandleNum
<1> HIDE DEF n
<1> QED
  BY <1>1, <1>2, <1>3, <1>4

\* The slot of a handle that is in use, and the slot that is taken for a new one.
LEMMA Lookup ==
  ASSUME NEW h
  PROVE  /\ UsedBy(h) # {} => findHandleToIndex(h) \in UsedBy(h)
         /\ UsedBy(h) = {} => findHandleToIndex(h) = 0
         /\ FreeSlots # {} => Min(FreeSlots) \in FreeSlots
         /\ UsedBy(h) \subseteq Slot /\ FreeSlots \subseteq Slot /\ 0 \notin Slot
<1>1. UsedBy(h) \subseteq Slot /\ FreeSlots \subseteq Slot
  BY DEF UsedBy, FreeSlots
<1>2. Slot \subseteq Nat /\ 0 \notin Slot
  BY DEF Slot
<1>3. UsedBy(h) # {} => Min(UsedBy(h)) \in UsedBy(h)
  BY <1>1, <1>2, Least
<1>4. FreeSlots # {} => Min(FreeSlots) \in FreeSlots
  BY <1>1, <1>2, Least
<1> QED
  BY <1>1, <1>2, <1>3, <1>4 DEF findHandleToIndex

\* A slot that is freed, or keeps its handle.
LEMMA SlotChanges ==
  ASSUME SlotOK, slot' \in [Slot -> SlotRecord],
         \A i \in Slot : slot'[i].type # "free" => slot[i].type # "free" /\ slot'[i].handle = slot[i].handle
  PROVE  SlotOK'
BY DEF SlotOK

\* A free slot is a slot.
LEMMA FreeSlotType == FreeSlot \in SlotRecord
BY PowerdAssumption DEF FreeSlot, SlotRecord, State, SCREEN_OFF

\* What perfLockRel() does: the slot of the handle is free afterwards.
LEMMA LockRel ==
  ASSUME SlotOK, NEW h, perfLockRel(h)
  PROVE  /\ SlotOK'
         /\ \/ UNCHANGED slot /\ UsedBy(h) = {}
            \/ \E i \in UsedBy(h) : slot' = [slot EXCEPT ![i] = FreeSlot]
<1>1. CASE UsedBy(h) = {}
  BY <1>1 DEF perfLockRel, SlotOK
<1>2. CASE UsedBy(h) # {}
  <2>1. PICK i \in UsedBy(h) : slot' = [slot EXCEPT ![i] = FreeSlot]
    BY <1>2, Lookup DEF perfLockRel
  <2>2. i \in Slot
    BY Lookup
  <2>3. slot' \in [Slot -> SlotRecord]
    BY <2>1, <2>2, FreeSlotType DEF SlotOK
  <2>4. \A j \in Slot : slot'[j] = IF j = i THEN FreeSlot ELSE slot[j]
    BY <2>1, <2>2 DEF SlotOK
  <2>5. FreeSlot.type = "free"
    BY DEF FreeSlot
  <2>6. SlotOK'
    BY <2>3, <2>4, <2>5, SlotChanges
  <2> QED
    BY <2>1, <2>6
<1> QED
  BY <1>1, <1>2

\* A slot registered under a new handle.
LEMMA Registered ==
  ASSUME SlotOK, HandleOK, FreeSlots # {}, NEW p \in Pid \cup {gMyPid}, NEW type \in {"user", "lock"},
         NEW state \in State, NEW screen \in SCREEN_OFF, NEW timed \in BOOLEAN,
         Register(type, p, state, screen, timed)
  PROVE  /\ SlotOK' /\ HandleOK'
         /\ user_handle_now' = allocNewHandleNum /\ issued' = issued + 1
         /\ \E i \in FreeSlots :
              /\ slot'[i].type = type /\ slot'[i].handle = allocNewHandleNum /\ slot'[i].pid = p
              /\ slot'[i].timed = timed
              /\ \A j \in Slot : j # i => slot'[j] = slot[j]
<1> DEFINE r == [type |-> type, handle |-> allocNewHandleNum, pid |-> p,
                 state |-> state, screen |-> screen, timed |-> timed]
<1>1. PICK i \in FreeSlots : slot' = [slot EXCEPT ![i] = r]
  BY Lookup DEF Register
<1>2. i \in Slot
  BY Lookup
<1>3. allocNewHandleNum \in Int /\ allocNewHandleNum > 0 /\ allocNewHandleNum <= HANDLE_RAND_MAX - 1
  BY NewHandle, PowerdAssumption
<1>4. r \in SlotRecord
  BY <1>3, PowerdAssumption DEF SlotRecord
<1>5. r.type = type /\ r.handle = allocNewHandleNum /\ r.pid = p /\ r.timed = timed
  OBVIOUS
<1> HIDE DEF r
<1>6. slot' \in [Slot -> SlotRecord] /\ slot'[i] = r /\ \A j \in Slot : j # i => slot'[j] = slot[j]
  BY <1>1, <1>2, <1>4 DEF SlotOK
<1>7. SlotOK'
  BY <1>3, <1>5, <1>6 DEF SlotOK
<1>8. user_handle_now' = allocNewHandleNum /\ issued' = issued + 1
  BY DEF Register
<1>9. HandleOK'
  BY <1>8, NewHandle, PowerdAssumption DEF HandleOK
<1> QED
  BY <1>5, <1>6, <1>7, <1>8, <1>9

\* The three outcomes of perfLockAcq(): refused, acquired again, or registered anew.
LockOutcome(h, p, d, ret) ==
  \/ /\ ret = -1 /\ UNCHANGED lib
     /\ h <= 0 \/ UsedBy(h) = {} \/ p \notin alive \cup {gMyPid}
  \/ /\ ret = h /\ h > 0 /\ UNCHANGED <<user_handle_now, issued>>
     /\ \E i \in UsedBy(h) :
          /\ slot'[i].type = slot[i].type /\ slot'[i].handle = h
          /\ slot'[i].pid = slot[i].pid /\ slot'[i].timed = (d # "always")
          /\ \A j \in Slot : j # i => slot'[j] = slot[j]
  \/ /\ ret = allocNewHandleNum /\ issued' = issued + 1 /\ user_handle_now' = allocNewHandleNum
     /\ h <= 0 \/ UsedBy(h) = {}
     /\ \E i \in FreeSlots :
          /\ slot'[i].type = "lock" /\ slot'[i].handle = ret /\ slot'[i].pid = p
          /\ slot'[i].timed = (d # "always")
          /\ \A j \in Slot : j # i => slot'[j] = slot[j]

\* perfLockAcq() has one of them.
LEMMA LockAcq ==
  ASSUME SlotOK, HandleOK, NEW h \in Int, NEW p \in Pid \cup {gMyPid}, NEW d \in Duration,
         NEW screen \in SCREEN_OFF, NEW ret, perfLockAcq(h, p, d, screen, ret)
  PROVE  /\ SlotOK' /\ HandleOK' /\ ret \in Int /\ ret <= HANDLE_RAND_MAX - 1
         /\ LockOutcome(h, p, d, ret)
<1> DEFINE i == findHandleToIndex(h)
<1>0. (i = 0 <=> UsedBy(h) = {}) /\ (i # 0 => i \in UsedBy(h) /\ i \in Slot)
  BY Lookup
<1>1. CASE ret = -1 /\ UNCHANGED lib /\ (h <= 0 \/ UsedBy(h) = {} \/ p \notin alive \cup {gMyPid})
  <2>1. SlotOK' /\ HandleOK'
    BY <1>1 DEF lib, SlotOK, HandleOK
  <2> QED
    BY <1>1, <2>1, PowerdAssumption DEF LockOutcome
<1>2. CASE /\ h > 0 /\ i # 0 /\ ret = h
           /\ slot' = [slot EXCEPT ![i].screen = screen, ![i].timed = d # "always"]
           /\ UNCHANGED <<user_handle_now, issued>>
  <2>1. i \in Slot /\ i \in UsedBy(h) /\ slot[i] \in SlotRecord /\ slot[i].handle = h
    BY <1>0, <1>2 DEF UsedBy, SlotOK
  <2> HIDE DEF i
  <2> DEFINE r == [slot[i] EXCEPT !.screen = screen, !.timed = d # "always"]
  <2>2. /\ r \in SlotRecord /\ r.type = slot[i].type /\ r.handle = h /\ r.pid = slot[i].pid
        /\ r.timed = (d # "always")
    BY <2>1 DEF SlotRecord
  <2>3. slot'[i] = r /\ slot' \in [Slot -> SlotRecord] /\ \A j \in Slot : j # i => slot'[j] = slot[j]
    <3>1. slot' = [slot EXCEPT ![i] = r]
      BY <1>2, <2>1 DEF SlotOK
    <3> HIDE DEF r
    <3> QED
      BY <2>1, <2>2, <3>1 DEF SlotOK
  <2> HIDE DEF r
  <2>4. \A j \in Slot : slot'[j].type = slot[j].type /\ slot'[j].handle = slot[j].handle
    BY <2>1, <2>2, <2>3
  <2>5. SlotOK'
    BY <2>3, <2>4, SlotChanges
  <2>6. HandleOK'
    BY <1>2 DEF HandleOK
  <2>7. h <= HANDLE_RAND_MAX - 1
    BY <2>1, PowerdAssumption DEF SlotRecord
  <2> QED
    BY <1>2, <2>1, <2>2, <2>3, <2>5, <2>6, <2>7 DEF LockOutcome
<1>3. CASE /\ h <= 0 \/ i = 0
           /\ FreeSlots # {} /\ ret = allocNewHandleNum
           /\ Register("lock", p, "ON", screen, d # "always")
  <2> DEFINE b == d # "always"
  <2>1. "ON" \in State /\ "lock" \in {"user", "lock"} /\ b \in BOOLEAN
        /\ Register("lock", p, "ON", screen, b)
    BY <1>3 DEF State
  <2> HIDE DEF b
  <2>2. /\ SlotOK' /\ HandleOK'
        /\ user_handle_now' = allocNewHandleNum /\ issued' = issued + 1
        /\ \E k \in FreeSlots :
              /\ slot'[k].type = "lock" /\ slot'[k].handle = allocNewHandleNum /\ slot'[k].pid = p
              /\ slot'[k].timed = b
              /\ \A j \in Slot : j # k => slot'[j] = slot[j]
    BY <1>3, <2>1, Registered
  <2> USE DEF b
  <2> QED
    BY <1>0, <1>3, <2>2, NewHandle, PowerdAssumption DEF LockOutcome
<1> QED
  BY <1>0, <1>1, <1>2, <1>3 DEF perfLockAcq


-----------------------------------------------------------------------------
(* Hints and their timers *)

\* Timers of hints belong to hints, at most one to each, and none to a hint that is
\* asked for always.
HintState(T, H) ==
  /\ T \in Timers /\ H \in Hints
  /\ \A h \in Int : HasTimer(T, "HINT", h) => h \in Hint
  /\ \A h \in Hint : /\ OneTimer(T, "HINT", h)
                     /\ H[h].for = "always" => ~HasTimer(T, "HINT", h)

\* A hint that is asked for a time has a timer.
HintEnds(T, H) == \A h \in Hint : H[h].for = "timed" => HasTimer(T, "HINT", h)

\* Hints are numbers, as the handles of timers.
LEMMA HintNumbers == Hint \subseteq Int
BY PowerdAssumption

\* A change of what is asked of one hint, with its timer stopped ...
LEMMA HintStops ==
  ASSUME NEW T, NEW H, HintState(T, H), NEW h \in Hint, NEW G \in Hints,
         G[h].for # "timed", \A k \in Hint : k # h => G[k].for = H[k].for
  PROVE  /\ HintState(remove_scn_timer(T, "HINT", h), G)
         /\ HintEnds(T, H) => HintEnds(remove_scn_timer(T, "HINT", h), G)
<1> DEFINE R == remove_scn_timer(T, "HINT", h)
<1>1. T \in Timers /\ "HINT" \in Msg /\ h \in Int
  BY HintNumbers DEF HintState, Msg
<1>2. /\ R \in Timers /\ (OneTimer(T, "HINT", h) => ~HasTimer(R, "HINT", h))
      /\ \A k \in Int : /\ HasTimer(R, "HINT", k) => HasTimer(T, "HINT", k)
                        /\ k # h /\ HasTimer(T, "HINT", k) => HasTimer(R, "HINT", k)
                        /\ OneTimer(T, "HINT", k) => OneTimer(R, "HINT", k)
  BY <1>1, RemoveTimer
<1> HIDE DEF R
<1>3. HintState(R, G)
  BY <1>2, HintNumbers DEF HintState
<1>4. HintEnds(T, H) => HintEnds(R, G)
  BY <1>2, HintNumbers DEF HintEnds
<1> USE DEF R
<1> QED
  BY <1>3, <1>4

\* ... or started again.
LEMMA HintStarts ==
  ASSUME NEW T, NEW H, HintState(T, H), NEW h \in Hint, NEW G \in Hints,
         G[h].for = "timed", \A k \in Hint : k # h => G[k].for = H[k].for
  PROVE  /\ HintState(restart_scn_timer(T, "HINT", h), G)
         /\ HintEnds(T, H) /\ Room(T) => HintEnds(restart_scn_timer(T, "HINT", h), G)
         /\ TwoFree(T) => Room(restart_scn_timer(T, "HINT", h))
<1> DEFINE R == remove_scn_timer(T, "HINT", h)
           U == start_scn_timer(R, "HINT", h)
<1>1. T \in Timers /\ "HINT" \in Msg /\ h \in Int
  BY HintNumbers DEF HintState, Msg
<1>2. /\ R \in Timers /\ (OneTimer(T, "HINT", h) => ~HasTimer(R, "HINT", h))
      /\ (Room(T) => Room(R)) /\ (TwoFree(T) => TwoFree(R))
      /\ \A k \in Int : /\ HasTimer(R, "HINT", k) => HasTimer(T, "HINT", k)
                        /\ k # h /\ HasTimer(T, "HINT", k) => HasTimer(R, "HINT", k)
                        /\ OneTimer(T, "HINT", k) => OneTimer(R, "HINT", k)
  BY <1>1, RemoveTimer
<1> HIDE DEF R
<1>3. /\ U \in Timers /\ (Room(R) => HasTimer(U, "HINT", h)) /\ (TwoFree(R) => Room(U))
      /\ \A k \in Int : /\ HasTimer(R, "HINT", k) => HasTimer(U, "HINT", k)
                        /\ k # h /\ HasTimer(U, "HINT", k) => HasTimer(R, "HINT", k)
                        /\ OneTimer(R, "HINT", k) /\ (k # h \/ ~HasTimer(R, "HINT", h))
                             => OneTimer(U, "HINT", k)
  BY <1>1, <1>2, StartTimer
<1>4. restart_scn_timer(T, "HINT", h) = U
  BY DEF restart_scn_timer, R
<1> HIDE DEF U
<1>5. HintState(U, G)
  BY <1>2, <1>3, HintNumbers DEF HintState
<1>6. HintEnds(T, H) /\ Room(T) => HintEnds(U, G)
  BY <1>2, <1>3, HintNumbers DEF HintEnds
<1> QED
  BY <1>2, <1>3, <1>4, <1>5, <1>6

\* Timers of locks and of user scenarios do not concern hints.
LEMMA OtherTimers ==
  ASSUME NEW T, NEW H, HintState(T, H), NEW m \in {"LOCK", "USER"}, NEW h \in Int
  PROVE  /\ HintState(remove_scn_timer(T, m, h), H)
         /\ HintEnds(T, H) => HintEnds(remove_scn_timer(T, m, h), H)
         /\ HintState(start_scn_timer(T, m, h), H)
         /\ HintEnds(T, H) => HintEnds(start_scn_timer(T, m, h), H)
<1> DEFINE R == remove_scn_timer(T, m, h)
           U == start_scn_timer(T, m, h)
<1>1. T \in Timers /\ m \in Msg /\ "HINT" \in Msg /\ m # "HINT"
  BY DEF HintState, Msg
<1>2. /\ R \in Timers
      /\ \A k \in Int : /\ HasTimer(R, "HINT", k) <=> HasTimer(T, "HINT", k)
                        /\ OneTimer(T, "HINT", k) => OneTimer(R, "HINT", k)
  BY <1>1, RemoveTimer
<1>3. /\ U \in Timers
      /\ \A k \in Int : /\ HasTimer(U, "HINT", k) <=> HasTimer(T, "HINT", k)
                        /\ OneTimer(T, "HINT", k) => OneTimer(U, "HINT", k)
  BY <1>1, StartTimer
<1> HIDE DEF R, U
<1>4. HintState(R, H) /\ (HintEnds(T, H) => HintEnds(R, H))
  BY <1>2, HintNumbers DEF HintState, HintEnds
<1>5. HintState(U, H) /\ (HintEnds(T, H) => HintEnds(U, H))
  BY <1>3, HintNumbers DEF HintState, HintEnds
<1> USE DEF R, U
<1> QED
  BY <1>4, <1>5

\* A timer that fired is free.
LEMMA Fired ==
  ASSUME NEW T \in Timers, NEW i \in TimerId
  PROVE  /\ [T EXCEPT ![i] = FreeTimer] \in Timers
         /\ \A m \in Msg, k \in Int :
              /\ HasTimer([T EXCEPT ![i] = FreeTimer], m, k) => HasTimer(T, m, k)
              /\ HasTimer(T, m, k) /\ (T[i].msg # m \/ T[i].handle # k)
                   => HasTimer([T EXCEPT ![i] = FreeTimer], m, k)
              /\ OneTimer(T, m, k) => OneTimer([T EXCEPT ![i] = FreeTimer], m, k)
              /\ OneTimer(T, m, k) /\ T[i].msg = m /\ T[i].handle = k
                   => ~HasTimer([T EXCEPT ![i] = FreeTimer], m, k)
         /\ T[i].handle \in Int
         /\ T[i].msg \in Msg => HasTimer(T, T[i].msg, T[i].handle)
<1> DEFINE R == [T EXCEPT ![i] = FreeTimer]
<1>1. R \in Timers /\ R[i] = FreeTimer /\ \A j \in TimerId : j # i => R[j] = T[j]
  BY DEF Timers, FreeTimer
<1>2. T[i] = [msg |-> T[i].msg, handle |-> T[i].handle] /\ T[i].handle \in Int
  BY DEF Timers
<1>3. \A m \in Msg, k \in Int : FreeTimer # [msg |-> m, handle |-> k]
  BY DEF Msg, FreeTimer
<1>4. \A m \in Msg, k \in Int : T[i] = [msg |-> m, handle |-> k] <=> T[i].msg = m /\ T[i].handle = k
  BY <1>2
<1> HIDE DEF R
<1>5. ASSUME NEW m \in Msg, NEW k \in Int
      PROVE  /\ HasTimer(R, m, k) => HasTimer(T, m, k)
             /\ HasTimer(T, m, k) /\ (T[i].msg # m \/ T[i].handle # k) => HasTimer(R, m, k)
             /\ OneTimer(T, m, k) => OneTimer(R, m, k)
             /\ OneTimer(T, m, k) /\ T[i].msg = m /\ T[i].handle = k => ~HasTimer(R, m, k)
  BY <1>1, <1>3, <1>4 DEF HasTimer, OneTimer
<1>6. T[i].msg \in Msg => HasTimer(T, T[i].msg, T[i].handle)
  BY <1>2 DEF HasTimer
<1> USE DEF R
<1> QED
  BY <1>1, <1>2, <1>5, <1>6

-----------------------------------------------------------------------------
(* Types *)

OwnerOK ==
  /\ gtCusHintTbl \in [CusHint -> Int]
  /\ powerdOnOff \in BOOLEAN /\ alive \subseteq Pid
  /\ known \in [Pid -> SUBSET (1 .. HANDLE_RAND_MAX - 1)]

\* TypeOK by parts, with what the timers of hints need.
TypeInv ==
  /\ HintState(powerdTimer, hint)
  /\ nDisplayType \in {"GAME", "OTHERS"}
  /\ SlotOK /\ HandleOK /\ OwnerOK
  /\ served \in 0 .. MaxRequests

HintsEnd == HintEnds(powerdTimer, hint)

\* Any request finds the timers free that it may start.
RoomForTimers == TwoFree(powerdTimer)

\* A hint enabled for f.
LEMMA EnabledFor ==
  ASSUME NEW H \in Hints, NEW h \in Hint, NEW display, NEW f \in {"none", "timed", "always"}
  PROVE  /\ Asked(perfBoostEnable(H, h, display), h, f) \in Hints
         /\ Asked(perfBoostEnable(H, h, display), h, f)[h].for = f
         /\ \A k \in Hint : k # h => Asked(perfBoostEnable(H, h, display), h, f)[k].for = H[k].for
<1> DEFINE G == perfBoostEnable(H, h, display)
<1>1. G \in Hints /\ \A k \in Hint : G[k].for = H[k].for
  BY BoostOn
<1> HIDE DEF G
<1>2. Asked(G, h, f) \in Hints /\ \A k \in Hint : Asked(G, h, f)[k].for = IF k = h THEN f ELSE G[k].for
  BY <1>1 DEF Asked, Hints, State
<1>3. Asked(G, h, f)[h].for = f /\ \A k \in Hint : k # h => Asked(G, h, f)[k].for = H[k].for
  BY <1>1, <1>2
<1> USE DEF G
<1> QED
  BY <1>2, <1>3

\* A request is counted.
LEMMA Served ==
  ASSUME TypeInv, Serve
  PROVE  served' \in 0 .. MaxRequests
BY PowerdAssumption DEF TypeInv, Serve

\* A hint that is enabled: its timer is stopped, or started again.
LEMMA AospHintTypes ==
  ASSUME TypeInv, NEW h \in Hint, NEW d \in {"always", "short"}, AospHint(h, d)
  PROVE  TypeInv' /\ (HintsEnd /\ RoomForTimers => HintsEnd')
<1>1. HintState(powerdTimer, hint) /\ hint \in Hints
  BY DEF TypeInv, HintState
<1>2. TwoFree(powerdTimer) => Room(powerdTimer)
  BY DEF TwoFree, Room
<1>3. Length(d) \in {"none", "timed", "always"} /\ (d = "always" <=> Length(d) # "timed")
  BY DEF Length
<1>4. /\ hint' \in Hints /\ hint'[h].for = Length(d)
      /\ \A k \in Hint : k # h => hint'[k].for = hint[k].for
  BY <1>1, <1>3, EnabledFor DEF AospHint
<1>5. HintState(powerdTimer', hint') /\ (HintsEnd /\ RoomForTimers => HintsEnd')
  <2>1. CASE d = "always"
    <3>1. powerdTimer' = remove_scn_timer(powerdTimer, "HINT", h)
      BY <2>1 DEF AospHint
    <3> QED
      BY <1>1, <1>3, <1>4, <2>1, <3>1, HintStops DEF HintsEnd
  <2>2. CASE d # "always"
    <3>1. powerdTimer' = restart_scn_timer(powerdTimer, "HINT", h)
      BY <2>2 DEF AospHint, restart_scn_timer
    <3> QED
      BY <1>1, <1>2, <1>3, <1>4, <2>2, <3>1, HintStarts DEF HintsEnd, RoomForTimers
  <2> QED
    BY <2>1, <2>2
<1>6. nDisplayType' \in {"GAME", "OTHERS"}
  BY DEF AospHint, DisplayAfterEnable, TypeInv
<1>7. SlotOK' /\ HandleOK' /\ OwnerOK' /\ served' \in 0 .. MaxRequests
  BY Served DEF AospHint, ServeIfOn, lib, TypeInv, SlotOK, HandleOK, OwnerOK
<1> QED
  BY <1>5, <1>6, <1>7 DEF TypeInv

\* A hint that is disabled; its timer, if any, is left to run.
LEMMA AospHintOffTypes ==
  ASSUME TypeInv, NEW h \in Hint, AospHintOff(h)
  PROVE  TypeInv' /\ (HintsEnd => HintsEnd')
<1>1. HintState(powerdTimer, hint) /\ hint \in Hints
  BY DEF TypeInv, HintState
<1>2. hint' \in Hints /\ \A k \in Hint : hint'[k].for = IF k = h THEN "none" ELSE hint[k].for
  BY <1>1, BoostOff DEF AospHintOff
<1>3. powerdTimer' = powerdTimer
  BY DEF AospHintOff
<1>4. HintState(powerdTimer', hint') /\ (HintsEnd => HintsEnd')
  BY <1>1, <1>2, <1>3 DEF HintState, HintsEnd, HintEnds
<1>5. nDisplayType' \in {"GAME", "OTHERS"}
  BY DEF AospHintOff, DisplayAfterDisable, TypeInv
<1>6. SlotOK' /\ HandleOK' /\ OwnerOK' /\ served' \in 0 .. MaxRequests
  BY Served DEF AospHintOff, ServeIfOn, lib, TypeInv, SlotOK, HandleOK, OwnerOK
<1> QED
  BY <1>4, <1>5, <1>6 DEF TypeInv

\* A hint that is disabled at once or after its hold time, and followed by another: two
\* timers may be started.
LEMMA MtkHintOffTypes ==
  ASSUME TypeInv, NEW h \in Hint, MtkHintOff(h)
  PROVE  TypeInv' /\ (HintsEnd /\ RoomForTimers => HintsEnd')
<1> DEFINE held == h \in Hold
           T1 == remove_scn_timer(powerdTimer, "HINT", h)
           T2 == IF held THEN start_scn_timer(T1, "HINT", h) ELSE T1
           H1 == IF held THEN Asked(hint, h, "timed") ELSE perfBoostDisable(hint, h)
           d1 == IF held THEN nDisplayType ELSE DisplayAfterDisable(h)
           e  == Ext[h]
<1>1. HintState(powerdTimer, hint) /\ hint \in Hints /\ powerdTimer \in Timers
  BY DEF TypeInv, HintState
<1>2. /\ HintState(T2, H1)
      /\ HintsEnd /\ RoomForTimers => HintEnds(T2, H1)
      /\ RoomForTimers => Room(T2)
  <2>1. CASE held
    <3>1. T2 = restart_scn_timer(powerdTimer, "HINT", h) /\ H1 = Asked(hint, h, "timed")
      BY <2>1 DEF restart_scn_timer
    <3>2. /\ Asked(hint, h, "timed") \in Hints /\ Asked(hint, h, "timed")[h].for = "timed"
          /\ \A k \in Hint : k # h => Asked(hint, h, "timed")[k].for = hint[k].for
      BY <1>1, AskedHint
    <3>3. TwoFree(powerdTimer) => Room(powerdTimer)
      BY DEF TwoFree, Room
    <3> HIDE DEF T2, H1
    <3> QED
      BY <1>1, <3>1, <3>2, <3>3, HintStarts DEF HintsEnd, RoomForTimers
  <2>2. CASE ~held
    <3>1. T2 = T1 /\ H1 = perfBoostDisable(hint, h)
      BY <2>2
    <3>2. /\ perfBoostDisable(hint, h) \in Hints /\ perfBoostDisable(hint, h)[h].for = "none"
          /\ \A k \in Hint : k # h => perfBoostDisable(hint, h)[k].for = hint[k].for
      BY <1>1, BoostOff
    <3>3. HintState(T1, perfBoostDisable(hint, h)) /\ (HintsEnd => HintEnds(T1, perfBoostDisable(hint, h)))
      BY <1>1, <3>2, HintStops DEF HintsEnd
    <3>4. RoomForTimers => Room(T1)
      <4>1. "HINT" \in Msg /\ h \in Int
        BY HintNumbers DEF Msg
      <4>2. TwoFree(powerdTimer) => TwoFree(T1)
        BY <1>1, <4>1, RemoveTimer
      <4> QED
        BY <4>2 DEF RoomForTimers, TwoFree, Room
    <3> HIDE DEF T1, T2, H1
    <3> QED
      BY <3>1, <3>3, <3>4
  <2> QED
    BY <2>1, <2>2
<1>3. d1 \in {"GAME", "OTHERS"}
  BY DEF DisplayAfterDisable, TypeInv
<1>4. e \in Hint \cup {0} /\ 0 \notin Hint
  BY PowerdAssumption
<1>5. IF e = 0
        THEN powerdTimer' = T2 /\ hint' = H1 /\ nDisplayType' = d1
        ELSE /\ powerdTimer' = restart_scn_timer(T2, "HINT", e)
             /\ hint' = Asked(perfBoostEnable(H1, e, d1), e, "timed")
             /\ nDisplayType' = IF e = GAMING THEN "GAME" ELSE d1
  BY DEF MtkHintOff
<1>6. SlotOK' /\ HandleOK' /\ OwnerOK' /\ served' \in 0 .. MaxRequests
  BY Served DEF MtkHintOff, ServeIfOn, lib, TypeInv, SlotOK, HandleOK, OwnerOK
<1> HIDE DEF held, T1, T2, H1, d1, e
<1>7. HintState(powerdTimer', hint') /\ (HintsEnd /\ RoomForTimers => HintsEnd')
  <2>1. CASE e = 0
    BY <1>2, <1>5, <2>1 DEF HintsEnd
  <2>2. CASE e # 0
    <3>1. e \in Hint /\ H1 \in Hints
      BY <1>2, <1>4, <2>2 DEF HintState
    <3>2. /\ hint' \in Hints /\ hint'[e].for = "timed"
          /\ \A k \in Hint : k # e => hint'[k].for = H1[k].for
      BY <1>5, <2>2, <3>1, EnabledFor
    <3> QED
      BY <1>2, <1>5, <2>2, <3>1, <3>2, HintStarts DEF HintsEnd
  <2> QED
    BY <2>1, <2>2
<1>8. nDisplayType' \in {"GAME", "OTHERS"}
  BY <1>3, <1>5
<1> QED
  BY <1>6, <1>7, <1>8 DEF TypeInv

\* The launch boost of a package replaces the last one.
LEMMA NotifyResumedTypes ==
  ASSUME TypeInv, NEW launch \in BOOLEAN, NotifyResumed(launch)
  PROVE  TypeInv' /\ (HintsEnd /\ RoomForTimers => HintsEnd')
<1> DEFINE w == WHITELIST_LAUNCH
           H == perfBoostDisable(hint, w)
           O == TurnOn(H, w)
           G == Asked(O, w, "timed")
<1>1. HintState(powerdTimer, hint) /\ hint \in Hints /\ w \in Hint
  BY DEF TypeInv, HintState, NotifyResumed
<1>2. TwoFree(powerdTimer) => Room(powerdTimer)
  BY DEF TwoFree, Room
<1>3. H \in Hints /\ H[w].for = "none" /\ \A k \in Hint : k # w => H[k].for = hint[k].for
  BY <1>1, BoostOff
<1>4. \/ powerdTimer' = restart_scn_timer(powerdTimer, "HINT", w) /\ hint' = G
      \/ powerdTimer' = remove_scn_timer(powerdTimer, "HINT", w) /\ hint' = H
  BY DEF NotifyResumed, restart_scn_timer
<1>5. G \in Hints /\ G[w].for = "timed" /\ \A k \in Hint : k # w => G[k].for = hint[k].for
  <2> HIDE DEF H, w
  <2>1. O \in Hints /\ \A k \in Hint : O[k].for = H[k].for
    BY <1>1, <1>3, TurnOnHint
  <2> HIDE DEF O
  <2>2. G \in Hints /\ \A k \in Hint : G[k].for = IF k = w THEN "timed" ELSE O[k].for
    BY <1>1, <2>1, AskedHint
  <2> QED
    BY <1>1, <1>3, <2>1, <2>2
<1>6. nDisplayType' \in {"GAME", "OTHERS"} /\ SlotOK' /\ HandleOK' /\ OwnerOK' /\ served' \in 0 .. MaxRequests
  BY Served DEF NotifyResumed, ServeIfOn, lib, TypeInv, SlotOK, HandleOK, OwnerOK
<1> HIDE DEF w, H, O, G
<1>7. HintState(powerdTimer', hint') /\ (HintsEnd /\ RoomForTimers => HintsEnd')
  <2>1. CASE powerdTimer' = restart_scn_timer(powerdTimer, "HINT", w) /\ hint' = G
    BY <1>1, <1>2, <1>5, <2>1, HintStarts DEF HintsEnd, RoomForTimers
  <2>2. CASE powerdTimer' = remove_scn_timer(powerdTimer, "HINT", w) /\ hint' = H
    BY <1>1, <1>3, <2>2, HintStops DEF HintsEnd
  <2> QED
    BY <1>4, <2>1, <2>2
<1> QED
  BY <1>6, <1>7 DEF TypeInv

-----------------------------------------------------------------------------
(* What requests and timers do to the slots *)

\* No slot is filled and none changes its owner: what was in use may be freed.
Shrinks(s, t) ==
  /\ t.type # "free" => /\ s.type # "free" /\ t.handle = s.handle
                        /\ t.pid = s.pid /\ t.timed = s.timed
  /\ t.type = "free" => t.handle = -1 \/ (s.type = "free" /\ t.handle = s.handle)

SlotsShrink == \A i \in Slot : Shrinks(slot[i], slot'[i])

\* Every slot is freed or keeps its owner.
LEMMA SlotsMapped ==
  ASSUME SlotOK, slot' = [i \in Slot |-> slot'[i]],
         \A i \in Slot : slot'[i] = FreeSlot \/ \E st \in State : slot'[i] = [slot[i] EXCEPT !.state = st]
  PROVE  SlotOK' /\ SlotsShrink
<1>1. ASSUME NEW i \in Slot
      PROVE  /\ slot'[i] \in SlotRecord
             /\ Shrinks(slot[i], slot'[i])
  <2>1. FreeSlot.type = "free" /\ FreeSlot.handle = -1
    BY DEF FreeSlot
  <2>2. CASE slot'[i] = FreeSlot
    BY <2>1, <2>2, FreeSlotType DEF Shrinks
  <2>3. ASSUME NEW st \in State, slot'[i] = [slot[i] EXCEPT !.state = st]
        PROVE  /\ slot'[i] \in SlotRecord
               /\ Shrinks(slot[i], slot'[i])
    <3>1. slot[i] \in SlotRecord
      BY DEF SlotOK
    <3> QED
      BY <2>3, <3>1 DEF SlotRecord, Shrinks
  <2> QED
    BY <2>2, <2>3
<1>2. slot' \in [Slot -> SlotRecord]
  BY <1>1
<1>3. SlotsShrink
  BY <1>1 DEF SlotsShrink
<1> QED
  BY <1>2, <1>3, SlotChanges DEF SlotsShrink, Shrinks

\* One slot is freed, switched or configured.
LEMMA SlotChanged ==
  ASSUME SlotOK, NEW i \in Slot, NEW r \in SlotRecord, slot' = [slot EXCEPT ![i] = r],
         r = FreeSlot \/ /\ r.type = slot[i].type /\ r.handle = slot[i].handle
                         /\ r.pid = slot[i].pid /\ r.timed = slot[i].timed
  PROVE  SlotOK' /\ SlotsShrink
<1>1. slot' \in [Slot -> SlotRecord] /\ \A j \in Slot : slot'[j] = IF j = i THEN r ELSE slot[j]
  BY DEF SlotOK
<1>2. SlotsShrink
  BY <1>1 DEF SlotsShrink, Shrinks, FreeSlot
<1> QED
  BY <1>1, <1>2, SlotChanges DEF SlotsShrink, Shrinks

\* perfLockRel().
LEMMA RelShrinks ==
  ASSUME SlotOK, NEW h, perfLockRel(h)
  PROVE  SlotOK' /\ SlotsShrink
<1>1. CASE UNCHANGED slot
  BY <1>1 DEF SlotOK, SlotsShrink, Shrinks
<1>2. ASSUME NEW i \in UsedBy(h), slot' = [slot EXCEPT ![i] = FreeSlot] PROVE SlotOK' /\ SlotsShrink
  <2>1. i \in Slot /\ FreeSlot.type = "free"
    BY Lookup DEF FreeSlot
  <2> QED
    BY <1>2, <2>1, FreeSlotType, SlotChanged
<1> QED
  BY <1>1, <1>2, LockRel

\* A slot that is switched on or off.
LEMMA StateShrinks ==
  ASSUME SlotOK, NEW h, NEW st \in State, SetState(h, st)
  PROVE  SlotOK' /\ SlotsShrink
<1>1. CASE UsedBy(h) = {}
  BY <1>1 DEF SetState, SlotOK, SlotsShrink, Shrinks
<1>2. CASE UsedBy(h) # {}
  <2> DEFINE i == findHandleToIndex(h)
             r == [slot[i] EXCEPT !.state = st]
  <2>1. i \in Slot /\ slot' = [slot EXCEPT ![i].state = st]
    BY <1>2, Lookup DEF SetState
  <2> HIDE DEF i
  <2>2. slot[i] \in SlotRecord /\ slot' = [slot EXCEPT ![i] = r]
    BY <2>1 DEF SlotOK
  <2>3. /\ r \in SlotRecord /\ r.type = slot[i].type /\ r.handle = slot[i].handle
        /\ r.pid = slot[i].pid /\ r.timed = slot[i].timed
    BY <2>2 DEF SlotRecord
  <2> HIDE DEF r
  <2> QED
    BY <2>1, <2>2, <2>3, SlotChanged
<1> QED
  BY <1>1, <1>2

\* A slot that is configured or unregistered.
LEMMA ScnShrinks ==
  ASSUME SlotOK, NEW p, NEW h, NEW screen \in SCREEN_OFF, ScnConfig(p, h, screen) \/ ScnUnreg(p, h)
  PROVE  SlotOK' /\ SlotsShrink
<1> DEFINE i == findHandleToIndex(h)
           r == [slot[i] EXCEPT !.screen = screen]
<1>1. i \in Slot /\ (slot' = [slot EXCEPT ![i].screen = screen] \/ slot' = [slot EXCEPT ![i] = FreeSlot])
  BY Lookup DEF ScnConfig, ScnUnreg
<1> HIDE DEF i
<1>2. CASE slot' = [slot EXCEPT ![i] = FreeSlot]
  <2>1. FreeSlot.type = "free"
    BY DEF FreeSlot
  <2> QED
    BY <1>1, <1>2, <2>1, FreeSlotType, SlotChanged
<1>3. CASE slot' = [slot EXCEPT ![i].screen = screen]
  <2>2. slot[i] \in SlotRecord /\ slot' = [slot EXCEPT ![i] = r]
    BY <1>1, <1>3 DEF SlotOK
  <2>3. /\ r \in SlotRecord /\ r.type = slot[i].type /\ r.handle = slot[i].handle
        /\ r.pid = slot[i].pid /\ r.timed = slot[i].timed
    BY <2>2 DEF SlotRecord
  <2> HIDE DEF r
  <2> QED
    BY <1>1, <2>2, <2>3, SlotChanged
<1> QED
  BY <1>1, <1>2, <1>3

\* The screen goes off or on, a process is reported dead, the periodic check.
LEMMA AllShrink ==
  ASSUME SlotOK, DisableAll \/ RestoreAll \/ perfUserScnCheckAll \/ \E p \in Pid : NotifyDead(p)
  PROVE  SlotOK' /\ SlotsShrink
<1>0. \A i \in Slot : slot[i] \in SlotRecord /\ slot[i].state \in State /\ slot[i].screen \in SCREEN_OFF
  BY DEF SlotOK, SlotRecord
<1>1. \A i \in Slot : [slot[i] EXCEPT !.state = slot[i].state] = slot[i]
  BY <1>0 DEF SlotRecord
<1>2. CASE DisableAll
  <2> DEFINE f(i) == IF Orphan(slot[i]) THEN FreeSlot
                     ELSE [slot[i] EXCEPT !.state = ScreenOff(@, slot[i].screen)]
  <2>1. slot' = [i \in Slot |-> f(i)]
    BY <1>2 DEF DisableAll
  <2>2. \A i \in Slot : ScreenOff(slot[i].state, slot[i].screen) \in State
    BY <1>0 DEF ScreenOff, State
  <2>3. \A i \in Slot : f(i) = FreeSlot \/ \E st \in State : f(i) = [slot[i] EXCEPT !.state = st]
    BY <2>2
  <2> HIDE DEF f
  <2>4. slot' = [i \in Slot |-> slot'[i]] /\ \A i \in Slot : slot'[i] = f(i)
    BY <2>1
  <2> QED
    BY <2>3, <2>4, SlotsMapped
<1>3. CASE RestoreAll
  <2> DEFINE f(i) == [slot[i] EXCEPT !.state = ScreenOn(@)]
  <2>1. slot' = [i \in Slot |-> f(i)]
    BY <1>3 DEF RestoreAll
  <2>2. \A i \in Slot : ScreenOn(slot[i].state) \in State
    BY <1>0 DEF ScreenOn, State
  <2>3. \A i \in Slot : f(i) = FreeSlot \/ \E st \in State : f(i) = [slot[i] EXCEPT !.state = st]
    BY <2>2
  <2> HIDE DEF f
  <2>4. slot' = [i \in Slot |-> slot'[i]] /\ \A i \in Slot : slot'[i] = f(i)
    BY <2>1
  <2> QED
    BY <2>3, <2>4, SlotsMapped
<1>4. CASE perfUserScnCheckAll
  <2> DEFINE f(i) == IF Orphan(slot[i]) THEN FreeSlot ELSE slot[i]
  <2>1. slot' = [i \in Slot |-> f(i)]
    BY <1>4 DEF perfUserScnCheckAll
  <2>3. \A i \in Slot : f(i) = FreeSlot \/ \E st \in State : f(i) = [slot[i] EXCEPT !.state = st]
    BY <1>0, <1>1
  <2> HIDE DEF f
  <2>4. slot' = [i \in Slot |-> slot'[i]] /\ \A i \in Slot : slot'[i] = f(i)
    BY <2>1
  <2> QED
    BY <2>3, <2>4, SlotsMapped
<1>5. ASSUME NEW p \in Pid, NotifyDead(p) PROVE SlotOK' /\ SlotsShrink
  <2> DEFINE f(i) == IF slot[i].pid = p THEN FreeSlot ELSE slot[i]
  <2>1. slot' = [i \in Slot |-> f(i)]
    BY <1>5 DEF NotifyDead
  <2>3. \A i \in Slot : f(i) = FreeSlot \/ \E st \in State : f(i) = [slot[i] EXCEPT !.state = st]
    BY <1>0, <1>1
  <2> HIDE DEF f
  <2>4. slot' = [i \in Slot |-> slot'[i]] /\ \A i \in Slot : slot'[i] = f(i)
    BY <2>1
  <2> QED
    BY <2>3, <2>4, SlotsMapped
<1> QED
  BY <1>2, <1>3, <1>4, <1>5

-----------------------------------------------------------------------------
(* The requests about locks, and the timers *)

\* Requests that start no timer of a hint and change no hint's time.
LEMMA HintsKept ==
  ASSUME TypeInv, UNCHANGED powerdTimer, hint' \in Hints, \A k \in Hint : hint'[k].for = hint[k].for
  PROVE  HintState(powerdTimer', hint') /\ (HintsEnd => HintsEnd')
BY DEF TypeInv, HintState, HintsEnd, HintEnds

\* A lock that is acquired: the handle's timer is stopped, one may be started.
LEMMA AcquireTypes ==
  ASSUME TypeInv,
         \/ \E c \in CusHint, d \in Duration : CustomerHint(c, d)
         \/ \E p \in Pid : \E h \in Handles(p), d \in Duration, screen \in SCREEN_OFF : PerfLockAcq(p, h, d, screen)
  PROVE  TypeInv' /\ (HintsEnd => HintsEnd')
<1>1. HintState(powerdTimer, hint) /\ "LOCK" \in {"LOCK", "USER"}
  BY DEF TypeInv
<1>2. \A h, k \in Int :
        LET R == remove_scn_timer(powerdTimer, "LOCK", h) IN
        /\ HintState(R, hint) /\ (HintsEnd => HintEnds(R, hint))
        /\ HintState(start_scn_timer(R, "LOCK", k), hint)
        /\ HintsEnd => HintEnds(start_scn_timer(R, "LOCK", k), hint)
  BY <1>1, OtherTimers DEF HintsEnd
<1>3. ASSUME NEW c \in CusHint, NEW d \in Duration, CustomerHint(c, d)
      PROVE  TypeInv' /\ (HintsEnd => HintsEnd')
  <2>1. gtCusHintTbl[c] \in Int /\ gMyPid \in Pid \cup {gMyPid} /\ "DISABLE" \in SCREEN_OFF
    BY DEF TypeInv, OwnerOK, SCREEN_OFF
  <2>2. PICK ret \in LockResults :
          /\ perfLockAcq(gtCusHintTbl[c], gMyPid, d, "DISABLE", ret)
          /\ gtCusHintTbl' = [gtCusHintTbl EXCEPT ![c] = ret]
          /\ LET T == remove_scn_timer(powerdTimer, "LOCK", gtCusHintTbl[c]) IN
             powerdTimer' = IF d = "always" THEN T ELSE start_scn_timer(T, "LOCK", ret)
    BY <1>3 DEF CustomerHint
  <2>3. SlotOK' /\ HandleOK' /\ ret \in Int
    BY <2>1, <2>2, LockAcq DEF TypeInv
  <2>4. HintState(powerdTimer', hint) /\ (HintsEnd => HintEnds(powerdTimer', hint))
    BY <1>2, <2>1, <2>2, <2>3
  <2>5. hint' = hint /\ nDisplayType' \in {"GAME", "OTHERS"} /\ served' \in 0 .. MaxRequests
    BY <1>3, Served DEF CustomerHint, ServeIfOn, TypeInv
  <2>6. OwnerOK'
    BY <1>3, <2>2, <2>3 DEF CustomerHint, OwnerOK, TypeInv
  <2> QED
    BY <2>3, <2>4, <2>5, <2>6 DEF TypeInv, HintsEnd
<1>4. ASSUME NEW p \in Pid, NEW h \in Handles(p), NEW d \in Duration, NEW screen \in SCREEN_OFF,
             PerfLockAcq(p, h, d, screen)
      PROVE  TypeInv' /\ (HintsEnd => HintsEnd')
  <2>1. h \in Int /\ p \in Pid \cup {gMyPid}
    BY PowerdAssumption DEF TypeInv, OwnerOK, Handles
  <2>2. PICK ret \in LockResults :
          /\ perfLockAcq(h, p, d, screen, ret)
          /\ known' = [known EXCEPT ![p] = IF ret > 0 THEN @ \cup {ret} ELSE @]
          /\ LET T == remove_scn_timer(powerdTimer, "LOCK", h) IN
             powerdTimer' = IF d # "always" /\ ret > 0 THEN start_scn_timer(T, "LOCK", ret) ELSE T
    BY <1>4 DEF PerfLockAcq
  <2>3. SlotOK' /\ HandleOK' /\ ret \in Int /\ ret <= HANDLE_RAND_MAX - 1
    BY <2>1, <2>2, LockAcq DEF TypeInv
  <2>4. HintState(powerdTimer', hint) /\ (HintsEnd => HintEnds(powerdTimer', hint))
    BY <1>2, <2>1, <2>2, <2>3
  <2>5. hint' = hint /\ nDisplayType' \in {"GAME", "OTHERS"} /\ served' \in 0 .. MaxRequests
    BY <1>4, Served DEF PerfLockAcq, ServeIfOn, TypeInv
  <2>6. known' \in [Pid -> SUBSET (1 .. HANDLE_RAND_MAX - 1)]
    BY <2>2, <2>3, PowerdAssumption DEF TypeInv, OwnerOK
  <2>7. OwnerOK'
    BY <1>4, <2>6 DEF PerfLockAcq, OwnerOK, TypeInv
  <2> QED
    BY <2>3, <2>4, <2>5, <2>7 DEF TypeInv, HintsEnd
<1> QED
  BY <1>3, <1>4

\* Requests that release or switch what is in use.
LEMMA ReleaseTypes ==
  ASSUME TypeInv,
         \/ \E c \in CusHint : CustomerHintOff(c)
         \/ \E p \in Pid : \E h \in Handles(p) :
              \/ PerfLockRel(p, h) \/ ScnUnreg(p, h) \/ ScnDisable(p, h)
              \/ \E screen \in SCREEN_OFF : ScnConfig(p, h, screen)
              \/ \E timeout \in BOOLEAN : ScnEnable(p, h, timeout)
  PROVE  TypeInv' /\ SlotsShrink /\ (HintsEnd => HintsEnd')
<1>1. HintState(powerdTimer, hint) /\ SlotOK
  BY DEF TypeInv
<1>2. \A m \in {"LOCK", "USER"}, h \in Int :
        LET R == remove_scn_timer(powerdTimer, m, h) IN
        /\ HintState(R, hint) /\ (HintsEnd => HintEnds(R, hint))
        /\ HintState(start_scn_timer(R, m, h), hint)
        /\ HintsEnd => HintEnds(start_scn_timer(R, m, h), hint)
  BY <1>1, OtherTimers DEF HintsEnd
<1>3. ASSUME NEW c \in CusHint, CustomerHintOff(c) PROVE TypeInv' /\ SlotsShrink /\ (HintsEnd => HintsEnd')
  <2>1. gtCusHintTbl[c] \in Int
    BY DEF TypeInv, OwnerOK
  <2>2. /\ powerdTimer' = remove_scn_timer(powerdTimer, "LOCK", gtCusHintTbl[c])
        /\ perfLockRel(gtCusHintTbl[c]) /\ UNCHANGED <<hint, nDisplayType, user_handle_now, issued>>
    BY <1>3 DEF CustomerHintOff
  <2>3. SlotOK' /\ SlotsShrink
    BY <1>1, <2>2, RelShrinks
  <2>4. HintState(powerdTimer', hint) /\ (HintsEnd => HintEnds(powerdTimer', hint))
    BY <1>2, <2>1, <2>2
  <2>5. HandleOK' /\ OwnerOK' /\ served' \in 0 .. MaxRequests
    BY <1>3, Served DEF CustomerHintOff, ServeIfOn, TypeInv, HandleOK, OwnerOK
  <2> QED
    BY <2>2, <2>3, <2>4, <2>5 DEF TypeInv, HintsEnd
<1>4. ASSUME NEW p \in Pid, NEW h \in Handles(p), NEW screen \in SCREEN_OFF, NEW timeout \in BOOLEAN,
             \/ PerfLockRel(p, h) \/ ScnUnreg(p, h) \/ ScnDisable(p, h)
             \/ ScnConfig(p, h, screen) \/ ScnEnable(p, h, timeout)
      PROVE  TypeInv' /\ SlotsShrink /\ (HintsEnd => HintsEnd')
  <2>1. h \in Int
    BY PowerdAssumption DEF TypeInv, OwnerOK, Handles
  <2>2. SlotOK' /\ SlotsShrink
    <3>1. CASE PerfLockRel(p, h)
      <4>1. perfLockRel(h) \/ UNCHANGED slot
        BY <3>1 DEF PerfLockRel
      <4>2. UNCHANGED slot => SlotOK' /\ SlotsShrink
        BY <1>1 DEF SlotOK, SlotsShrink, Shrinks
      <4> QED
        BY <1>1, <4>1, <4>2, RelShrinks
    <3>2. CASE ScnConfig(p, h, screen) \/ ScnUnreg(p, h)
      BY <1>1, <3>2, ScnShrinks
    <3>3. CASE ScnDisable(p, h) \/ ScnEnable(p, h, timeout)
      <4>1. SetState(h, "ON") \/ SetState(h, "OFF")
        BY <3>3 DEF ScnDisable, ScnEnable
      <4>2. {"ON", "OFF"} \subseteq State
        BY DEF State
      <4> QED
        BY <1>1, <4>1, <4>2, StateShrinks
    <3> QED
      BY <1>4, <3>1, <3>2, <3>3
  <2>3. HintState(powerdTimer', hint) /\ (HintsEnd => HintEnds(powerdTimer', hint))
    <3>1. \/ powerdTimer' = powerdTimer
          \/ \E m \in {"LOCK", "USER"} :
               \/ powerdTimer' = remove_scn_timer(powerdTimer, m, h)
               \/ powerdTimer' = start_scn_timer(remove_scn_timer(powerdTimer, m, h), m, h)
      BY <1>4 DEF PerfLockRel, ScnUnreg, ScnDisable, ScnConfig, ScnEnable
    <3> QED
      BY <1>1, <1>2, <2>1, <3>1 DEF HintsEnd
  <2>4. /\ UNCHANGED <<hint, nDisplayType>> /\ HandleOK' /\ OwnerOK'
        /\ served' \in 0 .. MaxRequests
    BY <1>4, Served DEF PerfLockRel, ScnUnreg, ScnDisable, ScnConfig, ScnEnable, ServeIfOn, TypeInv,
                        HandleOK, OwnerOK
  <2> QED
    BY <2>2, <2>3, <2>4 DEF TypeInv, HintsEnd
<1> QED
  <2>1. "DISABLE" \in SCREEN_OFF /\ TRUE \in BOOLEAN
    BY DEF SCREEN_OFF
  <2> QED
    BY <1>3, <1>4, <2>1

\* The screen, the deaths, the switch of the HAL.
LEMMA SystemTypes ==
  ASSUME TypeInv,
         \/ DisableAll \/ RestoreAll \/ (\E b \in BOOLEAN : SetOnOff(b))
         \/ \E p \in Pid : NotifyDead(p) \/ ProcessDies(p)
  PROVE  TypeInv' /\ SlotsShrink /\ (HintsEnd => HintsEnd')
<1>1. powerdTimer' = powerdTimer
  BY DEF DisableAll, RestoreAll, SetOnOff, NotifyDead, ProcessDies
<1>2. hint' \in Hints /\ \A k \in Hint : hint'[k].for = hint[k].for
  <2>1. \A h \in Hint : hint[h] \in [state : State, for : {"none", "timed", "always"}]
    BY DEF TypeInv, HintState, Hints
  <2>2. CASE DisableAll
    <3>1. \A h \in Hint : ScreenOff(hint[h].state, HintScreenOff[h]) \in State
      BY <2>1 DEF ScreenOff, State
    <3> QED
      BY <2>1, <2>2, <3>1 DEF DisableAll, Hints
  <2>3. CASE RestoreAll
    <3>1. \A h \in Hint : ScreenOn(hint[h].state) \in State
      BY <2>1 DEF ScreenOn, State
    <3> QED
      BY <2>1, <2>3, <3>1 DEF RestoreAll, Hints
  <2>4. CASE UNCHANGED hint
    BY <2>4 DEF TypeInv, HintState
  <2> QED
    BY <2>2, <2>3, <2>4 DEF SetOnOff, NotifyDead, ProcessDies
<1>3. SlotOK' /\ SlotsShrink
  <2>1. SlotOK /\ (UNCHANGED slot => SlotOK' /\ SlotsShrink)
    BY DEF TypeInv, SlotOK, SlotsShrink, Shrinks
  <2> QED
    BY <2>1, AllShrink DEF SetOnOff, ProcessDies, lib
<1>4. /\ nDisplayType' \in {"GAME", "OTHERS"} /\ HandleOK' /\ OwnerOK'
      /\ served' \in 0 .. MaxRequests
  BY Served DEF DisableAll, RestoreAll, SetOnOff, NotifyDead, ProcessDies, ServeIfOn, lib, TypeInv,
                HandleOK, OwnerOK
<1> QED
  BY <1>1, <1>2, <1>3, <1>4, HintsKept DEF TypeInv

\* A scenario that is registered.
LEMMA ScnRegTypes ==
  ASSUME TypeInv, NEW p \in Pid, ScnReg(p)
  PROVE  TypeInv' /\ (HintsEnd => HintsEnd')
<1>1. SlotOK' /\ HandleOK' /\ known' \in [Pid -> SUBSET (1 .. HANDLE_RAND_MAX - 1)]
  <2>1. CASE FreeSlots = {}
    BY <2>1 DEF ScnReg, TypeInv, SlotOK, HandleOK, OwnerOK, lib
  <2>2. CASE FreeSlots # {}
    <3>1. /\ p \in Pid \cup {gMyPid} /\ "user" \in {"user", "lock"} /\ "OFF" \in State
          /\ "DISABLE" \in SCREEN_OFF /\ FALSE \in BOOLEAN
      BY DEF State, SCREEN_OFF
    <3>2. Register("user", p, "OFF", "DISABLE", FALSE)
      BY <2>2 DEF ScnReg
    <3>3. SlotOK' /\ HandleOK'
      BY <2>2, <3>1, <3>2, Registered DEF TypeInv
    <3>4. known' = [known EXCEPT ![p] = @ \cup {allocNewHandleNum}]
      BY <2>2 DEF ScnReg
    <3>5. allocNewHandleNum \in 1 .. HANDLE_RAND_MAX - 1
      BY NewHandle DEF TypeInv
    <3>6. known' \in [Pid -> SUBSET (1 .. HANDLE_RAND_MAX - 1)]
      BY <3>4, <3>5 DEF TypeInv, OwnerOK
    <3> QED
      BY <3>3, <3>6
  <2> QED
    BY <2>1, <2>2
<1>2. UNCHANGED <<hint, powerdTimer, nDisplayType, gtCusHintTbl, powerdOnOff, alive>>
  BY DEF ScnReg
<1>3. served' \in 0 .. MaxRequests
  BY Served DEF ScnReg
<1>4. HintState(powerdTimer', hint') /\ (HintsEnd => HintsEnd')
  BY <1>2, HintsKept DEF TypeInv, HintState
<1>5. OwnerOK'
  BY <1>1, <1>2 DEF OwnerOK, TypeInv
<1> QED
  BY <1>1, <1>2, <1>3, <1>4, <1>5 DEF TypeInv

\* A timer fires.
LEMMA TimeoutTypes ==
  ASSUME TypeInv, NEW i \in TimerId, TimerFires(i)
  PROVE  TypeInv' /\ SlotsShrink /\ (HintsEnd => HintsEnd')
<1> DEFINE m == powerdTimer[i].msg
           h == powerdTimer[i].handle
           R == [powerdTimer EXCEPT ![i] = FreeTimer]
<1>1. HintState(powerdTimer, hint) /\ powerdTimer \in Timers /\ hint \in Hints /\ SlotOK
  BY DEF TypeInv, HintState
<1>2. /\ R \in Timers /\ h \in Int
      /\ m \in Msg => HasTimer(powerdTimer, m, h)
      /\ \A k \in Int :
           /\ HasTimer(R, "HINT", k) => HasTimer(powerdTimer, "HINT", k)
           /\ HasTimer(powerdTimer, "HINT", k) /\ (m # "HINT" \/ h # k) => HasTimer(R, "HINT", k)
           /\ OneTimer(powerdTimer, "HINT", k) => OneTimer(R, "HINT", k)
  <2>1. "HINT" \in Msg
    BY DEF Msg
  <2> QED
    BY <1>1, <2>1, Fired
<1>3. UNCHANGED <<user_handle_now, issued, gtCusHintTbl, powerdOnOff, alive, known, served>>
  BY DEF TimerFires, HintTimeout, LockTimeout, UserTimeout, CheckTimeout, lib
<1>4. HandleOK' /\ OwnerOK' /\ served' \in 0 .. MaxRequests
  BY <1>3 DEF TypeInv, HandleOK, OwnerOK
<1>5. CASE HintTimeout(i)
  <2>1. m = "HINT" /\ powerdTimer' = R /\ hint' = perfBoostDisable(hint, h) /\ UNCHANGED slot
    BY <1>5 DEF HintTimeout, lib
  <2>2. h \in Hint
    BY <1>1, <1>2, <2>1 DEF HintState, Msg
  <2>3. nDisplayType' \in {"GAME", "OTHERS"}
    BY <1>5 DEF HintTimeout, DisplayAfterDisable, TypeInv
  <2> HIDE DEF m, h, R
  <2>4. hint' \in Hints /\ \A k \in Hint : hint'[k].for = IF k = h THEN "none" ELSE hint[k].for
    BY <1>1, <2>1, <2>2, BoostOff
  <2>5. HintState(R, hint')
    BY <1>1, <1>2, <2>4, HintNumbers DEF HintState
  <2>6. HintsEnd => HintEnds(R, hint')
    BY <1>2, <2>4, HintNumbers DEF HintsEnd, HintEnds
  <2>7. SlotOK' /\ SlotsShrink
    BY <1>1, <2>1 DEF SlotOK, SlotsShrink, Shrinks
  <2> QED
    BY <1>4, <2>1, <2>3, <2>5, <2>6, <2>7 DEF TypeInv, HintsEnd
<1>6. CASE LockTimeout(i) \/ UserTimeout(i)
  <2>1. /\ m # "HINT" /\ powerdTimer' = R /\ UNCHANGED <<hint, nDisplayType>>
        /\ perfLockRel(h) \/ SetState(h, "OFF")
    BY <1>6 DEF LockTimeout, UserTimeout
  <2> HIDE DEF m, h, R
  <2>2. HintState(R, hint)
    BY <1>1, <1>2, <2>1, HintNumbers DEF HintState
  <2>3. HintsEnd => HintEnds(R, hint)
    BY <1>2, <2>1, HintNumbers DEF HintsEnd, HintEnds
  <2>4. "OFF" \in State
    BY DEF State
  <2>5. SlotOK' /\ SlotsShrink
    BY <1>1, <2>1, <2>4, RelShrinks, StateShrinks
  <2> QED
    BY <1>4, <2>1, <2>2, <2>3, <2>5 DEF TypeInv, HintsEnd
<1>7. CASE CheckTimeout(i)
  <2>1. UNCHANGED <<hint, nDisplayType, powerdTimer>> /\ perfUserScnCheckAll
    BY <1>7 DEF CheckTimeout
  <2>2. SlotOK' /\ SlotsShrink
    BY <1>1, <2>1, AllShrink
  <2> QED
    BY <1>1, <1>4, <2>1, <2>2 DEF TypeInv, HintsEnd
<1> QED
  BY <1>5, <1>6, <1>7 DEF TimerFires

\* Every step keeps the types, and the timers of the hints that are asked for a time.
LEMMA NextTypes ==
  ASSUME TypeInv, [Next]_vars
  PROVE  TypeInv' /\ (HintsEnd /\ RoomForTimers => HintsEnd')
<1>1. CASE UNCHANGED vars
  BY <1>1 DEF vars, TypeInv, SlotOK, HandleOK, OwnerOK, HintsEnd
<1>2. CASE HintRequest
  <2>1. ASSUME NEW h \in Hint, NEW d \in {"always", "short"}, AospHint(h, d) \/ MtkHint(h, d)
        PROVE  TypeInv' /\ (HintsEnd /\ RoomForTimers => HintsEnd')
    BY <2>1, AospHintTypes DEF MtkHint
  <2>2. ASSUME NEW h \in Hint, AospHintOff(h) \/ MtkHintOff(h)
        PROVE  TypeInv' /\ (HintsEnd /\ RoomForTimers => HintsEnd')
    BY <2>2, AospHintOffTypes, MtkHintOffTypes
  <2> QED
    BY <1>2, <2>1, <2>2, AcquireTypes, ReleaseTypes DEF HintRequest
<1>3. CASE ClientRequest
  <2>1. PICK p \in Pid :
          \/ NotifyDead(p) \/ ScnReg(p)
          \/ \E h \in Handles(p) :
               \/ \E d \in Duration, screen \in SCREEN_OFF : PerfLockAcq(p, h, d, screen)
               \/ PerfLockRel(p, h) \/ ScnUnreg(p, h) \/ ScnDisable(p, h)
               \/ \E screen \in SCREEN_OFF : ScnConfig(p, h, screen)
               \/ \E timeout \in BOOLEAN : ScnEnable(p, h, timeout)
    BY <1>3 DEF ClientRequest
  <2> QED
    BY <2>1, SystemTypes, ScnRegTypes, AcquireTypes, ReleaseTypes
<1>4. CASE SystemRequest
  BY <1>4, SystemTypes, NotifyResumedTypes DEF SystemRequest
<1>5. CASE (\E i \in TimerId : TimerFires(i)) \/ (\E p \in Pid : ProcessDies(p))
  BY <1>5, TimeoutTypes, SystemTypes
<1> QED
  BY <1>1, <1>2, <1>3, <1>4, <1>5 DEF Next

\* The daemon starts with one timer, of the periodic check.
LEMMA InitTypes ==
  ASSUME Init
  PROVE  TypeInv /\ HintsEnd
<1>1. powerdTimer \in Timers /\ hint \in Hints
  BY DEF Init, Timers, FreeTimer, Hints, State
<1>2. \A i \in TimerId : powerdTimer[i].msg # "HINT"
  BY DEF Init, FreeTimer
<1>3. \A i \in TimerId, h \in Int : powerdTimer[i] # [msg |-> "HINT", handle |-> h]
  BY <1>2
<1>4. \A h \in Int : ~HasTimer(powerdTimer, "HINT", h) /\ OneTimer(powerdTimer, "HINT", h)
  BY <1>3 DEF HasTimer, OneTimer
<1>5. \A h \in Hint : hint[h].for = "none"
  BY DEF Init
<1>6. HintState(powerdTimer, hint) /\ HintsEnd
  BY <1>1, <1>4, <1>5, HintNumbers DEF HintState, HintsEnd, HintEnds
<1>7. SlotOK
  <2>1. slot \in [Slot -> SlotRecord] /\ \A i \in Slot : slot[i] = FreeSlot
    BY FreeSlotType DEF Init
  <2> QED
    BY <2>1 DEF SlotOK, FreeSlot
<1>8. HandleOK
  BY PowerdAssumption DEF Init, HandleOK
<1>9. OwnerOK
  BY DEF Init, OwnerOK
<1>10. nDisplayType \in {"GAME", "OTHERS"} /\ served \in 0 .. MaxRequests
  BY PowerdAssumption DEF Init
<1> QED
  BY <1>6, <1>7, <1>8, <1>9, <1>10 DEF TypeInv

\* TypeInv is an invariant.
LEMMA TypeAlways == Spec => []TypeInv
<1>1. Init => TypeInv
  BY InitTypes
<1>2. TypeInv /\ [Next]_vars => TypeInv'
  BY NextTypes
<1> QED
  BY <1>1, <1>2, PTL DEF Spec

\* Every variable keeps its type; handles in use stay positive and below
\* HANDLE_RAND_MAX, also when they wrap.
THEOREM TypeCorrect == Spec => []TypeOK
<1>1. TypeInv => TypeOK
  BY DEF TypeInv, TypeOK, HintState, Timers, Hints, SlotOK, SlotRecord, HandleOK, OwnerOK
<1> QED
  BY <1>1, TypeAlways, PTL

\* No timer left over from an earlier request ends a hint asked for always, whatever
\* hints follow which and however many are held: there is never a second timer of a
\* hint that the removal of the first one would leave behind.
THEOREM AlwaysIsKept == Spec => []AlwaysHintStays
<1>1. TypeInv => AlwaysHintStays
  BY DEF TypeInv, HintState, AlwaysHintStays
<1> QED
  BY <1>1, TypeAlways, PTL

\* As long as the timer table has room for what a request may start, a hint that is
\* asked for a time has a timer that will end it: a full table is the only way to lose one.
THEOREM TimedIsEnded == Spec /\ []RoomForTimers => []TimedHintEnds
<1>1. Init => HintsEnd
  BY InitTypes
<1>2. HintsEnd /\ TypeInv /\ RoomForTimers /\ [Next]_vars => HintsEnd'
  BY NextTypes
<1>3. HintsEnd => TimedHintEnds
  BY DEF HintsEnd, HintEnds, TimedHintEnds
<1> QED
  BY <1>1, <1>2, <1>3, TypeAlways, PTL DEF Spec

-----------------------------------------------------------------------------
(* Locks, their handles and their timers, until handles wrap *)

InUse(i) == slot[i].type # "free"

\* Handles count upwards: none that is in use, known, noted or waited for by a timer is
\* larger than the last one issued.
HandlesBelow ==
  /\ user_handle_now = issued
  /\ \A i \in Slot : InUse(i) => slot[i].handle <= issued
  /\ \A p \in Pid : \A h \in known[p] : h <= issued
  /\ \A c \in CusHint : gtCusHintTbl[c] <= issued
  /\ \A h \in Int : HasTimer(powerdTimer, "LOCK", h) => h <= issued

\* A handle that is in use names one slot, of the process that knows the handle or of the
\* one customer hint that notes it.
HandlesOwned ==
  \A i \in Slot : InUse(i) =>
    /\ \A p \in Pid : slot[i].handle \in known[p] => slot[i].pid = p
    /\ \A c \in CusHint : slot[i].handle = gtCusHintTbl[c] =>
         /\ slot[i].pid = gMyPid
         /\ \A c2 \in CusHint : gtCusHintTbl[c2] = gtCusHintTbl[c] => c2 = c
    /\ \A j \in Slot : i # j => slot[j].handle # slot[i].handle

\* A handle has one timer at most, and none if its lock is asked for always.
TimersOwned ==
  /\ \A h \in Int : h > 0 => OneTimer(powerdTimer, "LOCK", h)
  /\ \A i \in Slot : InUse(i) /\ ~slot[i].timed => ~HasTimer(powerdTimer, "LOCK", slot[i].handle)

\* A free slot has no handle.
FreeHandles == \A i \in Slot : ~InUse(i) => slot[i].handle = -1

LockInv == issued < HANDLE_RAND_MAX => FreeHandles /\ HandlesBelow /\ HandlesOwned /\ TimersOwned

\* A lock that is asked for a time has its timer, unless its owner is gone.
LocksEnd ==
  issued < HANDLE_RAND_MAX =>
    \A i \in Slot : InUse(i) /\ slot[i].timed =>
      HasTimer(powerdTimer, "LOCK", slot[i].handle) \/ slot[i].pid \notin alive \cup {gMyPid}

\* The timers of locks are the same in T and R.
SameLocks(T, R) ==
  /\ R \in Timers
  /\ \A k \in Int : /\ HasTimer(R, "LOCK", k) <=> HasTimer(T, "LOCK", k)
                    /\ OneTimer(T, "LOCK", k) => OneTimer(R, "LOCK", k)

\* Timers of hints and of user scenarios do not concern locks.
LEMMA OtherThanLocks ==
  ASSUME NEW T \in Timers, NEW m \in {"HINT", "USER"}, NEW h \in Int
  PROVE  SameLocks(T, remove_scn_timer(T, m, h)) /\ SameLocks(T, start_scn_timer(T, m, h))
<1>1. m \in Msg /\ "LOCK" \in Msg /\ m # "LOCK"
  BY DEF Msg
<1>2. SameLocks(T, remove_scn_timer(T, m, h))
  BY <1>1, RemoveTimer DEF SameLocks
<1>3. SameLocks(T, start_scn_timer(T, m, h))
  BY <1>1, StartTimer DEF SameLocks
<1> QED
  BY <1>2, <1>3

\* ... one after the other.
LEMMA SameLocksTwice ==
  ASSUME NEW T \in Timers, NEW m \in {"HINT", "USER"}, NEW h \in Int
  PROVE  /\ SameLocks(T, start_scn_timer(remove_scn_timer(T, m, h), m, h))
         /\ \A S : SameLocks(S, T) => /\ SameLocks(S, start_scn_timer(T, m, h))
                                      /\ SameLocks(S, start_scn_timer(remove_scn_timer(T, m, h), m, h))
<1> DEFINE R == remove_scn_timer(T, m, h)
<1>1. SameLocks(T, R) /\ R \in Timers
  BY OtherThanLocks DEF SameLocks
<1> HIDE DEF R
<1>2. SameLocks(R, start_scn_timer(R, m, h)) /\ SameLocks(T, start_scn_timer(T, m, h))
  BY <1>1, OtherThanLocks
<1>3. SameLocks(T, start_scn_timer(R, m, h))
  BY <1>1, <1>2 DEF SameLocks
<1>4. ASSUME NEW S, SameLocks(S, T)
      PROVE  SameLocks(S, start_scn_timer(T, m, h)) /\ SameLocks(S, start_scn_timer(R, m, h))
  BY <1>2, <1>3, <1>4 DEF SameLocks
<1> USE DEF R
<1> QED
  BY <1>3, <1>4

\* The type facts the locks need.
LEMMA LockTypes ==
  ASSUME TypeInv
  PROVE  /\ powerdTimer \in Timers /\ issued \in Nat /\ user_handle_now \in Int
         /\ HANDLE_RAND_MAX \in Nat
         /\ \A i \in Slot : slot[i].handle \in Int /\ slot[i].timed \in BOOLEAN
         /\ \A i \in Slot : InUse(i) => slot[i].handle > 0
         /\ \A p \in Pid : \A h \in known[p] : h \in Int /\ h > 0
         /\ \A c \in CusHint : gtCusHintTbl[c] \in Int
         /\ gMyPid \notin Pid
<1>1. powerdTimer \in Timers /\ issued \in Nat
  BY DEF TypeInv, HintState, HandleOK
<1>2. user_handle_now \in Int /\ HANDLE_RAND_MAX \in Nat /\ gMyPid \notin Pid
  BY PowerdAssumption DEF TypeInv, HandleOK
<1>3. \A i \in Slot : slot[i].handle \in Int /\ slot[i].timed \in BOOLEAN
  BY PowerdAssumption DEF TypeInv, SlotOK, SlotRecord
<1>4. \A i \in Slot : InUse(i) => slot[i].handle > 0
  BY DEF TypeInv, SlotOK, InUse
<1>5. \A p \in Pid : \A h \in known[p] : h \in Int /\ h > 0
  BY PowerdAssumption DEF TypeInv, OwnerOK
<1>6. \A c \in CusHint : gtCusHintTbl[c] \in Int
  BY DEF TypeInv, OwnerOK
<1> QED
  BY <1>1, <1>2, <1>3, <1>4, <1>5, <1>6

\* A step that only frees what is in use.
LEMMA ShrinkKeepsLocks ==
  ASSUME TypeInv, LockInv, SlotsShrink, UNCHANGED <<user_handle_now, issued, known>>, alive' \subseteq alive,
         \A c \in CusHint : gtCusHintTbl'[c] \in {gtCusHintTbl[c], 0},
         \A k \in Int : /\ HasTimer(powerdTimer', "LOCK", k) => HasTimer(powerdTimer, "LOCK", k)
                        /\ OneTimer(powerdTimer, "LOCK", k) => OneTimer(powerdTimer', "LOCK", k)
  PROVE  /\ LockInv'
         /\ LocksEnd /\ (issued < HANDLE_RAND_MAX =>
              \A i \in Slot : InUse(i)' /\ HasTimer(powerdTimer, "LOCK", slot[i].handle)
                => HasTimer(powerdTimer', "LOCK", slot[i].handle)) => LocksEnd'
<1>1. \A i \in Slot : InUse(i)' => /\ InUse(i) /\ slot'[i].handle = slot[i].handle
                                   /\ slot'[i].pid = slot[i].pid /\ slot'[i].timed = slot[i].timed
  BY DEF SlotsShrink, Shrinks, InUse
<1>2. FreeHandles => FreeHandles'
  BY DEF SlotsShrink, Shrinks, InUse, FreeHandles
<1>3. ASSUME issued' < HANDLE_RAND_MAX PROVE FreeHandles' /\ HandlesBelow' /\ HandlesOwned' /\ TimersOwned'
  <2>1. HandlesBelow /\ HandlesOwned /\ TimersOwned /\ FreeHandles'
    BY <1>2, <1>3 DEF LockInv
  <2>2. HandlesBelow'
    BY <1>1, <2>1, LockTypes DEF HandlesBelow
  <2>3. TimersOwned'
    BY <1>1, <2>1, LockTypes DEF TimersOwned
  <2>4. HandlesOwned'
    <3> SUFFICES ASSUME NEW i \in Slot, InUse(i)'
                 PROVE  /\ \A p \in Pid : slot'[i].handle \in known'[p] => slot'[i].pid = p
                        /\ \A c \in CusHint : slot'[i].handle = gtCusHintTbl'[c] =>
                             /\ slot'[i].pid = gMyPid
                             /\ \A c2 \in CusHint : gtCusHintTbl'[c2] = gtCusHintTbl'[c] => c2 = c
                        /\ \A j \in Slot : i # j => slot'[j].handle # slot'[i].handle
      BY DEF HandlesOwned
    <3>1. InUse(i) /\ slot'[i].handle = slot[i].handle /\ slot'[i].pid = slot[i].pid /\ slot[i].handle > 0
      BY <1>1, LockTypes
    <3>2. \A p \in Pid : slot'[i].handle \in known'[p] => slot'[i].pid = p
      BY <2>1, <3>1 DEF HandlesOwned
    <3>3. ASSUME NEW c \in CusHint, slot'[i].handle = gtCusHintTbl'[c]
          PROVE  /\ slot'[i].pid = gMyPid
                 /\ \A c2 \in CusHint : gtCusHintTbl'[c2] = gtCusHintTbl'[c] => c2 = c
      <4>1. gtCusHintTbl'[c] # 0 /\ gtCusHintTbl'[c] = gtCusHintTbl[c]
        BY <3>1, <3>3, LockTypes
      <4>2. \A c2 \in CusHint : gtCusHintTbl'[c2] = gtCusHintTbl'[c] => gtCusHintTbl[c2] = gtCusHintTbl[c]
        BY <4>1
      <4>3. slot[i].handle = gtCusHintTbl[c]
        BY <3>1, <3>3, <4>1
      <4> QED
        BY <2>1, <3>1, <4>2, <4>3 DEF HandlesOwned
    <3>4. \A j \in Slot : i # j => slot'[j].handle # slot'[i].handle
      <4>1. SUFFICES ASSUME NEW j \in Slot, i # j PROVE slot'[j].handle # slot'[i].handle
        OBVIOUS
      <4>2. CASE InUse(j)'
        BY <1>1, <2>1, <3>1, <4>1, <4>2 DEF HandlesOwned
      <4>3. CASE ~InUse(j)'
        BY <2>1, <3>1, <4>3 DEF FreeHandles
      <4> QED
        BY <4>2, <4>3
    <3> QED
      BY <3>2, <3>3, <3>4
  <2> QED
    BY <2>1, <2>2, <2>3, <2>4
<1>4. LocksEnd /\ (issued < HANDLE_RAND_MAX =>
        \A i \in Slot : InUse(i)' /\ HasTimer(powerdTimer, "LOCK", slot[i].handle)
          => HasTimer(powerdTimer', "LOCK", slot[i].handle)) => LocksEnd'
  BY <1>1 DEF LocksEnd
<1> QED
  BY <1>3, <1>4 DEF LockInv

\* Requests about hints touch no lock and no timer of a lock.
LEMMA HintsNotLocks ==
  ASSUME TypeInv, LockInv,
         \/ \E h \in Hint : AospHintOff(h) \/ MtkHintOff(h) \/ \E d \in {"always", "short"} : AospHint(h, d)
         \/ \E b \in BOOLEAN : NotifyResumed(b)
  PROVE  LockInv' /\ (LocksEnd => LocksEnd')
<1>1. powerdTimer \in Timers /\ Hint \subseteq Int /\ "HINT" \in {"HINT", "USER"}
  BY LockTypes, HintNumbers
<1>2. UNCHANGED <<slot, user_handle_now, issued, gtCusHintTbl, alive, known>>
  BY DEF AospHintOff, MtkHintOff, AospHint, NotifyResumed, lib
<1>3. SlotsShrink
  BY <1>2 DEF SlotsShrink, Shrinks
<1>4. \A h \in Int : /\ SameLocks(powerdTimer, remove_scn_timer(powerdTimer, "HINT", h))
                     /\ SameLocks(powerdTimer, start_scn_timer(remove_scn_timer(powerdTimer, "HINT", h), "HINT", h))
  BY <1>1, OtherThanLocks, SameLocksTwice
<1>5. SameLocks(powerdTimer, powerdTimer')
  <2>0. SameLocks(powerdTimer, powerdTimer)
    BY <1>1 DEF SameLocks
  <2>1. ASSUME NEW h \in Hint, AospHintOff(h) \/ \E d \in {"always", "short"} : AospHint(h, d)
        PROVE  SameLocks(powerdTimer, powerdTimer')
    <3>1. \/ powerdTimer' = powerdTimer
          \/ powerdTimer' = remove_scn_timer(powerdTimer, "HINT", h)
          \/ powerdTimer' = start_scn_timer(remove_scn_timer(powerdTimer, "HINT", h), "HINT", h)
      BY <2>1 DEF AospHintOff, AospHint
    <3> QED
      BY <1>1, <1>4, <2>0, <3>1
  <2>2. ASSUME NEW b \in BOOLEAN, NotifyResumed(b)
        PROVE  SameLocks(powerdTimer, powerdTimer')
    <3> DEFINE w == WHITELIST_LAUNCH
    <3>1. /\ w \in Hint
          /\ \/ powerdTimer' = remove_scn_timer(powerdTimer, "HINT", w)
             \/ powerdTimer' = start_scn_timer(remove_scn_timer(powerdTimer, "HINT", w), "HINT", w)
      BY <2>2 DEF NotifyResumed
    <3> HIDE DEF w
    <3> QED
      BY <1>1, <1>4, <3>1
  <2>3. ASSUME NEW h \in Hint, MtkHintOff(h)
        PROVE  SameLocks(powerdTimer, powerdTimer')
    <3> DEFINE T1 == remove_scn_timer(powerdTimer, "HINT", h)
               T2 == IF h \in Hold THEN start_scn_timer(T1, "HINT", h) ELSE T1
               e  == Ext[h]
    <3>1. SameLocks(powerdTimer, T2)
      BY <1>1, <1>4
    <3>2. e \in Int
      <4>1. e \in Hint \cup {0}
        BY PowerdAssumption
      <4>2. \A x \in Hint \cup {0} : x \in Int
        BY <1>1
      <4> QED
        BY <4>1, <4>2
    <3>3. powerdTimer' = T2 \/ powerdTimer' = start_scn_timer(remove_scn_timer(T2, "HINT", e), "HINT", e)
      BY <2>3 DEF MtkHintOff, restart_scn_timer
    <3> HIDE DEF T1, T2, e
    <3>4. T2 \in Timers
      BY <3>1 DEF SameLocks
    <3>5. SameLocks(powerdTimer, start_scn_timer(remove_scn_timer(T2, "HINT", e), "HINT", e))
      BY <1>1, <3>1, <3>2, <3>4, SameLocksTwice
    <3> QED
      BY <3>1, <3>3, <3>5
  <2> QED
    BY <2>1, <2>2, <2>3
<1>6. \A k \in Int : /\ HasTimer(powerdTimer', "LOCK", k) <=> HasTimer(powerdTimer, "LOCK", k)
                     /\ OneTimer(powerdTimer, "LOCK", k) => OneTimer(powerdTimer', "LOCK", k)
  BY <1>5 DEF SameLocks
<1> QED
  BY <1>2, <1>3, <1>6, ShrinkKeepsLocks, LockTypes

\* A handle that is released is not in use any more.
LEMMA ReleasedHandle ==
  ASSUME TypeInv, LockInv, issued < HANDLE_RAND_MAX, NEW h \in Int, perfLockRel(h)
  PROVE  \A i \in Slot : InUse(i)' => slot[i].handle # h
<1>1. HandlesOwned /\ SlotOK
  BY DEF LockInv, TypeInv
<1>2. CASE UNCHANGED slot /\ UsedBy(h) = {}
  BY <1>2 DEF UsedBy, InUse
<1>3. ASSUME NEW i \in UsedBy(h), slot' = [slot EXCEPT ![i] = FreeSlot]
      PROVE  \A j \in Slot : InUse(j)' => slot[j].handle # h
  <2>1. i \in Slot /\ InUse(i) /\ slot[i].handle = h
    BY DEF UsedBy, InUse
  <2>2. \A j \in Slot : j # i => slot[j].handle # h
    BY <1>1, <2>1 DEF HandlesOwned
  <2>3. ~InUse(i)'
    BY <1>1, <1>3, <2>1 DEF InUse, SlotOK, FreeSlot
  <2> QED
    BY <2>2, <2>3
<1> QED
  BY <1>1, <1>2, <1>3, LockRel

\* Requests that release or switch what is in use: a lock that ends takes its timer along.
LEMMA ReleaseLocks ==
  ASSUME TypeInv, LockInv,
         \/ \E c \in CusHint : CustomerHintOff(c)
         \/ \E p \in Pid : \E h \in Handles(p) :
              \/ PerfLockRel(p, h) \/ ScnUnreg(p, h) \/ ScnDisable(p, h)
              \/ \E screen \in SCREEN_OFF : ScnConfig(p, h, screen)
              \/ \E timeout \in BOOLEAN : ScnEnable(p, h, timeout)
  PROVE  LockInv' /\ (LocksEnd => LocksEnd')
<1>1. SlotsShrink
  BY ReleaseTypes
<1>2. powerdTimer \in Timers /\ "LOCK" \in Msg /\ "USER" \in {"HINT", "USER"}
  BY LockTypes DEF Msg
<1>3. \A h, k \in Int : LET R == remove_scn_timer(powerdTimer, "LOCK", h) IN
        /\ HasTimer(R, "LOCK", k) => HasTimer(powerdTimer, "LOCK", k)
        /\ k # h /\ HasTimer(powerdTimer, "LOCK", k) => HasTimer(R, "LOCK", k)
        /\ OneTimer(powerdTimer, "LOCK", k) => OneTimer(R, "LOCK", k)
  BY <1>2, RemoveTimer
<1>4. ASSUME NEW h \in Int, powerdTimer' = remove_scn_timer(powerdTimer, "LOCK", h),
             perfLockRel(h) \/ h = 0,
             UNCHANGED <<user_handle_now, issued, known, alive>>,
             \A c \in CusHint : gtCusHintTbl'[c] \in {gtCusHintTbl[c], 0}
      PROVE  LockInv' /\ (LocksEnd => LocksEnd')
  <2>1. issued < HANDLE_RAND_MAX => \A i \in Slot : InUse(i)' => slot[i].handle # h
    <3>1. h = 0 => \A i \in Slot : InUse(i)' => slot[i].handle # h
      BY <1>1, LockTypes DEF SlotsShrink, Shrinks, InUse
    <3> QED
      BY <1>4, <3>1, ReleasedHandle
  <2>2. \A k \in Int : /\ HasTimer(powerdTimer', "LOCK", k) => HasTimer(powerdTimer, "LOCK", k)
                       /\ OneTimer(powerdTimer, "LOCK", k) => OneTimer(powerdTimer', "LOCK", k)
    BY <1>3, <1>4
  <2>3. issued < HANDLE_RAND_MAX =>
          \A i \in Slot : InUse(i)' /\ HasTimer(powerdTimer, "LOCK", slot[i].handle)
            => HasTimer(powerdTimer', "LOCK", slot[i].handle)
    BY <1>3, <1>4, <2>1, LockTypes
  <2> QED
    BY <1>1, <1>4, <2>2, <2>3, ShrinkKeepsLocks
<1>5. ASSUME NEW c \in CusHint, CustomerHintOff(c) PROVE LockInv' /\ (LocksEnd => LocksEnd')
  <2>1. gtCusHintTbl[c] \in Int
    BY LockTypes
  <2>2. \A k \in CusHint : gtCusHintTbl'[k] \in {gtCusHintTbl[k], 0}
    BY <1>5 DEF CustomerHintOff, TypeInv, OwnerOK
  <2>3. /\ powerdTimer' = remove_scn_timer(powerdTimer, "LOCK", gtCusHintTbl[c])
        /\ perfLockRel(gtCusHintTbl[c]) /\ UNCHANGED <<user_handle_now, issued, known, alive>>
    BY <1>5 DEF CustomerHintOff
  <2> QED
    BY <1>4, <2>1, <2>2, <2>3
<1>6. ASSUME NEW p \in Pid, NEW h \in Handles(p), PerfLockRel(p, h) PROVE LockInv' /\ (LocksEnd => LocksEnd')
  <2>1. h \in Int
    BY LockTypes DEF Handles
  <2>2. /\ powerdTimer' = remove_scn_timer(powerdTimer, "LOCK", h) /\ (perfLockRel(h) \/ h = 0)
        /\ UNCHANGED <<user_handle_now, issued, known, alive, gtCusHintTbl>>
    BY <1>6 DEF PerfLockRel
  <2> QED
    BY <1>4, <2>1, <2>2
<1>7. ASSUME NEW p \in Pid, NEW h \in Handles(p),
             \/ ScnUnreg(p, h) \/ ScnDisable(p, h)
             \/ \E screen \in SCREEN_OFF : ScnConfig(p, h, screen)
             \/ \E timeout \in BOOLEAN : ScnEnable(p, h, timeout)
      PROVE  LockInv' /\ (LocksEnd => LocksEnd')
  <2>1. h \in Int
    BY LockTypes DEF Handles
  <2>2. \/ powerdTimer' = powerdTimer
        \/ powerdTimer' = remove_scn_timer(powerdTimer, "USER", h)
        \/ powerdTimer' = start_scn_timer(remove_scn_timer(powerdTimer, "USER", h), "USER", h)
    BY <1>7 DEF ScnUnreg, ScnDisable, ScnConfig, ScnEnable
  <2>3. SameLocks(powerdTimer, powerdTimer')
    <3>1. SameLocks(powerdTimer, powerdTimer)
      BY <1>2 DEF SameLocks
    <3> QED
      BY <1>2, <2>1, <2>2, <3>1, OtherThanLocks, SameLocksTwice
  <2>4. \A k \in Int : /\ HasTimer(powerdTimer', "LOCK", k) <=> HasTimer(powerdTimer, "LOCK", k)
                       /\ OneTimer(powerdTimer, "LOCK", k) => OneTimer(powerdTimer', "LOCK", k)
    BY <2>3 DEF SameLocks
  <2>5. UNCHANGED <<user_handle_now, issued, known, alive, gtCusHintTbl>>
    BY <1>7 DEF ScnUnreg, ScnDisable, ScnConfig, ScnEnable
  <2> QED
    BY <1>1, <2>4, <2>5, ShrinkKeepsLocks, LockTypes
<1> QED
  BY <1>5, <1>6, <1>7

\* The screen, the deaths, the switch of the HAL: locks are freed, no timer is touched.
LEMMA SystemLocks ==
  ASSUME TypeInv, LockInv,
         \/ DisableAll \/ RestoreAll \/ (\E b \in BOOLEAN : SetOnOff(b))
         \/ \E p \in Pid : NotifyDead(p) \/ ProcessDies(p)
  PROVE  LockInv' /\ (LocksEnd => LocksEnd')
<1>1. SlotsShrink
  BY SystemTypes
<1>2. UNCHANGED <<user_handle_now, issued, known, gtCusHintTbl, powerdTimer>> /\ alive' \subseteq alive
  BY DEF DisableAll, RestoreAll, SetOnOff, NotifyDead, ProcessDies, lib
<1> QED
  BY <1>1, <1>2, ShrinkKeepsLocks

\* A timer that fires: that of a lock ends the lock.
LEMMA TimeoutLocks ==
  ASSUME TypeInv, LockInv, NEW i \in TimerId, TimerFires(i)
  PROVE  LockInv' /\ (LocksEnd => LocksEnd')
<1> DEFINE m == powerdTimer[i].msg
           h == powerdTimer[i].handle
           R == [powerdTimer EXCEPT ![i] = FreeTimer]
<1>1. SlotsShrink
  BY TimeoutTypes
<1>2. powerdTimer \in Timers /\ "LOCK" \in Msg
  BY LockTypes DEF Msg
<1>3. /\ h \in Int
      /\ \A k \in Int : /\ HasTimer(R, "LOCK", k) => HasTimer(powerdTimer, "LOCK", k)
                        /\ HasTimer(powerdTimer, "LOCK", k) /\ (m # "LOCK" \/ h # k) => HasTimer(R, "LOCK", k)
                        /\ OneTimer(powerdTimer, "LOCK", k) => OneTimer(R, "LOCK", k)
  BY <1>2, Fired
<1>4. UNCHANGED <<user_handle_now, issued, gtCusHintTbl, alive, known>>
  BY DEF TimerFires, HintTimeout, LockTimeout, UserTimeout, CheckTimeout, lib
<1>5. \/ powerdTimer' = powerdTimer
      \/ powerdTimer' = R /\ m # "LOCK"
      \/ powerdTimer' = R /\ perfLockRel(h)
  BY DEF TimerFires, HintTimeout, LockTimeout, UserTimeout, CheckTimeout
<1> HIDE DEF m, h, R
<1>6. \A k \in Int : /\ HasTimer(powerdTimer', "LOCK", k) => HasTimer(powerdTimer, "LOCK", k)
                     /\ OneTimer(powerdTimer, "LOCK", k) => OneTimer(powerdTimer', "LOCK", k)
  BY <1>3, <1>5
<1>7. ASSUME issued < HANDLE_RAND_MAX, NEW j \in Slot, InUse(j)', HasTimer(powerdTimer, "LOCK", slot[j].handle)
      PROVE  HasTimer(powerdTimer', "LOCK", slot[j].handle)
  <2>1. slot[j].handle \in Int
    BY LockTypes
  <2>2. perfLockRel(h) => slot[j].handle # h
    BY <1>3, <1>7, ReleasedHandle
  <2> QED
    BY <1>3, <1>5, <1>7, <2>1, <2>2
<1> QED
  BY <1>1, <1>4, <1>6, <1>7, ShrinkKeepsLocks

\* The timers of locks are those of T without that of h and, if b holds, with one for ret.
Swapped(T, U, h, ret, b) ==
  /\ \A k \in Int :
       /\ HasTimer(U, "LOCK", k) => HasTimer(T, "LOCK", k) \/ (b /\ k = ret)
       /\ HasTimer(T, "LOCK", k) /\ k # h => HasTimer(U, "LOCK", k)
       /\ k > 0 => OneTimer(U, "LOCK", k)
  /\ h > 0 /\ HasTimer(U, "LOCK", h) => b /\ ret = h
  /\ b /\ Room(T) => HasTimer(U, "LOCK", ret)

\* That of h is stopped and one for ret is started.
LEMMA LockTimers ==
  ASSUME NEW T \in Timers, NEW h \in Int, NEW ret \in Int, NEW b \in BOOLEAN,
         \A k \in Int : k > 0 => OneTimer(T, "LOCK", k),
         ret = h \/ ret <= 0 \/ ~HasTimer(T, "LOCK", ret),
         NEW U, U = IF b THEN start_scn_timer(remove_scn_timer(T, "LOCK", h), "LOCK", ret)
                    ELSE remove_scn_timer(T, "LOCK", h)
  PROVE  Swapped(T, U, h, ret, b)
<1> DEFINE R == remove_scn_timer(T, "LOCK", h)
<1>1. "LOCK" \in Msg
  BY DEF Msg
<1>2. /\ R \in Timers /\ (Room(T) => Room(R)) /\ (h > 0 => ~HasTimer(R, "LOCK", h))
      /\ \A k \in Int : /\ HasTimer(R, "LOCK", k) => HasTimer(T, "LOCK", k)
                        /\ k # h /\ HasTimer(T, "LOCK", k) => HasTimer(R, "LOCK", k)
                        /\ k > 0 => OneTimer(R, "LOCK", k)
  BY <1>1, RemoveTimer
<1>3. ~b => U = R
  OBVIOUS
<1>4. b => U = start_scn_timer(R, "LOCK", ret)
  OBVIOUS
<1> HIDE DEF R
<1>5. LET V == start_scn_timer(R, "LOCK", ret) IN
      /\ Room(R) => HasTimer(V, "LOCK", ret)
      /\ \A k \in Int : /\ HasTimer(R, "LOCK", k) => HasTimer(V, "LOCK", k)
                        /\ k # ret /\ HasTimer(V, "LOCK", k) => HasTimer(R, "LOCK", k)
                        /\ OneTimer(R, "LOCK", k) /\ (k # ret \/ ~HasTimer(R, "LOCK", ret))
                             => OneTimer(V, "LOCK", k)
  BY <1>1, <1>2, StartTimer
<1>6. \A k \in Int : k > 0 => OneTimer(U, "LOCK", k)
  <2>1. ret > 0 => ~HasTimer(R, "LOCK", ret)
    BY <1>2
  <2> QED
    BY <1>2, <1>3, <1>4, <1>5, <2>1
<1> QED
  BY <1>2, <1>3, <1>4, <1>5, <1>6 DEF Swapped

\* What an acquisition of h by p does to the slots, until handles wrap: it is refused, or
\* h is acquired again, or a free slot gets the next handle.
Acquired(h, p, timed, ret) ==
  \/ /\ ret = -1 /\ UNCHANGED <<slot, user_handle_now, issued>>
     /\ p \in alive \cup {gMyPid} => \A i \in Slot : InUse(i) => slot[i].handle # h
  \/ /\ ret = h /\ UNCHANGED <<user_handle_now, issued>>
     /\ \E i \in Slot : /\ InUse(i) /\ slot[i].handle = h /\ InUse(i)' /\ slot'[i].handle = h
                        /\ slot'[i].pid = slot[i].pid /\ slot'[i].timed = timed
                        /\ \A j \in Slot : j # i => slot'[j] = slot[j]
  \/ /\ ret = issued + 1 /\ issued' = issued + 1 /\ user_handle_now' = issued + 1
     /\ \A i \in Slot : InUse(i) => slot[i].handle # h
     /\ \E i \in Slot : /\ ~InUse(i) /\ InUse(i)' /\ slot'[i].handle = issued + 1
                        /\ slot'[i].pid = p /\ slot'[i].timed = timed
                        /\ \A j \in Slot : j # i => slot'[j] = slot[j]

\* perfLockAcq() is one.
LEMMA AcqIsAcquired ==
  ASSUME TypeInv, LockInv, issued' < HANDLE_RAND_MAX, NEW h \in Int, NEW p \in Pid \cup {gMyPid},
         NEW d \in Duration, NEW screen \in SCREEN_OFF, NEW ret, perfLockAcq(h, p, d, screen, ret)
  PROVE  Acquired(h, p, d # "always", ret) /\ ret \in Int
<1>0. SlotOK /\ HandleOK /\ issued \in Nat /\ HANDLE_RAND_MAX \in Nat
  BY LockTypes DEF TypeInv
<1>1. ret \in Int /\ LockOutcome(h, p, d, ret)
  BY <1>0, LockAcq
<1>2. h <= 0 \/ UsedBy(h) = {} => \A i \in Slot : InUse(i) => slot[i].handle # h
  BY LockTypes DEF UsedBy, InUse
<1> DEFINE b == d # "always"
<1>3. CASE /\ ret = -1 /\ UNCHANGED lib
           /\ h <= 0 \/ UsedBy(h) = {} \/ p \notin alive \cup {gMyPid}
  BY <1>1, <1>2, <1>3 DEF Acquired, lib
<1>4. CASE /\ ret = h /\ h > 0 /\ UNCHANGED <<user_handle_now, issued>>
           /\ \E i \in UsedBy(h) :
                 /\ slot'[i].type = slot[i].type /\ slot'[i].handle = h
                 /\ slot'[i].pid = slot[i].pid /\ slot'[i].timed = b
                 /\ \A j \in Slot : j # i => slot'[j] = slot[j]
  <2> HIDE DEF b
  <2>1. \A i \in UsedBy(h) : i \in Slot /\ InUse(i) /\ slot[i].handle = h
    BY DEF UsedBy, InUse
  <2>2. \A i \in Slot : slot'[i].type = slot[i].type /\ InUse(i) => InUse(i)'
    BY DEF InUse
  <2>3. Acquired(h, p, b, ret)
    BY <1>4, <2>1, <2>2 DEF Acquired
  <2> USE DEF b
  <2> QED
    BY <1>1, <2>3
<1>5. CASE /\ ret = allocNewHandleNum /\ issued' = issued + 1 /\ user_handle_now' = allocNewHandleNum
           /\ h <= 0 \/ UsedBy(h) = {}
           /\ \E i \in FreeSlots :
                /\ slot'[i].type = "lock" /\ slot'[i].handle = ret /\ slot'[i].pid = p
                /\ slot'[i].timed = b
                /\ \A j \in Slot : j # i => slot'[j] = slot[j]
  <2> HIDE DEF b
  <2>1. \A i \in FreeSlots : i \in Slot /\ ~InUse(i)
    BY DEF FreeSlots, InUse
  <2>2. \A i \in Slot : slot'[i].type = "lock" => InUse(i)'
    BY DEF InUse
  <2>3. issued + 1 < HANDLE_RAND_MAX /\ user_handle_now = issued
    BY <1>0, <1>5 DEF LockInv, HandlesBelow
  <2>4. allocNewHandleNum = issued + 1
    BY <1>0, <2>3, NewHandle
  <2>5. Acquired(h, p, b, ret)
    BY <1>2, <1>5, <2>1, <2>2, <2>4 DEF Acquired
  <2> USE DEF b
  <2> QED
    BY <1>1, <2>5
<1> QED
  BY <1>1, <1>3, <1>4, <1>5 DEF LockOutcome

\* The handles after an acquisition.
LEMMA AcquiredHandles ==
  ASSUME TypeInv, LockInv, issued < HANDLE_RAND_MAX, NEW h \in Int, NEW p, NEW timed, NEW ret \in Int,
         Acquired(h, p, timed, ret)
  PROVE  /\ FreeHandles' /\ user_handle_now' = issued' /\ issued <= issued' /\ ret <= issued'
         /\ \A i \in Slot : InUse(i)' =>
              /\ slot'[i].handle <= issued'
              /\ \A j \in Slot : i # j => slot'[j].handle # slot'[i].handle
              /\ \/ InUse(i) /\ slot'[i].handle = slot[i].handle /\ slot'[i].pid = slot[i].pid
                 \/ slot'[i].handle = issued + 1 /\ ret = issued + 1 /\ slot'[i].pid = p
         /\ ret = -1 \/ ret = issued + 1 \/ (ret = h /\ \E i \in Slot : InUse(i) /\ slot[i].handle = h)
<1>1. /\ FreeHandles /\ user_handle_now = issued /\ issued \in Nat
      /\ \A i \in Slot : /\ slot[i].handle \in Int
                         /\ InUse(i) => /\ slot[i].handle <= issued /\ slot[i].handle > 0
                                        /\ \A j \in Slot : i # j => slot[j].handle # slot[i].handle
  BY LockTypes DEF LockInv, HandlesBelow, HandlesOwned
<1>2. \A j \in Slot : slot'[j] = slot[j] => (InUse(j)' <=> InUse(j))
  BY DEF InUse
<1>3. CASE ret = -1 /\ UNCHANGED <<slot, user_handle_now, issued>>
  BY <1>1, <1>2, <1>3 DEF FreeHandles
<1>4. ASSUME ret = h, UNCHANGED <<user_handle_now, issued>>, NEW i \in Slot, InUse(i), slot[i].handle = h,
             InUse(i)', slot'[i].handle = h, slot'[i].pid = slot[i].pid, \A j \in Slot : j # i => slot'[j] = slot[j]
      PROVE  /\ FreeHandles' /\ user_handle_now' = issued' /\ issued <= issued' /\ ret <= issued'
             /\ \A k \in Slot : InUse(k)' =>
                  /\ slot'[k].handle <= issued'
                  /\ \A j \in Slot : k # j => slot'[j].handle # slot'[k].handle
                  /\ InUse(k) /\ slot'[k].handle = slot[k].handle /\ slot'[k].pid = slot[k].pid
  <2>1. \A j \in Slot : slot'[j].handle = slot[j].handle /\ slot'[j].pid = slot[j].pid /\ (InUse(j)' <=> InUse(j))
    BY <1>2, <1>4
  <2> QED
    BY <1>1, <1>4, <2>1 DEF FreeHandles
<1>5. ASSUME ret = issued + 1, issued' = issued + 1, user_handle_now' = issued + 1, NEW i \in Slot, ~InUse(i),
             InUse(i)', slot'[i].handle = issued + 1, slot'[i].pid = p, \A j \in Slot : j # i => slot'[j] = slot[j]
      PROVE  /\ FreeHandles' /\ user_handle_now' = issued' /\ issued <= issued' /\ ret <= issued'
             /\ \A k \in Slot : InUse(k)' =>
                  /\ slot'[k].handle <= issued'
                  /\ \A j \in Slot : k # j => slot'[j].handle # slot'[k].handle
                  /\ \/ InUse(k) /\ slot'[k].handle = slot[k].handle /\ slot'[k].pid = slot[k].pid
                     \/ slot'[k].handle = issued + 1 /\ ret = issued + 1 /\ slot'[k].pid = p
  <2>1. \A j \in Slot : j # i => slot'[j] = slot[j] /\ (InUse(j)' <=> InUse(j))
    BY <1>2, <1>5
  <2>2. \A j \in Slot : slot[j].handle <= issued
    BY <1>1 DEF FreeHandles
  <2>3. FreeHandles'
    BY <1>1, <1>5, <2>1 DEF FreeHandles
  <2>4. ASSUME NEW k \in Slot, InUse(k)'
        PROVE  /\ slot'[k].handle <= issued'
               /\ \A j \in Slot : k # j => slot'[j].handle # slot'[k].handle
               /\ \/ InUse(k) /\ slot'[k].handle = slot[k].handle /\ slot'[k].pid = slot[k].pid
                  \/ slot'[k].handle = issued + 1 /\ ret = issued + 1 /\ slot'[k].pid = p
    <3>1. CASE k = i
      BY <1>1, <1>5, <2>1, <2>2, <3>1
    <3>2. CASE k # i
      BY <1>1, <1>5, <2>1, <2>2, <2>4, <3>2
    <3> QED
      BY <3>1, <3>2
  <2> QED
    BY <1>1, <1>5, <2>3, <2>4
<1>6. CASE \E i \in Slot : /\ InUse(i) /\ slot[i].handle = h /\ InUse(i)' /\ slot'[i].handle = h
                           /\ slot'[i].pid = slot[i].pid /\ slot'[i].timed = timed
                           /\ \A j \in Slot : j # i => slot'[j] = slot[j]
                           /\ ret = h /\ UNCHANGED <<user_handle_now, issued>>
  BY <1>4, <1>6
<1>7. CASE \E i \in Slot : /\ ~InUse(i) /\ InUse(i)' /\ slot'[i].handle = issued + 1
                           /\ slot'[i].pid = p /\ slot'[i].timed = timed
                           /\ \A j \in Slot : j # i => slot'[j] = slot[j]
                           /\ ret = issued + 1 /\ issued' = issued + 1 /\ user_handle_now' = issued + 1
  BY <1>5, <1>7
<1> QED
  BY <1>3, <1>6, <1>7 DEF Acquired

\* The timers after an acquisition: b tells whether one is started.
LEMMA AcquiredTimers ==
  ASSUME TypeInv, LockInv, issued < HANDLE_RAND_MAX, NEW h \in Int, NEW p, NEW timed \in BOOLEAN,
         NEW ret \in Int, Acquired(h, p, timed, ret), NEW b \in BOOLEAN,
         b => timed, timed /\ ret > 0 => b, UNCHANGED alive,
         Swapped(powerdTimer, powerdTimer', h, ret, b),
         \A i \in Slot : InUse(i) /\ slot[i].handle = h => slot[i].pid = p
  PROVE  /\ TimersOwned'
         /\ \A k \in Int : HasTimer(powerdTimer', "LOCK", k) => k <= issued'
         /\ LocksEnd /\ Room(powerdTimer) => LocksEnd'
<1> DEFINE Untimed(i) == InUse(i)' /\ ~slot'[i].timed => ~HasTimer(powerdTimer', "LOCK", slot'[i].handle)
           Ends(i) == InUse(i)' /\ slot'[i].timed =>
                        \/ HasTimer(powerdTimer', "LOCK", slot'[i].handle)
                        \/ slot'[i].pid \notin alive \cup {gMyPid}
           Good(i) == Untimed(i) /\ (LocksEnd /\ Room(powerdTimer) => Ends(i))
<1>1. /\ issued \in Nat
      /\ \A k \in Int : HasTimer(powerdTimer, "LOCK", k) => k <= issued
      /\ \A i \in Slot : /\ slot[i].handle \in Int
                         /\ InUse(i) => /\ slot[i].handle <= issued /\ slot[i].handle > 0
                                        /\ \A j \in Slot : i # j => slot[j].handle # slot[i].handle
                                        /\ ~slot[i].timed => ~HasTimer(powerdTimer, "LOCK", slot[i].handle)
  BY LockTypes DEF LockInv, HandlesBelow, HandlesOwned, TimersOwned
<1>2. \A i \in Slot : LocksEnd /\ InUse(i) /\ slot[i].timed =>
        HasTimer(powerdTimer, "LOCK", slot[i].handle) \/ slot[i].pid \notin alive \cup {gMyPid}
  BY DEF LocksEnd
<1>3. /\ \A k \in Int : /\ HasTimer(powerdTimer', "LOCK", k) => HasTimer(powerdTimer, "LOCK", k) \/ (b /\ k = ret)
                        /\ HasTimer(powerdTimer, "LOCK", k) /\ k # h => HasTimer(powerdTimer', "LOCK", k)
      /\ h > 0 /\ HasTimer(powerdTimer', "LOCK", h) => b /\ ret = h
      /\ b /\ Room(powerdTimer) => HasTimer(powerdTimer', "LOCK", ret)
  BY DEF Swapped
<1>4. \A j \in Slot : slot'[j] = slot[j] => (InUse(j)' <=> InUse(j))
  BY DEF InUse
\* A slot that did not change, of another handle.
<1>5. ASSUME NEW i \in Slot, slot'[i] = slot[i], slot[i].handle # ret, slot[i].handle # h
      PROVE  Good(i)
  BY <1>1, <1>2, <1>3, <1>4, <1>5
<1>6. ASSUME ret = -1, UNCHANGED slot,
             p \in alive \cup {gMyPid} => \A i \in Slot : InUse(i) => slot[i].handle # h
      PROVE  \A i \in Slot : Good(i)
  <2>1. ASSUME NEW i \in Slot, slot[i].handle = h PROVE Good(i)
    BY <1>1, <1>2, <1>3, <1>4, <1>6, <2>1
  <2>2. ASSUME NEW i \in Slot, InUse(i), slot[i].handle # h PROVE Good(i)
    <3>1. slot[i].handle # ret /\ slot'[i] = slot[i]
      BY <1>1, <1>6, <2>2
    <3> QED
      BY <1>5, <2>2, <3>1
  <2>3. ASSUME NEW i \in Slot, ~InUse(i) PROVE Good(i)
    BY <1>4, <1>6, <2>3
  <2> HIDE DEF Good
  <2> QED
    BY <2>1, <2>2, <2>3
<1>7. ASSUME ret = h, NEW i \in Slot, InUse(i), slot[i].handle = h, InUse(i)', slot'[i].handle = h,
             slot'[i].timed = timed, \A j \in Slot : j # i => slot'[j] = slot[j]
      PROVE  \A k \in Slot : Good(k)
  <2>1. Good(i)
    BY <1>1, <1>3, <1>7
  <2>2. ASSUME NEW k \in Slot, k # i PROVE Good(k)
    <3>1. slot'[k] = slot[k] /\ slot[k].handle # h
      BY <1>1, <1>7, <2>2
    <3> QED
      BY <1>5, <1>7, <3>1
  <2> QED
    BY <2>1, <2>2
<1>8. ASSUME ret = issued + 1, NEW i \in Slot, InUse(i)', slot'[i].handle = issued + 1,
             slot'[i].timed = timed, \A j \in Slot : j # i => slot'[j] = slot[j],
             \A j \in Slot : InUse(j) => slot[j].handle # h
      PROVE  \A k \in Slot : Good(k)
  <2>1. Good(i)
    <3>1. ~HasTimer(powerdTimer, "LOCK", issued + 1)
      BY <1>1
    <3> QED
      BY <1>1, <1>3, <1>8, <3>1
  <2>2. ASSUME NEW k \in Slot, k # i, InUse(k) PROVE Good(k)
    <3>1. slot'[k] = slot[k] /\ slot[k].handle # h /\ slot[k].handle # ret
      BY <1>1, <1>8, <2>2
    <3> QED
      BY <1>5, <3>1
  <2>3. ASSUME NEW k \in Slot, k # i, ~InUse(k) PROVE Good(k)
    BY <1>4, <1>8, <2>3
  <2> QED
    BY <2>1, <2>2, <2>3
<1>9. \A i \in Slot : Good(i)
  <2> HIDE DEF Good
  <2> QED
    BY <1>6, <1>7, <1>8 DEF Acquired
<1>10. TimersOwned'
  BY <1>9 DEF TimersOwned, Swapped
<1>11. LocksEnd /\ Room(powerdTimer) => LocksEnd'
  BY <1>9 DEF LocksEnd
<1>12. \A k \in Int : HasTimer(powerdTimer', "LOCK", k) => k <= issued'
  <2>1. issued <= issued' /\ ret <= issued'
    BY AcquiredHandles
  <2>2. issued' \in Int
    BY <1>1 DEF Acquired
  <2> QED
    BY <1>1, <1>3, <2>1, <2>2
<1> QED
  BY <1>10, <1>11, <1>12

\* A lock with handle h, if there is one, is p's.
OwnLock(h, p) == \A i \in Slot : InUse(i) /\ slot[i].handle = h => slot[i].pid = p

\* Whoever acquires, with the handle h, remembers the handle ret: a client, or
\* the daemon in its table of customer hints.
Learns(h, p, ret) ==
  \/ /\ UNCHANGED gtCusHintTbl
     /\ h \in known[p] \cup {0}
     /\ \A q \in Pid : \A k \in known'[q] : k \in known[q] \/ (q = p /\ k = ret /\ ret > 0)
  \/ /\ UNCHANGED known /\ p = gMyPid
     /\ \E c \in CusHint : /\ h = gtCusHintTbl[c] /\ gtCusHintTbl'[c] = ret
                           /\ \A c2 \in CusHint : c2 # c => gtCusHintTbl'[c2] = gtCusHintTbl[c2]

\* What is left to show of an acquisition: who knows the handles.
LEMMA AcquireLocks ==
  ASSUME TypeInv, LockInv, issued' < HANDLE_RAND_MAX, issued < HANDLE_RAND_MAX,
         NEW h \in Int, NEW p, NEW timed \in BOOLEAN, NEW ret \in Int, Acquired(h, p, timed, ret),
         NEW b \in BOOLEAN, b => timed, timed /\ ret > 0 => b, UNCHANGED alive,
         Swapped(powerdTimer, powerdTimer', h, ret, b),
         OwnLock(h, p), Learns(h, p, ret)
  PROVE  LockInv' /\ (LocksEnd /\ RoomForTimers => LocksEnd')
<1>0. /\ \A i \in Slot : InUse(i) /\ slot[i].handle = h => slot[i].pid = p
      /\ \/ /\ UNCHANGED gtCusHintTbl
            /\ h \in known[p] \cup {0}
            /\ \A q \in Pid : \A k \in known'[q] : k \in known[q] \/ (q = p /\ k = ret /\ ret > 0)
         \/ /\ UNCHANGED known /\ p = gMyPid
            /\ \E c \in CusHint : /\ h = gtCusHintTbl[c] /\ gtCusHintTbl'[c] = ret
                                  /\ \A c2 \in CusHint : c2 # c => gtCusHintTbl'[c2] = gtCusHintTbl[c2]
  BY DEF OwnLock, Learns
<1> USE <1>0
<1>1. /\ FreeHandles' /\ user_handle_now' = issued' /\ issued <= issued' /\ ret <= issued'
      /\ \A i \in Slot : InUse(i)' =>
           /\ slot'[i].handle <= issued'
           /\ \A j \in Slot : i # j => slot'[j].handle # slot'[i].handle
           /\ \/ InUse(i) /\ slot'[i].handle = slot[i].handle /\ slot'[i].pid = slot[i].pid
              \/ slot'[i].handle = issued + 1 /\ ret = issued + 1 /\ slot'[i].pid = p
      /\ ret = -1 \/ ret = issued + 1 \/ (ret = h /\ \E i \in Slot : InUse(i) /\ slot[i].handle = h)
  BY AcquiredHandles
<1>2. /\ TimersOwned'
      /\ \A k \in Int : HasTimer(powerdTimer', "LOCK", k) => k <= issued'
      /\ LocksEnd /\ Room(powerdTimer) => LocksEnd'
  BY AcquiredTimers
<1>3. RoomForTimers => Room(powerdTimer)
  BY DEF RoomForTimers, TwoFree, Room
<1>4. /\ issued \in Nat /\ issued' \in Int
      /\ \A q \in Pid : \A k \in known[q] : k \in Int /\ k <= issued
      /\ \A c \in CusHint : gtCusHintTbl[c] \in Int /\ gtCusHintTbl[c] <= issued
      /\ \A i \in Slot : InUse(i) => slot[i].handle \in Int /\ slot[i].handle <= issued /\ slot[i].handle > 0
  <2>1. issued' = issued \/ issued' = issued + 1
    BY DEF Acquired
  <2> QED
    BY <2>1, LockTypes DEF LockInv, HandlesBelow
<1>5. HandlesOwned
  BY DEF LockInv
<1>6. HandlesBelow'
  <2>1. \A q \in Pid : \A k \in known'[q] : k <= issued'
    BY <1>1, <1>4
  <2>2. \A c \in CusHint : gtCusHintTbl'[c] <= issued'
    BY <1>1, <1>4
  <2> QED
    BY <1>1, <1>2, <2>1, <2>2 DEF HandlesBelow
<1>7. ASSUME NEW i \in Slot, InUse(i)', NEW q \in Pid, slot'[i].handle \in known'[q]
      PROVE  slot'[i].pid = q
  <2>1. CASE InUse(i) /\ slot'[i].handle = slot[i].handle /\ slot'[i].pid = slot[i].pid
    <3>1. CASE slot[i].handle \in known[q]
      BY <1>5, <2>1, <3>1 DEF HandlesOwned
    <3>2. CASE slot[i].handle \notin known[q]
      <4>1. q = p /\ slot[i].handle = ret /\ ret > 0
        BY <1>7, <2>1, <3>2
      <4>2. ret = h
        BY <1>1, <1>4, <2>1, <4>1
      <4> QED
        BY <2>1, <4>1, <4>2
    <3> QED
      BY <3>1, <3>2
  <2>2. CASE slot'[i].handle = issued + 1 /\ ret = issued + 1 /\ slot'[i].pid = p
    <3>1. slot'[i].handle \notin known[q]
      BY <1>4, <2>2
    <3> QED
      BY <1>7, <2>2, <3>1
  <2> QED
    BY <1>1, <1>7, <2>1, <2>2
<1>8. ASSUME NEW i \in Slot, InUse(i)', NEW c \in CusHint, slot'[i].handle = gtCusHintTbl'[c]
      PROVE  slot'[i].pid = gMyPid /\ \A c2 \in CusHint : gtCusHintTbl'[c2] = gtCusHintTbl'[c] => c2 = c
  <2>1. CASE InUse(i) /\ slot'[i].handle = slot[i].handle /\ slot'[i].pid = slot[i].pid
    <3>1. \A c2 \in CusHint : gtCusHintTbl'[c2] = slot[i].handle => gtCusHintTbl[c2] = slot[i].handle
      <4>1. slot[i].handle = ret => ret = h
        BY <1>1, <1>4, <2>1
      <4> QED
        BY <4>1
    <3>2. gtCusHintTbl[c] = slot[i].handle
      BY <1>8, <2>1, <3>1
    <3>3. \A c2 \in CusHint : gtCusHintTbl'[c2] = gtCusHintTbl'[c] => gtCusHintTbl[c2] = gtCusHintTbl[c]
      BY <1>8, <2>1, <3>1, <3>2
    <3>4. slot[i].pid = gMyPid /\ \A c2 \in CusHint : gtCusHintTbl[c2] = gtCusHintTbl[c] => c2 = c
      BY <1>5, <2>1, <3>2 DEF HandlesOwned
    <3> QED
      BY <2>1, <3>3, <3>4
  <2>2. CASE slot'[i].handle = issued + 1 /\ ret = issued + 1 /\ slot'[i].pid = p
    <3>1. \A c2 \in CusHint : gtCusHintTbl[c2] # issued + 1
      BY <1>4
    <3>2. PICK d \in CusHint : /\ p = gMyPid /\ gtCusHintTbl'[d] = ret
                               /\ \A c2 \in CusHint : c2 # d => gtCusHintTbl'[c2] = gtCusHintTbl[c2]
      BY <1>8, <2>2, <3>1
    <3> QED
      BY <1>8, <2>2, <3>1, <3>2
  <2> QED
    BY <1>1, <1>8, <2>1, <2>2
<1>9. HandlesOwned'
  BY <1>1, <1>7, <1>8 DEF HandlesOwned
<1> QED
  BY <1>1, <1>2, <1>3, <1>6, <1>9 DEF LockInv

\* A client acquires a lock.
LEMMA PerfLockAcqLocks ==
  ASSUME TypeInv, LockInv, NEW p \in Pid, NEW h \in Handles(p), NEW d \in Duration,
         NEW screen \in SCREEN_OFF, PerfLockAcq(p, h, d, screen)
  PROVE  LockInv' /\ (LocksEnd /\ RoomForTimers => LocksEnd')
<1>1. h \in Int /\ h \in known[p] \cup {0} /\ p \in Pid \cup {gMyPid} /\ powerdTimer \in Timers
  BY LockTypes DEF Handles
<1>2. PICK ret \in LockResults :
        /\ perfLockAcq(h, p, d, screen, ret)
        /\ known' = [known EXCEPT ![p] = IF ret > 0 THEN @ \cup {ret} ELSE @]
        /\ LET T == remove_scn_timer(powerdTimer, "LOCK", h) IN
           powerdTimer' = IF d # "always" /\ ret > 0 THEN start_scn_timer(T, "LOCK", ret) ELSE T
  BY DEF PerfLockAcq
<1>3. UNCHANGED <<gtCusHintTbl, alive>>
  BY DEF PerfLockAcq
<1> SUFFICES ASSUME issued' < HANDLE_RAND_MAX PROVE LockInv' /\ (LocksEnd /\ RoomForTimers => LocksEnd')
  BY DEF LockInv, LocksEnd
<1> DEFINE timed == d # "always"
           b     == timed /\ ret > 0
<1>4. Acquired(h, p, timed, ret) /\ ret \in Int
  BY <1>1, <1>2, AcqIsAcquired
<1>5. timed \in BOOLEAN /\ b \in BOOLEAN /\ (b => timed) /\ (timed /\ ret > 0 => b)
  OBVIOUS
<1>6. powerdTimer' = IF b THEN start_scn_timer(remove_scn_timer(powerdTimer, "LOCK", h), "LOCK", ret)
                     ELSE remove_scn_timer(powerdTimer, "LOCK", h)
  BY <1>2
<1> HIDE DEF timed, b
<1>7. issued < HANDLE_RAND_MAX
  BY <1>4, LockTypes DEF Acquired
<1>8. \A k \in Int : k > 0 => OneTimer(powerdTimer, "LOCK", k)
  BY <1>7 DEF LockInv, TimersOwned
<1>9. ret = h \/ ret <= 0 \/ ~HasTimer(powerdTimer, "LOCK", ret)
  BY <1>4, <1>7, LockTypes DEF Acquired, LockInv, HandlesBelow
<1>10. Swapped(powerdTimer, powerdTimer', h, ret, b)
  BY <1>1, <1>4, <1>5, <1>6, <1>8, <1>9, LockTimers
<1>11. OwnLock(h, p)
  BY <1>1, <1>7, LockTypes DEF LockInv, HandlesOwned, OwnLock
<1>12. \A q \in Pid : \A k \in known'[q] : k \in known[q] \/ (q = p /\ k = ret /\ ret > 0)
  BY <1>2 DEF TypeInv, OwnerOK
<1>13. b => timed
  BY <1>5
<1>14. timed /\ ret > 0 => b
  BY <1>5
<1>15. Learns(h, p, ret)
  BY <1>1, <1>3, <1>12 DEF Learns
<1>16. UNCHANGED alive
  BY <1>3
<1> QED
  BY <1>1, <1>4, <1>5, <1>7, <1>10, <1>11, <1>13, <1>14, <1>15, <1>16, AcquireLocks

\* The daemon acquires one for a customer hint.
LEMMA CustomerHintLocks ==
  ASSUME TypeInv, LockInv, NEW c \in CusHint, NEW d \in Duration, CustomerHint(c, d)
  PROVE  LockInv' /\ (LocksEnd /\ RoomForTimers => LocksEnd')
<1> DEFINE h == gtCusHintTbl[c]
<1>1. h \in Int /\ gMyPid \in Pid \cup {gMyPid} /\ "DISABLE" \in SCREEN_OFF /\ powerdTimer \in Timers
  BY LockTypes DEF SCREEN_OFF
<1>2. PICK ret \in LockResults :
        /\ perfLockAcq(gtCusHintTbl[c], gMyPid, d, "DISABLE", ret)
        /\ gtCusHintTbl' = [gtCusHintTbl EXCEPT ![c] = ret]
        /\ LET T == remove_scn_timer(powerdTimer, "LOCK", gtCusHintTbl[c]) IN
           powerdTimer' = IF d = "always" THEN T ELSE start_scn_timer(T, "LOCK", ret)
  BY DEF CustomerHint
<1>3. UNCHANGED <<known, alive>>
  BY DEF CustomerHint
<1> SUFFICES ASSUME issued' < HANDLE_RAND_MAX PROVE LockInv' /\ (LocksEnd /\ RoomForTimers => LocksEnd')
  BY DEF LockInv, LocksEnd
<1> DEFINE timed == d # "always"
<1>4. Acquired(h, gMyPid, timed, ret) /\ ret \in Int
  BY <1>1, <1>2, AcqIsAcquired
<1>5. timed \in BOOLEAN
  OBVIOUS
<1>6. powerdTimer' = IF timed THEN start_scn_timer(remove_scn_timer(powerdTimer, "LOCK", h), "LOCK", ret)
                     ELSE remove_scn_timer(powerdTimer, "LOCK", h)
  BY <1>2
<1>7. gtCusHintTbl'[c] = ret /\ \A c2 \in CusHint : c2 # c => gtCusHintTbl'[c2] = gtCusHintTbl[c2]
  BY <1>2 DEF TypeInv, OwnerOK
<1>8. h = gtCusHintTbl[c]
  OBVIOUS
<1> HIDE DEF timed, h
<1>9. issued < HANDLE_RAND_MAX
  BY <1>4, LockTypes DEF Acquired
<1>10. \A k \in Int : k > 0 => OneTimer(powerdTimer, "LOCK", k)
  BY <1>9 DEF LockInv, TimersOwned
<1>11. ret = h \/ ret <= 0 \/ ~HasTimer(powerdTimer, "LOCK", ret)
  BY <1>4, <1>9, LockTypes DEF Acquired, LockInv, HandlesBelow
<1>12. Swapped(powerdTimer, powerdTimer', h, ret, timed)
  BY <1>1, <1>4, <1>5, <1>6, <1>10, <1>11, LockTimers
<1>13. OwnLock(h, gMyPid)
  BY <1>8, <1>9 DEF LockInv, HandlesOwned, OwnLock
<1>14. Learns(h, gMyPid, ret)
  BY <1>3, <1>7, <1>8 DEF Learns
<1>15. UNCHANGED alive
  BY <1>3
<1> QED
  BY <1>1, <1>4, <1>5, <1>9, <1>12, <1>13, <1>14, <1>15, AcquireLocks

\* A client registers a scenario: it has no timer of a lock.
LEMMA ScnRegLocks ==
  ASSUME TypeInv, LockInv, NEW p \in Pid, ScnReg(p)
  PROVE  LockInv' /\ (LocksEnd /\ RoomForTimers => LocksEnd')
<1>1. UNCHANGED <<powerdTimer, gtCusHintTbl, alive>>
  BY DEF ScnReg
<1>2. CASE FreeSlots = {}
  <2>1. UNCHANGED <<slot, user_handle_now, issued, known>>
    BY <1>2 DEF ScnReg, lib
  <2>2. SlotsShrink
    BY <2>1 DEF SlotsShrink, Shrinks
  <2> QED
    BY <1>1, <2>1, <2>2, ShrinkKeepsLocks
<1>3. CASE FreeSlots # {}
  <2> SUFFICES ASSUME issued' < HANDLE_RAND_MAX PROVE LockInv' /\ (LocksEnd /\ RoomForTimers => LocksEnd')
    BY DEF LockInv, LocksEnd
  <2>1. /\ p \in Pid \cup {gMyPid} /\ "user" \in {"user", "lock"} /\ "OFF" \in State
        /\ "DISABLE" \in SCREEN_OFF /\ FALSE \in BOOLEAN
    BY DEF State, SCREEN_OFF
  <2>2. Register("user", p, "OFF", "DISABLE", FALSE) /\ known' = [known EXCEPT ![p] = @ \cup {allocNewHandleNum}]
    BY <1>3 DEF ScnReg
  <2>3. /\ user_handle_now' = allocNewHandleNum /\ issued' = issued + 1
        /\ \E i \in FreeSlots :
              /\ slot'[i].type = "user" /\ slot'[i].handle = allocNewHandleNum /\ slot'[i].pid = p
              /\ slot'[i].timed = FALSE
              /\ \A j \in Slot : j # i => slot'[j] = slot[j]
    BY <1>3, <2>1, <2>2, Registered DEF TypeInv
  <2>4. issued \in Nat /\ issued < HANDLE_RAND_MAX /\ issued + 1 < HANDLE_RAND_MAX
    BY <2>3, LockTypes
  <2>5. allocNewHandleNum = issued + 1
    <3>1. user_handle_now = issued
      BY <2>4 DEF LockInv, HandlesBelow
    <3> QED
      BY <2>4, <3>1, NewHandle DEF TypeInv
  <2> DEFINE r == issued + 1
  <2>6. r \in Int /\ r > 0 /\ 0 \in Int
    BY <2>4
  <2>7. Acquired(0, p, FALSE, r)
    <3>1. \A i \in FreeSlots : i \in Slot /\ ~InUse(i)
      BY DEF FreeSlots, InUse
    <3>2. \A i \in Slot : slot'[i].type = "user" => InUse(i)'
      BY DEF InUse
    <3>3. \A i \in Slot : InUse(i) => slot[i].handle # 0
      BY LockTypes
    <3> QED
      BY <2>3, <2>5, <3>1, <3>2, <3>3 DEF Acquired
  <2>8. Swapped(powerdTimer, powerdTimer', 0, r, FALSE)
    <3>1. \A k \in Int : k > 0 => OneTimer(powerdTimer, "LOCK", k)
      BY <2>4 DEF LockInv, TimersOwned
    <3> QED
      BY <1>1, <3>1 DEF Swapped
  <2>9. \A q \in Pid : \A k \in known'[q] : k \in known[q] \/ (q = p /\ k = r /\ r > 0)
    BY <2>2, <2>5, <2>6 DEF TypeInv, OwnerOK
  <2>10. OwnLock(0, p)
    BY LockTypes DEF OwnLock
  <2>11. Learns(0, p, r)
    BY <1>1, <2>9 DEF Learns
  <2>12. UNCHANGED alive /\ FALSE \in BOOLEAN
    BY <1>1
  <2> HIDE DEF r
  <2> QED
    BY <2>4, <2>6, <2>7, <2>8, <2>10, <2>11, <2>12, AcquireLocks
<1> QED
  BY <1>2, <1>3

\* Every step keeps LockInv, and the timers of the locks that are asked for a time.
LEMMA NextLocks ==
  ASSUME TypeInv, LockInv, [Next]_vars
  PROVE  LockInv' /\ (LocksEnd /\ RoomForTimers => LocksEnd')
<1>1. CASE UNCHANGED vars
  <2>1. UNCHANGED <<slot, user_handle_now, issued, known, gtCusHintTbl, powerdTimer, alive>>
    BY <1>1 DEF vars
  <2>2. SlotsShrink
    BY <2>1 DEF SlotsShrink, Shrinks
  <2> QED
    BY <2>1, <2>2, ShrinkKeepsLocks
<1>2. CASE HintRequest
  <2>1. ASSUME NEW h \in Hint, NEW d \in {"always", "short"}, AospHint(h, d) \/ MtkHint(h, d)
        PROVE  LockInv' /\ (LocksEnd /\ RoomForTimers => LocksEnd')
    BY <2>1, HintsNotLocks DEF MtkHint
  <2>2. ASSUME NEW h \in Hint, AospHintOff(h) \/ MtkHintOff(h)
        PROVE  LockInv' /\ (LocksEnd /\ RoomForTimers => LocksEnd')
    BY <2>2, HintsNotLocks
  <2> QED
    BY <1>2, <2>1, <2>2, CustomerHintLocks, ReleaseLocks DEF HintRequest
<1>3. CASE ClientRequest
  <2>1. PICK p \in Pid :
          \/ NotifyDead(p) \/ ScnReg(p)
          \/ \E h \in Handles(p) :
               \/ \E d \in Duration, screen \in SCREEN_OFF : PerfLockAcq(p, h, d, screen)
               \/ PerfLockRel(p, h) \/ ScnUnreg(p, h) \/ ScnDisable(p, h)
               \/ \E screen \in SCREEN_OFF : ScnConfig(p, h, screen)
               \/ \E timeout \in BOOLEAN : ScnEnable(p, h, timeout)
    BY <1>3 DEF ClientRequest
  <2> QED
    BY <2>1, SystemLocks, ScnRegLocks, PerfLockAcqLocks, ReleaseLocks
<1>4. CASE SystemRequest
  BY <1>4, SystemLocks, HintsNotLocks DEF SystemRequest
<1>5. CASE (\E i \in TimerId : TimerFires(i)) \/ (\E p \in Pid : ProcessDies(p))
  BY <1>5, TimeoutLocks, SystemLocks
<1> QED
  BY <1>1, <1>2, <1>3, <1>4, <1>5 DEF Next

\* The daemon starts without locks.
LEMMA InitLocks ==
  ASSUME Init
  PROVE  LockInv /\ LocksEnd
<1>1. \A i \in Slot : slot[i] = FreeSlot
  BY DEF Init
<1>2. \A i \in Slot : ~InUse(i) /\ slot[i].handle = -1
  BY <1>1 DEF InUse, FreeSlot
<1>3. \A i \in TimerId : powerdTimer[i].msg # "LOCK"
  BY DEF Init, FreeTimer
<1>4. \A i \in TimerId, h \in Int : powerdTimer[i] # [msg |-> "LOCK", handle |-> h]
  BY <1>3
<1>5. \A h \in Int : ~HasTimer(powerdTimer, "LOCK", h) /\ OneTimer(powerdTimer, "LOCK", h)
  BY <1>4 DEF HasTimer, OneTimer
<1>6. /\ user_handle_now = 0 /\ issued = 0 /\ (\A p \in Pid : known[p] = {})
      /\ \A c \in CusHint : gtCusHintTbl[c] = 0
  BY DEF Init
<1>7. HandlesBelow
  BY <1>2, <1>5, <1>6 DEF HandlesBelow
<1>8. FreeHandles /\ HandlesOwned /\ TimersOwned /\ LocksEnd
  BY <1>2, <1>5 DEF FreeHandles, HandlesOwned, TimersOwned, LocksEnd
<1> QED
  BY <1>7, <1>8 DEF LockInv

\* LockInv is an invariant.
LEMMA LocksAlways == Spec => []LockInv
<1>1. Init => LockInv
  BY InitLocks
<1>2. TypeInv /\ LockInv /\ [Next]_vars => LockInv'
  BY NextLocks
<1> QED
  BY <1>1, <1>2, TypeAlways, PTL DEF Spec

\* Until handles wrap, the handle of a lock that ended never refers to a lock of somebody
\* else, however clients and the customer hint table keep old handles, acquire with them,
\* die or let their locks time out: allocNewHandleNum() counts on, so a handle that is in use
\* is known to its owner only.
THEOREM HandlesAreSafe == Spec => []StaleHandlesHarmless
<1>1. LockInv => StaleHandlesHarmless
  BY DEF LockInv, HandlesOwned, StaleHandlesHarmless, InUse
<1> QED
  BY <1>1, LocksAlways, PTL

\* As long as the timer table has room and until handles wrap, the timers are those of the
\* locks: a lock that is asked for a time has one, unless its owner is gone, and a lock that
\* is asked for always has none, neither of its own nor left by one that ended.
THEOREM TimersAreLocks == Spec /\ []RoomForTimers => []TimersMatchLocks
<1>1. Init => LocksEnd
  BY InitLocks
<1>2. LocksEnd /\ TypeInv /\ LockInv /\ RoomForTimers /\ [Next]_vars => LocksEnd'
  BY NextLocks
<1>3. LockInv /\ LocksEnd => TimersMatchLocks
  BY DEF LockInv, TimersOwned, LocksEnd, TimersMatchLocks, InUse
<1> QED
  BY <1>1, <1>2, <1>3, TypeAlways, LocksAlways, PTL DEF Spec

-----------------------------------------------------------------------------
(* A table that is large enough always has room *)

\* The timers from n + 1 on are free.
FreeAbove(T, n) == T \in Timers /\ \A i \in TimerId : i > n => T[i] = FreeTimer

\* A timer that is started takes the first free place.
LEMMA StartAbove ==
  ASSUME NEW T, NEW n \in Nat, FreeAbove(T, n), NEW m \in Msg, NEW h \in Int
  PROVE  FreeAbove(start_scn_timer(T, m, h), n + 1)
<1>1. T \in Timers /\ TimerId \subseteq Nat /\ start_scn_timer(T, m, h) \in Timers
  BY StartTimer DEF FreeAbove, TimerId
<1>2. CASE start_scn_timer(T, m, h) = T
  BY <1>1, <1>2 DEF FreeAbove
<1>3. ASSUME NEW i \in TimerId, T[i] = FreeTimer, \A j \in TimerId : T[j] = FreeTimer => i <= j,
             start_scn_timer(T, m, h) = [T EXCEPT ![i] = [msg |-> m, handle |-> h]]
      PROVE  FreeAbove(start_scn_timer(T, m, h), n + 1)
  <2>1. i <= n + 1
    <3>1. CASE n + 1 \in TimerId
      BY <1>1, <1>3, <3>1 DEF FreeAbove
    <3>2. CASE n + 1 \notin TimerId
      BY <3>2, PowerdAssumption DEF TimerId
    <3> QED
      BY <3>1, <3>2
  <2>2. \A j \in TimerId : j > n + 1 => start_scn_timer(T, m, h)[j] = T[j]
    BY <1>1, <1>3, <2>1 DEF Timers
  <2> QED
    BY <1>1, <2>2 DEF FreeAbove
<1> QED
  BY <1>1, <1>2, <1>3, Started

\* A timer that is stopped takes none.
LEMMA RemoveAbove ==
  ASSUME NEW T, NEW n \in Nat, FreeAbove(T, n), NEW m \in Msg, NEW h \in Int
  PROVE  FreeAbove(remove_scn_timer(T, m, h), n)
<1>1. T \in Timers /\ remove_scn_timer(T, m, h) \in Timers
  BY RemoveTimer DEF FreeAbove
<1>2. CASE remove_scn_timer(T, m, h) = T
  BY <1>2
<1>3. ASSUME NEW i \in TimerId, remove_scn_timer(T, m, h) = [T EXCEPT ![i] = FreeTimer]
      PROVE  FreeAbove(remove_scn_timer(T, m, h), n)
  BY <1>1, <1>3 DEF FreeAbove, Timers
<1>4. \/ /\ remove_scn_timer(T, m, h) = T
         /\ \A i \in TimerId : T[i] # [msg |-> m, handle |-> h]
      \/ \E i \in TimerId : /\ T[i] = [msg |-> m, handle |-> h]
                            /\ remove_scn_timer(T, m, h) = [T EXCEPT ![i] = FreeTimer]
  BY <1>1, Stopped, Zenon
<1> QED
  BY <1>2, <1>3, <1>4

\* A free timer more does not matter.
LEMMA AboveMore ==
  ASSUME NEW T, NEW n \in Nat, NEW k \in Nat, n <= k, FreeAbove(T, n)
  PROVE  FreeAbove(T, k)
BY DEF FreeAbove, TimerId

\* Stopping one timer and starting another.
LEMMA RestartAbove ==
  ASSUME NEW T, NEW n \in Nat, FreeAbove(T, n), NEW m \in Msg, NEW h \in Int, NEW k \in Int
  PROVE  FreeAbove(start_scn_timer(remove_scn_timer(T, m, h), m, k), n + 1)
<1> DEFINE R == remove_scn_timer(T, m, h)
<1>1. FreeAbove(R, n)
  BY RemoveAbove
<1> HIDE DEF R
<1>2. FreeAbove(start_scn_timer(R, m, k), n + 1)
  BY <1>1, StartAbove
<1> QED
  BY <1>2 DEF R

\* The periodic check has a timer, and a request starts two timers at most.
FewTimers == FreeAbove(powerdTimer, 1 + 2 * served)

\* Every step keeps FewTimers.
LEMMA NextFew ==
  ASSUME TypeInv, FewTimers, [Next]_vars
  PROVE  FewTimers'
<1> DEFINE n == 1 + 2 * served
<1>1. served \in Nat /\ n \in Nat /\ FreeAbove(powerdTimer, n) /\ powerdTimer \in Timers
  BY LockTypes, PowerdAssumption DEF TypeInv, FewTimers
<1>2. Serve => served' = served + 1
  BY DEF Serve
<1>3. /\ FreeAbove(powerdTimer', n) /\ (served' = served \/ served' = served + 1) => FewTimers'
      /\ FreeAbove(powerdTimer', n + 1) /\ served' = served + 1 => FewTimers'
      /\ FreeAbove(powerdTimer', (n + 1) + 1) /\ served' = served + 1 => FewTimers'
  <2>1. ASSUME served' = served + 1 PROVE 1 + 2 * served' = (n + 1) + 1 /\ n <= 1 + 2 * served'
                                          /\ n + 1 <= 1 + 2 * served' /\ 1 + 2 * served' \in Nat
    BY <1>1, <2>1
  <2>2. ASSUME served' = served PROVE 1 + 2 * served' = n
    BY <2>2
  <2>3. n + 1 \in Nat
    BY <1>1
  <2> HIDE DEF n
  <2> QED
    BY <1>1, <2>1, <2>2, <2>3, AboveMore DEF FewTimers
<1>4. Hint \subseteq Int /\ "HINT" \in Msg /\ "LOCK" \in Msg /\ "USER" \in Msg
  BY HintNumbers DEF Msg
<1> HIDE DEF n
<1>5. \A m \in Msg, h, k \in Int : /\ FreeAbove(remove_scn_timer(powerdTimer, m, h), n)
                                   /\ FreeAbove(start_scn_timer(remove_scn_timer(powerdTimer, m, h), m, k), n + 1)
  BY <1>1, RemoveAbove, RestartAbove
<1>6. ASSUME Serve,
             \/ powerdTimer' = powerdTimer
             \/ \E m \in Msg, h, k \in Int :
                  \/ powerdTimer' = remove_scn_timer(powerdTimer, m, h)
                  \/ powerdTimer' = start_scn_timer(remove_scn_timer(powerdTimer, m, h), m, k)
      PROVE  FewTimers'
  BY <1>1, <1>2, <1>3, <1>5, <1>6
<1>7. ASSUME NEW h \in Hint, NEW d, AospHint(h, d) \/ MtkHint(h, d) \/ AospHintOff(h) PROVE FewTimers'
  BY <1>4, <1>6, <1>7 DEF AospHint, MtkHint, AospHintOff, ServeIfOn
<1>8. ASSUME NEW h \in Hint, MtkHintOff(h) PROVE FewTimers'
  <2> DEFINE T1 == remove_scn_timer(powerdTimer, "HINT", h)
             T2 == IF h \in Hold THEN start_scn_timer(T1, "HINT", h) ELSE T1
             e  == Ext[h]
  <2>1. FreeAbove(T2, n + 1)
    <3>1. FreeAbove(T1, n) /\ FreeAbove(start_scn_timer(T1, "HINT", h), n + 1) /\ n + 1 \in Nat /\ n <= n + 1
      BY <1>1, <1>4, <1>5
    <3>2. FreeAbove(T1, n + 1)
      BY <1>1, <3>1, AboveMore
    <3> HIDE DEF T1
    <3> QED
      BY <3>1, <3>2
  <2>2. e \in Int
    <3>1. e \in Hint \cup {0}
      BY PowerdAssumption
    <3>2. \A x \in Hint \cup {0} : x \in Int
      BY <1>4
    <3> QED
      BY <3>1, <3>2
  <2>3. /\ powerdTimer' = T2 \/ powerdTimer' = start_scn_timer(remove_scn_timer(T2, "HINT", e), "HINT", e)
        /\ Serve
    BY <1>8 DEF MtkHintOff, restart_scn_timer, ServeIfOn
  <2> HIDE DEF T1, T2, e
  <2>4. n + 1 \in Nat
    BY <1>1
  <2>5. FreeAbove(start_scn_timer(remove_scn_timer(T2, "HINT", e), "HINT", e), (n + 1) + 1)
    BY <1>4, <2>1, <2>2, <2>4, RestartAbove
  <2> QED
    BY <1>2, <1>3, <2>1, <2>3, <2>5
<1>9. ASSUME NEW c \in CusHint, CustomerHintOff(c) \/ \E d \in Duration : CustomerHint(c, d) PROVE FewTimers'
  <2>1. gtCusHintTbl[c] \in Int /\ Serve /\ LockResults \subseteq Int
    <3>1. allocNewHandleNum \in Int /\ \A i \in Slot : slot[i].handle \in Int
      BY NewHandle, LockTypes DEF TypeInv
    <3> QED
      BY <1>9, <3>1, LockTypes DEF CustomerHintOff, CustomerHint, ServeIfOn, LockResults
  <2> QED
    BY <1>4, <1>6, <1>9, <2>1 DEF CustomerHintOff, CustomerHint
<1>10. ASSUME NEW p \in Pid, NEW h \in Handles(p),
              \/ \E d \in Duration, screen \in SCREEN_OFF : PerfLockAcq(p, h, d, screen)
              \/ PerfLockRel(p, h) \/ ScnUnreg(p, h) \/ ScnDisable(p, h)
              \/ \E screen \in SCREEN_OFF : ScnConfig(p, h, screen)
              \/ \E timeout \in BOOLEAN : ScnEnable(p, h, timeout)
       PROVE  FewTimers'
  <2>1. h \in Int /\ Serve /\ LockResults \subseteq Int
    <3>1. allocNewHandleNum \in Int /\ \A i \in Slot : slot[i].handle \in Int
      BY NewHandle, LockTypes DEF TypeInv
    <3>2. h \in Int
      BY LockTypes DEF Handles
    <3>3. LockResults \subseteq Int
      BY <3>1 DEF LockResults
    <3> QED
      BY <1>10, <3>2, <3>3 DEF PerfLockAcq, PerfLockRel, ScnUnreg, ScnDisable, ScnConfig, ScnEnable, ServeIfOn
  <2>2. \/ powerdTimer' = powerdTimer
        \/ \E m \in Msg, k, j \in Int :
             \/ powerdTimer' = remove_scn_timer(powerdTimer, m, k)
             \/ powerdTimer' = start_scn_timer(remove_scn_timer(powerdTimer, m, k), m, j)
    BY <1>4, <1>10, <2>1 DEF PerfLockAcq, PerfLockRel, ScnUnreg, ScnDisable, ScnConfig, ScnEnable
  <2> QED
    BY <1>6, <2>1, <2>2
<1>11. ASSUME NEW b \in BOOLEAN, NEW p \in Pid,
              DisableAll \/ RestoreAll \/ SetOnOff(b) \/ NotifyDead(p) \/ ScnReg(p) PROVE FewTimers'
  BY <1>6, <1>11 DEF DisableAll, RestoreAll, SetOnOff, NotifyDead, ScnReg, ServeIfOn
<1>12. ASSUME NEW b \in BOOLEAN, NotifyResumed(b) PROVE FewTimers'
  BY <1>4, <1>6, <1>12 DEF NotifyResumed, ServeIfOn
<1>13. ASSUME NEW i \in TimerId, TimerFires(i) PROVE FewTimers'
  <2>1. served' = served /\ (powerdTimer' = powerdTimer \/ powerdTimer' = [powerdTimer EXCEPT ![i] = FreeTimer])
    BY <1>13 DEF TimerFires, HintTimeout, LockTimeout, UserTimeout, CheckTimeout
  <2>2. FreeAbove(powerdTimer', n)
    BY <1>1, <2>1 DEF FreeAbove, Timers, FreeTimer
  <2> QED
    BY <1>3, <2>1, <2>2
<1>14. CASE UNCHANGED vars \/ \E p \in Pid : ProcessDies(p)
  BY <1>14 DEF vars, ProcessDies, FewTimers
<1>15. CASE DisableAll \/ RestoreAll \/ \E b \in BOOLEAN : SetOnOff(b)
  BY <1>6, <1>15 DEF DisableAll, RestoreAll, SetOnOff, ServeIfOn
<1> QED
  BY <1>7, <1>8, <1>9, <1>10, <1>11, <1>12, <1>13, <1>14, <1>15
     DEF Next, HintRequest, ClientRequest, SystemRequest

\* With a table of two timers for each request, the one of the periodic check and two to
\* spare, no timer is ever lost: hints and locks that are asked for a time end, whatever the
\* order of the requests.
THEOREM LargeTableSuffices ==
  ASSUME MAX_TIMER_COUNT >= 2 * MaxRequests + 3
  PROVE  Spec => [](TimedHintEnds /\ TimersMatchLocks)
<1>1. Init => FewTimers
  <2>1. ASSUME Init PROVE FewTimers
    <3>1. powerdTimer \in Timers
      BY <2>1, InitTypes DEF TypeInv, HintState
    <3> QED
      BY <2>1, <3>1, PowerdAssumption DEF Init, FewTimers, FreeAbove, TimerId
  <2> QED
    BY <2>1
<1>2. TypeInv /\ FewTimers /\ [Next]_vars => FewTimers'
  BY NextFew
<1>3. TypeInv /\ FewTimers => RoomForTimers
  <2> SUFFICES ASSUME TypeInv, FewTimers PROVE RoomForTimers
    OBVIOUS
  <2> DEFINE i == MAX_TIMER_COUNT
             j == MAX_TIMER_COUNT - 1
  <2>1. i \in TimerId /\ j \in TimerId /\ i # j /\ i > 1 + 2 * served /\ j > 1 + 2 * served
    BY PowerdAssumption DEF TypeInv, TimerId
  <2> HIDE DEF i, j
  <2> QED
    BY <2>1 DEF FewTimers, FreeAbove, RoomForTimers, TwoFree
<1> QED
  BY <1>1, <1>2, <1>3, TypeAlways, TimedIsEnded, TimersAreLocks, PTL DEF Spec

-----------------------------------------------------------------------------
(* What a dead process leaves is collected *)

\* The timer of the periodic check runs.
CheckRuns(T) == T \in Timers /\ HasTimer(T, "CHECK", 0)

\* What process p holds.
Holds(p) == {i \in Slot : slot[i].type # "free" /\ slot[i].pid = p}

\* No request stops the periodic check.
LEMMA CheckGoesOn ==
  ASSUME NEW T, CheckRuns(T), NEW m \in {"HINT", "LOCK", "USER"}, NEW h \in Int
  PROVE  CheckRuns(remove_scn_timer(T, m, h)) /\ CheckRuns(start_scn_timer(T, m, h))
<1>1. T \in Timers /\ m \in Msg /\ "CHECK" \in Msg /\ m # "CHECK" /\ 0 \in Int
  BY DEF CheckRuns, Msg
<1>2. HasTimer(T, "CHECK", 0)
  BY DEF CheckRuns
<1>3. remove_scn_timer(T, m, h) \in Timers /\ HasTimer(remove_scn_timer(T, m, h), "CHECK", 0)
  BY <1>1, <1>2, RemoveTimer
<1>4. start_scn_timer(T, m, h) \in Timers /\ HasTimer(start_scn_timer(T, m, h), "CHECK", 0)
  BY <1>1, <1>2, StartTimer
<1> QED
  BY <1>3, <1>4 DEF CheckRuns

\* The same for a timer that is stopped, and the next that is started.
LEMMA CheckGoesOnTwice ==
  ASSUME NEW T, CheckRuns(T), NEW m \in {"HINT", "LOCK", "USER"}, NEW h \in Int, NEW k \in Int
  PROVE  CheckRuns(start_scn_timer(remove_scn_timer(T, m, h), m, k))
<1> DEFINE R == remove_scn_timer(T, m, h)
<1>1. CheckRuns(R)
  BY CheckGoesOn
<1> HIDE DEF R
<1>2. CheckRuns(start_scn_timer(R, m, k))
  BY <1>1, CheckGoesOn
<1> QED
  BY <1>2 DEF R

\* Nor does any step.
LEMMA NextChecks ==
  ASSUME TypeInv, CheckRuns(powerdTimer), [Next]_vars
  PROVE  CheckRuns(powerdTimer')
<1> DEFINE T == powerdTimer
           M == {"HINT", "LOCK", "USER"}
<1>1. T \in Timers /\ Hint \subseteq Int /\ "HINT" \in M /\ "LOCK" \in M /\ "USER" \in M
  BY LockTypes, HintNumbers
<1>2. \A m \in M, h, k \in Int : /\ CheckRuns(remove_scn_timer(T, m, h))
                                 /\ CheckRuns(start_scn_timer(remove_scn_timer(T, m, h), m, k))
  BY CheckGoesOn, CheckGoesOnTwice
<1> HIDE DEF M
<1>3. ASSUME \/ powerdTimer' = powerdTimer
             \/ \E m \in M, h, k \in Int :
                  \/ powerdTimer' = remove_scn_timer(powerdTimer, m, h)
                  \/ powerdTimer' = start_scn_timer(remove_scn_timer(powerdTimer, m, h), m, k)
      PROVE  CheckRuns(powerdTimer')
  BY <1>2, <1>3
<1>4. ASSUME NEW h \in Hint, NEW d, AospHint(h, d) \/ MtkHint(h, d) \/ AospHintOff(h)
      PROVE  CheckRuns(powerdTimer')
  BY <1>1, <1>3, <1>4 DEF AospHint, MtkHint, AospHintOff
<1>5. ASSUME NEW h \in Hint, MtkHintOff(h) PROVE CheckRuns(powerdTimer')
  <2> DEFINE T1 == remove_scn_timer(powerdTimer, "HINT", h)
             T2 == IF h \in Hold THEN start_scn_timer(T1, "HINT", h) ELSE T1
             e  == Ext[h]
  <2>1. CheckRuns(T2)
    <3>1. CheckRuns(T1) /\ CheckRuns(start_scn_timer(T1, "HINT", h))
      BY <1>1, <1>2
    <3> HIDE DEF T1
    <3> QED
      BY <3>1
  <2>2. e \in Int
    <3>1. e \in Hint \cup {0}
      BY PowerdAssumption
    <3>2. \A x \in Hint \cup {0} : x \in Int
      BY <1>1
    <3> QED
      BY <3>1, <3>2
  <2>3. powerdTimer' = T2 \/ powerdTimer' = start_scn_timer(remove_scn_timer(T2, "HINT", e), "HINT", e)
    BY <1>5 DEF MtkHintOff, restart_scn_timer
  <2> HIDE DEF T1, T2, e
  <2>4. CheckRuns(start_scn_timer(remove_scn_timer(T2, "HINT", e), "HINT", e))
    BY <2>1, <2>2, CheckGoesOnTwice
  <2> QED
    BY <2>1, <2>3, <2>4
<1>6. allocNewHandleNum \in Int /\ LockResults \subseteq Int
  <2>1. allocNewHandleNum \in Int /\ \A i \in Slot : slot[i].handle \in Int
    BY NewHandle, LockTypes DEF TypeInv
  <2> QED
    BY <2>1 DEF LockResults
<1>7. ASSUME NEW c \in CusHint, CustomerHintOff(c) \/ \E d \in Duration : CustomerHint(c, d)
      PROVE  CheckRuns(powerdTimer')
  <2>1. gtCusHintTbl[c] \in Int
    BY LockTypes
  <2> QED
    BY <1>1, <1>3, <1>6, <1>7, <2>1 DEF CustomerHintOff, CustomerHint
<1>8. ASSUME NEW p \in Pid, NEW h \in Handles(p),
             \/ \E d \in Duration, screen \in SCREEN_OFF : PerfLockAcq(p, h, d, screen)
             \/ PerfLockRel(p, h) \/ ScnUnreg(p, h) \/ ScnDisable(p, h)
             \/ \E screen \in SCREEN_OFF : ScnConfig(p, h, screen)
             \/ \E timeout \in BOOLEAN : ScnEnable(p, h, timeout)
      PROVE  CheckRuns(powerdTimer')
  <2>1. h \in Int
    BY LockTypes DEF Handles
  <2>2. \/ powerdTimer' = powerdTimer
        \/ \E m \in M, k, j \in Int :
             \/ powerdTimer' = remove_scn_timer(powerdTimer, m, k)
             \/ powerdTimer' = start_scn_timer(remove_scn_timer(powerdTimer, m, k), m, j)
    BY <1>1, <1>6, <1>8, <2>1 DEF PerfLockAcq, PerfLockRel, ScnUnreg, ScnDisable, ScnConfig, ScnEnable
  <2> QED
    BY <1>3, <2>2
<1>9. ASSUME NEW b \in BOOLEAN, NotifyResumed(b) PROVE CheckRuns(powerdTimer')
  BY <1>1, <1>3, <1>9 DEF NotifyResumed
<1>10. ASSUME NEW i \in TimerId, TimerFires(i) PROVE CheckRuns(powerdTimer')
  <2> DEFINE R == [powerdTimer EXCEPT ![i] = FreeTimer]
  <2>1. powerdTimer' = powerdTimer \/ (powerdTimer' = R /\ powerdTimer[i].msg # "CHECK")
    BY <1>10 DEF TimerFires, HintTimeout, LockTimeout, UserTimeout, CheckTimeout
  <2>2. powerdTimer[i].msg # "CHECK" => CheckRuns(R)
    <3>1. "CHECK" \in Msg /\ 0 \in Int
      BY DEF Msg
    <3> QED
      BY <1>1, <3>1, Fired DEF CheckRuns
  <2> QED
    BY <2>1, <2>2
<1>11. ASSUME NEW p \in Pid, NotifyDead(p) \/ ScnReg(p) \/ ProcessDies(p) PROVE CheckRuns(powerdTimer')
  BY <1>11 DEF NotifyDead, ScnReg, ProcessDies
<1>12. CASE DisableAll \/ RestoreAll \/ (\E b \in BOOLEAN : SetOnOff(b)) \/ UNCHANGED vars
  BY <1>12 DEF DisableAll, RestoreAll, SetOnOff, vars
<1> QED
  BY <1>4, <1>5, <1>7, <1>8, <1>9, <1>10, <1>11, <1>12
     DEF Next, HintRequest, ClientRequest, SystemRequest

\* The periodic check never ends: no request stops its timer or takes its place, however
\* full the timer table is, and when it fires it starts again (powerd_core_timer_handle).
THEOREM CheckNeverStops == Spec => []HasTimer(powerdTimer, "CHECK", 0)
<1>1. Init => CheckRuns(powerdTimer)
  <2>1. ASSUME Init PROVE CheckRuns(powerdTimer)
    <3>1. powerdTimer \in Timers
      BY <2>1, InitTypes DEF TypeInv, HintState
    <3>2. 1 \in TimerId
      BY PowerdAssumption DEF TimerId
    <3>3. powerdTimer[1] = [msg |-> "CHECK", handle |-> 0]
      BY <2>1, <3>2 DEF Init
    <3> QED
      BY <3>1, <3>2, <3>3 DEF CheckRuns, HasTimer
  <2> QED
    BY <2>1
<1>2. TypeInv /\ CheckRuns(powerdTimer) /\ [Next]_vars => CheckRuns(powerdTimer)'
  BY NextChecks
<1>3. CheckRuns(powerdTimer) => HasTimer(powerdTimer, "CHECK", 0)
  BY DEF CheckRuns
<1> QED
  BY <1>1, <1>2, <1>3, TypeAlways, PTL DEF Spec

\* What any step does to the holdings of a process that is gone: it stays gone, nothing
\* but a request served late adds to them, and the periodic check takes them all.
DeadOnlyLose ==
  \A p \in Pid : p \notin alive =>
    /\ p \notin alive'
    /\ served' = served => Holds(p)' \subseteq Holds(p)
    /\ (\E i \in TimerId : CheckTimeout(i)) => Holds(p)' = {}

\* A request is served: it is counted.
LEMMA RequestsCount ==
  ASSUME TypeInv, HintRequest \/ ClientRequest \/ SystemRequest
  PROVE  served' # served /\ UNCHANGED alive
<1>1. served \in Nat
  BY PowerdAssumption DEF TypeInv
<1>2. Serve => served' # served
  BY <1>1 DEF Serve
<1>3. CASE HintRequest
  BY <1>2, <1>3 DEF HintRequest, AospHint, MtkHint, AospHintOff, MtkHintOff, CustomerHint, CustomerHintOff,
                    ServeIfOn
<1>4. CASE ClientRequest
  BY <1>2, <1>4 DEF ClientRequest, NotifyDead, ScnReg, PerfLockAcq, PerfLockRel, ScnUnreg, ScnDisable,
                    ScnConfig, ScnEnable, ServeIfOn
<1>5. CASE SystemRequest
  BY <1>2, <1>5 DEF SystemRequest, DisableAll, RestoreAll, NotifyResumed, SetOnOff, ServeIfOn
<1> QED
  BY <1>3, <1>4, <1>5

\* Every step is such a step.
LEMMA NextLoses ==
  ASSUME TypeInv, [Next]_vars
  PROVE  DeadOnlyLose \/ UNCHANGED vars
<1>1. SlotsShrink => \A p \in Pid : Holds(p)' \subseteq Holds(p)
  BY DEF SlotsShrink, Shrinks, Holds
<1>2. ASSUME NEW i \in TimerId, CheckTimeout(i), NEW p \in Pid, p \notin alive PROVE Holds(p)' = {}
  <2>1. slot' = [j \in Slot |-> IF Orphan(slot[j]) THEN FreeSlot ELSE slot[j]]
    BY <1>2 DEF CheckTimeout, perfUserScnCheckAll
  <2>2. p # gMyPid
    BY PowerdAssumption
  <2>3. ASSUME NEW j \in Slot PROVE ~(slot'[j].type # "free" /\ slot'[j].pid = p)
    <3>1. CASE Orphan(slot[j])
      BY <2>1, <3>1 DEF FreeSlot
    <3>2. CASE ~Orphan(slot[j])
      BY <1>2, <2>1, <2>2, <3>2 DEF Orphan
    <3> QED
      BY <3>1, <3>2
  <2> QED
    BY <2>3 DEF Holds
<1>3. CASE HintRequest \/ ClientRequest \/ SystemRequest
  <2>1. served' # served /\ UNCHANGED alive
    BY <1>3, RequestsCount
  <2>2. ~\E i \in TimerId : CheckTimeout(i)
    BY <2>1 DEF CheckTimeout
  <2> QED
    BY <2>1, <2>2 DEF DeadOnlyLose
<1>4. ASSUME NEW i \in TimerId, TimerFires(i) PROVE DeadOnlyLose
  <2>1. SlotsShrink
    BY <1>4, TimeoutTypes
  <2>2. UNCHANGED alive
    BY <1>4 DEF TimerFires, HintTimeout, LockTimeout, UserTimeout, CheckTimeout
  <2> QED
    BY <1>1, <1>2, <2>1, <2>2 DEF DeadOnlyLose
<1>5. ASSUME NEW p \in Pid, ProcessDies(p) PROVE DeadOnlyLose
  <2>1. SlotsShrink
    BY <1>5, SystemTypes
  <2>2. alive' \subseteq alive
    BY <1>5 DEF ProcessDies
  <2> QED
    BY <1>1, <1>2, <2>1, <2>2 DEF DeadOnlyLose
<1> QED
  BY <1>3, <1>4, <1>5 DEF Next

\* The safety half of DeadLocksReleased, for any tables, clients and number of requests:
\* what a dead process holds only shrinks between the requests that are served late in its
\* name, and the periodic check, which always runs, takes everything.
THEOREM DeadAreCollected == Spec => [][DeadOnlyLose]_vars
<1>1. TypeInv /\ [Next]_vars => [DeadOnlyLose]_vars
  BY NextLoses
<1> QED
  BY <1>1, TypeAlways, PTL DEF Spec
=============================================================================
