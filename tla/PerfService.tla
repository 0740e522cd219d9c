----------------------------- MODULE PerfService -----------------------------
(***************************************************************************)
(* How libpowerhal arbitrates between scenarios (perfservice.cpp).  Every   *)
(* scenario -- a power hint, a perf lock, a white list entry -- carries a   *)
(* request; the settings in force are the strictest ones of the scenarios   *)
(* that are on.  The library does not recompute them from the table at      *)
(* every call: perfScnEnable merges one request into the current settings,  *)
(* and perfScnUpdate recomputes a setting only if the scenario it turns off *)
(* may have determined it.                                                  *)
(*                                                                          *)
(* All entry points hold sMutex, so one action is one such call.  Which     *)
(* client makes which call, when, is the business of module Powerd.         *)
(***************************************************************************)
EXTENDS Integers, FiniteSetsExt

CONSTANTS
  Scenario,              \* the entries of ptScnList
  SPORTS,                \* one of them: the hint of the sports mode
  Requests,              \* the requests clients make with lists of resources
  Configs,               \* those they make with commands of perfUserRegScnConfig
  sportsConfig,          \* what the hint table has for SPORTS
  ConfigWhileOn,         \* TRUE: a client may configure a scenario that is on
  nClusterNum,           \* CPU clusters
  cpuNum, freqMax,       \* cores and highest frequency of each cluster
  nGpuHighestFreqLevel,  \* GPU operating points are 0 (fastest) to this one
  Knob, Less,            \* single-valued settings; in Less, smaller is stricter
  resetVal,              \* the value that stands for "nobody asks", per knob
  normalVal, sportVal    \* default of each knob, by power mode

CORE_MAX   == 255
FREQ_MAX   == 16777215
PPM_IGNORE == -1
INT_MAX    == 2147483647
INT_MIN    == -2147483647 - 1
Int32      == INT_MIN .. INT_MAX   \* an int of the code
Reason     == {"SPORTS_BENCHMARK", "SPORTS_USER_NOTIFY"}

Cluster == 0 .. nClusterNum - 1
Band    == Cluster \X {"soft", "hard"}   \* frequency limits, and hard limits

Oneshot == {"none"} \cup {r.oneshot : r \in Requests}   \* values of one-shot resources

Config ==
  [core_min : [Cluster -> Int32], core_max : [Cluster -> Int32], core_total : Int32,
   freq_min : [Band -> Int32], freq_max : [Band -> Int32],
   gpu_freq : Int32, gpu_freq_max : Int32, param : [Knob -> Int32], oneshot : Oneshot]

\* What resetScenario writes: a request for nothing.
ResetConfig ==
  [core_min |-> [c \in Cluster |-> -1], core_max |-> [c \in Cluster |-> CORE_MAX],
   core_total |-> 0,
   freq_min |-> [b \in Band |-> -1], freq_max |-> [b \in Band |-> FREQ_MAX],
   gpu_freq |-> -1, gpu_freq_max |-> -1,
   param |-> [k \in Knob |-> resetVal[k]], oneshot |-> "none"]

\* What cmdSetting lets into a request.
Sane(r) ==
  /\ \A c \in Cluster : /\ r.core_min[c] \in -1 .. cpuNum[c] /\ r.core_min[c] <= r.core_total
                        /\ r.core_max[c] >= 0
  /\ r.core_total >= 0
  /\ \A b \in Band : /\ r.freq_min[b] <= freqMax[b[1]]
                     /\ r.freq_max[b] <= freqMax[b[1]] \/ r.freq_max[b] = FREQ_MAX
  /\ r.gpu_freq \in -1 .. nGpuHighestFreqLevel
  /\ r.gpu_freq_max \in -1 .. nGpuHighestFreqLevel
  /\ \A k \in Knob : IF k \in Less THEN r.param[k] <= resetVal[k] ELSE r.param[k] >= resetVal[k]

ASSUME PerfServiceAssumption ==
  /\ SPORTS \in Scenario /\ sportsConfig \in Requests
  /\ nClusterNum \in Nat \ {0}
  /\ cpuNum \in [Cluster -> Nat] /\ freqMax \in [Cluster -> 1 .. FREQ_MAX]
  /\ nGpuHighestFreqLevel \in 0 .. INT_MAX
  /\ Less \subseteq Knob
  /\ resetVal \in [Knob -> Int32] /\ normalVal \in [Knob -> Int] /\ sportVal \in [Knob -> Int]
  /\ ConfigWhileOn \in BOOLEAN

ASSUME RequestsAssumption ==
  /\ Requests \subseteq Config /\ Configs \subseteq Config
  /\ \A r \in Requests \cup Configs : Sane(r)

VARIABLES
  scn_state,               \* of each scenario: "ON", "OFF", "WAIT_RESTORE"
  cfg,                     \* of each scenario: its request
  lock_rsc_list,           \* of each scenario: the list it was last acquired with, known
                           \* by its request; with no list, the one of the empty list
  scn_cores_now, cpuMinNow, cpuMaxNow,
  freqMinNow, freqMaxNow,
  gpuNow, gpuMaxNow,       \* scn_gpu_freq_now, scn_gpu_freq_max_now
  curVal,                  \* of each knob
  entry,                   \* of each knob: the value written to its sysfs entry
  applied,                 \* of each scenario: the one-shot values set and not unset
  sports,                  \* who asks for the sports mode: nCurrBenchmarkMode, nUserNotifyBenchmark
  outdated,                \* history: a request in force changed, and the settings
                           \* were not computed anew since
  lost                     \* history: scenarios removed with a one-shot value set

cores == <<scn_cores_now, cpuMinNow, cpuMaxNow>>
freqs == <<freqMinNow, freqMaxNow>>
gpu   == <<gpuNow, gpuMaxNow>>
knobs == <<curVal, entry>>
vars  == <<scn_state, cfg, lock_rsc_list, cores, freqs, gpu, knobs, applied, sports, outdated, lost>>

Larger(a, b)  == IF a > b THEN a ELSE b
Smaller(a, b) == IF a < b THEN a ELSE b

-----------------------------------------------------------------------------
(* What the scenarios that are on ask for *)

On == {s \in Scenario : scn_state[s] = "ON"}

AskedTotal      == Max({0} \cup {cfg[s].core_total : s \in On})
AskedCoreMin(c) == Max({0} \cup {cfg[s].core_min[c] : s \in On})
AskedCoreMax(c) == Min({CORE_MAX} \cup {cfg[s].core_max[c] : s \in On})
AskedFreqMin(b) == Max({0} \cup {cfg[s].freq_min[b] : s \in On})
AskedFreqMax(b) == Min({FREQ_MAX} \cup {cfg[s].freq_max[b] : s \in On})
AskedGpu        == Min({nGpuHighestFreqLevel} \cup ({cfg[s].gpu_freq : s \in On} \ {-1}))
AskedGpuMax     == Max({0} \cup ({cfg[s].gpu_freq_max : s \in On} \ {-1}))
AskedKnob(k)    == LET S == {resetVal[k]} \cup {cfg[s].param[k] : s \in On}
                   IN IF k \in Less THEN Min(S) ELSE Max(S)

-----------------------------------------------------------------------------
(* CPU cores.  The minimum of the top cluster is served first; together the  *)
(* minimums get no more cores than the largest total one scenario asks for.  *)

CoreToSet(c, floor, left) ==
  IF floor[c] <= 0 \/ floor[c] > cpuNum[c] \/ left <= 0
    THEN PPM_IGNORE
    ELSE Smaller(floor[c], left)

ActualMin(total, floor) ==
  LET left[c \in 0 .. nClusterNum] ==   \* cores left for the clusters below c
        IF c = nClusterNum
          THEN total
          ELSE left[c + 1] - Larger(0, CoreToSet(c, floor, left[c + 1]))
  IN [c \in Cluster |-> CoreToSet(c, floor, left[c + 1])]

FineTuneNothing(total, floor, ceil) == ceil

\* "min priority is higher than max"
FineTune(total, floor, ceil) ==
  [c \in Cluster |-> Larger(ceil[c], ActualMin(total, floor)[c])]

\* "L and LL: only one cluster can set max cpu = 0"
KeepOneCluster(ceil) ==
  IF nClusterNum > 1 /\ ceil[0] = 0 /\ ceil[1] = 0
    THEN [ceil EXCEPT ![0] = PPM_IGNORE]
    ELSE ceil

EnableCores(r) ==
  /\ scn_cores_now' = Larger(scn_cores_now, r.core_total)
  /\ cpuMinNow' = [c \in Cluster |-> Larger(cpuMinNow[c], r.core_min[c])]
  /\ cpuMaxNow' = KeepOneCluster(FineTune(scn_cores_now', cpuMinNow',
                    [c \in Cluster |-> IF cpuMaxNow[c] = PPM_IGNORE
                                         THEN r.core_max[c]
                                         ELSE Smaller(cpuMaxNow[c], r.core_max[c])]))

UpdateCores(r, force) ==
  /\ scn_cores_now' = IF force \/ scn_cores_now <= r.core_total THEN AskedTotal' ELSE scn_cores_now
  /\ cpuMinNow' = [c \in Cluster |->
       IF force \/ cpuMinNow[c] <= r.core_min[c] THEN AskedCoreMin(c)' ELSE cpuMinNow[c]]
  /\ cpuMaxNow' = FineTune(scn_cores_now', cpuMinNow', [c \in Cluster |->
       IF force \/ cpuMaxNow[c] >= r.core_max[c] \/ cpuMaxNow[c] = cpuMinNow[c]
         THEN AskedCoreMax(c)'
         ELSE cpuMaxNow[c]])

-----------------------------------------------------------------------------
(* CPU frequency limits, soft and hard *)

EnableFreqs(r) ==
  /\ freqMinNow' = [b \in Band |-> Larger(freqMinNow[b], r.freq_min[b])]
  /\ freqMaxNow' = [b \in Band |->
       Larger(freqMinNow'[b], Smaller(freqMaxNow[b], r.freq_max[b]))]

UpdateFreqsStrict(r, force) ==
  /\ freqMinNow' = [b \in Band |->
       IF force \/ freqMinNow[b] < r.freq_min[b] THEN AskedFreqMin(b)' ELSE freqMinNow[b]]
  /\ freqMaxNow' = [b \in Band |->
       IF force \/ freqMaxNow[b] >= r.freq_max[b] \/ freqMaxNow[b] = freqMinNow[b]
         THEN Larger(freqMinNow'[b], AskedFreqMax(b)')
         ELSE freqMaxNow[b]]

UpdateFreqsNoAlign(r, force) ==
  /\ freqMinNow' = [b \in Band |->
       IF force \/ freqMinNow[b] <= r.freq_min[b] THEN AskedFreqMin(b)' ELSE freqMinNow[b]]
  /\ freqMaxNow' = [b \in Band |->
       IF force \/ freqMaxNow[b] >= r.freq_max[b]
         THEN Larger(freqMinNow'[b], AskedFreqMax(b)')
         ELSE freqMaxNow[b]]

\* A ceiling that equals the floor may hide somebody's lower ceiling.
UpdateFreqs(r, force) ==
  /\ freqMinNow' = [b \in Band |->
       IF force \/ freqMinNow[b] <= r.freq_min[b] THEN AskedFreqMin(b)' ELSE freqMinNow[b]]
  /\ freqMaxNow' = [b \in Band |->
       IF force \/ freqMaxNow[b] >= r.freq_max[b] \/ freqMaxNow[b] = freqMinNow[b]
         THEN Larger(freqMinNow'[b], AskedFreqMax(b)')
         ELSE freqMaxNow[b]]

-----------------------------------------------------------------------------
(* GPU.  Operating points count downwards: the floor is the smallest index   *)
(* asked for, and the ceiling's index must not exceed the floor's.           *)

EnableGpuUnguarded(r) ==
  /\ gpuNow' = Smaller(gpuNow, r.gpu_freq)
  /\ gpuMaxNow' = Smaller(gpuNow', Larger(gpuMaxNow, r.gpu_freq_max))

EnableGpu(r) ==
  IF r.gpu_freq = -1 /\ r.gpu_freq_max = -1
    THEN UNCHANGED gpu
    ELSE /\ gpuNow' = IF r.gpu_freq # -1 THEN Smaller(gpuNow, r.gpu_freq) ELSE gpuNow
         /\ gpuMaxNow' = Smaller(gpuNow', Larger(gpuMaxNow, r.gpu_freq_max))

UpdateGpuNoClamp(r, force) ==
  IF r.gpu_freq = -1 /\ r.gpu_freq_max = -1 /\ ~force
    THEN UNCHANGED gpu
    ELSE /\ gpuNow' = IF force \/ r.gpu_freq # -1 THEN AskedGpu' ELSE gpuNow
         /\ gpuMaxNow' = IF force \/ r.gpu_freq_max # -1
                           THEN Smaller(gpuNow', AskedGpuMax')
                           ELSE Smaller(gpuNow', gpuMaxNow)

UpdateGpu(r, force) ==
  IF r.gpu_freq = -1 /\ r.gpu_freq_max = -1 /\ ~force
    THEN UNCHANGED gpu
    ELSE /\ gpuNow' = IF force \/ r.gpu_freq # -1 THEN AskedGpu' ELSE gpuNow
         /\ gpuMaxNow' = IF force \/ r.gpu_freq_max # -1 \/ gpuMaxNow = gpuNow
                           THEN Smaller(gpuNow', AskedGpuMax')
                           ELSE Smaller(gpuNow', gpuMaxNow)

-----------------------------------------------------------------------------
(* Knobs: the entries of tConTable, and of RscCfgTbl with SMALLEST, BIGGEST  *)

Stricter(k, a, b) == IF k \in Less THEN a < b ELSE a > b

nCurrPowerMode == \E x \in Reason : sports[x]   \* TRUE: PERF_MODE_SPORTS

defaultVal == IF nCurrPowerMode THEN sportVal ELSE normalVal

\* When the last request goes, the entry gets its default back.
Written(k, v) == IF v = resetVal[k] THEN defaultVal[k] ELSE v

SwitchAlways == IF nCurrPowerMode' = nCurrPowerMode THEN entry ELSE defaultVal'

\* switchNormalAndSportMode, when the mode changes: the new defaults are written
\* where nobody asks.
Switched ==
  IF nCurrPowerMode' = nCurrPowerMode
    THEN entry
    ELSE [k \in Knob |-> IF curVal[k] = resetVal[k] THEN defaultVal'[k] ELSE entry[k]]

EnableKnobs(r) ==
  LET wins(k) == Stricter(k, r.param[k], curVal[k]) IN
  /\ curVal' = [k \in Knob |-> IF wins(k) THEN r.param[k] ELSE curVal[k]]
  /\ entry' = [k \in Knob |-> IF wins(k) THEN r.param[k] ELSE Switched[k]]

UpdateKnobs(r, force) ==
  /\ curVal' = [k \in Knob |->
       IF \/ force
          \/ Stricter(k, r.param[k], resetVal[k]) /\ ~Stricter(k, curVal[k], r.param[k])
         THEN AskedKnob(k)'
         ELSE curVal[k]]
  /\ entry' = [k \in Knob |->
       IF curVal'[k] = curVal[k] THEN Switched[k] ELSE Written(k, curVal[k])']

-----------------------------------------------------------------------------
(* One-shot resources: set and unset per scenario, without arbitration *)

Shot(v) == {v} \ {"none"}

EnableOneshot(s, r) == applied' = [applied EXCEPT ![s] = @ \cup Shot(r.oneshot)]

ForceOneshotKeepsOld(s, old, new) ==
  applied' = [applied EXCEPT ![s] = IF new = old THEN @ ELSE @ \cup Shot(new)]

\* Unset the value of the request being replaced, set the new one.
ForceOneshot(s, old, new) ==
  applied' = [applied EXCEPT ![s] = IF new = old THEN @ ELSE (@ \ Shot(old)) \cup Shot(new)]

DisableOneshot(s, r) == applied' = [applied EXCEPT ![s] = @ \ Shot(r.oneshot)]

-----------------------------------------------------------------------------
Init ==
  /\ scn_state = [s \in Scenario |-> "OFF"]
  /\ cfg = [s \in Scenario |-> IF s = SPORTS THEN sportsConfig ELSE ResetConfig]
  /\ lock_rsc_list = [s \in Scenario |-> ResetConfig]
  /\ scn_cores_now = 0
  /\ cpuMinNow = [c \in Cluster |-> 0]
  /\ cpuMaxNow = cpuNum
  /\ freqMinNow = [b \in Band |-> 0]
  /\ freqMaxNow = [b \in Band |-> freqMax[b[1]]]
  /\ gpuNow = nGpuHighestFreqLevel
  /\ gpuMaxNow = 0
  /\ curVal = resetVal
  /\ sports = [x \in Reason |-> FALSE]
  /\ entry = normalVal
  /\ applied = [s \in Scenario |-> {}]
  /\ outdated = FALSE
  /\ lost = {}

\* The rest of perfScnEnable once scenario s, asking for r, is marked ON.
Merge(s, r) ==
  /\ scn_state' = [scn_state EXCEPT ![s] = "ON"]
  /\ EnableCores(r) /\ EnableFreqs(r) /\ EnableGpu(r) /\ EnableKnobs(r)
  /\ EnableOneshot(s, r)
  /\ UNCHANGED <<outdated, lost>>

\* perfScnEnable of a scenario that is not on.
perfScnEnable(s) ==
  /\ scn_state[s] # "ON"
  /\ UNCHANGED <<cfg, lock_rsc_list, sports>>
  /\ Merge(s, cfg[s])

\* perfScnDisable: scenario s, asking for r, gets the state st, not ON.
Withdraw(s, r, st) ==
  /\ scn_state' = [scn_state EXCEPT ![s] = st]
  /\ UpdateCores(r, FALSE) /\ UpdateFreqs(r, FALSE) /\ UpdateGpu(r, FALSE) /\ UpdateKnobs(r, FALSE)
  /\ DisableOneshot(s, r)
  /\ UNCHANGED <<outdated, lost>>

perfScnDisable(s) ==
  /\ scn_state[s] # "OFF"
  /\ UNCHANGED <<cfg, lock_rsc_list, sports>>
  /\ Withdraw(s, cfg[s], "OFF")

\* perfUserScnDisableAll, for a scenario to be restored when the screen is on.
Suspend(s) ==
  /\ scn_state[s] = "ON"
  /\ UNCHANGED <<cfg, lock_rsc_list, sports>>
  /\ Withdraw(s, cfg[s], "WAIT_RESTORE")

\* perfLockAcq in a free slot: the request is written, then enabled.
Acquire(s, r) ==
  /\ scn_state[s] = "OFF"
  /\ cfg' = [cfg EXCEPT ![s] = r]
  /\ lock_rsc_list' = [lock_rsc_list EXCEPT ![s] = r]
  /\ UNCHANGED sports
  /\ Merge(s, r)

\* perfScnUpdate with force_update: everything is computed anew.
ForceUpdate(s) ==
  /\ UpdateCores(cfg'[s], TRUE) /\ UpdateFreqs(cfg'[s], TRUE)
  /\ UpdateGpu(cfg'[s], TRUE) /\ UpdateKnobs(cfg'[s], TRUE)
  /\ ForceOneshot(s, cfg[s].oneshot, cfg'[s].oneshot)
  /\ outdated' = FALSE

\* The request of s changes, the settings do not.
Quietly(s) ==
  /\ outdated' = (outdated \/ (scn_state[s] = "ON" /\ cfg'[s] # cfg[s]))
  /\ UNCHANGED <<cores, freqs, gpu, knobs, applied>>

\* perfLockAcq with a handle in use: the request is replaced.  Settings are
\* recomputed if the list is not the one of the last time, or if a resource
\* demands it, but not for a scenario that is off.
Reacquire(s, r) ==
  /\ cfg' = [cfg EXCEPT ![s] = r]
  /\ lock_rsc_list' = [lock_rsc_list EXCEPT ![s] = r]
  /\ UNCHANGED <<scn_state, sports, lost>>
  /\ \/ scn_state[s] # "OFF" /\ ForceUpdate(s)
     \/ (scn_state[s] = "OFF" \/ r = lock_rsc_list[s]) /\ Quietly(s)

\* The scenario is removed from the table (resetScenario of all).
Remove(s) ==
  /\ cfg' = [cfg EXCEPT ![s] = ResetConfig]
  /\ lock_rsc_list' = [lock_rsc_list EXCEPT ![s] = ResetConfig]
  /\ UNCHANGED sports

\* perfLockRel, and the death of the owner: disable, then resetScenario.
Release(s) ==
  /\ Remove(s)
  /\ IF scn_state[s] = "OFF"
       THEN UNCHANGED <<scn_state, cores, freqs, gpu, knobs, applied, outdated, lost>>
       ELSE Withdraw(s, cfg[s], "OFF")

\* perfUserUnregScn, and perfUserScnResetAll of a scenario that is not on: only
\* resetScenario, also of a scenario waiting to be restored.
perfUserUnregScn(s) ==
  /\ scn_state[s] # "ON"
  /\ Remove(s)
  /\ scn_state' = [scn_state EXCEPT ![s] = "OFF"]
  /\ lost' = IF applied[s] = {} THEN lost ELSE lost \cup {s}
  /\ UNCHANGED <<cores, freqs, gpu, knobs, applied, outdated>>

\* perfUserRegScnConfig, one or several times: only the request changes.
Configure(s, r) ==
  /\ ConfigWhileOn \/ scn_state[s] # "ON"
  /\ r.oneshot = cfg[s].oneshot
  /\ cfg' = [cfg EXCEPT ![s] = r]
  /\ UNCHANGED <<scn_state, lock_rsc_list, sports, lost>>
  /\ Quietly(s)

\* switchSportsMode, by the benchmark detection or by the user; perfBoostEnable
\* and perfBoostDisable of SPORTS (boost) switch the hint in any case.
switchSportsMode(reason, b, boost) ==
  /\ sports' = [sports EXCEPT ![reason] = b]
  /\ UNCHANGED <<cfg, lock_rsc_list>>
  /\ LET on  == IF boost THEN b ELSE nCurrPowerMode'
         now == scn_state[SPORTS]
     IN IF boost \/ nCurrPowerMode' # nCurrPowerMode
          THEN \/ on /\ now # "ON" /\ Merge(SPORTS, cfg[SPORTS])
               \/ ~on /\ now # "OFF" /\ Withdraw(SPORTS, cfg[SPORTS], "OFF")
               \/ /\ now = IF on THEN "ON" ELSE "OFF"
                  /\ entry' = Switched
                  /\ UNCHANGED <<scn_state, cores, freqs, gpu, curVal, applied, outdated, lost>>
          ELSE UNCHANGED <<scn_state, cores, freqs, gpu, knobs, applied, outdated, lost>>

User == Scenario \ {SPORTS}   \* slots for perf locks and registered scenarios

Next ==
  \/ \E s \in Scenario : perfScnEnable(s) \/ perfScnDisable(s) \/ Suspend(s)
  \/ \E s \in User : Release(s) \/ perfUserUnregScn(s)
  \/ \E s \in User, r \in Requests : Acquire(s, r) \/ Reacquire(s, r)
  \/ \E s \in User, r \in Configs : Configure(s, r)
  \/ \E b \in BOOLEAN, x \in Reason : switchSportsMode(x, b, FALSE)
  \/ \E b \in BOOLEAN : switchSportsMode("SPORTS_USER_NOTIFY", b, TRUE)

Spec == Init /\ [][Next]_vars

-----------------------------------------------------------------------------
(* Properties *)

\* Every variable keeps its type.
TypeOK ==
  /\ scn_state \in [Scenario -> {"ON", "OFF", "WAIT_RESTORE"}]
  /\ cfg \in [Scenario -> Config] /\ \A s \in Scenario : Sane(cfg[s])
  /\ scn_cores_now \in Nat
  /\ cpuMinNow \in [Cluster -> Nat]
  /\ cpuMaxNow \in [Cluster -> Nat \cup {PPM_IGNORE}]
  /\ freqMinNow \in [Band -> 0 .. FREQ_MAX]
  /\ freqMaxNow \in [Band -> 0 .. FREQ_MAX]
  /\ gpuNow \in 0 .. nGpuHighestFreqLevel
  /\ gpuMaxNow \in 0 .. nGpuHighestFreqLevel
  /\ curVal \in [Knob -> Int]
  /\ entry \in [Knob -> Int]
  /\ applied \in [Scenario -> SUBSET Oneshot]
  /\ sports \in [Reason -> BOOLEAN]
  /\ lock_rsc_list \in [Scenario -> Requests \cup {ResetConfig}]
  /\ outdated \in BOOLEAN /\ lost \subseteq Scenario

\* No boost outlives its scenario and none is lost: after any sequence of calls
\* the floors are the highest ones asked for by the scenarios that are on
\* (perfScnUpdate recomputes only what it believes may have changed), unless the
\* request of one of them changed without an update; the next update repairs that.
FloorsExact ==
  ~outdated =>
    /\ scn_cores_now = AskedTotal
    /\ \A c \in Cluster : cpuMinNow[c] = AskedCoreMin(c)
    /\ \A b \in Band : freqMinNow[b] = AskedFreqMin(b)

\* Likewise the frequency ceilings are the lowest ones asked for, raised to the
\* floor; a ceiling hidden by a floor comes back when the floor goes.  A ceiling
\* at or above the highest frequency is no limit (setClusterFreq).
CeilingsExact ==
  ~outdated => \A b \in Band :
    LET top == freqMax[b[1]]
    IN Smaller(freqMaxNow[b], top) = Larger(freqMinNow[b], Smaller(AskedFreqMax(b), top))

\* The same for the GPU, whose ceiling must not be slower than its floor.
GpuExact ==
  ~outdated => gpuNow = AskedGpu /\ gpuMaxNow = Smaller(gpuNow, AskedGpuMax)

\* Likewise every knob has the strictest value asked for; and its sysfs entry
\* always holds the knob's value, or the current mode's default when nobody asks
\* -- also when the mode changed while somebody asked (switchNormalAndSportMode).
KnobsExact ==
  \A k \in Knob : /\ ~outdated => curVal[k] = AskedKnob(k)
                  /\ entry[k] = Written(k, curVal[k])

\* A core limit is never below the minimum actually set for its cluster; and it is
\* never tighter than what a scenario that is on asks for, unless a request
\* changed without an update: no limit outlives the scenario that asked for it.
CoreLimitsJustified ==
  \A c \in Cluster :
    /\ cpuMaxNow[c] >= ActualMin(scn_cores_now, cpuMinNow)[c]
    /\ ~outdated /\ cpuMaxNow[c] # PPM_IGNORE => cpuMaxNow[c] >= Smaller(AskedCoreMax(c), cpuNum[c])

\* A scenario that is on has its one-shot value set, and no value it replaced; one
\* that is off has none set, however often its request was replaced and whenever
\* it was suspended -- but for those perfUserUnregScn removed with a value set.
OneshotBalanced ==
  \A s \in Scenario :
    /\ scn_state[s] = "ON" => Shot(cfg[s].oneshot) \subseteq applied[s]
    /\ s \notin lost =>
         applied[s] \subseteq IF scn_state[s] = "OFF" THEN {} ELSE Shot(cfg[s].oneshot)

\* Even when requests change under scenarios that are on, no floor is above its
\* ceiling ("if max < min => align max with min").
FloorsBelowCeilings ==
  /\ \A b \in Band : freqMinNow[b] <= freqMaxNow[b]
  /\ gpuMaxNow <= gpuNow

\* "L and LL: only one cluster can set max cpu = 0"
OneClusterOff == nClusterNum > 1 => ~(cpuMaxNow[0] = 0 /\ cpuMaxNow[1] = 0)
=============================================================================
