---------------------------- MODULE PerfCommands ----------------------------
(***************************************************************************)
(* How commands become the request of a scenario: the (resource, value)     *)
(* pairs of a perf lock (cmdSetting in perfservice.cpp, called by           *)
(* perfLockAcq for each pair) and the commands that configure a registered  *)
(* scenario (LegacyCmdSetting).                                             *)
(***************************************************************************)
EXTENDS PerfService, Sequences

CONSTANTS minVal, maxVal   \* the values tConTable and RscCfgTbl allow, per knob

\* loadConTable, loadRscTable: "initial setting should be an invalid value"
ASSUME PerfCommandsAssumption ==
  /\ minVal \in [Knob -> Int32] /\ maxVal \in [Knob -> Int32]
  /\ \A k \in Knob : resetVal[k] = IF k \in Less THEN maxVal[k] + 1 ELSE minVal[k] - 1

\* The total only counts minimums that the cluster can serve.
Counted(core_min, c) == IF core_min[c] \in 0 .. cpuNum[c] THEN core_min[c] ELSE 0

TotalOf(core_min) ==
  LET total[i \in 0 .. nClusterNum] ==   \* of the clusters below i
        IF i = 0 THEN 0 ELSE total[i - 1] + Counted(core_min, i - 1)
  IN total[nClusterNum]

Cores == TotalOf(cpuNum)   \* all there are

\* One pair: its resource and, where there are several, which one (at).
cmdSetting(r, cmd) ==
  LET at == cmd.at
      p  == cmd.value
      level == IF p \in 0 .. nGpuHighestFreqLevel THEN p ELSE nGpuHighestFreqLevel
      core_min == [r.core_min EXCEPT ![at] = Larger(0, Smaller(p, cpuNum[at]))]
  IN CASE cmd.res = "GPU_FREQ_MIN" -> [r EXCEPT !.gpu_freq = level]
       [] cmd.res = "GPU_FREQ_MAX" -> [r EXCEPT !.gpu_freq_max = level]
       [] cmd.res = "CPUCORE_MIN" /\ at \in Cluster ->
            [r EXCEPT !.core_min = core_min, !.core_total = TotalOf(core_min)]
       [] cmd.res = "CPUCORE_MAX" /\ at \in Cluster ->
            [r EXCEPT !.core_max[at] = IF p >= 0 THEN p ELSE cpuNum[at]]
       [] cmd.res = "CPUFREQ_MIN" /\ at \in Band ->
            [r EXCEPT !.freq_min[at] = Smaller(p, freqMax[at[1]])]
       [] cmd.res = "CPUFREQ_MAX" /\ at \in Band ->
            [r EXCEPT !.freq_max[at] = Smaller(p, freqMax[at[1]])]
       [] cmd.res = "CPUFREQ_PERF_MODE" /\ p = 1 ->
            [r EXCEPT !.core_min = cpuNum, !.core_total = @ + Cores,
                      !.freq_min = [b \in Band |-> IF b[2] = "soft" THEN freqMax[b[1]] ELSE @[b]]]
       [] cmd.res = "KNOB" /\ p \in minVal[at] .. maxVal[at] -> [r EXCEPT !.param[at] = p]
       [] cmd.res = "ONESHOT" -> [r EXCEPT !.oneshot = p]
       [] OTHER -> r

\* A command of perfUserRegScnConfig, which adds to what the scenario already
\* asks for: no hard frequency limits, no one-shot resources, and of the knobs
\* those of tConTable.
LegacyCmdSetting(r, cmd) ==
  IF \/ cmd.res = "ONESHOT"
     \/ cmd.res \in {"CPUFREQ_MIN", "CPUFREQ_MAX"} /\ cmd.at \in Band /\ cmd.at[2] = "hard"
    THEN r
    ELSE cmdSetting(r, cmd)

\* perfLockAcq: the pairs in order, on a scenario that was just reset.
Apply(list) ==
  LET after[i \in 0 .. Len(list)] ==
        IF i = 0 THEN ResetConfig ELSE cmdSetting(after[i - 1], list[i])
  IN after[Len(list)]

-----------------------------------------------------------------------------
(* What clients may send *)

\* An int, for a knob that exists, or a one-shot value in S.
IsCommand(cmd, S) ==
  /\ cmd.res # "ONESHOT" => cmd.value \in Int32
  /\ cmd.res = "ONESHOT" => cmd.value \in S
  /\ cmd.res = "KNOB" => cmd.at \in Knob

\* What perfLockAcq can be given: commands, few enough for the total to fit an int.
IsList(list, S) ==
  /\ Len(list) \in Nat /\ Len(list) * Cores <= INT_MAX
  /\ \A i \in 1 .. Len(list) : IsCommand(list[i], S)
=============================================================================
