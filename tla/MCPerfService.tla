--------------------------- MODULE MCPerfService ---------------------------
(* Instances of PerfService for TLC: two clusters of 4 + 4 cores, whose        *)
(* frequencies are 1 to 3, a GPU with operating points 0 to 2, two knobs.      *)
EXTENDS PerfCommands, TLC

\* The slots of clients are alike.
Scenarios == Permutations(Scenario \ {SPORTS})

TwoCores == [c \in 0 .. 1 |-> 4]
TopFreq  == [c \in 0 .. 1 |-> 3]

KnobMin    == [k \in Knob |-> 0]
KnobMax    == [k \in Knob |-> 2]
KnobReset  == [k \in Knob |-> IF k = "less" THEN 3 ELSE -1]
KnobNormal == [k \in Knob |-> 1]
KnobSport  == [k \in Knob |-> 2]

Cmd(res, at, value) == [res |-> res, at |-> at, value |-> value]
Floor(b, v)   == Cmd("CPUFREQ_MIN", b, v)
Ceiling(b, v) == Cmd("CPUFREQ_MAX", b, v)
CoreMin(c, v) == Cmd("CPUCORE_MIN", c, v)
CoreMax(c, v) == Cmd("CPUCORE_MAX", c, v)
Little == <<0, "soft">>
Hard   == <<1, "hard">>

Setting(k, v) == Cmd("KNOB", k, v)
GpuMin(v) == Cmd("GPU_FREQ_MIN", 0, v)
GpuMax(v) == Cmd("GPU_FREQ_MAX", 0, v)

\* Each list asks for something of every kind, so that one run sees all the
\* cases of each: the kinds do not influence each other.
Lists == {
  <<Floor(Little, 1), Ceiling(Hard, 1), GpuMin(0), Setting("less", 1), CoreMin(0, 3), CoreMax(0, 0)>>,
  <<Floor(Little, 2), Floor(Hard, 9), GpuMin(1), GpuMax(1), Cmd("ONESHOT", 0, "a"),
    CoreMin(0, 1), CoreMin(1, 9)>>,
  <<Ceiling(Little, 1), Floor(Hard, 2), Setting("more", 2), Setting("less", 0), GpuMax(5),
    Cmd("ONESHOT", 0, "a"), CoreMax(1, 0), CoreMax(0, 2)>>}

\* The runs that stop at a violation can afford more.
MoreLists == {
  <<Floor(Little, 1), Ceiling(Hard, 1), GpuMin(0), Setting("less", 1), CoreMin(0, 3)>>,
  <<Floor(Little, 2), Floor(Hard, 9), GpuMin(1), GpuMax(1), Cmd("ONESHOT", 0, "a"),
    CoreMin(0, 1), CoreMin(1, 9)>>,
  <<Ceiling(Little, 1), GpuMax(5), Setting("more", 2), Setting("less", 7), CoreMax(0, 0)>>,
  <<Ceiling(Little, 2), Floor(Hard, 2), Setting("more", 0), Setting("less", 0),
    Cmd("ONESHOT", 0, "b"), CoreMax(1, 0), CoreMax(0, 2)>>}

PerfMode == Cmd("CPUFREQ_PERF_MODE", 0, 1)

\* They are what the theorems of PerfCommandsProofs speak of.
ASSUME ListsAssumption ==
  IsCommand(PerfMode, {}) /\ \A list \in Lists \cup MoreLists : IsList(list, {"a", "b"})

RequestSet == {Apply(list) : list \in Lists}
ConfigSet  == {LegacyCmdSetting(ResetConfig, PerfMode)}
MoreSet    == {Apply(list) : list \in MoreLists} \cup ConfigSet

\* Constants of their own: evaluated once.
AllRequests   == RequestSet
MoreRequests  == MoreSet
AllConfigs    == ConfigSet
SportsRequest == CHOOSE r \in AllRequests : r.gpu_freq # -1 /\ r.oneshot # "none"
MoreSports    == CHOOSE r \in MoreRequests : r.gpu_freq # -1 /\ r.oneshot # "none"
=============================================================================
