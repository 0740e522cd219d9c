SPECIFICATION Spec
CONSTANTS
  Scenario = {sports, s1, s2}
  SPORTS = sports
  Requests <- AllRequests
  Configs <- AllConfigs
  sportsConfig <- SportsRequest
  ConfigWhileOn = FALSE
  nClusterNum = 2
  cpuNum <- TwoCores
  freqMax <- TopFreq
  nGpuHighestFreqLevel = 2
  Knob = {"less", "more"}
  Less = {"less"}
  resetVal <- KnobReset
  minVal <- KnobMin
  maxVal <- KnobMax
  normalVal <- KnobNormal
  sportVal <- KnobSport
SYMMETRY Scenarios
INVARIANTS
  TypeOK
  FloorsExact
  CeilingsExact
  CoreLimitsJustified
  GpuExact
  KnobsExact
  OneshotBalanced
