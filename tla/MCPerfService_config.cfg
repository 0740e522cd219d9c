SPECIFICATION Spec
CONSTANTS
  Scenario = {sports, s1, s2}
  SPORTS = sports
  Requests <- MoreRequests
  Configs <- MoreRequests
  sportsConfig <- MoreSports
  ConfigWhileOn = TRUE
  nClusterNum = 2
  cpuNum <- TwoCores
  freqMax <- TopFreq
  nGpuHighestFreqLevel = 2
  Knob = {"less", "more"}
  Less = {"less"}
  resetVal <- KnobReset
  minVal <- KnobMin
  maxVal <- KnobMax
  normalVal <- KnobNormal
  sportVal <- KnobSport
SYMMETRY Scenarios
INVARIANTS
  FloorsBelowCeilings
