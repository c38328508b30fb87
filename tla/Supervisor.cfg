SPECIFICATION FairSpec
CONSTANTS
  Jobs = {"j1"}
  GPU_READY_MAX_ATTEMPTS = 2
  GPU_UNAVAILABLE_EXIT_CODE = 75
  MaxStacks = 3
  MaxContainers = 2
  MaxGpuLosses = 1
  MaxFaults = 2
INVARIANTS
  OnlyNewErrorsEndTheContainer
  OneScriptPerJob
PROPERTIES
  StaleGpuEndsTheContainer
  ServerComesBack
CHECK_DEADLOCK FALSE
