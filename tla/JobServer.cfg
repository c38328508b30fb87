SPECIFICATION FairSpec
CONSTANTS
  Uuid = {u1}
  MaxJobs = 2
  MaxPids = 2
  MaxCrashes = 1
  MaxFaults = 2
INVARIANTS
  TypeOK
  OneRunnerPerUuid
  WantedJobIsKept
  OneScriptPerDirectory
PROPERTIES
  StopTakesEffect
