SPECIFICATION Spec
CONSTANTS
  Uuid = {u1}
  MaxJobs = 2
  MaxPids = 2
  MaxCrashes = 1
  MaxFaults = 0
INVARIANT
  StoppedJobsStayStopped
