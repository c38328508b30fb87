SPECIFICATION Spec
CONSTANTS
  Scenarios <- MCScenarios
  Deliveries <- MCDeliveries
  ValueLength <- MCValueLength
  Zero = Zero
INVARIANTS
  TouchedStateIsResolved
  UpdatesNeverFail
  UpdatedRootIsPostRoot
  AcceptedStateIsAuthentic
  ResolverRebuildsTheTrie
CHECK_DEADLOCK FALSE
