SPECIFICATION Spec
CONSTANTS
  Addr <- MCAddr
  Regions <- MCRegions
  Info = {"i", "j"}
  Slot = {"s"}
  Val = {"x"}
  Zero = Zero
  Code = {c, d}
  None = None
  Unknown = Unknown
  Parent <- MCParent
  Headers <- MCHeaders
  Items <- MCItems
  StorageTries <- MCStorageTries
  StateTries <- MCStateTries
  Bundles <- MCBundles
INVARIANTS
  TypeOK
  AcceptedReadsAreAuthentic
  AcceptedRootIsPostState
  CachedAccountsAreNotUpdated
CHECK_DEADLOCK FALSE
