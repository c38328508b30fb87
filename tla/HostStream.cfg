SPECIFICATION HSpec
CONSTANTS
  Addr <- MCAddr
  Regions <- MCRegions
  Info = {"i", "j"}
  Slot = {"s"}
  Val = {"x"}
  Zero = Zero
  Code = {c}
  None = None
  Unknown = Unknown
  Parent <- MCParent
  Headers = {}
  Items = {}
  StorageTries = {}
  StateTries = {}
  Bundles <- MCBundles
  MaxCodeReads = 1
  MaxChunks = 2
INVARIANTS
  StreamIsUsedUp
  HostStreamIsAccepted
PROPERTIES
  EveryBlockGetsAVerdict
CHECK_DEADLOCK FALSE
