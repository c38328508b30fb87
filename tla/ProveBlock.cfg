SPECIFICATION FairSpec
CONSTANTS
  Head = {199, 200}
  GPU_READY_MAX_ATTEMPTS = 2
  MaxFaults = 1
  MaxKills = 1
INVARIANTS
  TypeOK
PROPERTIES
  ReportsAreOfTheBlock
  SuccessStoresItsOwn
  ChosenBlocksAreSettled
