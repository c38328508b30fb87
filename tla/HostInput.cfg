SPECIFICATION FairSpec
CONSTANTS
  contract = contract
  other = other
  s1 = s1
  c0 = c0
  c1 = c1
  c2 = c2
  Addresses <- MCAddresses
  Slots <- MCSlots
  Nonces = {0, 1}
  Codes <- MCCodes
  Values = {0, 1, 2}
  EmptyCode = c0
  Branches = {0, 1}
  Fork = 1
  Tip <- MCTip
  AccountOf <- MCAccountOf
  StorageOf <- MCStorageOf
  BlockNumbers = {0, 1, 2, 4}
  Window = 2
  Width = 8
  MaxRuns = 2
  MaxReorgs = 2
  MaxAborts = 1
INVARIANTS TypeOK OnlyAuthenticInputIsExecuted RecordedInputIsEnough
PROPERTY SettledRunSucceeds
CHECK_DEADLOCK FALSE
