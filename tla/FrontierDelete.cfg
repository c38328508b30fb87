SPECIFICATION Spec
CONSTANTS
  Keys <- MCKeys
  Parents <- MCParents
  Changes <- MCChanges
  Limits <- MCLimits
  Weight <- MCWeight
  ValueLength <- MCValueLength
  Absent = Absent
INVARIANTS
  FrontierMatchesFullTrie
CHECK_DEADLOCK FALSE
