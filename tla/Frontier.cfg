SPECIFICATION Spec
CONSTANTS
  Keys <- MCKeys
  Parents <- MCParents
  Changes <- MCChanges
  Limits <- MCLimits
  Weight <- MCWeight
  ValueLength <- MCValueLength
  Absent = Absent
INVARIANTS
  CutKeepsRoot
  ChunksAreDisjoint
  ChunkwiseUpdateIsUpdate
  OnlyForkingKeysMissAChunk
CHECK_DEADLOCK FALSE
