SPECIFICATION MCSpec
CONSTANTS
  Keys <- MCKeys
  Values <- MCValues
  ValueLength <- MCValueLength
  Absent = Absent
  Nibbles = {0, 1, 15}
  MaxLength = 4
INVARIANTS
  EncodingRoundTrips
  ComparisonInPlace
  CommonPrefixIsLongest
  TrieIsCanonical
  CacheCoherence
  CodeFollowsPositions
PROPERTIES
  ImplementsKvStore
