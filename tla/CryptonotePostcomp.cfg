\* The documented order of the four-argument method, on few points.
SPECIFICATION Spec
CONSTANTS
  q = 61
  A = 10
  YBits = 6
  Order = 7
  Bytes = 2
  GroupBits = 3
  WordBits = 8
  MantissaBits = 5
  FractionBits = 1
  MAX_VARINT_SIZE = 3
  cn_fast_hash <- MCHash
  PointArgs <- MCFewPoints
  ScalarArgs <- MCFewScalars
  FewPoints <- MCFewPoints
  FewScalars <- MCFewScalars
  IndexArgs <- MCIndexArgs
  SecretKeys <- MCSecretKeys
  OutputIndices <- MCOutputIndices
  SuffixArgs <- MCSuffixArgs
  MaxOutputs = 2
INVARIANT DocumentedOrder
