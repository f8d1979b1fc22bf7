\* Every string of the small curve's length as a point, and payments.
SPECIFICATION Spec
CONSTANTS
  q = 61
  A = 10
  YBits = 6
  Order = 7
  Bytes = 2
  GroupBits = 3
  WordBits = 8
  MantissaBits = 5
  FractionBits = 1
  MAX_VARINT_SIZE = 3
  cn_fast_hash <- MCHash
  PointArgs <- MCPointArgs
  ScalarArgs <- MCScalarArgs
  FewPoints <- MCFewPoints
  FewScalars <- MCFewScalars
  IndexArgs <- MCIndexArgs
  SecretKeys <- MCSecretKeys
  OutputIndices <- MCOutputIndices
  SuffixArgs <- MCSuffixArgs
  MaxOutputs = 2
INVARIANTS
  AnswersOnCurve
  AnswersExact
  MethodsAgree
  HashIntoSubgroup
  DerivationShared
  PaymentFound
