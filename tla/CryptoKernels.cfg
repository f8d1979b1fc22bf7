\* Every argument set of MCCryptoKernels, field computations of five steps,
\* messages of up to three blocks.
SPECIFICATION MCSpec
CONSTANTS
  N = 4
  W = 5
  C = 3
  Cut <- MCCut
  n = 4
  B = 3
  Fold <- MCFold
  ExtraBits = 2
  WordBits = 4
  Words = 4
  WordsOfL <- MCWordsOfL
  Bytes = 2
  GroupBits = 3
  IntegerBits = 8
  MantissaBits = 5
  FractionBits = 1
  MAX_VARINT_SIZE = 3
  MacBytes = 2
  NonceBytes = 2
  KeyBytes = 3
  ElementStrings <- MCElementStrings
  MaxSteps = 5
  ScalarStrings <- MCScalarStrings
  WideStrings <- MCWideStrings
  RecodedScalars <- MCRecodedScalars
  Numbers <- MCNumbers
  HexStrings <- MCHexStrings
  Buffers <- MCBuffers
  Boxes <- MCBoxes
  Lengths <- MCLengths
  LaneStates <- MCLaneStates
  BlockStates <- MCBlockStates
  Texts <- MCTexts
  Octet <- MCOctet
  XorByte <- MCXor
  Keystream <- MCKeystream
  Keys = {1, 2, 3}
  IVs = {1, 2}
  GoodKeys = {1, 2}
  GoodIVs = {1}
  Messages <- MCMessages
  MaxBlocks = 3
INVARIANTS
  FieldExact
  CanonicalBytes
  ScalarsCanonical
  RecodingExact
  ChainExponents
  VarintRoundTrip
  CodecsInvert
  SecretboxOpens
  KeccakIsStandard
  Sha1IsStandard
  ChaChaIsStandard
  TypeOK
  InStep
  StreamCorrect
  RoundTrip
