SPECIFICATION Spec
CONSTANTS
  Hashes = {1}
  Scalars <- MCScalars
  Zero = 0
  Add <- MCAdd
  Sub <- MCSub
  Mul <- MCMul
  Points <- MCPoints
  PrimeOrder <- MCPrimeOrder
  Base = 2
  Plus <- MCPlus
  Times <- MCTimes
  Encodings <- MCEncodings
  CurveEncodings <- MCPoints
  Decode <- MCDecode
  HashToEc <- MCHashToEc
  HashToScalar <- MCHashToScalar
  Malformed = Malformed
  NoThread = NoThread
  Uninit = Uninit
  MaxStackRing = 2
  Threads = {t1}
  Requests <- NegativeIndex
INVARIANTS
  OutOfRangeThrows
