SPECIFICATION Spec
CONSTANTS
  Threads = {t1, t2}
  BlockSize = 2
  DigestSize = 1
  ZeroByte <- MCZero
  XorPad <- MCXorPad
  Sha1 <- MCSha1
  Keys <- MCKeys
  Messages <- MCMessages
INVARIANTS
  AnswerIsHmac
  DataMatchesPads
SYMMETRY ThreadSymmetry
