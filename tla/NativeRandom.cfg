SPECIFICATION Spec
CONSTANTS
  Threads = {t1, t2}
  NoThread = NoThread
  Builds = {"sodium", "fallback"}
  Entropies = {TRUE, FALSE}
  Sizes <- MCSizes
  NaN = NaN
  IntMin <- MCIntMin
INVARIANTS
  TypeOK
  OneStirrer
PROPERTIES
  ServedWhenSettled
  LockReleased
