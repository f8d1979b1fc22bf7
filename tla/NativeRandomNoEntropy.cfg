SPECIFICATION Spec
CONSTANTS
  Threads = {t1}
  NoThread = NoThread
  Builds = {"fallback"}
  Entropies = {FALSE}
  Sizes <- MCSizes
  NaN = NaN
  IntMin <- MCIntMin
INVARIANTS
  NoUncheckedBytes
