\* Every order of the scripts, then three threads in each process.
SPECIFICATION Spec
CONSTANTS
  t1 = t1
  t2 = t2
  t3 = t3
  Nobody = Nobody
  Threads <- MCThreads
  MaxRuns = 2
SYMMETRY Symmetry
INVARIANTS
  OneEntryPoint
  ReturnedMeansRegistered
