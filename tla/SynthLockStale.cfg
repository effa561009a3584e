\* Two processes clean the lock that a crashed one left behind.
SPECIFICATION Spec
CONSTANTS
  Procs = {p1, p2, p3}
  NoProc = NoProc
  SlowHolders = FALSE
  SampleCap = 3
  ToLock = 1
  FastLock = 1
  MaxCrashes = 1
SYMMETRY Symmetry
INVARIANT
  MutualExclusion
