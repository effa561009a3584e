\* Three processes, crashes, leftover locks, the last samples.
SPECIFICATION FairSpec
CONSTANTS
  Procs = {p1, p2, p3}
  NoProc = NoProc
  SlowHolders = TRUE
  SampleCap = 3
  ToLock = 2
  FastLock = 1
  MaxCrashes = 2
INVARIANTS
  MutualExclusionUnlessStale
  DropsItsOwn
PROPERTIES
  EventuallySynthesized
  KeepsPromise
