\* Two processes, two fingerprints, an imported version beside the learned one.
SPECIFICATION Spec
CONSTANTS
  Procs = {p1, p2}
  Fps = {f1, f2}
  Versions = {v1, v2}
  Learned = {v1}
  None = None
  Usages <- ApartAndFree
  MaxId = 2
  MaxRefs = 1
  MaxAborts = 1
SYMMETRY Symmetry
INVARIANTS
  AtMostOneActive
  HeldIdValid
  SessionsMatch
  DslCounted
  PendingOnlyAfterAbort
PROPERTY
  RowsKeepPromise
