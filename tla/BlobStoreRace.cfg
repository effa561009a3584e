\* What the code allows: a put beside a release of the same content.
SPECIFICATION Spec
CONSTANTS
  Procs = {p1, p2}
  Shas = {s1}
  NoSha = NoSha
  Overlaps <- NoDiscipline
  MaxRefs = 2
  MaxAborts = 0
INVARIANT
  RefsCovered
