\* Two processes, one content, the three disciplines, two interrupted operations.
SPECIFICATION FairSpec
CONSTANTS
  Procs = {p1, p2}
  Shas = {s1}
  NoSha = NoSha
  Overlaps <- EveryDiscipline
  MaxRefs = 2
  MaxAborts = 2
INVARIANTS
  RefsCoveredApart
  OwnedReadable
  QuiescentExact
  SamplesKeepRow
PROPERTY
  ZeroRowsSwept
