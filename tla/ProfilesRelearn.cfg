\* One user, one command, no backend: every synthesis gives version 1.0.0.
SPECIFICATION Spec
CONSTANTS
  Procs = {p1}
  Fps = {f1}
  Versions = {v1}
  Learned = {v1}
  None = None
  Usages <- ApartAndFree
  MaxId = 2
  MaxRefs = 3
  MaxAborts = 0
PROPERTY
  LearnGivesActive
