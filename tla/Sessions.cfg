\* Three runs and `nid gc`, killed once.
SPECIFICATION Spec
CONSTANTS
  Runs = {r1, r2, r3}
  Gcs = {g1}
  Sums = {0, 15}
  Warmup = 1
  Threshold = 3
  Retentions = {TRUE, FALSE}
  MaxAborts = 1
SYMMETRY Symmetry
INVARIANTS
  TypeOK
  OneOwner
  OutputsOwned
  RetentionNeverBlocked
