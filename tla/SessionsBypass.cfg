\* Two runs that each show a bypass signal of weight 0.9, warm-up of one run.
SPECIFICATION Spec
CONSTANTS
  Runs = {r1, r2, r3}
  Gcs = {g1}
  Sums = {9}
  Warmup = 1
  Threshold = 3
  Retentions = {FALSE}
  MaxAborts = 0
INVARIANT
  GamedQuarantined
