SPECIFICATION PullSpec
CONSTANTS
  Ids = {t1, t2}
  Versions = {v1, v2}
  Size = 2
  Checkpoint = 2
  Streams = {k1, k2}
  Sharing = FALSE
  Hole = Hole
  None = None
SYMMETRY Symmetry
INVARIANTS
  TypeOK
  TargetIntact
  CheckpointDurable
  PulledWhole
PROPERTY CommittedGrows
