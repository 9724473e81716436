\* the fork tree: marks and invalidations are justified
CONSTANTS
  Blocks <- ForkBlocks
  Genesis = "G"
  Parent <- ForkParent
  ThreadOf <- ForkThreadOf
  Target <- ForkTarget
  AttestationCounts <- MCAttestationCounts
  None = None
  Restarts = TRUE
SPECIFICATION Spec
INVARIANTS
  TypeOK
  MetIsJustified
  InvalidationIsJustified
