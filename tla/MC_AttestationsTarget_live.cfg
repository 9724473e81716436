\* the short tree: the service eventually decides every checkpointed block,
\* and the producer's next-block questions agree with the walk, while the
\* node stays up (restarts are in the fork run)
CONSTANTS
  Blocks <- ShortBlocks
  Genesis = "G"
  Parent <- ShortParent
  ThreadOf <- ShortThreadOf
  Target <- ShortTarget
  AttestationCounts <- MCAttestationCounts
  None = None
  Restarts = FALSE
SPECIFICATION Spec
INVARIANTS
  KnownDependantsAreCheckpointed
  SufficientAttestationsPass
PROPERTIES
  CheckpointDecides
