\* block keeper sets and epoch touches of one thread, the clock up to 8
CONSTANTS
  RetryDelta = 5
  MaxTime = 8
  CheckOnlyWhileProducing = FALSE
  Epochs <- MCEpochs
  Storage <- MCStorage
  InitialSet <- MCInitialSet
  Blocks <- MCBlocks
SPECIFICATION Spec
INVARIANTS
  AtMostTwoTouches
  TouchesAreSpaced
  KeeperSetsFollowChanges
