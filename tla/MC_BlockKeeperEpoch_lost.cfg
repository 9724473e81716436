\* an epoch marked Expired although no touch for it reached a block, with epochs checked only while producing
CONSTANTS
  RetryDelta = 5
  MaxTime = 8
  CheckOnlyWhileProducing = TRUE
  Epochs <- MCEpochs
  Storage <- MCStorage
  InitialSet <- MCInitialSet
  Blocks <- MCBlocks
SPECIFICATION Spec
INVARIANTS
  ExpiredEpochWasTouched
