\* the bounds of the passing run, and the builder may panic: a stop of the
\* dead thread fails, and a later start adds to the blocks it left behind
CONSTANTS
  Inputs <- MCInputs
  MaxStarts = 2
  MaxBlocks = 3
  SaveFreq = 2
  LoadBalancing <- PanicLoadBalancing
SPECIFICATION Spec
INVARIANTS
  ProducedBlocksFormChain
\* the node may stop calling; the threads stop once the block bound is hit
CHECK_DEADLOCK FALSE
