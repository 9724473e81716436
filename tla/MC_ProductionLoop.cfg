\* two starts, three fresh blocks and two acks: enough for a restart after
\* a stop that discards blocks, for a second start while a thread runs,
\* and for a builder panic before or after a stop
CONSTANTS
  Inputs <- MCInputs
  MaxStarts = 2
  MaxBlocks = 3
  SaveFreq = 2
  LoadBalancing <- PanicLoadBalancing
SPECIFICATION Spec
INVARIANTS
  ChainWhileNoPanic
  SavedWithinFrequency
PROPERTIES
  StopReturns
\* the node may stop calling; the threads stop once the block bound is hit
CHECK_DEADLOCK FALSE
