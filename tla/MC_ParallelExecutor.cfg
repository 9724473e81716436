\* both loops of special_messages.rs, each with a pool of two
CONSTANTS
  Level = 2
  NoDst = NoDst
  Loops = {"epoch", "dapp"}
  Outcomes = {"ok", "err"}
  Accounts <- MCAccounts
  InThread <- MCInThread
  EpochData <- MCEpochData
  MintedMap <- MCMintedMap
  CreditMap <- MCCreditMap
  ConfigAddr <- MCConfigAddr
SPECIFICATION Spec
INVARIANTS
  OneInFlightPerAccount
PROPERTIES
  FillSaturatesPool
  ImplementsSequentialExecution
\* the loop returns: once it is done or has failed and every execution has finished nothing moves
CHECK_DEADLOCK FALSE
