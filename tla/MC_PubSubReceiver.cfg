\* the receiver loop of one connection: no transferred message is lost
\* while the loop runs, each one reaches the node, and a stop ends the loop
CONSTANTS
  m1 = m1
  m2 = m2
  m3 = m3
  NoMsg = NoMsg
  Msgs <- MCMsgs
  ResultCapacity = 2
  IncomingCap = 1
  Outcomes = {"ok", "err"}
  PeerMayClose = TRUE
  ConsumerMayDetach = TRUE
SPECIFICATION Spec
INVARIANTS
  TypeOK
  NoLossWhileRunning
PROPERTIES
  TransferredReachesNode
  StopEndsReceiver
\* the loop returns, and so does every task
CHECK_DEADLOCK FALSE
