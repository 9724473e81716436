-------------------------- MODULE MC_PubSubReceiver --------------------------
(***************************************************************************)
(* Three streams, so that one result can wait for room while the other    *)
(* two fill a result channel of capacity 2, and a node channel of         *)
(* capacity 1 that the loop can find full while forwarding.               *)
(***************************************************************************)
EXTENDS PubSubReceiver

CONSTANTS m1, m2, m3

MCMsgs == {m1, m2, m3}

====
