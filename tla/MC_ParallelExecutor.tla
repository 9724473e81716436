------------------------- MODULE MC_ParallelExecutor -------------------------
(***************************************************************************)
(* Inputs for the two executor loops, with a pool of two.                  *)
(*                                                                         *)
(* Epoch: e2 goes to the same wallet a1 as e1 and waits behind it at the   *)
(* head of the queue; e5 goes to a3, outside the thread, and is dropped;   *)
(* e6 to a2 may finish before e3 and is drained only after it; e7 to a4    *)
(* waits for e3, e8 to a2 for e6.                                          *)
(*                                                                         *)
(* DApp: d1 minted nothing, d2 is unlimited, d3 has no credit entry: only  *)
(* d4, d5 and d6 get a config message, in any order.                      *)
(***************************************************************************)
EXTENDS ParallelExecutor

MCAccounts == {"a1", "a2", "a3", "a4"}
MCInThread == {"a1", "a2", "a4"}

MCEpochData == <<[epoch |-> "e1", address |-> "a1"],
                 [epoch |-> "e2", address |-> "a1"],
                 [epoch |-> "e3", address |-> "a4"],
                 [epoch |-> "e5", address |-> "a3"],
                 [epoch |-> "e6", address |-> "a2"],
                 [epoch |-> "e7", address |-> "a4"],
                 [epoch |-> "e8", address |-> "a2"]>>

MCMintedMap == [d \in {"d1", "d2", "d3", "d4", "d5", "d6"} |-> IF d = "d1" THEN 0 ELSE 7]
MCCreditMap == [d \in {"d1", "d2", "d4", "d5", "d6"} |-> d = "d2"]
MCConfigAddr == [d \in {"d1", "d2", "d3", "d4", "d5", "d6"} |->
                   CASE d = "d4" -> "a1" [] d = "d5" -> "a2" [] d = "d6" -> "a4"
                     [] OTHER -> "a3"]
=============================================================================
